------------------------- MODULE RiskNotifierProofs -------------------------
(***************************************************************************)
(* When the notifier speaks and when it may be silent, for any number of    *)
(* accounts, devices, subscriptions, instances and levels' forecasts.       *)
(***************************************************************************)
EXTENDS RiskNotifier, TLAPS

LEMMA Constants ==
  /\ DayLength \in Nat \ {0} /\ RenotifyAfter \in Nat \ {0}
  /\ Forecast \subseteq Int /\ None \notin Sub
BY DomainAssumption, BoundAssumption DEF Level

-----------------------------------------------------------------------------
(* A window of quiet hours, as its hours and as the code compares them.     *)
LEMMA Wrapped ==
  ASSUME NEW d \in Nat \ {0}, NEW a \in 0 .. 2 * d - 1
  PROVE  a % d = IF a < d THEN a ELSE a - d
<1>1. CASE a < d BY <1>1
<1>2. CASE a >= d
  <2>1. (a - d) % d = a % d BY <1>2
  <2>2. (a - d) % d = a - d BY <1>2
  <2>3. QED BY <1>2, <2>1, <2>2
<1>3. QED BY <1>1, <1>2

LEMMA QuietHoursAreContained ==
  ASSUME NEW w \in Window, NEW h \in QuietHours(w) PROVE Contains(w, h)
<1>1. w.start \in 0 .. DayLength - 1 /\ w.end \in 0 .. DayLength - 1 /\ w.start # w.end
  BY DEF Window, Hour
<1> DEFINE length == (w.end - w.start) % DayLength
<1>2. length = IF w.start < w.end THEN w.end - w.start ELSE w.end - w.start + DayLength
  <2>1. CASE w.start < w.end
    BY <2>1, <1>1, Constants, Wrapped
  <2>2. CASE w.start > w.end
    <3>1. w.end - w.start + DayLength \in 0 .. DayLength - 1 BY <2>2, <1>1, Constants
    <3>2. (w.end - w.start + DayLength) % DayLength = w.end - w.start + DayLength
      BY <3>1, Constants, Wrapped
    <3>3. length = (w.end - w.start + DayLength) % DayLength BY <1>1, Constants
    <3>4. QED BY <2>2, <3>2, <3>3, <1>1, Constants
  <2>3. QED BY <2>1, <2>2, <1>1, Constants
<1>3. PICK k \in 0 .. length - 1 : h = (w.start + k) % DayLength
  BY DEF QuietHours
<1>4. w.start + k \in 0 .. 2 * DayLength - 1 /\ k \in 0 .. DayLength - 1
  BY <1>1, <1>2, Constants
<1>5. h = IF w.start + k < DayLength THEN w.start + k ELSE w.start + k - DayLength
  <2>1. PICK a \in 0 .. 2 * DayLength - 1 : a = w.start + k BY <1>4
  <2>2. DayLength \in Nat \ {0} BY Constants
  <2>3. a % DayLength = IF a < DayLength THEN a ELSE a - DayLength BY <2>2, Wrapped
  <2>4. QED BY <1>1, <1>3, <1>4, <2>1, <2>2, <2>3
<1> HIDE DEF length
<1>6. QED BY <1>1, <1>2, <1>4, <1>5, Constants DEF Contains

-----------------------------------------------------------------------------
(* The invariant.  A row that a run has at hand may be out of date, but     *)
(* what it says was alerted to was: the strongest alert only grows, and no  *)
(* subscription comes back.                                                 *)
RowFields == {"setting", "last", "age"}
RunFields == {"pc", "now", "todo", "assessments", "sub", "setting", "level",
              "messages", "gone", "delivered"}

RowOK(row) ==
  /\ RowFields \subseteq DOMAIN row
  /\ row.setting \in Setting /\ row.last \in Int /\ row.age \in Nat

Told(s, level) == subs[s] # None => level <= strongest[s]

Backed(s, row) == row.age < RenotifyAfter => Told(s, row.last)

World ==
  /\ hour \in Hour /\ spent \subseteq Sub
  /\ DOMAIN subs = Sub /\ DOMAIN run = Instance
  /\ strongest \in [Sub -> Int]
  /\ \A s \in Sub : subs[s] # None => s \in spent /\ RowOK(subs[s]) /\ Backed(s, subs[s])

RunShape(r) == RunFields \subseteq DOMAIN r /\ DOMAIN r.todo = Sub /\ r.now \in Hour

TodoInv(r) == \A s \in Sub : r.todo[s] # None => s \in spent /\ RowOK(r.todo[s]) /\ Backed(s, r.todo[s])

HandInv(r) ==
  r.pc \notin {"idle", "next"} =>
    /\ r.sub \in spent /\ r.level \in Int
    /\ r.pc = "lower" \/ (r.pc = "tickets" /\ r.delivered) => Told(r.sub, r.level)

QuietInv(r) ==
  r.pc \in {"devices", "send"} => r.setting \in Setting /\ ~HeldBack(r.setting, r.level, r.now)

RunOK(r) == RunShape(r) /\ TodoInv(r) /\ HandInv(r) /\ QuietInv(r)

Inv == World /\ \A i \in Instance : RunOK(run[i])

LEMMA IdleRunFields ==
  /\ RunShape(IdleRun) /\ IdleRun.pc = "idle" /\ ~IdleRun.delivered
  /\ \A s \in Sub : IdleRun.todo[s] = None
<1>1. 0 \in Hour BY Constants DEF Hour
<1>2. QED BY <1>1 DEF IdleRun, RunShape, RunFields

LEMMA InitInv == Init => Inv
<1> SUFFICES ASSUME Init PROVE Inv OBVIOUS
<1>1. World BY Constants DEF Init, World, NeverNotified
<1>2. RunOK(IdleRun) BY IdleRunFields DEF RunOK, TodoInv, HandInv, QuietInv
<1>3. QED BY <1>1, <1>2 DEF Init, Inv

(* What the others see of a step: what was told is forgotten only with its  *)
(* subscription, which does not come back.                                  *)
Onwards ==
  /\ spent \subseteq spent'
  /\ \A s \in spent : subs'[s] # None => subs[s] # None /\ strongest[s] <= strongest'[s]

LEMMA RunStays ==
  ASSUME World, World', Onwards, NEW r, RunOK(r) PROVE RunOK(r)'
<1>1. \A s \in spent : \A n \in Int : Told(s, n) => Told(s, n)'
  BY DEF World, Onwards, Told
<1>2. TodoInv(r)' BY <1>1 DEF RunOK, TodoInv, Backed, RowOK, Onwards
<1>3. HandInv(r)' BY <1>1 DEF RunOK, HandInv, Onwards
<1>4. QED BY <1>2, <1>3 DEF RunOK, RunShape, QuietInv

(* A step of one run, or of none, leaves the others.                        *)
LEMMA OthersStay ==
  ASSUME Inv, World', Onwards, NEW i \in Instance,
         \A j \in Instance \ {i} : run'[j] = run[j], RunOK(run[i])'
  PROVE  Inv'
<1>1. ASSUME NEW j \in Instance, j # i PROVE RunOK(run[j])'
  <2>1. PICK r : r = run[j] OBVIOUS
  <2>2. RunOK(r) BY <2>1 DEF Inv
  <2>3. RunOK(r)' BY <2>2, RunStays DEF Inv
  <2>4. run'[j] = r BY <1>1, <2>1
  <2>5. QED BY <2>3, <2>4
<1>2. QED BY <1>1 DEF Inv

LEMMA RunsStay ==
  ASSUME Inv, World', Onwards, run' = run PROVE Inv'
<1>1. ASSUME NEW j \in Instance PROVE RunOK(run[j])'
  <2>1. PICK r : r = run[j] OBVIOUS
  <2>2. RunOK(r)' BY <2>1, RunStays DEF Inv
  <2>3. QED BY <2>1, <2>2
<1>2. QED BY <1>1 DEF Inv

-----------------------------------------------------------------------------
(* Time and users.                                                          *)
LEMMA TickKeeps ==
  ASSUME Inv, Tick PROVE Inv'
<1>1. World /\ UNCHANGED <<run, spent, strongest>> BY DEF Inv, Tick, notifier
<1>2. hour' \in Hour BY <1>1, Constants DEF Tick, World, Hour
<1>3. DOMAIN subs' = Sub
  BY DEF Tick
<1>4. ASSUME NEW s \in Sub, subs'[s] # None
      PROVE  subs[s] # None /\ s \in spent' /\ RowOK(subs'[s]) /\ Backed(s, subs[s])'
  <2>1. subs[s] # None /\ subs'[s] = [subs[s] EXCEPT !.age = Older(@)] BY <1>4 DEF Tick
  <2>2. s \in spent /\ RowOK(subs[s]) /\ Backed(s, subs[s]) BY <1>1, <2>1 DEF World
  <2>3. /\ RowOK(subs'[s]) /\ subs'[s].last = subs[s].last
        /\ subs'[s].age = Older(subs[s].age)
    BY <2>1, <2>2 DEF RowOK, RowFields, Older
  <2>4. subs'[s].age < RenotifyAfter => subs[s].age < RenotifyAfter
    BY <2>3 DEF Older
  <2>5. QED BY <1>1, <2>1, <2>2, <2>3, <2>4 DEF Backed, Told
<1>5. World' BY <1>1, <1>2, <1>3, <1>4 DEF World, RowOK
<1>6. Onwards BY <1>1, <1>4 DEF World, Onwards
<1>7. QED BY <1>1, <1>5, <1>6, RunsStay

LEMMA SubscriptionKeeps ==
  ASSUME Inv, NEW s \in Sub,
         CreateSubscription(s) \/ UpdateSubscription(s) \/ DeleteSubscription(s)
  PROVE  Inv'
<1>1. World /\ UNCHANGED <<run, hour>> BY DEF Inv, CreateSubscription, UpdateSubscription, DeleteSubscription, notifier
<1>2. CASE CreateSubscription(s)
  <2>1. s \notin spent /\ spent' = spent \cup {s} /\ UNCHANGED strongest BY <1>2 DEF CreateSubscription, history
  <2>2. PICK w \in Setting :
          subs' = [subs EXCEPT ![s] =
            [setting |-> w, last |-> NeverNotified, age |-> RenotifyAfter]]
    BY <1>2 DEF CreateSubscription
  <2>3. RowOK(subs'[s]) /\ subs'[s].age = RenotifyAfter
    BY <1>1, <2>2, Constants DEF World, RowOK, RowFields, NeverNotified
  <2>4. \A x \in Sub \ {s} : subs'[x] = subs[x] BY <1>1, <2>2 DEF World
  <2>5. World' BY <1>1, <2>1, <2>2, <2>3, <2>4, Constants DEF World, RowOK, Backed, Told
  <2>6. Onwards BY <1>1, <2>1, <2>4 DEF World, Onwards
  <2>7. QED BY <1>1, <2>5, <2>6, RunsStay
<1>3. CASE UpdateSubscription(s)
  <2>1. subs[s] # None /\ UNCHANGED <<strongest, spent>> BY <1>3 DEF UpdateSubscription
  <2>2. PICK w \in Setting, last \in {subs[s].last, NeverNotified}, age \in {subs[s].age, RenotifyAfter} :
          /\ subs' = [subs EXCEPT ![s] = [setting |-> w, last |-> last, age |-> age]]
          /\ (last = subs[s].last /\ age = subs[s].age) \/ age = RenotifyAfter
    BY <1>3 DEF UpdateSubscription
  <2>3. /\ RowFields \subseteq DOMAIN subs'[s] /\ subs'[s].setting = w
        /\ subs'[s].last = last /\ subs'[s].age = age
    BY <1>1, <2>2 DEF World, RowFields
  <2>4. s \in spent /\ RowOK(subs[s]) /\ Backed(s, subs[s]) BY <1>1, <2>1 DEF World
  <2>5. RowOK(subs'[s]) BY <2>2, <2>3, <2>4, Constants DEF RowOK, NeverNotified
  <2>6. Backed(s, subs[s])' BY <2>1, <2>2, <2>3, <2>4, Constants DEF Backed, Told
  <2>7. \A x \in Sub \ {s} : subs'[x] = subs[x] BY <1>1, <2>2 DEF World
  <2>8. World' BY <1>1, <2>1, <2>2, <2>4, <2>5, <2>6, <2>7 DEF World, RowOK, Backed, Told
  <2>9. Onwards BY <1>1, <2>1, <2>7 DEF World, Onwards
  <2>10. QED BY <1>1, <2>8, <2>9, RunsStay
<1>4. CASE DeleteSubscription(s)
  <2>1. /\ subs' = [subs EXCEPT ![s] = None] /\ UNCHANGED spent
        /\ strongest' = [x \in Sub |-> IF x \in {s} THEN NeverNotified ELSE strongest[x]]
    BY <1>4 DEF DeleteSubscription, Forget
  <2>2. World' BY <1>1, <2>1 DEF World, RowOK, Backed, Told, NeverNotified
  <2>3. Onwards BY <1>1, <2>1 DEF World, Onwards
  <2>4. QED BY <1>1, <2>2, <2>3, RunsStay
<1>5. QED BY <1>2, <1>3, <1>4

LEMMA DeleteAccountKeeps ==
  ASSUME Inv, NEW a \in Account, DeleteAccount(a) PROVE Inv'
<1>1. /\ World /\ UNCHANGED <<run, hour, spent>>
      /\ subs' = [s \in Sub |-> IF Owner[s] = a THEN None ELSE subs[s]]
      /\ strongest' = [s \in Sub |-> IF s \in {x \in Sub : Owner[x] = a} THEN NeverNotified
                                     ELSE strongest[s]]
  BY DEF Inv, DeleteAccount, Forget, notifier
<1>2. \A s \in Sub : subs'[s] # None => subs'[s] = subs[s] /\ strongest'[s] = strongest[s]
  BY <1>1
<1>3. World' BY <1>1, <1>2 DEF World, RowOK, Backed, Told, NeverNotified
<1>4. Onwards BY <1>1, <1>2 DEF World, Onwards
<1>5. QED BY <1>1, <1>3, <1>4, RunsStay

LEMMA TokenKeeps ==
  ASSUME Inv, NEW d \in Device, RegisterPushToken(d) \/ UnregisterPushToken(d) PROVE Inv'
<1>1. UNCHANGED <<hour, spent, subs, run, strongest>>
  BY DEF RegisterPushToken, UnregisterPushToken, notifier, history
<1>2. World' BY <1>1 DEF Inv, World, RowOK, Backed, Told
<1>3. Onwards BY <1>1 DEF Inv, World, Onwards
<1>4. QED BY <1>1, <1>2, <1>3, RunsStay

-----------------------------------------------------------------------------
(* Runs.                                                                    *)
LEMMA OnwardFields ==
  ASSUME NEW r, RunShape(r)
  PROVE  /\ RunShape(Onward(r)) /\ Onward(r).pc = "next" /\ ~Onward(r).delivered
         /\ \A s \in Sub : Onward(r).todo[s] \in {None, r.todo[s]}
<1> DEFINE a == [IdleRun EXCEPT !.pc = "next"]
           b == [a EXCEPT !.now = r.now]
           c == [b EXCEPT !.todo = r.todo]
           e == [c EXCEPT !.assessments = r.assessments]
<1>1. Onward(r) \in {a, e} BY DEF Onward
<1>2. /\ RunShape(a) /\ a.pc = "next" /\ ~a.delivered
      /\ \A s \in Sub : a.todo[s] = None
  BY IdleRunFields DEF RunShape, RunFields
<1> HIDE DEF a
<1>3. RunShape(b) /\ b.pc = "next" /\ ~b.delivered BY <1>2 DEF RunShape, RunFields
<1> HIDE DEF b
<1>4. RunShape(c) /\ c.pc = "next" /\ ~c.delivered /\ c.todo = r.todo BY <1>3 DEF RunShape, RunFields
<1> HIDE DEF c
<1>5. RunShape(e) /\ e.pc = "next" /\ ~e.delivered /\ e.todo = r.todo BY <1>4 DEF RunShape, RunFields
<1> HIDE DEF e
<1>6. QED BY <1>1, <1>2, <1>5

LEMMA OnwardOK ==
  ASSUME World, NEW r, RunShape(r), TodoInv(r) PROVE RunOK(Onward(r))
BY OnwardFields DEF RunOK, TodoInv, HandInv, QuietInv

(* A run that goes on to its next subscription, whatever else it wrote.     *)
LEMMA ContinueKeeps ==
  ASSUME Inv, World', Onwards, NEW i \in Instance, Continue(i) PROVE Inv'
<1>1. PICK r : r = run[i] OBVIOUS
<1>2. PICK q : q = Onward(r) OBVIOUS
<1>3. RunOK(q) BY <1>1, <1>2, OnwardOK DEF Inv, RunOK
<1>4. RunOK(q)' BY <1>3, RunStays DEF Inv
<1>5. run' = [run EXCEPT ![i] = q] BY <1>1, <1>2 DEF Continue
<1>6. run'[i] = q /\ \A j \in Instance \ {i} : run'[j] = run[j] BY <1>5 DEF Inv, World
<1>7. QED BY <1>4, <1>6, OthersStay

(* The database and what was told stay as they are.                         *)
LEMMA QuietStep ==
  ASSUME Inv, NEW i \in Instance, UNCHANGED <<hour, subs, spent, strongest>>, NEW q,
         run' = [run EXCEPT ![i] = q]
  PROVE  World' /\ Onwards /\ (RunOK(q) => Inv')
<1>1. World BY DEF Inv
<1>2. World' BY <1>1 DEF World, RowOK, Backed, Told
<1>3. Onwards BY <1>1 DEF World, Onwards
<1>4. ASSUME RunOK(q) PROVE Inv'
  <2>1. RunOK(q)' BY <1>1, <1>2, <1>3, <1>4, RunStays
  <2>2. run'[i] = q /\ \A j \in Instance \ {i} : run'[j] = run[j] BY <1>1 DEF World
  <2>3. QED BY <1>2, <1>3, <2>1, <2>2, OthersStay
<1>5. QED BY <1>2, <1>3, <1>4

LEMMA BeginFields ==
  ASSUME World, NEW i \in Instance, BeginRun(i)
  PROVE  \E q : /\ run' = [run EXCEPT ![i] = q]
               /\ RunShape(q) /\ q.pc = "next" /\ ~q.delivered
               /\ \A s \in Sub : q.todo[s] \in {None, subs[s]}
<1> DEFINE rows == [s \in Sub |-> IF Reachable(Owner[s]) = {} THEN None ELSE subs[s]]
           a == [IdleRun EXCEPT !.pc = "next"]
           b == [a EXCEPT !.now = hour]
           c == [b EXCEPT !.todo = rows]
<1>1. run' = [run EXCEPT ![i] = c] BY DEF BeginRun
<1>2. RunShape(a) /\ a.pc = "next" /\ ~a.delivered BY IdleRunFields DEF RunShape, RunFields
<1> HIDE DEF a
<1>3. RunShape(b) /\ b.pc = "next" /\ ~b.delivered BY <1>2 DEF World, RunShape, RunFields
<1> HIDE DEF b
<1>4. DOMAIN rows = Sub /\ \A s \in Sub : rows[s] \in {None, subs[s]} OBVIOUS
<1> HIDE DEF rows
<1>5. RunShape(c) /\ c.pc = "next" /\ ~c.delivered /\ c.todo = rows
  BY <1>3, <1>4 DEF RunShape, RunFields
<1> HIDE DEF c
<1>6. QED BY <1>1, <1>4, <1>5

LEMMA BeginKeeps ==
  ASSUME Inv, NEW i \in Instance, BeginRun(i) PROVE Inv'
<1>1. World /\ UNCHANGED <<hour, subs, spent, strongest>> BY DEF Inv, BeginRun, users, history
<1>2. PICK q : /\ run' = [run EXCEPT ![i] = q]
               /\ RunShape(q) /\ q.pc = "next"
               /\ \A s \in Sub : q.todo[s] \in {None, subs[s]}
  BY <1>1, BeginFields
<1>3. RunOK(q) BY <1>1, <1>2 DEF World, RunOK, TodoInv, HandInv, QuietInv
<1>4. QED BY <1>1, <1>2, <1>3, QuietStep

LEMMA SkipFields ==
  ASSUME World, NEW i \in Instance, RunShape(run[i]), NEW s \in Sub, SkipUnassessed(i, s)
  PROVE  \E q : /\ run' = [run EXCEPT ![i] = q]
               /\ RunShape(q) /\ q.pc = "next" /\ ~q.delivered
               /\ \A x \in Sub : q.todo[x] \in {None, run[i].todo[x]}
<1>1. PICK r : r = run[i] OBVIOUS
<1>2. PICK seen : seen = [r EXCEPT !.todo[s] = None] OBVIOUS
<1>3. RunShape(seen) /\ seen.todo = [r.todo EXCEPT ![s] = None]
  BY <1>1, <1>2 DEF RunShape, RunFields
<1>4. PICK q : q = Onward(seen) OBVIOUS
<1>5. run' = [run EXCEPT ![i] = q] BY <1>1, <1>2, <1>4 DEF SkipUnassessed
<1>6. \A x \in Sub : seen.todo[x] \in {None, r.todo[x]} BY <1>1, <1>3 DEF RunShape
<1>7. /\ RunShape(q) /\ q.pc = "next" /\ ~q.delivered
      /\ \A x \in Sub : q.todo[x] \in {None, seen.todo[x]}
  BY <1>3, <1>4, OnwardFields
<1>8. \A x \in Sub : q.todo[x] \in {None, run[i].todo[x]} BY <1>1, <1>6, <1>7
<1>9. QED BY <1>5, <1>7, <1>8

LEMMA SkipKeeps ==
  ASSUME Inv, NEW i \in Instance, NEW s \in Sub, SkipUnassessed(i, s) PROVE Inv'
<1>1. World /\ UNCHANGED <<hour, subs, spent, strongest>> BY DEF Inv, SkipUnassessed, users, history
<1>2. RunOK(run[i]) BY DEF Inv
<1>3. PICK q : /\ run' = [run EXCEPT ![i] = q]
               /\ RunShape(q) /\ q.pc = "next"
               /\ \A x \in Sub : q.todo[x] \in {None, run[i].todo[x]}
  BY <1>1, <1>2, SkipFields DEF RunOK
<1>4. RunOK(q) BY <1>2, <1>3 DEF RunOK, TodoInv, HandInv, QuietInv
<1>5. QED BY <1>1, <1>3, <1>4, QuietStep

(* Whoever is spared an alert for now had one of that level, and an alert   *)
(* starts outside of quiet hours.                                           *)
LEMMA DecisionFacts ==
  ASSUME NEW row, RowOK(row), NEW level \in Int, NEW now
  PROVE  /\ Decision(row, level, now) \in {"reset", "next", "devices", "lower"}
         /\ Decision(row, level, now) = "lower" => row.age < RenotifyAfter /\ level < row.last
         /\ Decision(row, level, now) = "devices" => ~HeldBack(row.setting, level, now)
<1>1. row.setting.min \in Int /\ row.last \in Int /\ row.age \in Nat
  BY SettingAssumption DEF RowOK, Level
<1>2. CASE level < row.setting.min BY <1>1, <1>2 DEF Decision
<1>3. CASE level >= row.setting.min /\ Due(row, level)
  BY <1>1, <1>3 DEF Decision
<1>4. CASE level >= row.setting.min /\ ~Due(row, level)
  <2>1. row.age < RenotifyAfter BY <1>1, <1>4, Constants DEF Due
  <2>2. QED BY <1>1, <1>4, <2>1 DEF Decision
<1>5. QED BY <1>1, <1>2, <1>3, <1>4

(* What a run has at hand once it has decided.                              *)
AtHand(q, row, s, level) ==
  /\ q.sub = s /\ q.setting = row.setting /\ q.level = level /\ q.todo[s] = None

LEMMA ConsiderFields ==
  ASSUME World, NEW i \in Instance, RunShape(run[i]), NEW s \in Sub, NEW level \in Forecast,
         Consider(i, s, level)
  PROVE  \A row, next :
           row = run[i].todo[s] /\ next = Decision(row, level, run[i].now) =>
             \E q : /\ run' = [run EXCEPT ![i] = q]
                    /\ RunShape(q) /\ q.pc = next /\ (q.delivered => run[i].delivered)
                    /\ \A x \in Sub : q.todo[x] \in {None, run[i].todo[x]}
                    /\ next # "next" => AtHand(q, row, s, level) /\ q.now = run[i].now
<1> TAKE row, next
<1> HAVE row = run[i].todo[s] /\ next = Decision(row, level, run[i].now)
<1>1. PICK r : r = run[i] OBVIOUS
<1>2. PICK before : before = [r EXCEPT !.todo[s] = None] OBVIOUS
<1>3. PICK seen : seen = [before EXCEPT !.assessments[row.setting.place] = level] OBVIOUS
<1>4. /\ RunShape(seen) /\ seen.todo = [r.todo EXCEPT ![s] = None]
      /\ seen.now = r.now /\ seen.delivered = r.delivered
  <2>1. /\ RunShape(before) /\ before.todo = [r.todo EXCEPT ![s] = None]
        /\ before.now = r.now /\ before.delivered = r.delivered
    BY <1>1, <1>2 DEF RunShape, RunFields
  <2>2. QED BY <2>1, <1>3 DEF RunShape, RunFields
<1>5. \A x \in Sub : seen.todo[x] \in {None, run[i].todo[x]} BY <1>1, <1>4 DEF RunShape
<1>6. run' = [run EXCEPT ![i] = IF next = "next" THEN Onward(seen) ELSE
                [seen EXCEPT !.pc = next, !.sub = s, !.setting = row.setting, !.level = level]]
  BY <1>1, <1>2, <1>3 DEF Consider
<1>7. CASE next = "next"
  <2>1. PICK q : q = Onward(seen) OBVIOUS
  <2>2. /\ RunShape(q) /\ q.pc = "next" /\ ~q.delivered
        /\ \A x \in Sub : q.todo[x] \in {None, seen.todo[x]}
    BY <1>4, <2>1, OnwardFields
  <2>3. \A x \in Sub : q.todo[x] \in {None, run[i].todo[x]} BY <1>5, <2>2
  <2>4. run' = [run EXCEPT ![i] = q] BY <1>6, <1>7, <2>1
  <2>5. QED BY <1>7, <2>2, <2>3, <2>4
<1>8. CASE next # "next"
  <2> DEFINE a == [seen EXCEPT !.pc = next]
             b == [a EXCEPT !.sub = s]
             c == [b EXCEPT !.setting = row.setting]
             e == [c EXCEPT !.level = level]
             Rest(q) == RunShape(q) /\ q.pc = next /\ q.todo = seen.todo /\ q.now = seen.now
                        /\ q.delivered = seen.delivered
  <2>1. run' = [run EXCEPT ![i] = e] BY <1>6, <1>8
  <2>2. Rest(a) BY <1>4 DEF RunShape, RunFields
  <2> HIDE DEF a
  <2>3. Rest(b) /\ b.sub = s BY <2>2 DEF RunShape, RunFields
  <2> HIDE DEF b
  <2>4. Rest(c) /\ c.sub = s /\ c.setting = row.setting BY <2>3 DEF RunShape, RunFields
  <2> HIDE DEF c
  <2>5. Rest(e) /\ e.sub = s /\ e.setting = row.setting /\ e.level = level
    BY <2>4 DEF RunShape, RunFields
  <2> HIDE DEF e
  <2>6. PICK q : q = e OBVIOUS
  <2>7. q.todo[s] = None BY <1>1, <1>4, <2>5, <2>6 DEF RunShape
  <2>8. AtHand(q, row, s, level) BY <2>5, <2>6, <2>7 DEF AtHand
  <2>9. QED BY <1>1, <1>4, <1>5, <2>1, <2>5, <2>6, <2>8
<1>9. QED BY <1>7, <1>8

LEMMA ConsiderKeeps ==
  ASSUME Inv, NEW i \in Instance, NEW s \in Sub, NEW level \in Forecast, Consider(i, s, level)
  PROVE  Inv'
<1>1. World /\ UNCHANGED <<hour, subs, spent, strongest>> BY DEF Inv, Consider, users
<1>2. RunOK(run[i]) /\ RunShape(run[i]) /\ level \in Int BY Constants DEF Inv, RunOK
<1>3. PICK row : row = run[i].todo[s] OBVIOUS
<1>4. row # None /\ s \in spent /\ RowOK(row) /\ Backed(s, row)
  BY <1>2, <1>3 DEF Consider, Pending, RunOK, TodoInv
<1>5. PICK next : next = Decision(row, level, run[i].now) OBVIOUS
<1>6. PICK q : /\ run' = [run EXCEPT ![i] = q]
               /\ RunShape(q) /\ q.pc = next
               /\ \A x \in Sub : q.todo[x] \in {None, run[i].todo[x]}
               /\ next # "next" => AtHand(q, row, s, level) /\ q.now = run[i].now
  BY <1>1, <1>2, <1>3, <1>5, ConsiderFields
<1>7. TodoInv(q) BY <1>2, <1>6 DEF RunOK, TodoInv
<1>8. /\ next \in {"reset", "next", "devices", "lower"}
      /\ next = "lower" => row.age < RenotifyAfter /\ level < row.last
      /\ next = "devices" => ~HeldBack(row.setting, level, run[i].now)
  BY <1>2, <1>4, <1>5, DecisionFacts
<1>9. next = "lower" => Told(s, level)
  BY <1>1, <1>2, <1>4, <1>8 DEF Backed, Told, World, RowOK
<1>10. HandInv(q) BY <1>2, <1>4, <1>6, <1>8, <1>9 DEF HandInv, AtHand
<1>11. QuietInv(q) BY <1>4, <1>6, <1>8 DEF QuietInv, RowOK, AtHand
<1>12. QED BY <1>1, <1>6, <1>7, <1>10, <1>11, QuietStep DEF RunOK

(* What a run writes to the row was told.                                   *)
LEMMA WriteKeeps ==
  ASSUME Inv, NEW s \in spent, NEW last \in Int, NEW age \in Nat,
         age < RenotifyAfter => Told(s, last),
         Write(s, last, age), UNCHANGED <<hour, spent, strongest>>, DOMAIN run' = Instance
  PROVE  World' /\ Onwards
<1>1. World /\ s \in Sub BY DEF Inv, World
<1>2. CASE subs[s] = None
  <2>1. DOMAIN subs' = Sub /\ \A x \in Sub : subs'[x] = subs[x] BY <1>1, <1>2 DEF Write, World
  <2>2. QED BY <1>1, <2>1 DEF World, Onwards, RowOK, Backed, Told
<1>3. CASE subs[s] # None
  <2>1. PICK row : row = [subs[s] EXCEPT !.last = last] OBVIOUS
  <2>2. subs' = [subs EXCEPT ![s] = [row EXCEPT !.age = age]] BY <1>3, <2>1 DEF Write
  <2>3. RowOK(subs[s]) BY <1>1, <1>3 DEF World
  <2>4. RowFields \subseteq DOMAIN row /\ row.setting = subs[s].setting /\ row.last = last
    BY <2>1, <2>3 DEF RowOK, RowFields
  <2>5. /\ RowFields \subseteq DOMAIN subs'[s] /\ subs'[s].setting = subs[s].setting
        /\ subs'[s].last = last /\ subs'[s].age = age
    BY <1>1, <2>2, <2>4 DEF World, RowFields
  <2>6. RowOK(subs'[s]) BY <2>3, <2>5 DEF RowOK
  <2>7. Backed(s, subs[s])' BY <1>3, <2>5 DEF Backed, Told
  <2>8. \A x \in Sub \ {s} : subs'[x] = subs[x] BY <1>1, <2>2 DEF World
  <2>9. DOMAIN subs' = Sub BY <1>1, <2>2 DEF World
  <2>10. World' BY <1>1, <2>6, <2>7, <2>8, <2>9 DEF World, RowOK, Backed, Told
  <2>11. Onwards BY <1>1, <1>3, <2>8 DEF World, Onwards
  <2>12. QED BY <2>10, <2>11
<1>4. QED BY <1>2, <1>3

LEMMA LowerKeeps ==
  ASSUME Inv, NEW i \in Instance, LowerLevel(i) \/ ResetLevel(i) PROVE Inv'
<1>1. World /\ UNCHANGED <<hour, spent, strongest>> /\ Continue(i) /\ run[i].pc \in {"lower", "reset"}
  BY DEF Inv, LowerLevel, ResetLevel, history
<1>2. PICK r : r = run[i] OBVIOUS
<1>3. RunOK(r) BY <1>2 DEF Inv
<1>4. r.sub \in spent /\ r.level \in Int /\ (r.pc = "lower" => Told(r.sub, r.level))
  BY <1>1, <1>2, <1>3 DEF RunOK, HandInv
<1>5. DOMAIN run' = Instance BY <1>1 DEF Continue, World
<1>6. World' /\ Onwards
  <2>1. CASE LowerLevel(i)
    <3>1. AgeOf(r.sub) \in Nat
      <4>1. r.sub \in Sub BY <1>1, <1>4 DEF World
      <4>2. QED BY <1>1, <4>1, Constants DEF AgeOf, World, RowOK
    <3>2. Write(r.sub, r.level, AgeOf(r.sub)) BY <1>2, <2>1 DEF LowerLevel
    <3>3. Told(r.sub, r.level) BY <1>2, <1>4, <2>1 DEF LowerLevel
    <3>4. PICK age \in Nat : age = AgeOf(r.sub) BY <3>1
    <3>5. QED BY <1>1, <1>4, <1>5, <3>2, <3>3, <3>4, WriteKeeps
  <2>2. CASE ResetLevel(i)
    <3>1. Write(r.sub, NeverNotified, RenotifyAfter) BY <1>2, <2>2 DEF ResetLevel
    <3>2. NeverNotified \in Int /\ RenotifyAfter \in Nat /\ ~(RenotifyAfter < RenotifyAfter)
      BY Constants DEF NeverNotified
    <3>3. QED BY <1>1, <1>4, <1>5, <3>1, <3>2, WriteKeeps
  <2>3. QED BY <2>1, <2>2
<1>7. QED BY <1>1, <1>6, ContinueKeeps

(* A run that stays at its subscription.                                    *)
Stays(q, r) ==
  /\ RunShape(q) /\ q.todo = r.todo /\ q.now = r.now
  /\ q.sub = r.sub /\ q.setting = r.setting /\ q.level = r.level

LEMMA ReadFields ==
  ASSUME World, NEW i \in Instance, RunShape(run[i]), ReadDevices(i), ~Continue(i)
  PROVE  \E q : /\ run' = [run EXCEPT ![i] = q]
               /\ Stays(q, run[i]) /\ q.pc = "send" /\ q.delivered = run[i].delivered
<1>1. PICK r : r = run[i] OBVIOUS
<1>2. PICK to : run' = [run EXCEPT ![i].pc = "send", ![i].messages = to]
  BY DEF ReadDevices
<1>3. PICK a : a = [r EXCEPT !.pc = "send"] OBVIOUS
<1>4. PICK q : q = [a EXCEPT !.messages = to] OBVIOUS
<1>5. run' = [run EXCEPT ![i] = q] BY <1>1, <1>2, <1>3, <1>4 DEF World
<1>6. Stays(a, r) /\ a.pc = "send" /\ a.delivered = r.delivered
  BY <1>1, <1>3 DEF Stays, RunShape, RunFields
<1>7. Stays(q, r) /\ q.pc = "send" /\ q.delivered = r.delivered
  BY <1>4, <1>6 DEF Stays, RunShape, RunFields
<1>8. QED BY <1>1, <1>5, <1>7

LEMMA ReadKeeps ==
  ASSUME Inv, NEW i \in Instance, ReadDevices(i) PROVE Inv'
<1>1. World /\ UNCHANGED <<hour, subs, spent, strongest>> /\ run[i].pc = "devices"
  BY DEF Inv, ReadDevices, users, history
<1>2. CASE Continue(i)
  <2>1. DOMAIN run' = Instance BY <1>1, <1>2 DEF Continue, World
  <2>2. World' /\ Onwards BY <1>1, <2>1 DEF World, Onwards, RowOK, Backed, Told
  <2>3. QED BY <1>2, <2>2, ContinueKeeps
<1>3. CASE ~Continue(i)
  <2>1. PICK r : r = run[i] OBVIOUS
  <2>2. RunOK(r) BY <2>1 DEF Inv
  <2>3. PICK q : run' = [run EXCEPT ![i] = q] /\ Stays(q, r) /\ q.pc = "send"
    BY <1>1, <1>3, <2>1, <2>2, ReadFields DEF RunOK
  <2>4. RunOK(q) BY <1>1, <2>1, <2>2, <2>3 DEF RunOK, Stays, TodoInv, HandInv, QuietInv
  <2>5. QED BY <1>1, <2>3, <2>4, QuietStep
<1>4. QED BY <1>2, <1>3

(* A message that reaches a device is what the strongest alert counts.      *)
LEMMA ReachFacts ==
  ASSUME Inv, NEW s \in spent, NEW level \in Int, NEW i \in Instance,
         run[i].sub = s, run[i].level = level,
         Reaches(i), UNCHANGED <<hour, subs, spent>>, DOMAIN run' = Instance
  PROVE  World' /\ Onwards /\ Told(s, level)'
<1>1. World /\ s \in Sub BY DEF Inv, World
<1>2. CASE subs[s] = None
  <2>1. UNCHANGED strongest BY <1>2 DEF Reaches, history
  <2>2. QED BY <1>1, <1>2, <2>1 DEF World, Onwards, RowOK, Backed, Told
<1>3. CASE subs[s] # None
  <2>1. strongest' = [strongest EXCEPT ![s] = IF @ < level THEN level ELSE @] BY <1>3 DEF Reaches
  <2>2. strongest' \in [Sub -> Int] /\ \A x \in Sub : strongest[x] <= strongest'[x]
    BY <1>1, <2>1 DEF World
  <2>3. level <= strongest'[s] BY <1>1, <2>1 DEF World
  <2>4. Onwards BY <1>1, <2>2 DEF World, Onwards
  <2>5. ASSUME NEW x \in Sub, subs'[x] # None
        PROVE  x \in spent' /\ RowOK(subs'[x]) /\ Backed(x, subs[x])'
    <3>1. x \in spent /\ RowOK(subs[x]) /\ Backed(x, subs[x]) BY <1>1, <2>5 DEF World
    <3>2. subs[x].last <= strongest[x] => subs[x].last <= strongest'[x]
      BY <1>1, <2>2, <3>1 DEF World, RowOK
    <3>3. QED BY <3>1, <3>2 DEF Backed, Told
  <2>6. World' BY <1>1, <2>2, <2>5 DEF World, RowOK
  <2>7. QED BY <2>3, <2>4, <2>6 DEF Told
<1>4. QED BY <1>2, <1>3

LEMMA SendFields ==
  ASSUME World, NEW i \in Instance, RunShape(run[i]), Send(i)
  PROVE  \E q, ok : /\ run' = [run EXCEPT ![i] = q]
                   /\ Stays(q, run[i]) /\ q.pc = "tickets" /\ q.delivered = (ok # {})
                   /\ IF ok # {} THEN Reaches(i) ELSE UNCHANGED history
<1>1. PICK r : r = run[i] OBVIOUS
<1>2. PICK ok, gone :
        /\ run' = [run EXCEPT ![i].pc = "tickets", ![i].messages = {},
                             ![i].gone = gone, ![i].delivered = Delivered(ok)]
        /\ IF ok # {} THEN Reaches(i) ELSE UNCHANGED history
  BY DEF Send
<1>3. PICK a : a = [r EXCEPT !.pc = "tickets"] OBVIOUS
<1>4. PICK b : b = [a EXCEPT !.messages = {}] OBVIOUS
<1>5. PICK c : c = [b EXCEPT !.gone = gone] OBVIOUS
<1>6. PICK q : q = [c EXCEPT !.delivered = Delivered(ok)] OBVIOUS
<1>7. run' = [run EXCEPT ![i] = q] BY <1>1, <1>2, <1>3, <1>4, <1>5, <1>6 DEF World
<1>8. Stays(a, r) /\ a.pc = "tickets" BY <1>1, <1>3 DEF Stays, RunShape, RunFields
<1>9. Stays(b, r) /\ b.pc = "tickets" BY <1>4, <1>8 DEF Stays, RunShape, RunFields
<1>10. Stays(c, r) /\ c.pc = "tickets" BY <1>5, <1>9 DEF Stays, RunShape, RunFields
<1>11. Stays(q, r) /\ q.pc = "tickets" /\ q.delivered = (ok # {})
  BY <1>6, <1>10 DEF Stays, RunShape, RunFields, Delivered
<1>12. QED BY <1>1, <1>2, <1>7, <1>11

LEMMA SendKeeps ==
  ASSUME Inv, NEW i \in Instance, Send(i) PROVE Inv'
<1>1. World /\ UNCHANGED <<hour, subs, spent>> /\ run[i].pc = "send" BY DEF Inv, Send, users
<1>2. PICK r : r = run[i] OBVIOUS
<1>3. RunOK(r) BY <1>2 DEF Inv
<1>4. PICK q, ok : /\ run' = [run EXCEPT ![i] = q]
                   /\ Stays(q, r) /\ q.pc = "tickets" /\ q.delivered = (ok # {})
                   /\ IF ok # {} THEN Reaches(i) ELSE UNCHANGED history
  BY <1>1, <1>2, <1>3, SendFields DEF RunOK
<1>5. DOMAIN run' = Instance /\ run'[i] = q /\ \A j \in Instance \ {i} : run'[j] = run[j]
  BY <1>1, <1>4 DEF World
<1>6. r.sub \in spent /\ r.level \in Int BY <1>1, <1>2, <1>3 DEF RunOK, HandInv
<1>7. World' /\ Onwards /\ (ok # {} => Told(r.sub, r.level)')
  <2>1. CASE ok # {}
    <3>1. Reaches(i) BY <1>4, <2>1
    <3>2. QED BY <1>1, <1>2, <1>5, <1>6, <3>1, ReachFacts
  <2>2. CASE ok = {}
    <3>1. UNCHANGED strongest BY <1>4, <2>2 DEF history
    <3>2. QED BY <1>1, <1>5, <2>2, <3>1 DEF World, Onwards, RowOK, Backed, Told
  <2>3. QED BY <2>1, <2>2
<1>8. RunOK(r)' BY <1>1, <1>3, <1>7, RunStays
<1>9. RunOK(q)'
  BY <1>1, <1>4, <1>6, <1>7, <1>8 DEF RunOK, Stays, TodoInv, HandInv, QuietInv
<1>10. QED BY <1>5, <1>7, <1>9, OthersStay

LEMMA FailKeeps ==
  ASSUME Inv, NEW i \in Instance, SendFails(i) \/ StatementFails(i) PROVE Inv'
<1>1. World /\ UNCHANGED <<hour, subs, spent>> /\ Continue(i)
  BY DEF Inv, SendFails, StatementFails, users
<1>2. DOMAIN run' = Instance BY <1>1 DEF Continue, World
<1>3. World' /\ Onwards
  <2>1. CASE UNCHANGED history
    <3>1. UNCHANGED strongest BY <2>1 DEF history
    <3>2. QED BY <1>1, <1>2, <3>1 DEF World, Onwards, RowOK, Backed, Told
  <2>2. CASE ~UNCHANGED history
    <3>1. run[i].pc = "send" /\ Reaches(i)
      BY <2>2 DEF SendFails, StatementFails
    <3>2. RunOK(run[i]) BY DEF Inv
    <3>3. run[i].sub \in spent /\ run[i].level \in Int BY <3>1, <3>2 DEF RunOK, HandInv
    <3>4. PICK s \in spent, level \in Int : run[i].sub = s /\ run[i].level = level BY <3>3
    <3>5. QED BY <1>1, <1>2, <3>1, <3>4, ReachFacts
  <2>3. QED BY <2>1, <2>2
<1>4. QED BY <1>1, <1>3, ContinueKeeps

LEMMA ClearFields ==
  ASSUME World, NEW i \in Instance, RunShape(run[i]), NEW d \in Device, ClearToken(i, d)
  PROVE  \E q : /\ run' = [run EXCEPT ![i] = q]
               /\ Stays(q, run[i]) /\ q.pc = run[i].pc /\ q.delivered = run[i].delivered
<1>1. PICK r : r = run[i] OBVIOUS
<1>2. PICK q : q = [r EXCEPT !.gone = @ \ {d}] OBVIOUS
<1>3. run' = [run EXCEPT ![i] = q] BY <1>1, <1>2 DEF ClearToken, World
<1>4. Stays(q, r) /\ q.pc = r.pc /\ q.delivered = r.delivered
  BY <1>1, <1>2 DEF Stays, RunShape, RunFields
<1>5. QED BY <1>1, <1>3, <1>4

LEMMA ClearKeeps ==
  ASSUME Inv, NEW i \in Instance, NEW d \in Device, ClearToken(i, d) PROVE Inv'
<1>1. World /\ UNCHANGED <<hour, subs, spent, strongest>> BY DEF Inv, ClearToken, history
<1>2. PICK r : r = run[i] OBVIOUS
<1>3. RunOK(r) BY <1>2 DEF Inv
<1>4. PICK q : /\ run' = [run EXCEPT ![i] = q]
               /\ Stays(q, r) /\ q.pc = r.pc /\ q.delivered = r.delivered
  BY <1>1, <1>2, <1>3, ClearFields DEF RunOK
<1>5. RunOK(q) BY <1>3, <1>4 DEF RunOK, Stays, TodoInv, HandInv, QuietInv
<1>6. QED BY <1>1, <1>4, <1>5, QuietStep

LEMMA RecordKeeps ==
  ASSUME Inv, NEW i \in Instance, RecordNotified(i) PROVE Inv'
<1>1. World /\ UNCHANGED <<hour, spent, strongest>> /\ Continue(i) /\ run[i].pc = "tickets"
  BY DEF Inv, RecordNotified, history
<1>2. PICK r : r = run[i] OBVIOUS
<1>3. RunOK(r) BY <1>2 DEF Inv
<1>4. DOMAIN run' = Instance BY <1>1 DEF Continue, World
<1>5. World' /\ Onwards
  <2>1. CASE r.delivered
    <3>1. r.sub \in spent /\ r.level \in Int /\ Told(r.sub, r.level)
      BY <1>1, <1>2, <1>3, <2>1 DEF RunOK, HandInv
    <3>2. Write(r.sub, r.level, 0) BY <1>2, <2>1 DEF RecordNotified
    <3>3. QED BY <1>1, <1>4, <3>1, <3>2, WriteKeeps
  <2>2. CASE ~r.delivered
    <3>1. UNCHANGED subs BY <1>2, <2>2 DEF RecordNotified
    <3>2. QED BY <1>1, <1>4, <3>1 DEF World, Onwards, RowOK, Backed, Told
  <2>3. QED BY <2>1, <2>2
<1>6. QED BY <1>1, <1>5, ContinueKeeps

LEMMA EndKeeps ==
  ASSUME Inv, NEW i \in Instance, FinishRun(i) \/ Crash(i) \/ LoseSession(i) PROVE Inv'
<1>1. World /\ UNCHANGED <<hour, subs, spent, strongest>>
  BY DEF Inv, FinishRun, Crash, LoseSession, users, history
<1>2. CASE FinishRun(i) \/ Crash(i)
  <2>1. run' = [run EXCEPT ![i] = IdleRun] BY <1>2 DEF FinishRun, Crash
  <2>2. PICK q : q = IdleRun OBVIOUS
  <2>3. RunOK(q) BY <2>2, IdleRunFields DEF RunOK, TodoInv, HandInv, QuietInv
  <2>4. QED BY <1>1, <2>1, <2>2, <2>3, QuietStep
<1>3. CASE LoseSession(i)
  <2>1. UNCHANGED run BY <1>3 DEF LoseSession
  <2>2. World' /\ Onwards BY <1>1, <2>1 DEF World, Onwards, RowOK, Backed, Told
  <2>3. QED BY <2>1, <2>2, RunsStay
<1>4. QED BY <1>2, <1>3

LEMMA NextInv == Inv /\ [Next]_vars => Inv'
<1> SUFFICES ASSUME Inv, [Next]_vars PROVE Inv' OBVIOUS
<1>1. CASE UNCHANGED vars
  <2>1. UNCHANGED <<hour, subs, spent, strongest, run>> BY <1>1 DEF vars, users, notifier, history
  <2>2. World' /\ Onwards BY <2>1 DEF Inv, World, Onwards, RowOK, Backed, Told
  <2>3. QED BY <2>1, <2>2, RunsStay
<1>2. CASE Tick BY <1>2, TickKeeps
<1>3. CASE User
  BY <1>3, SubscriptionKeeps, TokenKeeps, DeleteAccountKeeps DEF User
<1>4. ASSUME NEW i \in Instance, RunStep(i) PROVE Inv'
  BY <1>4, SkipKeeps, ConsiderKeeps, LowerKeeps, ReadKeeps, SendKeeps, FailKeeps, ClearKeeps,
     RecordKeeps, EndKeeps DEF RunStep
<1>5. ASSUME NEW i \in Instance,
             BeginRun(i) \/ StatementFails(i) \/ Crash(i) \/ LoseSession(i)
      PROVE  Inv'
  BY <1>5, BeginKeeps, FailKeeps, EndKeeps
<1>6. QED BY <1>1, <1>2, <1>3, <1>4, <1>5 DEF Next

(* The invariant of the notifier, from which both theorems follow: what     *)
(* rows, snapshots and runs say was alerted to was, and whatever run is     *)
(* about to send decided so outside of quiet hours (notifier.go, decide).   *)
THEOREM NotifierInvariant == Spec => []Inv
<1>1. Init => Inv BY InitInv
<1>2. Inv /\ [Next]_vars => Inv' BY NextInv
<1>3. QED BY <1>1, <1>2, PTL DEF Spec

(* Silence is earned: no level keeps a subscriber from an alert that did    *)
(* not reach one of his devices, however runs, users, failures and crashes  *)
(* interleave (notifier.go, notify, which records only what was delivered). *)
THEOREM SilenceAlwaysEarned == Spec => []SilenceEarned
<1>1. Inv => SilenceEarned BY DEF Inv, World, SilenceEarned, Backed, Told
<1>2. QED BY <1>1, NotifierInvariant, PTL

(* No alert is under way in the quiet hours of an unchanged subscription,   *)
(* for a day of any length and windows on either side of midnight           *)
(* (quiethours.go, Contains).                                               *)
THEOREM QuietHoursAlwaysKept == Spec => []QuietHoursKept
<1>1. Inv => QuietHoursKept
  <2> SUFFICES ASSUME Inv, NEW i \in Instance, run[i].pc \in {"devices", "send"},
                      run[i].now = hour, run[i].setting.quiet # None,
                      hour \in QuietHours(run[i].setting.quiet)
               PROVE  run[i].level = Emergency /\ run[i].setting.emergencies
    BY DEF QuietHoursKept
  <2>1. RunOK(run[i]) BY DEF Inv
  <2>2. run[i].setting \in Setting /\ ~HeldBack(run[i].setting, run[i].level, hour)
    BY <2>1 DEF RunOK, QuietInv
  <2>3. run[i].setting.quiet \in Window BY <2>2, SettingAssumption
  <2>4. PICK w \in Window : w = run[i].setting.quiet BY <2>3
  <2>5. PICK h \in QuietHours(w) : h = hour BY <2>4
  <2>6. Contains(run[i].setting.quiet, hour) BY <2>4, <2>5, QuietHoursAreContained
  <2>7. QED BY <2>2, <2>6 DEF HeldBack
<1>2. QED BY <1>1, NotifierInvariant, PTL

-----------------------------------------------------------------------------
(* Each alert once.  A fresh alert is one that may not be repeated yet; as   *)
(* long as nothing failed there is one run, and its snapshot knows of every *)
(* fresh alert of a level that its rows ask for, or the run is about to     *)
(* record it.                                                               *)
Fresh(s) == told[s].age < RenotifyAfter

Known(s, row) ==
  Fresh(s) /\ told[s].level >= row.setting.min
    => row.last >= told[s].level /\ row.age <= told[s].age

Same(s, row) == Fresh(s) => subs[s].setting.min = row.setting.min

Snapshot(r) == \A s \in Sub : r.todo[s] # None => Known(s, r.todo[s]) /\ Same(s, r.todo[s])

InHand(r) ==
  /\ r.pc # "tickets" => ~r.delivered
  /\ r.pc \notin {"idle", "next"} => r.todo[r.sub] = None
  /\ Fresh(r.sub) =>
       /\ r.pc \in {"lower", "reset"} \/ (r.pc = "tickets" /\ r.delivered) =>
            told[r.sub].level <= r.level
       /\ r.pc = "reset" => r.level < subs[r.sub].setting.min
       /\ r.pc \in {"devices", "send"} => told[r.sub].level < r.level

Unrecorded(s) ==
  \E i \in Instance : run[i].pc = "tickets" /\ run[i].delivered /\ run[i].sub = s

HistoryTypes == told \in [Sub -> [level : Int, age : Nat]] /\ faults \in Nat

RowsInv == \A s \in Sub : subs[s] # None => Known(s, subs[s]) \/ Unrecorded(s)

AloneInv ==
  \A i \in Instance : run[i].pc # "idle" =>
    lockHolder = i /\ Snapshot(run[i]) /\ InHand(run[i])

HistoryInv == HistoryTypes /\ \A s \in Sub : Fresh(s) => s \in spent

OnceInv == HistoryInv /\ (faults = 0 => RowsInv /\ AloneInv)

LEMMA OnceInit == Init => OnceInv
<1> SUFFICES ASSUME Init PROVE OnceInv OBVIOUS
<1>1. \A s \in Sub : told[s] = NoAlert /\ subs[s] = None BY DEF Init
<1>2. NoAlert \in [level : Int, age : Nat] /\ ~(NoAlert.age < RenotifyAfter)
  BY Constants DEF NoAlert, NeverNotified
<1>3. HistoryTypes BY <1>2 DEF Init, HistoryTypes
<1>4. \A s \in Sub : ~Fresh(s) BY <1>1, <1>2 DEF Fresh
<1>5. AloneInv BY IdleRunFields DEF Init, AloneInv
<1>6. QED BY <1>1, <1>3, <1>4, <1>5 DEF OnceInv, HistoryInv, RowsInv

(* A step that makes no alert fresh or stronger, and asks no row for        *)
(* another level.                                                           *)
Calm ==
  \A s \in Sub : Fresh(s)' =>
    /\ Fresh(s) /\ told'[s].level <= told[s].level /\ told'[s].age >= told[s].age
    /\ subs'[s].setting.min = subs[s].setting.min

LEMMA MinIsInt ==
  ASSUME NEW row, RowOK(row) PROVE row.setting.min \in Int /\ row.last \in Int /\ row.age \in Nat
BY SettingAssumption DEF RowOK, Level

LEMMA KnownStays ==
  ASSUME HistoryTypes, HistoryTypes', Calm, NEW s \in Sub, NEW row, RowOK(row), Known(s, row)
  PROVE  Known(s, row)'
<1>1. row.setting.min \in Int /\ row.last \in Int /\ row.age \in Nat BY MinIsInt
<1>2. /\ told[s].age \in Nat /\ told'[s].age \in Nat
      /\ told[s].level \in Int /\ told'[s].level \in Int
  BY DEF HistoryTypes
<1>3. QED BY <1>1, <1>2 DEF Known, Calm

LEMMA HeldStays ==
  ASSUME World, HistoryTypes, HistoryTypes', Calm, NEW r, RunOK(r), Snapshot(r)
  PROVE  Snapshot(r)' /\ (InHand(r) => InHand(r)')
<1>1. ASSUME NEW s \in Sub, r.todo[s] # None
      PROVE  Known(s, r.todo[s])' /\ Same(s, r.todo[s])'
  <2>1. PICK row : row = r.todo[s] OBVIOUS
  <2>2. Known(s, row) /\ Same(s, row) /\ RowOK(row)
    BY <1>1, <2>1 DEF Snapshot, RunOK, TodoInv
  <2>3. Known(s, row)' BY <2>2, KnownStays
  <2>4. Same(s, row)' BY <2>2 DEF Same, Calm
  <2>5. QED BY <2>1, <2>3, <2>4
<1>2. ASSUME InHand(r) PROVE InHand(r)'
  <2>1. CASE r.pc \in {"idle", "next"} BY <1>2, <2>1 DEF InHand
  <2>2. CASE r.pc \notin {"idle", "next"}
    <3>1. PICK s \in Sub : s = r.sub BY <2>2 DEF World, RunOK, HandInv
    <3>3. told[s].level \in Int /\ told'[s].level \in Int /\ r.level \in Int
      BY <2>2 DEF HistoryTypes, RunOK, HandInv
    <3>4. CASE ~Fresh(s)' BY <1>2, <3>1, <3>4 DEF InHand
    <3>5. CASE Fresh(s)'
      <4>1. /\ Fresh(s) /\ told'[s].level <= told[s].level
            /\ subs'[s].setting.min = subs[s].setting.min
        BY <3>5 DEF Calm
      <4>2. QED BY <1>2, <3>1, <3>3, <4>1 DEF InHand
    <3>6. QED BY <3>4, <3>5
  <2>3. QED BY <2>1, <2>2
<1>3. QED BY <1>1, <1>2 DEF Snapshot

(* Time and users leave runs to what they know.                             *)
LEMMA RunsOnce ==
  ASSUME Inv, OnceInv, HistoryInv', Calm, UNCHANGED <<run, lockHolder, faults>>,
         faults = 0 => RowsInv'
  PROVE  OnceInv'
<1>1. World /\ HistoryTypes /\ HistoryTypes' BY DEF Inv, OnceInv, HistoryInv
<1>2. ASSUME faults = 0, NEW i \in Instance, run[i].pc # "idle"
      PROVE  lockHolder' = i /\ Snapshot(run[i])' /\ InHand(run[i])'
  <2>1. PICK r : r = run[i] OBVIOUS
  <2>2. lockHolder = i /\ Snapshot(r) /\ InHand(r) /\ RunOK(r)
    BY <1>2, <2>1 DEF OnceInv, AloneInv, Inv
  <2>3. Snapshot(r)' /\ InHand(r)' BY <1>1, <2>2, HeldStays
  <2>4. QED BY <2>1, <2>2, <2>3
<1>3. QED BY <1>2 DEF OnceInv, AloneInv

LEMMA UsersOnce ==
  ASSUME Inv, OnceInv, HistoryInv', Calm, UNCHANGED <<run, lockHolder, faults>>,
         \A s \in Sub : subs'[s] # None => subs[s] # None /\ (Known(s, subs[s]) => Known(s, subs[s])')
  PROVE  OnceInv'
<1>1. ASSUME faults = 0, NEW s \in Sub, subs'[s] # None PROVE Known(s, subs[s])' \/ Unrecorded(s)'
  BY <1>1 DEF OnceInv, RowsInv, Unrecorded
<1>2. QED BY <1>1, RunsOnce DEF RowsInv

LEMMA NoAlertFacts ==
  NoAlert \in [level : Int, age : Nat] /\ NoAlert.age = RenotifyAfter
BY Constants DEF NoAlert, NeverNotified

LEMMA TickOnce ==
  ASSUME Inv, OnceInv, Tick PROVE OnceInv'
<1>1. /\ World /\ HistoryTypes /\ UNCHANGED <<run, lockHolder, faults, spent>>
      /\ \A s \in Sub : Fresh(s) => s \in spent
  BY DEF Inv, OnceInv, HistoryInv, Tick, notifier
<1>2. \A n \in Nat : Older(n) \in Nat /\ Older(n) >= n /\ (Older(n) < RenotifyAfter => n < RenotifyAfter)
  BY Constants DEF Older
<1>3. \A m, n \in Nat : m <= n => Older(m) <= Older(n) BY Constants DEF Older
<1>4. ASSUME NEW s \in Sub
      PROVE  /\ told[s] \in [level : Int, age : Nat] /\ told'[s] \in [level : Int, age : Nat]
             /\ told'[s].level = told[s].level /\ told'[s].age = Older(told[s].age)
  <2>1. told[s] \in [level : Int, age : Nat] /\ told'[s] = [told[s] EXCEPT !.age = Older(@)]
    BY <1>1 DEF HistoryTypes, Tick
  <2>2. QED BY <1>2, <2>1
<1>5. \A s \in Sub : Fresh(s)' => Fresh(s) BY <1>2, <1>4 DEF Fresh
<1>6. HistoryInv'
  <2>1. told' = [s \in Sub |-> told'[s]] BY DEF Tick
  <2>2. told' \in [Sub -> [level : Int, age : Nat]] BY <1>4, <2>1
  <2>3. QED BY <1>1, <1>5, <2>2 DEF HistoryInv, HistoryTypes
<1>7. ASSUME NEW s \in Sub, subs[s] # None
      PROVE  /\ subs'[s].setting = subs[s].setting /\ subs'[s].last = subs[s].last
             /\ subs'[s].age = Older(subs[s].age) /\ RowOK(subs[s])
  <2>1. RowOK(subs[s]) /\ subs'[s] = [subs[s] EXCEPT !.age = Older(@)] BY <1>1, <1>7 DEF World, Tick
  <2>2. QED BY <2>1 DEF RowOK, RowFields
<1>8. \A s \in Sub : subs[s] = None => subs'[s] = None BY DEF Tick
<1>9. Calm BY <1>2, <1>4, <1>5, <1>7, <1>8 DEF Calm
<1>10. ASSUME NEW s \in Sub, subs[s] # None, Known(s, subs[s]) PROVE Known(s, subs[s])'
  <2>1. subs[s].age \in Nat /\ told[s].age \in Nat BY <1>4, <1>7, <1>10 DEF RowOK
  <2>2. subs[s].age <= told[s].age => subs'[s].age <= told'[s].age
    BY <1>3, <1>4, <1>7, <1>10, <2>1
  <2>3. QED BY <1>4, <1>5, <1>7, <1>10, <2>2 DEF Known
<1>11. QED BY <1>1, <1>6, <1>8, <1>9, <1>10, UsersOnce

LEMMA ForgetOnce ==
  ASSUME Inv, OnceInv, UNCHANGED <<run, lockHolder, faults, spent>>,
         NEW gone, Forget(gone),
         \A s \in Sub : subs'[s] = IF s \in gone THEN None ELSE subs[s]
  PROVE  OnceInv'
<1>1. HistoryTypes /\ \A s \in Sub : Fresh(s) => s \in spent BY DEF OnceInv, HistoryInv
<1>2. told' = [s \in Sub |-> IF s \in gone THEN NoAlert ELSE told[s]] BY DEF Forget
<1>3. \A s \in Sub : Fresh(s)' => s \notin gone /\ Fresh(s) /\ told'[s] = told[s]
  BY <1>2, NoAlertFacts, Constants DEF Fresh
<1>4. HistoryInv' BY <1>1, <1>2, <1>3, NoAlertFacts DEF HistoryInv, HistoryTypes
<1>5. Calm BY <1>1, <1>3 DEF Calm, HistoryTypes
<1>6. ASSUME NEW s \in Sub, subs'[s] # None
      PROVE  subs[s] # None /\ (Known(s, subs[s]) => Known(s, subs[s])')
  BY <1>2, <1>6 DEF Known, Fresh
<1>7. QED BY <1>4, <1>5, <1>6, UsersOnce

LEMMA SubscriptionOnce ==
  ASSUME Inv, OnceInv, NEW s \in Sub,
         CreateSubscription(s) \/ UpdateSubscription(s) \/ DeleteSubscription(s)
  PROVE  OnceInv'
<1>1. /\ World /\ HistoryTypes /\ UNCHANGED <<run, lockHolder, faults>>
      /\ \A x \in Sub : Fresh(x) => x \in spent
  BY DEF Inv, OnceInv, HistoryInv, CreateSubscription, UpdateSubscription, DeleteSubscription, notifier
<1>2. CASE CreateSubscription(s)
  <2>1. s \notin spent /\ spent' = spent \cup {s} /\ UNCHANGED told BY <1>2 DEF CreateSubscription, history
  <2>2. PICK w : subs' = [subs EXCEPT ![s] = w] BY <1>2 DEF CreateSubscription
  <2>3. \A x \in Sub : Fresh(x)' => Fresh(x) /\ x # s /\ subs'[x] = subs[x]
    BY <1>1, <2>1, <2>2 DEF World, Fresh
  <2>4. HistoryInv' BY <1>1, <2>1, <2>3 DEF HistoryInv, HistoryTypes
  <2>5. Calm BY <1>1, <2>1, <2>3 DEF Calm, HistoryTypes
  <2>6. \A x \in Sub \ {s} : subs'[x] = subs[x] BY <1>1, <2>2 DEF World
  <2>7. ASSUME faults = 0, NEW x \in Sub, subs'[x] # None
        PROVE  Known(x, subs[x])' \/ Unrecorded(x)'
    <3>1. CASE x = s BY <2>3, <3>1 DEF Known
    <3>2. CASE x # s
      <4>1. Known(x, subs[x]) \/ Unrecorded(x) BY <2>6, <2>7, <3>2 DEF OnceInv, RowsInv
      <4>2. QED BY <1>1, <2>1, <2>6, <3>2, <4>1 DEF Known, Fresh, Unrecorded
    <3>3. QED BY <3>1, <3>2
  <2>8. QED BY <1>1, <2>4, <2>5, <2>7, RunsOnce DEF RowsInv
<1>3. CASE UpdateSubscription(s)
  <2>1. subs[s] # None /\ UNCHANGED spent BY <1>3 DEF UpdateSubscription
  <2>2. PICK row, alert :
          /\ subs' = [subs EXCEPT ![s] = row] /\ told' = [told EXCEPT ![s] = alert]
          /\ \/ alert = NoAlert
             \/ /\ alert = told[s] /\ row.setting.min = subs[s].setting.min
                /\ row.last = subs[s].last /\ row.age = subs[s].age
    <3>1. PICK w \in Setting :
            LET kept == w.place = subs[s].setting.place /\ w.min = subs[s].setting.min
            IN  /\ subs' = [subs EXCEPT ![s] =
                       [setting |-> w,
                        last |-> IF kept THEN subs[s].last ELSE NeverNotified,
                        age |-> IF kept THEN subs[s].age ELSE RenotifyAfter]]
                /\ told' = [told EXCEPT ![s] = IF kept THEN @ ELSE NoAlert]
      BY <1>3 DEF UpdateSubscription
    <3>2. CASE w.place = subs[s].setting.place /\ w.min = subs[s].setting.min
      <4>1. PICK row : row = [setting |-> w, last |-> subs[s].last, age |-> subs[s].age] OBVIOUS
      <4>2. subs' = [subs EXCEPT ![s] = row] /\ told' = [told EXCEPT ![s] = told[s]]
        BY <3>1, <3>2, <4>1
      <4>3. row.setting.min = subs[s].setting.min /\ row.last = subs[s].last /\ row.age = subs[s].age
        BY <3>2, <4>1
      <4>4. QED BY <4>2, <4>3
    <3>3. CASE ~(w.place = subs[s].setting.place /\ w.min = subs[s].setting.min)
      BY <3>1, <3>3
    <3>4. QED BY <3>2, <3>3
  <2>3. /\ \A x \in Sub \ {s} : subs'[x] = subs[x] /\ told'[x] = told[x]
        /\ subs'[s] = row /\ told'[s] = alert
    BY <1>1, <2>2 DEF World, HistoryTypes
  <2>4. HistoryTypes' BY <1>1, <2>2, NoAlertFacts DEF HistoryTypes
  <2>5. \A x \in Sub : Fresh(x)' => Fresh(x) /\ (x = s => alert = told[s])
    BY <2>2, <2>3, NoAlertFacts, Constants DEF Fresh
  <2>6. HistoryInv' BY <1>1, <2>1, <2>4, <2>5 DEF HistoryInv
  <2>7. Calm BY <1>1, <2>2, <2>3, <2>5, NoAlertFacts, Constants DEF Calm, HistoryTypes, Fresh
  <2>8. ASSUME NEW x \in Sub, subs'[x] # None
        PROVE  subs[x] # None /\ (Known(x, subs[x]) => Known(x, subs[x])')
    BY <2>1, <2>2, <2>3, <2>5, <2>8, NoAlertFacts, Constants DEF Known, Fresh
  <2>9. QED BY <1>1, <2>6, <2>7, <2>8, UsersOnce
<1>4. CASE DeleteSubscription(s)
  <2>1. /\ subs' = [subs EXCEPT ![s] = None] /\ UNCHANGED spent /\ Forget({s})
    BY <1>4 DEF DeleteSubscription
  <2>2. \A x \in Sub : subs'[x] = IF x \in {s} THEN None ELSE subs[x] BY <1>1, <2>1 DEF World
  <2>3. QED BY <1>1, <2>1, <2>2, ForgetOnce
<1>5. QED BY <1>2, <1>3, <1>4

LEMMA DeleteAccountOnce ==
  ASSUME Inv, OnceInv, NEW a \in Account, DeleteAccount(a) PROVE OnceInv'
<1>1. PICK gone : gone = {s \in Sub : Owner[s] = a} OBVIOUS
<1>2. /\ UNCHANGED <<run, lockHolder, faults, spent>> /\ Forget(gone)
      /\ \A s \in Sub : subs'[s] = IF s \in gone THEN None ELSE subs[s]
  BY <1>1 DEF DeleteAccount, notifier
<1>3. QED BY <1>2, ForgetOnce

LEMMA TokenOnce ==
  ASSUME Inv, OnceInv, UNCHANGED <<subs, spent, told, run, lockHolder, faults>> PROVE OnceInv'
<1>1. HistoryTypes /\ HistoryInv' BY DEF OnceInv, HistoryInv, HistoryTypes, Fresh
<1>2. Calm BY <1>1 DEF Calm, HistoryTypes, Fresh
<1>3. \A s \in Sub : Known(s, subs[s]) => Known(s, subs[s])' BY DEF Known, Fresh
<1>4. QED BY <1>1, <1>2, <1>3, UsersOnce

(* Runs.  The one that holds the lock is alone, as long as nothing failed.  *)
LEMMA Alone ==
  ASSUME Inv, OnceInv, faults = 0, NEW i \in Instance, run[i].pc # "idle"
  PROVE  /\ lockHolder = i /\ Snapshot(run[i]) /\ InHand(run[i])
         /\ \A j \in Instance \ {i} : run[j].pc = "idle"
         /\ \A s \in Sub : subs[s] # None =>
              \/ Known(s, subs[s])
              \/ run[i].pc = "tickets" /\ run[i].delivered /\ run[i].sub = s
<1>1. RowsInv /\ AloneInv BY DEF OnceInv
<1>2. \A j \in Instance \ {i} : run[j].pc = "idle" BY <1>1 DEF AloneInv
<1>3. QED BY <1>1, <1>2 DEF AloneInv, RowsInv, Unrecorded

LEMMA StepOnce ==
  ASSUME Inv, HistoryInv', NEW i \in Instance, NEW q, run' = [run EXCEPT ![i] = q],
         faults' = 0 =>
           /\ \A j \in Instance \ {i} : run[j].pc = "idle"
           /\ \A s \in Sub : subs'[s] # None =>
                Known(s, subs[s])' \/ (q.pc = "tickets" /\ q.delivered /\ q.sub = s)
           /\ q.pc # "idle" => lockHolder' = i /\ Snapshot(q)' /\ InHand(q)'
  PROVE  OnceInv'
<1>1. run'[i] = q /\ \A j \in Instance \ {i} : run'[j] = run[j] BY DEF Inv, World
<1>2. faults' = 0 => RowsInv' BY <1>1 DEF RowsInv, Unrecorded
<1>3. ASSUME faults' = 0, NEW j \in Instance, run'[j].pc # "idle"
      PROVE  lockHolder' = j /\ Snapshot(run[j])' /\ InHand(run[j])'
  <2>1. j = i BY <1>1, <1>3
  <2>2. QED BY <1>1, <1>3, <2>1
<1>4. QED BY <1>2, <1>3 DEF OnceInv, AloneInv

LEMMA FaultyOnce == ASSUME HistoryInv', faults' # 0 PROVE OnceInv'
BY DEF OnceInv

LEMMA HistoryStays ==
  ASSUME HistoryInv, UNCHANGED <<told, spent>>, faults' \in Nat PROVE HistoryInv'
BY DEF HistoryInv, HistoryTypes, Fresh

(* A run that knows what its rows and the database are about goes on.       *)
LEMMA MoveOnce ==
  ASSUME Inv, OnceInv, HistoryInv', UNCHANGED faults, NEW i \in Instance, run[i].pc # "idle",
         NEW q, run' = [run EXCEPT ![i] = q], q.pc \in {"idle", "next"}, ~q.delivered,
         \A s \in Sub : q.todo[s] \in {None, run[i].todo[s]},
         q.pc = "next" => UNCHANGED lockHolder,
         Calm,
         faults = 0 => \A s \in Sub : subs'[s] # None => Known(s, subs[s])'
  PROVE  OnceInv'
<1>1. World /\ HistoryTypes /\ HistoryTypes' BY DEF OnceInv, HistoryInv, Inv
<1>2. ASSUME faults = 0
      PROVE  /\ \A j \in Instance \ {i} : run[j].pc = "idle"
             /\ q.pc # "idle" => lockHolder' = i /\ Snapshot(q)' /\ InHand(q)'
  <2>1. PICK r : r = run[i] OBVIOUS
  <2>2. /\ lockHolder = i /\ Snapshot(r) /\ \A j \in Instance \ {i} : run[j].pc = "idle"
        /\ RunOK(r)
    BY <1>2, <2>1, Alone DEF Inv
  <2>3. Snapshot(r)' BY <1>1, <2>2, HeldStays
  <2>4. Snapshot(q)' BY <2>1, <2>3 DEF Snapshot
  <2>5. InHand(q)' BY DEF InHand
  <2>6. QED BY <2>2, <2>4, <2>5
<1>3. QED BY <1>2, StepOnce

LEMMA CalmAtRest ==
  ASSUME HistoryTypes, UNCHANGED <<told, subs>>
  PROVE  Calm /\ \A s \in Sub : Known(s, subs[s]) => Known(s, subs[s])'
BY DEF Calm, HistoryTypes, Fresh, Known

(* Its row is known to the database, too, unless it waits to be written.    *)
LEMMA RestOnce ==
  ASSUME Inv, OnceInv, UNCHANGED <<told, subs, spent, faults>>, NEW i \in Instance,
         run[i].pc # "idle", ~(run[i].pc = "tickets" /\ run[i].delivered),
         NEW q, run' = [run EXCEPT ![i] = q], q.pc \in {"idle", "next"}, ~q.delivered,
         \A s \in Sub : q.todo[s] \in {None, run[i].todo[s]},
         q.pc = "next" => UNCHANGED lockHolder
  PROVE  OnceInv'
<1>1. Calm /\ \A s \in Sub : Known(s, subs[s]) => Known(s, subs[s])'
  BY CalmAtRest DEF OnceInv, HistoryInv
<1>2. faults = 0 => \A s \in Sub : subs'[s] # None => Known(s, subs[s])' BY <1>1, Alone
<1>3. HistoryInv' BY HistoryStays DEF OnceInv, HistoryInv, HistoryTypes
<1>4. QED BY <1>1, <1>2, <1>3, MoveOnce

LEMMA ContinueFields ==
  ASSUME Inv, NEW i \in Instance, Continue(i)
  PROVE  \E q : /\ run' = [run EXCEPT ![i] = q] /\ q.pc = "next" /\ ~q.delivered
               /\ \A s \in Sub : q.todo[s] \in {None, run[i].todo[s]}
<1>1. PICK r : r = run[i] OBVIOUS
<1>2. PICK q : q = Onward(r) OBVIOUS
<1>3. RunShape(r) BY <1>1 DEF Inv, RunOK
<1>4. /\ q.pc = "next" /\ ~q.delivered /\ \A s \in Sub : q.todo[s] \in {None, r.todo[s]}
  BY <1>2, <1>3, OnwardFields
<1>5. run' = [run EXCEPT ![i] = q] BY <1>1, <1>2 DEF Continue
<1>6. QED BY <1>1, <1>4, <1>5

LEMMA BeginOnce ==
  ASSUME Inv, OnceInv, NEW i \in Instance, BeginRun(i) PROVE OnceInv'
<1>1. /\ UNCHANGED <<told, subs, spent, faults>> /\ lockHolder = None /\ lockHolder' = i
      /\ World /\ HistoryInv /\ HistoryTypes
  BY DEF BeginRun, users, history, LockIsFree, Inv, OnceInv, HistoryInv
<1>2. HistoryInv' BY <1>1, HistoryStays DEF HistoryTypes
<1>3. PICK q : /\ run' = [run EXCEPT ![i] = q] /\ q.pc = "next" /\ ~q.delivered
               /\ \A s \in Sub : q.todo[s] \in {None, subs[s]}
  BY <1>1, BeginFields
<1>4. ASSUME faults = 0
      PROVE  /\ \A j \in Instance \ {i} : run[j].pc = "idle"
             /\ \A s \in Sub : subs[s] # None => Known(s, subs[s])
  <2>1. \A j \in Instance : run[j].pc = "idle"
    BY <1>1, <1>4, DomainAssumption DEF OnceInv, AloneInv
  <2>2. QED BY <1>4, <2>1 DEF OnceInv, RowsInv, Unrecorded
<1>5. \A s \in Sub : Known(s, subs[s]) => Known(s, subs[s])' BY <1>1, CalmAtRest
<1>6. ASSUME faults = 0 PROVE Snapshot(q)' /\ InHand(q)'
  <2>1. Snapshot(q)
    <3> SUFFICES ASSUME NEW s \in Sub, q.todo[s] # None
                 PROVE  Known(s, q.todo[s]) /\ Same(s, q.todo[s])
      BY DEF Snapshot
    <3>1. q.todo[s] = subs[s] BY <1>3
    <3>2. QED BY <1>4, <1>6, <3>1 DEF Same
  <2>2. Snapshot(q)' BY <1>1, <2>1 DEF Snapshot, Known, Same, Fresh
  <2>3. QED BY <1>3, <2>2 DEF InHand
<1>7. QED BY <1>1, <1>2, <1>3, <1>4, <1>5, <1>6, StepOnce

LEMMA SkipOnce ==
  ASSUME Inv, OnceInv, NEW i \in Instance, NEW s \in Sub, SkipUnassessed(i, s) PROVE OnceInv'
<1>1. /\ UNCHANGED <<told, subs, spent, faults, lockHolder>> /\ run[i].pc = "next"
      /\ World /\ RunShape(run[i])
  BY DEF SkipUnassessed, users, history, Pending, Inv, RunOK
<1>2. PICK q : /\ run' = [run EXCEPT ![i] = q] /\ q.pc = "next" /\ ~q.delivered
               /\ \A x \in Sub : q.todo[x] \in {None, run[i].todo[x]}
  BY <1>1, SkipFields
<1>3. QED BY <1>1, <1>2, RestOnce

LEMMA FinishOnce ==
  ASSUME Inv, OnceInv, NEW i \in Instance, FinishRun(i) PROVE OnceInv'
<1>1. /\ UNCHANGED <<told, subs, spent, faults>> /\ run[i].pc = "next"
      /\ run' = [run EXCEPT ![i] = IdleRun]
  BY DEF FinishRun, users, history
<1>2. PICK q : q = IdleRun OBVIOUS
<1>3. q.pc = "idle" /\ ~q.delivered /\ \A s \in Sub : q.todo[s] = None BY <1>2, IdleRunFields
<1>4. QED BY <1>1, <1>2, <1>3, RestOnce

(* A decision: calmer levels reset, and only what is due goes out.          *)
LEMMA DecisionMeans ==
  ASSUME NEW row, RowOK(row), NEW level \in Int, NEW now
  PROVE  /\ Decision(row, level, now) = "reset" => level < row.setting.min
         /\ Decision(row, level, now) = "devices" => level >= row.setting.min /\ Due(row, level)
<1>1. row.setting.min \in Int BY MinIsInt
<1>2. CASE level < row.setting.min BY <1>1, <1>2 DEF Decision
<1>3. CASE level >= row.setting.min /\ Due(row, level) BY <1>1, <1>3 DEF Decision
<1>4. CASE level >= row.setting.min /\ ~Due(row, level) BY <1>1, <1>4 DEF Decision
<1>5. QED BY <1>1, <1>2, <1>3, <1>4

LEMMA ConsiderOnce ==
  ASSUME Inv, OnceInv, NEW i \in Instance, NEW s \in Sub, NEW level \in Forecast,
         Consider(i, s, level)
  PROVE  OnceInv'
<1>1. /\ UNCHANGED <<subs, spent, faults, lockHolder>> /\ run[i].pc = "next"
      /\ World /\ RunOK(run[i]) /\ RunShape(run[i]) /\ level \in Int /\ level >= 0
      /\ HistoryInv /\ HistoryTypes /\ told[s] \in [level : Int, age : Nat]
  BY DomainAssumption
  DEF Consider, users, Pending, Inv, RunOK, OnceInv, HistoryInv, HistoryTypes, Level
<1>2. PICK row : row = run[i].todo[s] OBVIOUS
<1>3. row # None /\ RowOK(row) BY <1>1, <1>2 DEF Consider, Pending, RunOK, TodoInv
<1>4. row.setting.min \in Int /\ row.last \in Int /\ row.age \in Nat BY <1>3, MinIsInt
<1>5. PICK next : next = Decision(row, level, run[i].now) OBVIOUS
<1>6. PICK q : /\ run' = [run EXCEPT ![i] = q]
               /\ q.pc = next /\ (q.delivered => run[i].delivered)
               /\ \A x \in Sub : q.todo[x] \in {None, run[i].todo[x]}
               /\ next # "next" => AtHand(q, row, s, level)
  BY <1>1, <1>2, <1>5, ConsiderFields
<1>7. PICK alert : alert = Calmer(s, row, level) OBVIOUS
<1>8. told' = [told EXCEPT ![s] = alert] BY <1>2, <1>7 DEF Consider
<1>9. /\ alert \in [level : Int, age : Nat]
      /\ alert.age < RenotifyAfter =>
           /\ Fresh(s) /\ alert.age = told[s].age
           /\ alert.level <= told[s].level /\ alert.level <= level
           /\ alert.level < told[s].level => level >= row.setting.min
  <2>1. CASE level >= told[s].level BY <1>1, <1>7, <2>1 DEF Calmer, Fresh
  <2>2. CASE level < told[s].level /\ level < row.setting.min
    BY <1>1, <1>4, <1>7, <2>2, NoAlertFacts, Constants DEF Calmer
  <2>3. CASE level < told[s].level /\ level >= row.setting.min
    <3>1. alert = [told[s] EXCEPT !.level = level] BY <1>1, <1>4, <1>7, <2>3 DEF Calmer
    <3>2. alert \in [level : Int, age : Nat] /\ alert.age = told[s].age /\ alert.level = level
      BY <1>1, <3>1
    <3>3. QED BY <1>1, <2>3, <3>2 DEF Fresh
  <2>4. QED BY <1>1, <1>4, <2>1, <2>2, <2>3
<1>10. told'[s] = alert /\ \A x \in Sub \ {s} : told'[x] = told[x]
  BY <1>1, <1>8 DEF HistoryTypes
<1>11. HistoryTypes' BY <1>1, <1>8, <1>9 DEF HistoryTypes
<1>12. \A x \in Sub : Fresh(x)' => Fresh(x) BY <1>9, <1>10 DEF Fresh
<1>13. HistoryInv' BY <1>1, <1>11, <1>12 DEF HistoryInv
<1>14. Calm BY <1>1, <1>9, <1>10, <1>12 DEF Calm, Fresh, HistoryTypes
<1>15. ASSUME faults = 0, NEW x \in Sub, subs'[x] # None PROVE Known(x, subs[x])'
  <2>1. PICK known : known = subs[x] OBVIOUS
  <2>2. RowOK(known) BY <1>1, <1>15, <2>1 DEF World
  <2>3. Known(x, known) BY <1>1, <1>15, <2>1, Alone
  <2>4. Known(x, known)' BY <1>1, <1>11, <1>14, <2>2, <2>3, KnownStays
  <2>5. QED BY <1>1, <2>1, <2>4
<1>16. CASE next = "next"
  <2>1. ~q.delivered \/ faults # 0 BY <1>1, <1>6, Alone DEF InHand
  <2>2. CASE faults # 0 BY <1>1, <1>13, <2>2, FaultyOnce
  <2>3. CASE ~q.delivered
    <3>1. /\ run[i].pc # "idle" /\ UNCHANGED <<faults, lockHolder>>
          /\ run' = [run EXCEPT ![i] = q] /\ q.pc = "next"
          /\ \A x \in Sub : q.todo[x] \in {None, run[i].todo[x]}
      BY <1>1, <1>6, <1>16
    <3>2. faults = 0 => \A x \in Sub : subs'[x] # None => Known(x, subs[x])' BY <1>15
    <3>3. QED BY <1>13, <1>14, <2>3, <3>1, <3>2, MoveOnce
  <2>4. QED BY <2>1, <2>2, <2>3
<1>17. CASE next # "next"
  <2>1. ASSUME faults = 0 PROVE Snapshot(q)' /\ InHand(q)'
    <3>1. PICK r : r = run[i] OBVIOUS
    <3>2. Snapshot(r) /\ InHand(r) BY <1>1, <2>1, <3>1, Alone
    <3>3. Snapshot(r)' BY <1>1, <1>11, <1>14, <3>1, <3>2, HeldStays
    <3>4. Snapshot(q)' BY <1>6, <3>1, <3>3 DEF Snapshot
    <3>5. Known(s, row) /\ Same(s, row) BY <1>2, <1>3, <3>1, <3>2 DEF Snapshot
    <3>6. ~q.delivered BY <1>1, <1>6, <3>1, <3>2 DEF InHand
    <3>7. q.sub = s /\ q.level = level /\ q.todo[s] = None BY <1>6, <1>17 DEF AtHand
    <3>8. next = "reset" /\ Fresh(s)' => level < subs'[s].setting.min
      BY <1>1, <1>3, <1>5, <1>12, <3>5, DecisionMeans DEF Same
    <3>9. ASSUME next = "devices", Fresh(s)' PROVE alert.level < level
      <4>1. level >= row.setting.min /\ Due(row, level) BY <1>1, <1>3, <1>5, <3>9, DecisionMeans
      <4>2. Fresh(s) /\ alert.age < RenotifyAfter BY <1>10, <1>12, <3>9 DEF Fresh
      <4>3. SUFFICES ASSUME alert.level = level PROVE FALSE BY <1>1, <1>9, <4>2
      <4>4. told[s].level >= level BY <1>1, <1>9, <4>2, <4>3
      <4>5. row.last >= level /\ row.age < RenotifyAfter
        BY <1>1, <1>4, <3>5, <4>1, <4>2, <4>4, Constants DEF Known, Fresh
      <4>6. QED BY <1>1, <1>4, <4>1, <4>5, Constants DEF Due, NeverNotified
    <3>10. next \in {"reset", "devices", "lower"} BY <1>1, <1>3, <1>5, <1>17, DecisionFacts
    <3>11. Fresh(s)' => alert.level <= level BY <1>9, <1>10 DEF Fresh
    <3>12. InHand(q)'
      BY <1>6, <1>10, <3>6, <3>7, <3>8, <3>9, <3>10, <3>11 DEF InHand
    <3>13. QED BY <3>4, <3>12
  <2>2. faults = 0 => lockHolder = i /\ \A j \in Instance \ {i} : run[j].pc = "idle"
    BY <1>1, Alone
  <2>3. QED BY <1>1, <1>6, <1>13, <1>15, <2>1, <2>2, StepOnce
<1>18. QED BY <1>16, <1>17

(* What a run writes is known: what is calmer, or was just sent.            *)
LEMMA WriteFields ==
  ASSUME World, NEW s \in Sub, NEW last, NEW age, Write(s, last, age)
  PROVE  /\ \A x \in Sub \ {s} : subs'[x] = subs[x]
         /\ subs'[s] # None => subs[s] # None
         /\ subs'[s].setting = subs[s].setting
         /\ subs[s] # None => subs'[s].last = last /\ subs'[s].age = age
<1>1. CASE subs[s] = None BY <1>1 DEF Write, World
<1>2. CASE subs[s] # None
  <2>1. PICK row : row = [subs[s] EXCEPT !.last = last] OBVIOUS
  <2>2. PICK new : new = [row EXCEPT !.age = age] OBVIOUS
  <2>3. subs' = [subs EXCEPT ![s] = new] BY <1>2, <2>1, <2>2 DEF Write
  <2>4. RowOK(subs[s]) BY <1>2 DEF World
  <2>5. RowFields \subseteq DOMAIN row /\ row.setting = subs[s].setting /\ row.last = last
    BY <2>1, <2>4 DEF RowOK, RowFields
  <2>6. new.setting = subs[s].setting /\ new.last = last /\ new.age = age
    BY <2>2, <2>5 DEF RowFields
  <2>7. QED BY <1>2, <2>3, <2>6 DEF World
<1>3. QED BY <1>1, <1>2

LEMMA WriteOnce ==
  ASSUME Inv, OnceInv, NEW i \in Instance, NEW s \in Sub, NEW last, NEW age,
         run[i].pc # "idle", run[i].sub = s, Write(s, last, age), Continue(i),
         UNCHANGED <<told, spent, lockHolder, faults>>,
         faults = 0 /\ Fresh(s) /\ subs[s] # None /\ told[s].level >= subs[s].setting.min =>
           last >= told[s].level /\ age <= told[s].age
  PROVE  OnceInv'
<1>1. World /\ HistoryTypes BY DEF Inv, OnceInv, HistoryInv
<1>2. /\ \A x \in Sub \ {s} : subs'[x] = subs[x]
      /\ subs'[s] # None => subs[s] # None
      /\ subs'[s].setting = subs[s].setting
      /\ subs[s] # None => subs'[s].last = last /\ subs'[s].age = age
  BY <1>1, WriteFields
<1>3. HistoryInv' BY HistoryStays DEF OnceInv, HistoryInv, HistoryTypes
<1>4. Calm BY <1>1, <1>2 DEF Calm, HistoryTypes, Fresh
<1>5. ASSUME faults = 0, NEW x \in Sub, subs'[x] # None PROVE Known(x, subs[x])'
  <2>1. CASE x = s BY <1>2, <1>5, <2>1 DEF Known, Fresh
  <2>2. CASE x # s
    <3>1. Known(x, subs[x]) BY <1>2, <1>5, <2>2, Alone
    <3>2. QED BY <1>2, <2>2, <3>1 DEF Known, Fresh
  <2>3. QED BY <2>1, <2>2
<1>6. PICK q : /\ run' = [run EXCEPT ![i] = q] /\ q.pc = "next" /\ ~q.delivered
               /\ \A x \in Sub : q.todo[x] \in {None, run[i].todo[x]}
  BY ContinueFields
<1>7. QED BY <1>3, <1>4, <1>5, <1>6, MoveOnce

LEMMA LowerOnce ==
  ASSUME Inv, OnceInv, NEW i \in Instance, LowerLevel(i) \/ ResetLevel(i) PROVE OnceInv'
<1>1. /\ UNCHANGED <<told, spent, lockHolder, faults>> /\ Continue(i)
      /\ run[i].pc \in {"lower", "reset"} /\ World /\ HistoryTypes
  BY DEF LowerLevel, ResetLevel, history, Inv, OnceInv, HistoryInv
<1>2. RunOK(run[i]) BY DEF Inv
<1>3. run[i].sub \in spent /\ run[i].level \in Int BY <1>1, <1>2 DEF RunOK, HandInv
<1>4. PICK s \in Sub : s = run[i].sub BY <1>1, <1>3 DEF World
<1>5. told[s].level \in Int /\ told[s].age \in Nat BY <1>1 DEF HistoryTypes
<1>6. CASE LowerLevel(i)
  <2>1. run[i].pc = "lower" /\ Write(s, run[i].level, AgeOf(s)) BY <1>4, <1>6 DEF LowerLevel
  <2>2. ASSUME faults = 0, Fresh(s), subs[s] # None, told[s].level >= subs[s].setting.min
        PROVE  run[i].level >= told[s].level /\ AgeOf(s) <= told[s].age
    <3>1. InHand(run[i]) /\ Known(s, subs[s]) BY <2>1, <2>2, Alone
    <3>2. QED BY <1>3, <1>4, <1>5, <2>1, <2>2, <3>1 DEF InHand, Known, AgeOf
  <2>3. PICK level, age : level = run[i].level /\ age = AgeOf(s) OBVIOUS
  <2>4. QED BY <1>1, <1>4, <2>1, <2>2, <2>3, WriteOnce
<1>7. CASE ResetLevel(i)
  <2>1. run[i].pc = "reset" /\ Write(s, NeverNotified, RenotifyAfter) BY <1>4, <1>7 DEF ResetLevel
  <2>2. ASSUME faults = 0, Fresh(s), subs[s] # None, told[s].level >= subs[s].setting.min
        PROVE  FALSE
    <3>1. InHand(run[i]) BY <2>1, <2>2, Alone
    <3>2. told[s].level <= run[i].level /\ run[i].level < subs[s].setting.min
      BY <1>4, <2>1, <2>2, <3>1 DEF InHand
    <3>3. subs[s].setting.min \in Int BY <1>1, <2>2, MinIsInt DEF World
    <3>4. QED BY <1>3, <1>5, <2>2, <3>2, <3>3
  <2>3. PICK age : age = RenotifyAfter OBVIOUS
  <2>4. PICK last : last = NeverNotified OBVIOUS
  <2>5. QED BY <1>1, <1>4, <2>1, <2>2, <2>3, <2>4, WriteOnce
<1>8. QED BY <1>6, <1>7

LEMMA RecordOnce ==
  ASSUME Inv, OnceInv, NEW i \in Instance, RecordNotified(i) PROVE OnceInv'
<1>1. /\ UNCHANGED <<told, spent, lockHolder, faults>> /\ Continue(i)
      /\ run[i].pc = "tickets" /\ World /\ HistoryTypes
  BY DEF RecordNotified, history, Inv, OnceInv, HistoryInv
<1>2. RunOK(run[i]) BY DEF Inv
<1>3. run[i].sub \in spent /\ run[i].level \in Int BY <1>1, <1>2 DEF RunOK, HandInv
<1>4. PICK s \in Sub : s = run[i].sub BY <1>1, <1>3 DEF World
<1>5. told[s].level \in Int /\ told[s].age \in Nat BY <1>1 DEF HistoryTypes
<1>6. CASE run[i].delivered
  <2>1. Write(s, run[i].level, 0) BY <1>4, <1>6 DEF RecordNotified
  <2>2. ASSUME faults = 0, Fresh(s) PROVE run[i].level >= told[s].level /\ 0 <= told[s].age
    <3>1. InHand(run[i]) BY <1>1, <2>2, Alone
    <3>2. QED BY <1>1, <1>3, <1>4, <1>5, <1>6, <2>2, <3>1 DEF InHand
  <2>3. PICK level : level = run[i].level OBVIOUS
  <2>4. QED BY <1>1, <1>4, <2>1, <2>2, <2>3, WriteOnce
<1>7. CASE ~run[i].delivered
  <2>1. UNCHANGED subs BY <1>7 DEF RecordNotified
  <2>2. PICK q : /\ run' = [run EXCEPT ![i] = q] /\ q.pc = "next" /\ ~q.delivered
                 /\ \A x \in Sub : q.todo[x] \in {None, run[i].todo[x]}
    BY <1>1, ContinueFields
  <2>3. QED BY <1>1, <1>7, <2>1, <2>2, RestOnce
<1>8. QED BY <1>6, <1>7

(* A run that stays at its subscription, without telling or writing.        *)
LEMMA StayOnce ==
  ASSUME Inv, OnceInv, UNCHANGED <<told, subs, spent, lockHolder, faults>>,
         NEW i \in Instance, run[i].pc # "idle",
         NEW q, run' = [run EXCEPT ![i] = q], q.sub = run[i].sub,
         run[i].pc = "tickets" /\ run[i].delivered => q.pc = "tickets" /\ q.delivered,
         faults = 0 /\ Snapshot(run[i]) /\ InHand(run[i]) => Snapshot(q) /\ InHand(q)
  PROVE  OnceInv'
<1>1. HistoryTypes /\ HistoryInv' BY HistoryStays DEF OnceInv, HistoryInv, HistoryTypes
<1>2. \A s \in Sub : Known(s, subs[s]) => Known(s, subs[s])' BY <1>1, CalmAtRest
<1>3. Snapshot(q) /\ InHand(q) => Snapshot(q)' /\ InHand(q)'
  BY DEF Snapshot, InHand, Known, Same, Fresh
<1>4. ASSUME faults = 0
      PROVE  /\ \A j \in Instance \ {i} : run[j].pc = "idle"
             /\ \A s \in Sub : subs'[s] # None =>
                  Known(s, subs[s])' \/ (q.pc = "tickets" /\ q.delivered /\ q.sub = s)
             /\ lockHolder' = i /\ Snapshot(q)' /\ InHand(q)'
  BY <1>2, <1>3, <1>4, Alone
<1>5. QED BY <1>1, <1>4, StepOnce

LEMMA ReadOnce ==
  ASSUME Inv, OnceInv, NEW i \in Instance, ReadDevices(i) PROVE OnceInv'
<1>1. /\ UNCHANGED <<told, subs, spent, lockHolder, faults>> /\ run[i].pc = "devices"
      /\ World /\ HistoryTypes
  BY DEF ReadDevices, users, history, Inv, OnceInv, HistoryInv
<1>2. CASE Continue(i)
  <2>1. PICK q : /\ run' = [run EXCEPT ![i] = q] /\ q.pc = "next" /\ ~q.delivered
                 /\ \A x \in Sub : q.todo[x] \in {None, run[i].todo[x]}
    BY <1>2, ContinueFields
  <2>2. QED BY <1>1, <2>1, RestOnce
<1>3. CASE ~Continue(i)
  <2>1. PICK r : r = run[i] OBVIOUS
  <2>2. PICK q : run' = [run EXCEPT ![i] = q] /\ Stays(q, r) /\ q.pc = "send" /\ q.delivered = r.delivered
    BY <1>1, <1>3, <2>1, ReadFields DEF Inv, RunOK
  <2>3. ASSUME Snapshot(run[i]), InHand(run[i]) PROVE Snapshot(q) /\ InHand(q)
    BY <1>1, <2>1, <2>2, <2>3 DEF Stays, Snapshot, InHand
  <2>4. q.sub = run[i].sub /\ run[i].pc # "tickets" /\ run[i].pc # "idle"
    BY <1>1, <2>1, <2>2 DEF Stays
  <2>5. QED BY <1>1, <2>2, <2>3, <2>4, StayOnce
<1>4. QED BY <1>2, <1>3

LEMMA ClearOnce ==
  ASSUME Inv, OnceInv, NEW i \in Instance, NEW d \in Device, ClearToken(i, d) PROVE OnceInv'
<1>1. /\ UNCHANGED <<told, subs, spent, lockHolder, faults>> /\ run[i].pc = "tickets"
      /\ World /\ HistoryTypes
  BY DEF ClearToken, history, Inv, OnceInv, HistoryInv
<1>2. PICK r : r = run[i] OBVIOUS
<1>3. PICK q : run' = [run EXCEPT ![i] = q] /\ Stays(q, r) /\ q.pc = r.pc /\ q.delivered = r.delivered
  BY <1>1, <1>2, ClearFields DEF Inv, RunOK
<1>4. ASSUME Snapshot(run[i]), InHand(run[i]) PROVE Snapshot(q) /\ InHand(q)
  BY <1>1, <1>2, <1>3, <1>4 DEF Stays, Snapshot, InHand
<1>5. /\ q.sub = run[i].sub /\ run[i].pc # "idle"
      /\ run[i].pc = "tickets" /\ run[i].delivered => q.pc = "tickets" /\ q.delivered
  BY <1>1, <1>2, <1>3 DEF Stays
<1>6. QED BY <1>1, <1>3, <1>4, <1>5, StayOnce

(* An alert sent is the only one that its row does not know of yet.         *)
LEMMA SentFacts ==
  ASSUME HistoryTypes, NEW s \in Sub, NEW level \in Int,
         NEW i \in Instance, run[i].sub = s, run[i].level = level, Reaches(i)
  PROVE  /\ told' \in [Sub -> [level : Int, age : Nat]]
         /\ \A x \in Sub \ {s} : told'[x] = told[x]
         /\ told'[s] = told[s] \/ (subs[s] # None /\ told'[s] = [level |-> level, age |-> 0])
<1>1. CASE subs[s] = None BY <1>1 DEF Reaches, history, HistoryTypes
<1>2. CASE subs[s] # None
  <2>1. told' = [told EXCEPT ![s] = [level |-> level, age |-> 0]] BY <1>2 DEF Reaches
  <2>2. QED BY <1>2, <2>1 DEF HistoryTypes
<1>3. QED BY <1>1, <1>2

LEMMA SentHistory ==
  ASSUME World, HistoryInv, NEW s \in Sub, NEW level \in Int,
         NEW i \in Instance, run[i].sub = s, run[i].level = level, Reaches(i),
         UNCHANGED spent, faults' \in Nat
  PROVE  HistoryInv'
<1>1. HistoryTypes /\ \A x \in Sub : Fresh(x) => x \in spent BY DEF HistoryInv
<1>2. /\ HistoryTypes'
      /\ \A x \in Sub \ {s} : told'[x] = told[x]
      /\ told'[s] = told[s] \/ subs[s] # None
  BY <1>1, SentFacts DEF HistoryTypes
<1>3. subs[s] # None => s \in spent BY DEF World
<1>4. \A x \in Sub : Fresh(x)' => Fresh(x) \/ (x = s /\ subs[s] # None) BY <1>2 DEF Fresh
<1>5. QED BY <1>1, <1>2, <1>3, <1>4 DEF HistoryInv

LEMMA SendOnce ==
  ASSUME Inv, OnceInv, NEW i \in Instance, Send(i) PROVE OnceInv'
<1>1. /\ UNCHANGED <<subs, spent, lockHolder, faults>> /\ run[i].pc = "send"
      /\ World /\ HistoryTypes /\ HistoryInv /\ faults' \in Nat
  BY DEF Send, users, Inv, OnceInv, HistoryInv, HistoryTypes
<1>2. PICK r : r = run[i] OBVIOUS
<1>3. RunOK(r) BY <1>2 DEF Inv
<1>4. r.sub \in spent /\ r.level \in Int BY <1>1, <1>2, <1>3 DEF RunOK, HandInv
<1>5. PICK s \in Sub : s = r.sub BY <1>1, <1>4 DEF World
<1>6. PICK q, ok : /\ run' = [run EXCEPT ![i] = q]
                   /\ Stays(q, r) /\ q.pc = "tickets" /\ q.delivered = (ok # {})
                   /\ IF ok # {} THEN Reaches(i) ELSE UNCHANGED history
  BY <1>1, <1>2, <1>3, SendFields DEF RunOK
<1>7. told[s].level \in Int BY <1>1 DEF HistoryTypes
<1>8. CASE ok = {}
  <2>1. UNCHANGED told BY <1>6, <1>8 DEF history
  <2>2. ASSUME Snapshot(run[i]), InHand(run[i]) PROVE Snapshot(q) /\ InHand(q)
    BY <1>1, <1>2, <1>6, <1>8, <2>2 DEF Stays, Snapshot, InHand
  <2>3. q.sub = run[i].sub /\ run[i].pc # "tickets" /\ run[i].pc # "idle"
    BY <1>1, <1>2, <1>6 DEF Stays
  <2>4. QED BY <1>1, <1>6, <2>1, <2>2, <2>3, StayOnce
<1>9. CASE ok # {}
  <2>1. Reaches(i) BY <1>6, <1>9
  <2>2. PICK level \in Int : level = r.level BY <1>4
  <2>3. /\ \A x \in Sub \ {s} : told'[x] = told[x]
        /\ told'[s] = told[s] \/ told'[s] = [level |-> level, age |-> 0]
    BY <1>1, <1>2, <1>5, <2>1, <2>2, SentFacts
  <2>4. HistoryInv' BY <1>1, <1>2, <1>5, <2>1, <2>2, SentHistory
  <2>5. ASSUME faults = 0
        PROVE  /\ lockHolder = i /\ Snapshot(r) /\ InHand(r)
               /\ \A j \in Instance \ {i} : run[j].pc = "idle"
               /\ \A x \in Sub : subs[x] # None => Known(x, subs[x])
    BY <1>1, <1>2, <2>5, Alone
  <2>6. ASSUME faults = 0, NEW x \in Sub, subs'[x] # None
        PROVE  Known(x, subs[x])' \/ (q.pc = "tickets" /\ q.delivered /\ q.sub = x)
    <3>1. CASE x = s BY <1>5, <1>6, <1>9, <3>1 DEF Stays
    <3>2. CASE x # s BY <1>1, <2>3, <2>5, <2>6, <3>2 DEF Known, Fresh
    <3>3. QED BY <3>1, <3>2
  <2>7. ASSUME faults = 0 PROVE Snapshot(q)' /\ InHand(q)'
    <3>1. q.todo = r.todo /\ q.sub = s /\ q.level = level /\ r.todo[s] = None
      BY <1>1, <1>2, <1>5, <1>6, <2>2, <2>5, <2>7 DEF Stays, InHand
    <3>2. ASSUME NEW x \in Sub, q.todo[x] # None PROVE Known(x, q.todo[x])' /\ Same(x, q.todo[x])'
      <4>1. x # s /\ Known(x, r.todo[x]) /\ Same(x, r.todo[x])
        BY <2>5, <2>7, <3>1, <3>2 DEF Snapshot
      <4>2. QED BY <1>1, <2>3, <3>1, <4>1 DEF Known, Same, Fresh
    <3>3. Fresh(s)' => told'[s].level <= level
      <4>1. Fresh(s) => told[s].level < level
        BY <1>1, <1>2, <1>5, <2>2, <2>5, <2>7 DEF InHand
      <4>2. QED BY <1>7, <2>3, <4>1 DEF Fresh
    <3>4. InHand(q)' BY <1>6, <3>1, <3>3 DEF InHand
    <3>5. QED BY <3>2, <3>4 DEF Snapshot
  <2>8. QED BY <1>1, <1>6, <2>4, <2>5, <2>6, <2>7, StepOnce
<1>10. QED BY <1>8, <1>9

LEMMA SendFailsOnce ==
  ASSUME Inv, OnceInv, NEW i \in Instance, SendFails(i) PROVE OnceInv'
<1>1. /\ UNCHANGED <<subs, spent, lockHolder>> /\ run[i].pc = "send" /\ Continue(i)
      /\ World /\ HistoryTypes /\ HistoryInv /\ RunOK(run[i])
  BY DEF SendFails, users, Inv, OnceInv, HistoryInv
<1>2. CASE UNCHANGED <<history, faults>>
  <2>1. UNCHANGED <<told, faults>> BY <1>2 DEF history
  <2>2. PICK q : /\ run' = [run EXCEPT ![i] = q] /\ q.pc = "next" /\ ~q.delivered
                 /\ \A x \in Sub : q.todo[x] \in {None, run[i].todo[x]}
    BY <1>1, ContinueFields
  <2>3. QED BY <1>1, <2>1, <2>2, RestOnce
<1>3. CASE faults' = faults + 1 /\ Reaches(i)
  <2>1. run[i].sub \in Sub /\ run[i].level \in Int BY <1>1 DEF RunOK, HandInv, World
  <2>2. PICK s \in Sub, level \in Int : run[i].sub = s /\ run[i].level = level BY <2>1
  <2>3. faults' \in Nat /\ faults' # 0 BY <1>1, <1>3 DEF HistoryTypes
  <2>4. HistoryInv' BY <1>1, <1>3, <2>2, <2>3, SentHistory
  <2>5. QED BY <2>3, <2>4, FaultyOnce
<1>4. QED BY <1>2, <1>3 DEF SendFails

LEMMA FaultOnce ==
  ASSUME Inv, OnceInv, Fault, UNCHANGED <<told, spent>> PROVE OnceInv'
<1>1. HistoryInv /\ faults' \in Nat /\ faults' # 0
  BY DEF OnceInv, HistoryInv, HistoryTypes, Fault
<1>2. QED BY <1>1, HistoryStays, FaultyOnce

LEMMA NextOnce == Inv /\ OnceInv /\ [Next]_vars => OnceInv'
<1> SUFFICES ASSUME Inv, OnceInv, [Next]_vars PROVE OnceInv' OBVIOUS
<1>1. CASE UNCHANGED vars
  <2>1. UNCHANGED <<subs, spent, told, run, lockHolder, faults>>
    BY <1>1 DEF vars, users, notifier, history
  <2>2. QED BY <2>1, TokenOnce
<1>2. CASE Tick BY <1>2, TickOnce
<1>3. CASE User
  <2>1. CASE \E s \in Sub : CreateSubscription(s) \/ UpdateSubscription(s) \/ DeleteSubscription(s)
    BY <2>1, SubscriptionOnce
  <2>2. CASE \E d \in Device : RegisterPushToken(d) \/ UnregisterPushToken(d)
    <3>1. UNCHANGED <<subs, spent, told, run, lockHolder, faults>>
      BY <2>2 DEF RegisterPushToken, UnregisterPushToken, notifier, history
    <3>2. QED BY <3>1, TokenOnce
  <2>3. CASE \E a \in Account : DeleteAccount(a) BY <2>3, DeleteAccountOnce
  <2>4. QED BY <1>3, <2>1, <2>2, <2>3 DEF User
<1>4. ASSUME NEW i \in Instance, RunStep(i) PROVE OnceInv'
  BY <1>4, SkipOnce, ConsiderOnce, LowerOnce, ReadOnce, SendOnce, SendFailsOnce, ClearOnce,
     RecordOnce, FinishOnce DEF RunStep
<1>5. ASSUME NEW i \in Instance, StatementFails(i) \/ Crash(i) \/ LoseSession(i) PROVE OnceInv'
  <2>1. Fault /\ UNCHANGED <<told, spent>>
    BY <1>5 DEF StatementFails, Crash, LoseSession, users, history
  <2>2. QED BY <2>1, FaultOnce
<1>6. QED BY <1>1, <1>2, <1>3, <1>4, <1>5, BeginOnce DEF Next

(* Each alert goes out once: whatever users do meanwhile, no device is told *)
(* again within renotifyAfter of a level that the subscriber was told of,   *)
(* unless a crash, a failed write, a lost answer or a lost lock came first   *)
(* (notifier.go, runOnce under its advisory lock, decide and notify).       *)
THEOREM EachAlertOnce == Spec => NeverTwiceWithoutFault
<1> DEFINE Once == \A i \in Instance :
                     run[i].pc = "send" /\ run'[i].delivered /\ Again(i) => faults > 0
<1>1. Init => OnceInv BY OnceInit
<1>2. Inv /\ OnceInv /\ [Next]_vars => OnceInv' BY NextOnce
<1>3. Inv /\ OnceInv => Once
  <2> SUFFICES ASSUME Inv, OnceInv, NEW i \in Instance, run[i].pc = "send", Again(i), ~(faults > 0)
               PROVE  FALSE
    OBVIOUS
  <2>1. HistoryTypes /\ World /\ RunOK(run[i]) BY DEF OnceInv, HistoryInv, Inv
  <2>2. faults = 0 BY <2>1 DEF HistoryTypes
  <2>3. run[i].sub \in Sub /\ run[i].level \in Int BY <2>1 DEF RunOK, HandInv, World
  <2>4. PICK s \in Sub : s = run[i].sub BY <2>3
  <2>5. told[s].level \in Int BY <2>1 DEF HistoryTypes
  <2>6. Fresh(s) /\ told[s].level >= run[i].level BY <2>4 DEF Again, Fresh
  <2>7. InHand(run[i]) BY <2>2, Alone
  <2>8. told[s].level < run[i].level BY <2>4, <2>6, <2>7 DEF InHand
  <2>9. QED BY <2>3, <2>5, <2>6, <2>8
<1>4. Once => [Once]_vars OBVIOUS
<1>5. QED BY <1>1, <1>2, <1>3, <1>4, NotifierInvariant, PTL DEF Spec, NeverTwiceWithoutFault
=============================================================================
