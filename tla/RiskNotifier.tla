---------------------------- MODULE RiskNotifier ----------------------------
(***************************************************************************)
(* Push alerts for subscribed locations: the notifier's runs               *)
(* (workers/notifier.go) against users who change their subscriptions      *)
(* (handlers/subscriptions.go) and push tokens (handlers/devices.go).      *)
(*                                                                         *)
(* A run works on the rows it loaded when it began; each of its later      *)
(* statements goes over the connection pool, so that it goes on after the  *)
(* session with its advisory lock is lost.                                 *)
(***************************************************************************)
EXTENDS Integers, FiniteSets

CONSTANTS
    Account, Device, Token, Sub, None,
    Owner,             \* the account of each device and subscription
    Place,
    Setting,           \* what users ask for: place, threshold, quiet hours
    Forecast,          \* levels that assessments find
    Instance,          \* backend instances, each with a Notifier
    DayLength,         \* hours of a day
    RenotifyAfter,     \* renotifyAfter, in hours
    MaxSubscriptions,  \* maxSubscriptionsPerAccount
    MaxFaults          \* bound of the model: crashes, lost sessions, writes and answers

(* services.LevelRank; the rank of "" and of an unknown level is below Normal. *)
Level == 0 .. 3
Emergency == 3
NeverNotified == -1

ASSUME DomainAssumption ==
    /\ None \notin Token \cup Sub \cup Instance \cup Level
    /\ Owner \in [Device \cup Sub -> Account]
    /\ Forecast \subseteq Level

ASSUME BoundAssumption ==
    /\ {MaxSubscriptions, MaxFaults} \subseteq Nat
    /\ {DayLength, RenotifyAfter} \subseteq Nat \ {0}

Hour == 0 .. DayLength - 1

(* subscriptionInput.validate, and QuietHours.Validate: start and end differ. *)
Window == {w \in [start : Hour, end : Hour] : w.start # w.end}
ASSUME SettingAssumption ==
    Setting \subseteq [place : Place, min : Level \ {0}, quiet : Window \cup {None},
                       emergencies : BOOLEAN]

VARIABLES
    hour,        \* of the day
    subs,        \* location_subscriptions
    spent,       \* ids of subscriptions that were ever created
    token,       \* push_token of each device, which it only has with consent
    closed,      \* deleted accounts
    run,         \* the run of each instance's Notifier
    lockHolder,  \* who holds the advisory lock 7311002
    faults,
    told,        \* history: the last alert since a calmer assessment or other settings
    strongest    \* history: the highest level a device was alerted to

users == <<subs, spent, token, closed>>
notifier == <<run, lockHolder, faults>>
history == <<told, strongest>>
vars == <<hour, users, notifier, history>>

(* A row; age is the time since last_notified_at, RenotifyAfter standing   *)
(* for all that is longer and for NULL, which Go reads as the year 1.      *)
Row == [setting : Setting, last : Level \cup {NeverNotified}, age : 0 .. RenotifyAfter]

(* An alert once sent, and the time since. *)
Alert == [level : Level \cup {NeverNotified}, age : 0 .. RenotifyAfter]
NoAlert == [level |-> NeverNotified, age |-> RenotifyAfter]

(* A run: its fixed now, the rows not looked at yet, the assessments made, *)
(* and the subscription at hand.                                           *)
Run == [pc : {"idle", "next", "lower", "reset", "devices", "send", "tickets"},
        now : Hour, todo : [Sub -> Row \cup {None}],
        assessments : [Place -> Level \cup {None}],
        sub : Sub \cup {None}, setting : Setting \cup {None}, level : Level,
        messages : SUBSET Device, gone : SUBSET Device, delivered : BOOLEAN]
IdleRun == [pc |-> "idle", now |-> 0, todo |-> [s \in Sub |-> None],
            assessments |-> [p \in Place |-> None], sub |-> None, setting |-> None,
            level |-> 0, messages |-> {}, gone |-> {}, delivered |-> FALSE]

(* A token is at one device at most, and a deleted account has nothing left. *)
TypeOK ==
    /\ hour \in Hour
    /\ subs \in [Sub -> Row \cup {None}] /\ spent \subseteq Sub
    /\ token \in [Device -> Token \cup {None}] /\ closed \subseteq Account
    /\ run \in [Instance -> Run] /\ lockHolder \in Instance \cup {None}
    /\ faults \in 0 .. MaxFaults
    /\ told \in [Sub -> Alert] /\ strongest \in [Sub -> Level \cup {NeverNotified}]
    /\ \A d, e \in Device : token[d] = token[e] /\ token[d] # None => d = e
    /\ \A d \in Device : Owner[d] \in closed => token[d] = None
    /\ \A s \in Sub : Owner[s] \in closed \/ s \notin spent => subs[s] = None

Init ==
    /\ hour \in Hour
    /\ subs = [s \in Sub |-> None] /\ spent = {}
    /\ token = [d \in Device |-> None] /\ closed = {}
    /\ run = [i \in Instance |-> IdleRun] /\ lockHolder = None /\ faults = 0
    /\ told = [s \in Sub |-> NoAlert]
    /\ strongest = [s \in Sub |-> NeverNotified]

-----------------------------------------------------------------------------
Older(age) == IF age < RenotifyAfter THEN age + 1 ELSE age

Tick ==
    /\ hour' = (hour + 1) % DayLength
    /\ subs' = [s \in Sub |-> IF subs[s] = None THEN None
                              ELSE [subs[s] EXCEPT !.age = Older(@)]]
    /\ told' = [s \in Sub |-> [told[s] EXCEPT !.age = Older(@)]]
    /\ UNCHANGED <<spent, token, closed, notifier, strongest>>

-----------------------------------------------------------------------------
(* Requests of an account that was deleted after they were authenticated   *)
(* find no row.                                                            *)
Exists(a) == a \notin closed

SubsOf(a) == {s \in Sub : Owner[s] = a /\ subs[s] # None}

(* An account may be over its limit only by what concurrent INSERTs add,   *)
(* which count alike; here each counts what is stored.                     *)
CreateSubscription(s) ==
    /\ s \notin spent /\ Exists(Owner[s])
    /\ Cardinality(SubsOf(Owner[s])) < MaxSubscriptions
    /\ \E w \in Setting :
          subs' = [subs EXCEPT ![s] =
              [setting |-> w, last |-> NeverNotified, age |-> RenotifyAfter]]
    /\ spent' = spent \cup {s}
    /\ UNCHANGED <<hour, token, closed, notifier, history>>

(* Another place or threshold starts alerting fresh. *)
UpdateSubscription(s) ==
    /\ subs[s] # None
    /\ \E w \in Setting :
          LET kept == w.place = subs[s].setting.place /\ w.min = subs[s].setting.min
          IN  /\ subs' = [subs EXCEPT ![s] =
                     [setting |-> w,
                      last |-> IF kept THEN subs[s].last ELSE NeverNotified,
                      age |-> IF kept THEN subs[s].age ELSE RenotifyAfter]]
              /\ told' = [told EXCEPT ![s] = IF kept THEN @ ELSE NoAlert]
    /\ UNCHANGED <<hour, spent, token, closed, notifier, strongest>>

(* Nobody asks about the history of what is gone. *)
Forget(gone) ==
    /\ told' = [s \in Sub |-> IF s \in gone THEN NoAlert ELSE told[s]]
    /\ strongest' = [s \in Sub |-> IF s \in gone THEN NeverNotified ELSE strongest[s]]

DeleteSubscription(s) ==
    /\ subs[s] # None
    /\ subs' = [subs EXCEPT ![s] = None]
    /\ Forget({s})
    /\ UNCHANGED <<hour, spent, token, closed, notifier>>

(* RegisterPushToken: a reinstall hands a token to another device. *)
Registered(d, t) ==
    [e \in Device |-> IF e = d THEN t ELSE IF token[e] = t THEN None ELSE token[e]]

RegisterPushToken(d) ==
    /\ Exists(Owner[d])
    /\ \E t \in Token : token' = Registered(d, t)
    /\ UNCHANGED <<hour, subs, spent, closed, notifier, history>>

(* Logout does the same. *)
UnregisterPushToken(d) ==
    /\ token[d] # None
    /\ token' = [token EXCEPT ![d] = None]
    /\ UNCHANGED <<hour, subs, spent, closed, notifier, history>>

(* DeleteAccount: devices and subscriptions go with their account. *)
DeleteAccount(a) ==
    /\ Exists(a)
    /\ closed' = closed \cup {a}
    /\ subs' = [s \in Sub |-> IF Owner[s] = a THEN None ELSE subs[s]]
    /\ token' = [d \in Device |-> IF Owner[d] = a THEN None ELSE token[d]]
    /\ Forget({s \in Sub : Owner[s] = a})
    /\ UNCHANGED <<hour, spent, notifier>>

-----------------------------------------------------------------------------
(* The notifier.  The mutant of the lock is a run that does not mind it.   *)
BugLockIsFree == TRUE
LockIsFree == lockHolder = None

Reachable(a) == {d \in Device : Owner[d] = a /\ token[d] # None}

(* The lock, loadSubscriptions and now.  A run that does not get the lock, *)
(* or fails to load, changes nothing.                                      *)
BeginRun(i) ==
    /\ run[i].pc = "idle"
    /\ LockIsFree
    /\ lockHolder' = i
    /\ run' = [run EXCEPT ![i] =
          [IdleRun EXCEPT !.pc = "next", !.now = hour,
               !.todo = [s \in Sub |-> IF Reachable(Owner[s]) = {} THEN None ELSE subs[s]]]]
    /\ UNCHANGED <<hour, users, faults, history>>

(* QuietHours.Contains.  The mutant forgets windows that wrap midnight.    *)
BugContains(w, h) == w.start <= h /\ h < w.end
Contains(w, h) == IF w.start < w.end THEN w.start <= h /\ h < w.end
                                     ELSE w.start <= h \/ h < w.end

HeldBack(setting, level, now) ==
    /\ setting.quiet # None /\ Contains(setting.quiet, now)
    /\ ~(level = Emergency /\ setting.emergencies)

(* decide.  The mutant never repeats an unchanged level. *)
BugDue(row, level) == row.last = NeverNotified \/ level > row.last
Due(row, level) ==
    row.last = NeverNotified \/ level > row.last \/ row.age >= RenotifyAfter

Decision(row, level, now) ==
    CASE level < row.setting.min /\ row.last # NeverNotified -> "reset"
      [] level < row.setting.min /\ row.last = NeverNotified -> "next"
      [] level >= row.setting.min /\ Due(row, level) ->
             IF HeldBack(row.setting, level, now) THEN "next" ELSE "devices"
      [] level >= row.setting.min /\ ~Due(row, level) ->
             IF level < row.last THEN "lower" ELSE "next"

(* On to the next subscription.  Nothing else is left of a run at its end. *)
Left(r) == {s \in Sub : r.todo[s] # None}
Onward(r) ==
    IF Left(r) = {} THEN [IdleRun EXCEPT !.pc = "next"]
    ELSE [IdleRun EXCEPT !.pc = "next", !.now = r.now, !.todo = r.todo,
                         !.assessments = r.assessments]
Continue(i) == run' = [run EXCEPT ![i] = Onward(@)]

Pending(i, s) == run[i].pc = "next" /\ run[i].todo[s] # None

(* History: a calmer assessment makes the next alert of a level a new one. *)
Calmer(s, row, level) ==
    IF level >= told[s].level THEN told[s]
    ELSE IF level < row.setting.min THEN NoAlert ELSE [told[s] EXCEPT !.level = level]

(* A place is assessed once in a run, by live data; subscriptions nearby   *)
(* share the assessment.                                                   *)
Consider(i, s, level) ==
    /\ Pending(i, s)
    /\ LET row == run[i].todo[s]
           place == row.setting.place
           seen == [run[i] EXCEPT !.todo[s] = None, !.assessments[place] = level]
           next == Decision(row, level, run[i].now)
       IN  /\ run[i].assessments[place] \in {None, level}
           /\ run' = [run EXCEPT ![i] = IF next = "next" THEN Onward(seen) ELSE
                  [seen EXCEPT !.pc = next, !.sub = s, !.setting = row.setting,
                               !.level = level]]
           /\ told' = [told EXCEPT ![s] = Calmer(s, row, level)]
    /\ UNCHANGED <<hour, users, lockHolder, faults, strongest>>

(* The assessment fails or is made of stale weather: not in this run. *)
SkipUnassessed(i, s) ==
    /\ Pending(i, s)
    /\ run[i].assessments[run[i].todo[s].setting.place] = None
    /\ run' = [run EXCEPT ![i] = Onward([@ EXCEPT !.todo[s] = None])]
    /\ UNCHANGED <<hour, users, lockHolder, faults, history>>

(* What setLastNotified and the reset write, to whatever the row is now.   *)
Write(s, last, age) ==
    subs' = [subs EXCEPT ![s] = IF @ = None THEN None ELSE [@ EXCEPT !.last = last, !.age = age]]
AgeOf(s) == IF subs[s] = None THEN RenotifyAfter ELSE subs[s].age

LowerLevel(i) ==
    /\ run[i].pc = "lower"
    /\ Write(run[i].sub, run[i].level, AgeOf(run[i].sub))
    /\ Continue(i)
    /\ UNCHANGED <<hour, spent, token, closed, lockHolder, faults, history>>

ResetLevel(i) ==
    /\ run[i].pc = "reset"
    /\ Write(run[i].sub, NeverNotified, RenotifyAfter)
    /\ Continue(i)
    /\ UNCHANGED <<hour, spent, token, closed, lockHolder, faults, history>>

(* notify: the devices as they are now, *)
ReadDevices(i) ==
    /\ run[i].pc = "devices"
    /\ LET to == Reachable(Owner[run[i].sub])
       IN  IF to = {} THEN Continue(i)
           ELSE run' = [run EXCEPT ![i].pc = "send", ![i].messages = to]
    /\ UNCHANGED <<hour, users, lockHolder, faults, history>>

(* History of a message that reached a device. *)
Reaches(i) ==
    LET s == run[i].sub
        l == run[i].level
    IN  IF subs[s] = None THEN UNCHANGED history ELSE
            /\ told' = [told EXCEPT ![s] = [level |-> l, age |-> 0]]
            /\ strongest' = [strongest EXCEPT ![s] = IF @ < l THEN l ELSE @]

(* the push service, whose tickets say ok, device gone or another error;   *)
(* the mutant takes any ticket for a delivery.                             *)
BugDelivered(ok) == TRUE
Delivered(ok) == ok # {}

Send(i) ==
    /\ run[i].pc = "send"
    /\ \E ok, gone \in SUBSET run[i].messages :
          /\ ok \cap gone = {}
          /\ run' = [run EXCEPT ![i].pc = "tickets", ![i].messages = {},
                 ![i].gone = gone, ![i].delivered = Delivered(ok)]
          /\ IF ok # {} THEN Reaches(i) ELSE UNCHANGED history
    /\ UNCHANGED <<hour, users, lockHolder, faults>>

(* no usable answer, perhaps after the messages went out, *)
SendFails(i) ==
    /\ run[i].pc = "send"
    /\ Continue(i)
    /\ \/ UNCHANGED <<history, faults>>
       \/ faults < MaxFaults /\ faults' = faults + 1 /\ Reaches(i)
    /\ UNCHANGED <<hour, users, lockHolder>>

(* the tokens of devices that are gone, by the id of the device whatever   *)
(* its token is by now (the statement may fail, and is only logged),       *)
ClearToken(i, d) ==
    /\ run[i].pc = "tickets" /\ d \in run[i].gone
    /\ run' = [run EXCEPT ![i].gone = @ \ {d}]
    /\ \E t \in {None, token[d]} : token' = [token EXCEPT ![d] = t]
    /\ UNCHANGED <<hour, subs, spent, closed, lockHolder, faults, history>>

(* and what was delivered. *)
RecordNotified(i) ==
    /\ run[i].pc = "tickets" /\ run[i].gone = {}
    /\ IF run[i].delivered THEN Write(run[i].sub, run[i].level, 0) ELSE UNCHANGED subs
    /\ Continue(i)
    /\ UNCHANGED <<hour, spent, token, closed, lockHolder, faults, history>>

Unlock(i) == lockHolder' = IF lockHolder = i THEN None ELSE lockHolder

FinishRun(i) ==
    /\ run[i].pc = "next" /\ Left(run[i]) = {}
    /\ run' = [run EXCEPT ![i] = IdleRun]
    /\ Unlock(i)
    /\ UNCHANGED <<hour, users, faults, history>>

-----------------------------------------------------------------------------
(* Faults: a statement that fails is only logged; the process ends or is   *)
(* told to; the session with the lock is lost.                             *)
Fault == faults < MaxFaults /\ faults' = faults + 1

StatementFails(i) ==
    /\ Fault
    /\ \/ run[i].pc \in {"lower", "reset", "devices"}
       \/ run[i].pc = "tickets" /\ run[i].gone = {} /\ run[i].delivered
    /\ Continue(i)
    /\ UNCHANGED <<hour, users, lockHolder, history>>

Crash(i) ==
    /\ Fault
    /\ run[i].pc # "idle"
    /\ run' = [run EXCEPT ![i] = IdleRun]
    /\ Unlock(i)
    /\ UNCHANGED <<hour, users, history>>

LoseSession(i) ==
    /\ Fault
    /\ lockHolder = i
    /\ lockHolder' = None
    /\ UNCHANGED <<hour, users, run, history>>

-----------------------------------------------------------------------------
User ==
    \/ \E s \in Sub : CreateSubscription(s) \/ UpdateSubscription(s) \/ DeleteSubscription(s)
    \/ \E d \in Device : RegisterPushToken(d) \/ UnregisterPushToken(d)
    \/ \E a \in Account : DeleteAccount(a)

RunStep(i) ==
    \/ \E s \in Sub : SkipUnassessed(i, s) \/ \E l \in Forecast : Consider(i, s, l)
    \/ LowerLevel(i) \/ ResetLevel(i) \/ ReadDevices(i) \/ Send(i) \/ SendFails(i)
    \/ \E d \in Device : ClearToken(i, d)
    \/ RecordNotified(i) \/ FinishRun(i)

Next ==
    \/ Tick \/ User
    \/ \E i \in Instance : BeginRun(i) \/ RunStep(i) \/ StatementFails(i) \/ Crash(i) \/ LoseSession(i)

Spec == Init /\ [][Next]_vars

(* A ticker starts runs, and a run goes on.  Of the outside world it is    *)
(* assumed that a due alert does not fail every time for want of live      *)
(* weather, nor every push at the push service.                            *)
Fairness ==
    /\ WF_vars(Tick)
    /\ \A i \in Instance : WF_vars(BeginRun(i)) /\ WF_vars(RunStep(i))
    /\ \A s \in Sub :
          SF_vars(\E i \in Instance, l \in Forecast :
                      Consider(i, s, l) /\ run'[i].pc = "devices")
    /\ SF_vars(\E i \in Instance : Send(i) /\ run'[i].delivered)

FairSpec == Spec /\ Fairness

-----------------------------------------------------------------------------
(* Each alert goes out once: within RenotifyAfter, an alert of a level     *)
(* that the user has been told of, with no calmer assessment and no change *)
(* of the subscription since, is the price of a fault (a crash or a failed *)
(* write between push and record, a lost answer, a lost lock).             *)
Again(i) ==
    /\ told[run[i].sub].level >= run[i].level
    /\ told[run[i].sub].age < RenotifyAfter

NeverTwiceWithoutFault ==
    [][\A i \in Instance :
          run[i].pc = "send" /\ run'[i].delivered /\ Again(i) => faults > 0]_vars

(* Silence is earned: a level that last_notified_level keeps from being    *)
(* alerted to for now was told to some device of the subscriber.           *)
SilenceEarned ==
    \A s \in Sub : subs[s] # None /\ subs[s].age < RenotifyAfter =>
        subs[s].last <= strongest[s]

(* The hours from start to end, round the clock. *)
QuietHours(w) == {(w.start + k) % DayLength : k \in 0 .. ((w.end - w.start) % DayLength) - 1}

(* No alert is under way in quiet hours unless the user wants emergencies  *)
(* even then, his settings have changed or the hour has come since the run *)
(* began (which fixes its now).                                            *)
QuietHoursKept ==
    \A i \in Instance :
        LET w == run[i].setting
        IN  (/\ run[i].pc \in {"devices", "send"}
             /\ run[i].now = hour
             /\ subs[run[i].sub] # None /\ subs[run[i].sub].setting = w
             /\ w.quiet # None /\ hour \in QuietHours(w.quiet))
            => run[i].level = Emergency /\ w.emergencies

(* A lasting risk is alerted to again and again: whoever can be reached,   *)
(* and whose place is no more assessed below the threshold, is told of it  *)
(* after any faults, and last after RenotifyAfter, provided that runs find *)
(* the subscription outside its quiet hours again and again.               *)
Listening(s) == subs[s] # None /\ Reachable(Owner[s]) # {}

CalmAssessment(s) ==
    \E i \in Instance, l \in Forecast :
        Consider(i, s, l) /\ l < run[i].todo[s].setting.min

LoudRun(s) ==
    \E i \in Instance : /\ Pending(i, s)
                        /\ ~HeldBack(run[i].todo[s].setting, 0, run[i].now)

Alerted(s) ==
    \E i \in Instance : run[i].pc = "tickets" /\ run[i].delivered /\ run[i].sub = s

EventuallyAlerted ==
    \A s \in Sub :
        <>[]Listening(s) /\ <>[][~CalmAssessment(s)]_vars /\ []<>LoudRun(s)
            => []<>Alerted(s)

=============================================================================
