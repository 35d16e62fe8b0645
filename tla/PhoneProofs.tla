------------------------------ MODULE PhoneProofs ------------------------------
(***************************************************************************)
(* What a phone may rely on: AuthTokens keeps its tokens in order for any   *)
(* number of devices, token pairs and concurrent requests, and OfflineQueue  *)
(* keeps its reports, whatever they are and however often anything fails.    *)
(***************************************************************************)
EXTENDS AuthTokens, OfflineQueue, FiniteSetTheorems, SequenceTheorems, TLAPS

(* Part one: the tokens of a device on the server.                          *)

(* The part of the types that the arguments need; the owner of a row is     *)
(* known, and so is the device of a request that holds a token.             *)
Types ==
  /\ devices \subseteq Device
  /\ owner \in [Pair -> Device \cup {None}]
  /\ parent \in [Pair -> Pair \cup {None}]
  /\ rows \subseteq Issued \X Kind
  /\ revoked \subseteq Token /\ expired \subseteq Token /\ condemned \subseteq Issued \X Kind
  /\ push \subseteq devices
  /\ request \in [Request -> RequestState]
  /\ \A t \in rows : owner[t[1]] \in devices

(* Refresh requests hold the row of the token they presented: until the end *)
(* of its transaction nobody else presents, revokes or deletes it.          *)
Holds(q, p) == request[q].op = "refresh" /\ request[q].pc \in {"rotate", "scan", "revoke"} /\ request[q].pair = p

RefreshInv ==
  /\ \A q \in Request : request[q].pc = "rotate" =>
       /\ request[q].op = "refresh" /\ request[q].pair \in Issued
       /\ Live(<<request[q].pair, "refresh">>)
       /\ request[q].device = owner[request[q].pair]
  /\ \A q \in Request : request[q].op # "refresh" => request[q].pair = None
  /\ \A q, u \in Request : \A p \in Pair : Holds(q, p) /\ Holds(u, p) => q = u

(* A token is revoked when it is rotated, and each device has one that is   *)
(* not.                                                                     *)
ChainInv ==
  /\ \A p \in Issued : parent[p] # None => <<parent[p], "refresh">> \in revoked /\ parent[p] \in Issued
  /\ \A p, x \in Issued : parent[p] # None /\ parent[p] = parent[x] => p = x
  /\ \A p, x \in Issued : /\ owner[p] = owner[x]
                          /\ Live(<<p, "refresh">>) /\ Live(<<x, "refresh">>)
                          => p = x

(* What a revocation is to reach and has not reached yet.                   *)
RevokeInv ==
  /\ \A q \in Request :
       /\ request[q].known \subseteq Issued \X Kind
       /\ \A t \in request[q].known : owner[t[1]] = request[q].device
       /\ request[q].pc = "revoke" => \A t \in request[q].known : Live(t) => t \in request[q].scan
  /\ RevocationComplete

Inv == Types /\ RefreshInv /\ ChainInv /\ RevokeInv

-----------------------------------------------------------------------------
LEMMA IdleType ==
  /\ Idle \in RequestState /\ Idle.pc = "idle" /\ Idle.op = "other" /\ Idle.pair = None
  /\ Idle.known = {}
BY DEF Idle, RequestState

(* The request that ends leaves the others as they were.                    *)
LEMMA EndRequest ==
  ASSUME Types, NEW q \in Request, End(q)
  PROVE  /\ request' \in [Request -> RequestState]
         /\ \A u \in Request : request'[u] = IF u = q THEN Idle ELSE request[u]
BY IdleType DEF End, Types

(* A token of a refresh that is to be rotated is held.                      *)
LEMMA RotatingIsLocked ==
  ASSUME Types, RefreshInv, NEW q \in Request, request[q].pc = "rotate"
  PROVE  Locked(<<request[q].pair, "refresh">>)
BY DEF Locked, RefreshInv

LEMMA InitInv == Init => Inv
<1> SUFFICES ASSUME Init PROVE Inv OBVIOUS
<1>1. Types BY IdleType, NoneAssumption DEF Init, Types, Issued
<1>2. RefreshInv BY IdleType DEF Init, RefreshInv, Holds
<1>3. ChainInv BY NoneAssumption DEF Init, ChainInv, Issued
<1>4. RevokeInv BY IdleType DEF Init, RevokeInv, RevocationComplete
<1>5. QED BY <1>1, <1>2, <1>3, <1>4 DEF Inv

-----------------------------------------------------------------------------
(* Steps that issue a pair: only the new pair becomes live, and nothing     *)
(* that was revoked or deleted comes back.                                  *)

LEMMA IssueFacts ==
  ASSUME Types, NEW p \in Pair, NEW d \in Device, NEW from \in Pair \cup {None}, Issue(p, d, from)
  PROVE  /\ p \notin Issued /\ Issued' = Issued \cup {p}
         /\ owner' \in [Pair -> Device \cup {None}] /\ parent' \in [Pair -> Pair \cup {None}]
         /\ owner'[p] = d /\ parent'[p] = from
         /\ \A x \in Issued : owner'[x] = owner[x] /\ parent'[x] = parent[x]
BY NoneAssumption DEF Issue, Issued, Types

LEMMA RegisterKeeps ==
  ASSUME Inv, NEW d \in Device, NEW p \in Pair, RegisterDevice(d, p)
  PROVE  Inv'
<1>1. /\ p \notin Issued /\ Issued' = Issued \cup {p}
      /\ owner' \in [Pair -> Device \cup {None}] /\ parent' \in [Pair -> Pair \cup {None}]
      /\ owner'[p] = d /\ parent'[p] = None
      /\ \A x \in Issued : owner'[x] = owner[x] /\ parent'[x] = parent[x]
  BY IssueFacts DEF RegisterDevice, Inv
<1>2. /\ devices' = devices \cup {d} /\ rows' = rows \cup {<<p, "access">>, <<p, "refresh">>}
      /\ UNCHANGED <<revoked, expired, push, request, condemned>>
      /\ \A x \in Issued : owner[x] # d
  BY DEF RegisterDevice
<1>3. \A t \in Issued \X Kind : t[1] \in Issued /\ t[1] # p /\ (Live(t)' <=> Live(t))
  BY <1>1, <1>2 DEF Live
<1>4. Types'
  BY <1>1, <1>2 DEF Types, Inv, Kind
<1>5. RefreshInv'
  <2>1. \A q \in Request : request[q].pc = "rotate" =>
          <<request[q].pair, "refresh">> \in Issued \X Kind
    BY DEF Inv, RefreshInv, Kind
  <2>2. QED BY <1>1, <1>2, <1>3, <2>1 DEF Inv, RefreshInv, Holds
<1>6. ChainInv'
  <2>1. \A x \in Issued : <<x, "refresh">> \in Issued \X Kind BY DEF Kind
  <2>2. QED BY <1>1, <1>2, <1>3, <2>1, NoneAssumption DEF Inv, ChainInv
<1>7. RevokeInv'
  BY <1>1, <1>2, <1>3 DEF Inv, RevokeInv, RevocationComplete, Types
<1>8. QED BY <1>4, <1>5, <1>6, <1>7 DEF Inv

LEMMA RotateKeeps ==
  ASSUME Inv, NEW q \in Request, NEW p \in Pair, Rotate(q, p)
  PROVE  Inv'
<1>0. PICK old \in Pair, d \in Device : old = request[q].pair /\ d = request[q].device /\ old \in Issued
  BY DEF Rotate, Inv, RefreshInv, Types, Issued
<1>1. /\ d \in devices /\ d = owner[old]
      /\ Live(<<old, "refresh">>) /\ request[q].op = "refresh" /\ request[q].pc = "rotate"
  BY <1>0 DEF Rotate, Inv, RefreshInv
<1>2. /\ p \notin Issued /\ Issued' = Issued \cup {p}
      /\ owner' \in [Pair -> Device \cup {None}] /\ parent' \in [Pair -> Pair \cup {None}]
      /\ owner'[p] = d /\ parent'[p] = old
      /\ \A x \in Issued : owner'[x] = owner[x] /\ parent'[x] = parent[x]
  BY <1>0, <1>1, IssueFacts DEF Rotate, Inv
<1>3. PICK stale \in SUBSET {t \in TokensOf(d) : t \in expired /\ ~Locked(t)} :
        rows' = (rows \ stale) \cup {<<p, "access">>, <<p, "refresh">>}
  BY <1>0 DEF Rotate
<1>4. /\ revoked' = revoked \cup {<<old, "refresh">>}
      /\ UNCHANGED <<devices, expired, push, condemned>>
  BY <1>0 DEF Rotate
<1>5. /\ request' \in [Request -> RequestState]
      /\ \A u \in Request : request'[u] = IF u = q THEN Idle ELSE request[u]
  BY EndRequest DEF Rotate, Inv
<1>6. \A t \in Issued \X Kind : t[1] \in Issued /\ t[1] # p /\ (Live(t)' => Live(t))
  BY <1>2, <1>3, <1>4 DEF Live
<1>7. Types'
  <2>1. rows' \subseteq Issued' \X Kind
    BY <1>2, <1>3 DEF Types, Inv, Kind
  <2>2. \A t \in rows' : owner'[t[1]] \in devices'
    <3> SUFFICES ASSUME NEW t \in rows' PROVE owner'[t[1]] \in devices'
      OBVIOUS
    <3>1. CASE t \in rows BY <3>1, <1>2, <1>4, <1>6 DEF Types, Inv
    <3>2. CASE t \in {<<p, "access">>, <<p, "refresh">>} BY <3>2, <1>1, <1>2, <1>4
    <3>3. QED BY <3>1, <3>2, <1>3
  <2>3. revoked' \subseteq Token BY <1>1, <1>4 DEF Types, Inv, Token, Kind
  <2>4. condemned' \subseteq Issued' \X Kind BY <1>2, <1>4 DEF Types, Inv
  <2>5. QED BY <1>2, <1>4, <1>5, <2>1, <2>2, <2>3, <2>4 DEF Types, Inv
<1>8. RefreshInv'
  <2>1. ASSUME NEW u \in Request, request'[u].pc = "rotate"
        PROVE  /\ request'[u].op = "refresh" /\ request'[u].pair \in Issued'
               /\ Live(<<request[u].pair, "refresh">>)'
               /\ request'[u].device = owner'[request'[u].pair]
    <3>1. u # q /\ request'[u] = request[u] BY <1>5, <2>1, IdleType
    <3>2. PICK x \in Issued : x = request[u].pair
      BY <2>1, <3>1 DEF Inv, RefreshInv
    <3>a. /\ request[u].pc = "rotate" /\ request[u].op = "refresh" /\ x \in Pair
          /\ Live(<<x, "refresh">>) /\ request[u].device = owner[x]
      BY <2>1, <3>1, <3>2 DEF Inv, RefreshInv, Issued
    <3>3. x # old
      BY <1>0, <1>1, <3>1, <3>2, <3>a DEF Inv, RefreshInv, Holds
    <3>4. <<x, "refresh">> \notin stale
      BY <1>3, <3>2, <3>a, RotatingIsLocked DEF Inv
    <3>5. Live(<<x, "refresh">>)'
      BY <1>3, <1>4, <3>a, <3>3, <3>4 DEF Live
    <3>6. QED BY <3>1, <3>2, <3>a, <3>5, <1>2
  <2>2. \A u, v \in Request : \A x \in Pair : Holds(u, x)' /\ Holds(v, x)' => u = v
    BY <1>5, IdleType DEF Holds, Inv, RefreshInv
  <2>3. \A u \in Request : request'[u].op # "refresh" => request'[u].pair = None
    BY <1>5, IdleType DEF Inv, RefreshInv
  <2>4. QED BY <2>1, <2>2, <2>3 DEF RefreshInv
<1>9. ChainInv'
  <2>0. \A x \in Issued : <<x, "refresh">> \in Issued \X Kind BY DEF Kind
  <2>1. \A x \in Issued : parent[x] # old
    <3>1. <<old, "refresh">> \notin revoked BY <1>1 DEF Live
    <3>2. old # None BY NoneAssumption
    <3>3. QED BY <3>1, <3>2 DEF Inv, ChainInv
  <2>2. \A x \in Issued' : parent'[x] # None => <<parent'[x], "refresh">> \in revoked' /\ parent'[x] \in Issued'
    BY <1>0, <1>2, <1>4 DEF Inv, ChainInv
  <2>3. \A x, y \in Issued' : parent'[x] # None /\ parent'[x] = parent'[y] => x = y
    BY <1>2, <2>1 DEF Inv, ChainInv
  <2>4. ~ Live(<<old, "refresh">>)' BY <1>4 DEF Live
  <2>5. \A x \in Issued : owner[x] = d => ~ Live(<<x, "refresh">>)'
    BY <1>0, <1>1, <1>6, <2>0, <2>4 DEF Inv, ChainInv
  <2>6. \A x, y \in Issued' : /\ owner'[x] = owner'[y]
                            /\ Live(<<x, "refresh">>)' /\ Live(<<y, "refresh">>)'
                            => x = y
    BY <1>2, <1>6, <2>0, <2>5 DEF Inv, ChainInv
  <2>7. QED BY <2>2, <2>3, <2>6 DEF ChainInv
<1>10. RevokeInv'
  <2>1. \A u \in Request : /\ request'[u].known \subseteq Issued \X Kind
                           /\ \A t \in request'[u].known : owner[t[1]] = request'[u].device
                           /\ request'[u].pc = "revoke" =>
                                \A t \in request'[u].known : Live(t) => t \in request'[u].scan
    BY <1>5, IdleType DEF Inv, RevokeInv
  <2>2. RevocationComplete'
    BY <1>4, <1>6 DEF Inv, RevokeInv, RevocationComplete, Types
  <2>3. QED BY <1>2, <1>6, <2>1, <2>2 DEF RevokeInv
<1>11. QED BY <1>7, <1>8, <1>9, <1>10 DEF Inv

-----------------------------------------------------------------------------
(* A request that begins knows what the device has.                         *)

RowsUnchanged == UNCHANGED <<devices, owner, parent, rows, revoked, expired, push, condemned>>

LEMMA AcceptedType ==
  ASSUME Types, NEW pc \in {"rotate", "scan", "push", "unpush", "delete"},
         NEW op \in {"refresh", "logout", "other"}, NEW pair \in Pair \cup {None}, NEW d \in Device
  PROVE  /\ Accepted(pc, op, pair, d) \in RequestState
         /\ TokensOf(d) \subseteq Issued \X Kind
<1>1. TokensOf(d) \subseteq Issued \X Kind BY DEF TokensOf, Types
<1>2. TokensOf(d) \subseteq Token BY <1>1 DEF Issued, Token
<1>3. QED BY <1>1, <1>2 DEF Accepted, RequestState

LEMMA PresentKeeps ==
  ASSUME Inv, NEW q \in Request, NEW p \in Pair, PresentRefresh(q, p)
  PROVE  Inv'
<1>1. PICK pc \in {"scan", "rotate"} :
        /\ request' = [request EXCEPT ![q] = Accepted(pc, "refresh", p, owner[p])]
        /\ pc = "rotate" => <<p, "refresh">> \notin revoked
  BY DEF PresentRefresh
<1>2. /\ <<p, "refresh">> \in rows /\ ~ Locked(<<p, "refresh">>) /\ RowsUnchanged
      /\ request[q] = Idle
  BY DEF PresentRefresh, RowsUnchanged
<1>3. /\ p \in Issued /\ owner[p] \in Device /\ owner[p] \in devices
  BY <1>2 DEF Inv, Types, Issued
<1> DEFINE new == Accepted(pc, "refresh", p, owner[p])
<1>4. /\ new.op = "refresh" /\ new.pair = p /\ new.device = owner[p] /\ new.known = TokensOf(owner[p])
      /\ new.pc = pc /\ new.scan = {}
  BY DEF Accepted
<1>5. TokensOf(owner[p]) \subseteq Issued \X Kind
  BY <1>3, AcceptedType DEF Inv
<1>6. new \in RequestState
  BY <1>3, AcceptedType DEF Inv
<1> HIDE DEF new
<1>7. /\ request' \in [Request -> RequestState]
      /\ \A u \in Request : request'[u] = IF u = q THEN new ELSE request[u]
  <2>1. request' = [request EXCEPT ![q] = new] BY <1>1 DEF new
  <2>2. QED BY <2>1, <1>6 DEF Inv, Types
<1>8. Types'
  BY <1>2, <1>7 DEF Inv, Types, RowsUnchanged, Issued
<1>9. RefreshInv'
  <2>1. \A u \in Request : request'[u].pc = "rotate" =>
          /\ request'[u].op = "refresh" /\ request'[u].pair \in Issued
          /\ <<request'[u].pair, "refresh">> \in rows \ revoked
          /\ request'[u].device = owner[request'[u].pair]
    BY <1>1, <1>2, <1>3, <1>4, <1>7 DEF Inv, RefreshInv, Live
  <2>2. \A u \in Request : request'[u].op # "refresh" => request'[u].pair = None
    BY <1>4, <1>7 DEF Inv, RefreshInv
  <2>3. \A u \in Request : ~ Holds(u, p)
    BY <1>2 DEF Locked, Holds
  <2>4. \A u, v \in Request : \A x \in Pair : Holds(u, x)' /\ Holds(v, x)' => u = v
    BY <1>4, <1>7, <2>3 DEF Holds, Inv, RefreshInv
  <2>5. QED BY <1>2, <2>1, <2>2, <2>4 DEF RefreshInv, RowsUnchanged, Live, Issued
<1>10. ChainInv'
  BY <1>2 DEF Inv, ChainInv, RowsUnchanged, Live, Issued
<1>11. RevokeInv'
  <2>1. \A u \in Request : /\ request'[u].known \subseteq Issued \X Kind
                           /\ \A t \in request'[u].known : owner[t[1]] = request'[u].device
                           /\ request'[u].pc = "revoke" =>
                                \A t \in request'[u].known : Live(t) => t \in request'[u].scan
    BY <1>4, <1>5, <1>7 DEF Inv, RevokeInv, TokensOf
  <2>2. QED BY <1>2, <2>1 DEF Inv, RevokeInv, RevocationComplete, RowsUnchanged, Live, Issued
<1>12. QED BY <1>8, <1>9, <1>10, <1>11 DEF Inv

LEMMA AuthenticateKeeps ==
  ASSUME Inv, NEW q \in Request, NEW p \in Pair, Authenticate(q, p)
  PROVE  Inv'
<1>1. PICK pc \in {"scan", "push", "unpush", "delete"}, op \in {"logout", "other"} :
        request' = [request EXCEPT ![q] = Accepted(pc, op, None, owner[p])]
  BY DEF Authenticate
<1>2. /\ <<p, "access">> \in rows /\ RowsUnchanged /\ request[q] = Idle
  BY DEF Authenticate, RowsUnchanged, Live
<1>3. /\ p \in Issued /\ owner[p] \in Device
  BY <1>2 DEF Inv, Types, Issued
<1> DEFINE new == Accepted(pc, op, None, owner[p])
<1>4. /\ new.op # "refresh" /\ new.pair = None /\ new.device = owner[p] /\ new.known = TokensOf(owner[p])
      /\ new.pc \notin {"rotate", "revoke"} /\ new.scan = {}
  BY DEF Accepted
<1>5. TokensOf(owner[p]) \subseteq Issued \X Kind
  BY <1>3, AcceptedType DEF Inv
<1>6. new \in RequestState
  BY <1>3, AcceptedType DEF Inv
<1> HIDE DEF new
<1>7. /\ request' \in [Request -> RequestState]
      /\ \A u \in Request : request'[u] = IF u = q THEN new ELSE request[u]
  <2>1. request' = [request EXCEPT ![q] = new] BY <1>1 DEF new
  <2>2. QED BY <2>1, <1>6 DEF Inv, Types
<1>8. Types'
  BY <1>2, <1>7 DEF Inv, Types, RowsUnchanged, Issued
<1>9. RefreshInv'
  BY <1>2, <1>4, <1>7 DEF Inv, RefreshInv, RowsUnchanged, Live, Issued, Holds
<1>10. ChainInv'
  BY <1>2 DEF Inv, ChainInv, RowsUnchanged, Live, Issued
<1>11. RevokeInv'
  <2>1. \A u \in Request : /\ request'[u].known \subseteq Issued \X Kind
                           /\ \A t \in request'[u].known : owner[t[1]] = request'[u].device
                           /\ request'[u].pc = "revoke" =>
                                \A t \in request'[u].known : Live(t) => t \in request'[u].scan
    BY <1>4, <1>5, <1>7 DEF Inv, RevokeInv, TokensOf
  <2>2. QED BY <1>2, <2>1 DEF Inv, RevokeInv, RevocationComplete, RowsUnchanged, Live, Issued
<1>12. QED BY <1>8, <1>9, <1>10, <1>11 DEF Inv

-----------------------------------------------------------------------------
(* Revocation: what it found when it began is all that can still be live,   *)
(* for new pairs are not among what the device had.                         *)

LEMMA ScanKeeps ==
  ASSUME Inv, NEW q \in Request, ScanTokens(q)
  PROVE  Inv'
<1> DEFINE new == [request[q] EXCEPT !.pc = "revoke", !.scan = Revocable(request[q].device)]
<1>1. request' = [request EXCEPT ![q] = new] /\ RowsUnchanged /\ request[q].pc = "scan"
  BY DEF ScanTokens, RowsUnchanged
<1>2. /\ request[q] \in RequestState
      /\ Revocable(request[q].device) \subseteq Token
  BY DEF Revocable, TokensOf, Inv, Types, Issued, Token
<1>3. new = [pc |-> "revoke", op |-> request[q].op, pair |-> request[q].pair, device |-> request[q].device,
             scan |-> Revocable(request[q].device), known |-> request[q].known]
  <2>1. PICK r \in RequestState, S \in SUBSET Token : r = request[q] /\ S = Revocable(request[q].device)
    BY <1>2
  <2>2. [r EXCEPT !.pc = "revoke"] = [pc |-> "revoke", op |-> r.op, pair |-> r.pair, device |-> r.device,
                                      scan |-> r.scan, known |-> r.known]
    BY DEF RequestState
  <2>3. [[r EXCEPT !.pc = "revoke"] EXCEPT !.scan = S] =
          [pc |-> "revoke", op |-> r.op, pair |-> r.pair, device |-> r.device, scan |-> S, known |-> r.known]
    <3>1. [[pc |-> "revoke", op |-> r.op, pair |-> r.pair, device |-> r.device,
            scan |-> r.scan, known |-> r.known] EXCEPT !.scan = S] =
          [pc |-> "revoke", op |-> r.op, pair |-> r.pair, device |-> r.device, scan |-> S, known |-> r.known]
      OBVIOUS
    <3>2. QED BY <2>2, <3>1, Zenon
  <2>4. new = [[r EXCEPT !.pc = "revoke"] EXCEPT !.scan = S]
    BY <2>1
  <2>5. QED BY <2>1, <2>3, <2>4
<1>4. /\ new.pc = "revoke" /\ new.op = request[q].op /\ new.pair = request[q].pair
      /\ new.device = request[q].device /\ new.scan = Revocable(request[q].device)
      /\ new.known = request[q].known
  BY <1>3
<1>5. new \in RequestState
  BY <1>2, <1>3 DEF RequestState
<1> HIDE DEF new
<1>6. /\ request' \in [Request -> RequestState]
      /\ \A u \in Request : request'[u] = IF u = q THEN new ELSE request[u]
  BY <1>1, <1>5 DEF Inv, Types
<1>7. Types' BY <1>1, <1>6 DEF Inv, Types, RowsUnchanged, Issued
<1>8. RefreshInv'
  <2>1. \A u \in Request : /\ request'[u].op = request[u].op /\ request'[u].pair = request[u].pair
                           /\ request'[u].pc = "rotate" => request'[u] = request[u]
                           /\ \A x \in Pair : Holds(u, x)' => Holds(u, x)
    BY <1>1, <1>4, <1>6 DEF Holds
  <2>2. QED BY <1>1, <2>1 DEF Inv, RefreshInv, RowsUnchanged, Live, Issued
<1>9. ChainInv' BY <1>1 DEF Inv, ChainInv, RowsUnchanged, Live, Issued
<1>10. RevokeInv'
  <2>1. \A t \in request[q].known : Live(t) => t \in Revocable(request[q].device)
    BY DEF Inv, RevokeInv, Revocable, TokensOf, Live
  <2>2. \A u \in Request : /\ request'[u].known \subseteq Issued \X Kind
                           /\ \A t \in request'[u].known : owner[t[1]] = request'[u].device
                           /\ request'[u].pc = "revoke" =>
                                \A t \in request'[u].known : Live(t) => t \in request'[u].scan
    BY <1>4, <1>6, <2>1 DEF Inv, RevokeInv
  <2>3. QED BY <1>1, <2>2 DEF Inv, RevokeInv, RevocationComplete, RowsUnchanged, Live, Issued
<1>11. QED BY <1>7, <1>8, <1>9, <1>10 DEF Inv

(* Other requests are not disturbed by one that ends, if what they hold     *)
(* stays.                                                                   *)
LEMMA EndKeeps ==
  ASSUME Inv, NEW q \in Request, End(q), UNCHANGED <<owner, parent>>,
         rows' \subseteq rows, revoked \subseteq revoked', revoked' \subseteq Token,
         \A u \in Request : u # q /\ request[u].pc = "rotate" =>
            <<request[u].pair, "refresh">> \in rows' \ revoked',
         devices' \subseteq devices, \A t \in rows' : owner[t[1]] \in devices',
         push' \subseteq devices', expired' \subseteq Token,
         condemned' \subseteq Issued \X Kind, \A t \in condemned' : t \notin rows' \ revoked'
  PROVE  Inv'
<1>1. /\ request' \in [Request -> RequestState]
      /\ \A u \in Request : request'[u] = IF u = q THEN Idle ELSE request[u]
  BY EndRequest DEF Inv
<1>2. Issued' = Issued BY DEF Issued
<1>3. \A t : Live(t)' => Live(t) BY DEF Live
<1>4. Types' BY <1>1, <1>2 DEF Inv, Types
<1>5. RefreshInv'
  <2>1. \A u \in Request : \A x \in Pair : Holds(u, x)' => Holds(u, x)
    BY <1>1, IdleType DEF Holds
  <2>2. \A u \in Request : request'[u].op # "refresh" => request'[u].pair = None
    BY <1>1, IdleType DEF Inv, RefreshInv
  <2>3. \A u \in Request : request'[u].pc = "rotate" =>
          /\ request'[u].op = "refresh" /\ request'[u].pair \in Issued
          /\ <<request'[u].pair, "refresh">> \in rows' \ revoked'
          /\ request'[u].device = owner[request'[u].pair]
    BY <1>1, IdleType DEF Inv, RefreshInv
  <2>4. QED BY <1>2, <2>1, <2>2, <2>3 DEF RefreshInv, Inv, Live
<1>6. ChainInv' BY <1>2, <1>3 DEF Inv, ChainInv
<1>7. RevokeInv'
  <2>1. \A u \in Request : /\ request'[u].known \subseteq Issued \X Kind
                           /\ \A t \in request'[u].known : owner[t[1]] = request'[u].device
                           /\ request'[u].pc = "revoke" =>
                                \A t \in request'[u].known : Live(t) => t \in request'[u].scan
    BY <1>1, IdleType DEF Inv, RevokeInv
  <2>2. RevocationComplete' BY DEF RevocationComplete, Live
  <2>3. QED BY <1>2, <1>3, <2>1, <2>2 DEF RevokeInv
<1>8. QED BY <1>4, <1>5, <1>6, <1>7 DEF Inv

LEMMA RevokeKeeps ==
  ASSUME Inv, NEW q \in Request, RevokeTokens(q)
  PROVE  Inv'
<1>1. /\ request[q].pc = "revoke" /\ revoked' = revoked \cup request[q].scan
      /\ condemned' = condemned \cup request[q].known /\ push' \subseteq push
      /\ End(q) /\ UNCHANGED <<devices, owner, parent, rows, expired>>
  BY DEF RevokeTokens
<1>2. request[q].scan \subseteq Token BY DEF Inv, Types, RequestState
<1>3. request[q].known \subseteq Issued \X Kind BY DEF Inv, RevokeInv
<1>4. ASSUME NEW u \in Request, u # q, request[u].pc = "rotate"
      PROVE  <<request[u].pair, "refresh">> \in rows' \ revoked'
  <2>1. PICK x \in Pair : x = request[u].pair /\ Live(<<x, "refresh">>) /\ request[u].op = "refresh"
    BY <1>4 DEF Inv, RefreshInv, Issued
  <2>2. request[q].pair # x
    <3>1. CASE request[q].op = "refresh"
      BY <1>1, <1>4, <2>1, <3>1 DEF Inv, RefreshInv, Holds
    <3>2. CASE request[q].op # "refresh"
      BY <3>2, <2>1, NoneAssumption DEF Inv, RefreshInv
    <3>3. QED BY <3>1, <3>2
  <2>3. <<x, "refresh">> # <<request[q].pair, "refresh">> BY <2>2
  <2>4. Locked(<<x, "refresh">>) BY <1>4, <2>1, RotatingIsLocked DEF Inv
  <2>5. <<x, "refresh">> \notin request[q].scan BY <2>3, <2>4 DEF RevokeTokens
  <2>6. QED BY <1>1, <2>1, <2>5 DEF Live
<1>5. \A t \in condemned' : t \notin rows' \ revoked'
  <2>1. \A t \in condemned : t \notin rows \ revoked
    BY DEF Inv, RevokeInv, RevocationComplete, Live
  <2>2. \A t \in request[q].known : t \in rows \ revoked => t \in request[q].scan
    BY <1>1 DEF Inv, RevokeInv, Live
  <2>3. QED BY <1>1, <2>1, <2>2
<1>6. revoked' \subseteq Token /\ expired' \subseteq Token /\ push' \subseteq devices'
      /\ condemned' \subseteq Issued \X Kind /\ \A t \in rows' : owner[t[1]] \in devices'
  BY <1>1, <1>2, <1>3 DEF Inv, Types
<1>7. QED BY <1>1, <1>4, <1>5, <1>6, EndKeeps

LEMMA DeleteKeeps ==
  ASSUME Inv, NEW q \in Request, DeleteAccount(q)
  PROVE  Inv'
<1>1. /\ devices' = devices \ {request[q].device} /\ rows' = rows \ TokensOf(request[q].device)
      /\ push' = push \ {request[q].device} /\ End(q)
      /\ UNCHANGED <<owner, parent, revoked, expired, condemned>>
      /\ \A t \in TokensOf(request[q].device) : ~ Locked(t)
  BY DEF DeleteAccount, Cascade
<1>2. ASSUME NEW u \in Request, u # q, request[u].pc = "rotate"
      PROVE  <<request[u].pair, "refresh">> \in rows' \ revoked'
  BY <1>1, <1>2, RotatingIsLocked DEF Inv, RefreshInv, Live
<1>3. \A t \in condemned' : t \notin rows' \ revoked'
  BY <1>1 DEF Inv, RevokeInv, RevocationComplete, Live
<1>4. \A t \in rows' : owner[t[1]] \in devices'
  BY <1>1 DEF TokensOf, Inv, Types
<1>5. QED BY <1>1, <1>2, <1>3, <1>4, EndKeeps DEF Inv, Types

LEMMA OthersKeep ==
  ASSUME Inv, NEW q \in Request, RegisterPushToken(q) \/ UnregisterPushToken(q) \/ Abort(q)
  PROVE  Inv'
<1>1. /\ End(q) /\ push' \subseteq devices
      /\ UNCHANGED <<devices, owner, parent, rows, revoked, expired, condemned>>
  BY DEF RegisterPushToken, UnregisterPushToken, Abort, Inv, Types
<1>2. \A u \in Request : u # q /\ request[u].pc = "rotate" =>
        <<request[u].pair, "refresh">> \in rows' \ revoked'
  BY <1>1 DEF Inv, RefreshInv, Live
<1>3. \A t \in condemned' : t \notin rows' \ revoked'
  BY <1>1 DEF Inv, RevokeInv, RevocationComplete, Live
<1>4. QED BY <1>1, <1>2, <1>3, EndKeeps DEF Inv, Types

LEMMA ExpireKeeps ==
  ASSUME Inv, NEW t \in Token, Expire(t)
  PROVE  Inv'
<1>1. expired' \subseteq Token /\ UNCHANGED <<devices, owner, parent, rows, revoked, push, request, condemned>>
  BY DEF Expire, Inv, Types
<1>2. QED BY <1>1 DEF Inv, Types, RefreshInv, ChainInv, RevokeInv, RevocationComplete, Live, Issued, Holds

LEMMA NextInv == Inv /\ [Next]_vars => Inv'
<1> SUFFICES ASSUME Inv, [Next]_vars PROVE Inv' OBVIOUS
<1>1. CASE UNCHANGED vars
  BY <1>1 DEF vars, Inv, Types, RefreshInv, ChainInv, RevokeInv, RevocationComplete, Live, Issued, Holds
<1>2. CASE \E d \in Device, p \in Pair : RegisterDevice(d, p) BY <1>2, RegisterKeeps
<1>3. CASE \E t \in Token : Expire(t) BY <1>3, ExpireKeeps
<1>4. ASSUME NEW q \in Request,
             \/ \E p \in Pair : PresentRefresh(q, p) \/ Rotate(q, p) \/ Authenticate(q, p)
             \/ ScanTokens(q) \/ RevokeTokens(q)
             \/ RegisterPushToken(q) \/ UnregisterPushToken(q) \/ DeleteAccount(q)
             \/ Abort(q)
      PROVE  Inv'
  BY <1>4, PresentKeeps, RotateKeeps, AuthenticateKeeps, ScanKeeps, RevokeKeeps, DeleteKeeps, OthersKeep
<1>5. QED BY <1>1, <1>2, <1>3, <1>4 DEF Next

-----------------------------------------------------------------------------
(* The inductive invariant of the token tables (auth.go): types, who holds  *)
(* which row, the chains, and what revocations have yet to reach.           *)
THEOREM TokenInvariant == Spec => []Inv
<1>1. QED BY InitInv, NextInv, PTL DEF Spec

(* However many copies of a refresh token are presented at once, it is      *)
(* rotated once, and a device has one live refresh token at most (auth.go   *)
(* RefreshTokens).                                                          *)
THEOREM FamilyAlwaysChain == Spec => []FamilyIsChain
<1>1. Inv => FamilyIsChain
  <2> SUFFICES ASSUME Inv PROVE FamilyIsChain OBVIOUS
  <2>1. ASSUME NEW d \in devices
        PROVE  Cardinality({t \in TokensOf(d) : Live(t) /\ t[2] = "refresh"}) <= 1
    <3> DEFINE S == {t \in TokensOf(d) : Live(t) /\ t[2] = "refresh"}
    <3>1. ASSUME NEW t \in S, NEW u \in S PROVE t = u
      <4>1. /\ t \in Issued \X Kind /\ u \in Issued \X Kind
            /\ t[2] = "refresh" /\ u[2] = "refresh" /\ Live(t) /\ Live(u)
            /\ owner[t[1]] = owner[u[1]]
        BY <3>1 DEF TokensOf, Inv, Types
      <4>2. t = <<t[1], "refresh">> /\ u = <<u[1], "refresh">>
            /\ t[1] \in Issued /\ u[1] \in Issued
        BY <4>1
      <4>3. t[1] = u[1] BY <4>1, <4>2 DEF Inv, ChainInv
      <4>4. QED BY <4>2, <4>3
    <3>2. CASE S = {} BY <3>2, FS_EmptySet
    <3>3. CASE S # {}
      <4>1. PICK t : S = {t} BY <3>1, <3>3
      <4>2. Cardinality({t}) = 1 BY FS_Singleton
      <4>3. QED BY <4>1, <4>2
    <3>4. QED BY <3>2, <3>3
  <2>2. QED BY <2>1 DEF Inv, ChainInv, FamilyIsChain
<1>2. QED BY <1>1, TokenInvariant, PTL

(* A logout or a detected reuse that has committed leaves none of the       *)
(* tokens live that the device had when the request was accepted, whatever  *)
(* rotations ran meanwhile (auth.go RefreshTokens, Logout).                    *)
THEOREM RevocationAlwaysComplete == Spec => []RevocationComplete
<1>1. Inv => RevocationComplete BY DEF Inv, RevokeInv
<1>2. QED BY <1>1, TokenInvariant, PTL

-----------------------------------------------------------------------------
(* Part two: the queue on the phone.                                        *)

LEMMA QueueConstants ==
  PhotosOf \in [Report -> SUBSET Photo] /\ Nil \notin Report \cup Photo
BY QueueAssumption

(* How often an item was tried is of no interest.                           *)
Items == [report : Report, photos : SUBSET Photo, sid : Nat, retries : Nat]
Distinct(q) == \A i, j \in DOMAIN q : q[i].report = q[j].report => i = j

(* What the phone's items are held against: the photos whose fate is known  *)
(* are done, and those that are not lost are kept.                          *)
Kept == files \cup held \cup refused \cup UNION {PhotosOf[r] : r \in dropped}
World == [composed |-> composed, filed |-> filed, done |-> held \cup refused, kept |-> Kept]

Grows(v, w) ==
  /\ v.composed \subseteq w.composed /\ v.done \subseteq w.done /\ v.kept \subseteq w.kept
  /\ \A r \in Report : v.filed[r] > 0 => w.filed[r] > 0

(* An item, wherever it is, lists each photo that is not done, and each that *)
(* it lists is kept; its id is that of a report that was created.            *)
Honest(i, w) ==
  /\ i.report \in w.composed
  /\ i.photos \subseteq PhotosOf[i.report] /\ PhotosOf[i.report] \subseteq w.done \cup i.photos
  /\ i.photos \subseteq w.kept
  /\ i.sid # 0 => w.filed[i.report] > 0

Good(q, w) == q \in Seq(Items) /\ Distinct(q) /\ \A i \in DOMAIN q : Honest(q[i], w)

(* Everyone who holds a copy of the queue.                                  *)
Copies == {queue, flush.todo, flush.seen, ui.seen, <<>>}
CopiesInv == \A q \in Copies : Good(q, World)

QueueTypes ==
  /\ filed \in [Report -> Nat] /\ composed \subseteq Report /\ confirmed \subseteq Report
  /\ {"pc", "report", "photos", "sid", "seen"} \subseteq DOMAIN ui
  /\ ui.sid \in Nat
  /\ ui.pc # "idle" => ui.report \in Report /\ ui.photos \subseteq Photo
  /\ {"pc", "todo", "change", "photo", "seen"} \subseteq DOMAIN flush
  /\ flush.change \in Change

(* What is being submitted is nowhere in the queue yet.                     *)
UiInv ==
  ui.pc # "idle" =>
    /\ Honest(ui, World)
    /\ \A q \in Copies : At(q, ui.report) = {}
    /\ ui.pc = "upload" => ui.sid # 0
    /\ ui.pc = "create" => ui.sid = 0

(* What is to be changed in the queue is what happened to the item.         *)
FlushInv ==
  /\ flush.pc \notin {"idle", "next"} => flush.todo # <<>>
  /\ flush.pc \notin {"read", "write"} => flush.change = "none"
  /\ flush.pc \in {"read", "write"} => flush.change # "none"
  /\ flush.change # "photo" => flush.photo = Nil
  /\ flush.pc = "create" => flush.todo[1].sid = 0
  /\ flush.pc = "upload" \/ flush.change \in {"created", "photo", "dequeue"} =>
       flush.todo[1].sid # 0
  /\ flush.change = "photo" => flush.photo \in held \cup refused
  /\ flush.change = "dequeue" => flush.todo[1].photos = {}
  /\ flush.change = "drop" => flush.todo[1].report \in dropped

(* Of a report whose record is in order, whoever has no id for it may       *)
(* create it, because nobody has.                                           *)
FiledInv ==
  \A r \in Report \ (doubtful \cup clobbered) :
    /\ filed[r] <= 1
    /\ r \notin composed => filed[r] = 0
    /\ ui.pc # "idle" /\ ui.report = r /\ ui.sid = 0 => filed[r] = 0
    /\ \A j \in DOMAIN flush.todo :
         flush.todo[j].report = r /\ flush.todo[j].sid = 0 => filed[r] = 0
    /\ \A j \in DOMAIN queue :
         queue[j].report = r /\ queue[j].sid = 0 =>
           filed[r] = 0 \/ (flush.change = "created" /\ flush.todo[1].report = r)

Sent(r) == filed[r] > 0 /\ PhotosOf[r] \subseteq held \cup refused
LostInv ==
  \A r \in confirmed \ (dropped \cup clobbered) : At(queue, r) # {} \/ Sent(r)

QueueInv == QueueTypes /\ CopiesInv /\ UiInv /\ FlushInv /\ FiledInv /\ LostInv

-----------------------------------------------------------------------------
(* Sequences in which a report has one item.                                *)
LEMMA QueueFacts ==
  ASSUME NEW q \in Seq(Items)
  PROVE  /\ Len(q) \in Nat /\ DOMAIN q = 1 .. Len(q)
         /\ \A i \in DOMAIN q : q[i] \in Items
         /\ q # <<>> => 1 \in DOMAIN q
<1>1. Len(q) \in Nat /\ DOMAIN q = 1 .. Len(q) /\ \A i \in 1 .. Len(q) : q[i] \in Items
  BY LenProperties, ElementOfSeq
<1>2. q # <<>> => Len(q) # 0 BY EmptySeq
<1>3. QED BY <1>1, <1>2

LEMMA WithoutFacts ==
  ASSUME NEW q \in Seq(Items), NEW r, Distinct(q)
  PROVE  /\ Without(q, r) \in Seq(Items) /\ Distinct(Without(q, r))
         /\ \A j \in DOMAIN Without(q, r) :
              \E i \in DOMAIN q : Without(q, r)[j] = q[i] /\ q[i].report # r
         /\ \A i \in DOMAIN q : q[i].report # r => \E j \in DOMAIN Without(q, r) : Without(q, r)[j] = q[i]
<1>1. CASE At(q, r) = {}
  <2>1. Without(q, r) = q /\ \A i \in DOMAIN q : q[i].report # r
    BY <1>1 DEF Without, At
  <2>2. QED BY <2>1
<1>2. CASE At(q, r) # {}
  <2>1. PICK k : k = CHOOSE i \in At(q, r) : TRUE OBVIOUS
  <2>2. k \in DOMAIN q /\ q[k].report = r BY <1>2, <2>1 DEF At
  <2>3. Len(q) \in Nat /\ DOMAIN q = 1 .. Len(q) /\ \A i \in 1 .. Len(q) : q[i] \in Items
    BY LenProperties, ElementOfSeq
  <2>4. PICK n \in Nat : n = Len(q) BY <2>3
  <2>5. k \in 1 .. n BY <2>2, <2>3, <2>4
  <2>6. PICK a : a = SubSeq(q, 1, k - 1) OBVIOUS
  <2>7. PICK b : b = SubSeq(q, k + 1, n) OBVIOUS
  <2>8. /\ a \in Seq(Items) /\ Len(a) = k - 1
        /\ \A i \in 1 .. k - 1 : a[i] = q[i]
    <3>1. \A i \in 1 .. k - 1 : q[i] \in Items BY <2>3, <2>4, <2>5
    <3>2. 1 \in Int /\ k - 1 \in Int BY <2>5
    <3>3. /\ a \in Seq(Items) /\ Len(a) = IF 1 <= k - 1 THEN k - 1 - 1 + 1 ELSE 0
          /\ \A i \in 1 .. k - 1 - 1 + 1 : a[i] = q[1 + i - 1]
      BY <2>6, <3>1, <3>2, SubSeqProperties
    <3>4. QED BY <2>5, <3>3
  <2>9. /\ b \in Seq(Items) /\ Len(b) = n - k
        /\ \A i \in 1 .. n - k : b[i] = q[i + k]
    <3>1. \A i \in k + 1 .. n : q[i] \in Items BY <2>3, <2>4, <2>5
    <3>2. k + 1 \in Int /\ n \in Int BY <2>5
    <3>3. /\ b \in Seq(Items) /\ Len(b) = IF k + 1 <= n THEN n - (k + 1) + 1 ELSE 0
          /\ \A i \in 1 .. n - (k + 1) + 1 : b[i] = q[k + 1 + i - 1]
      BY <2>7, <3>1, <3>2, SubSeqProperties
    <3>4. QED BY <2>5, <3>3
  <2>10. PICK w : w = a \o b OBVIOUS
  <2>11. Without(q, r) = w
    BY <1>2, <2>1, <2>4, <2>6, <2>7, <2>10 DEF Without, RemoveAt
  <2>12. /\ w \in Seq(Items) /\ Len(w) = n - 1
         /\ \A i \in 1 .. n - 1 : w[i] = IF i <= k - 1 THEN q[i] ELSE q[i + 1]
    <3>1. /\ w \in Seq(Items) /\ Len(w) = Len(a) + Len(b)
          /\ \A i \in 1 .. Len(a) + Len(b) : w[i] = IF i <= Len(a) THEN a[i] ELSE b[i - Len(a)]
      BY <2>8, <2>9, <2>10, ConcatProperties
    <3>2. QED BY <2>5, <2>8, <2>9, <3>1
  <2>13. DOMAIN w = 1 .. n - 1 BY <2>12, LenProperties
  <2>14. ASSUME NEW j \in 1 .. n - 1
         PROVE  \E i \in 1 .. n : w[j] = q[i] /\ q[i].report # r /\ i = IF j <= k - 1 THEN j ELSE j + 1
    <3>1. PICK i \in 1 .. n : i = IF j <= k - 1 THEN j ELSE j + 1 OBVIOUS
    <3>2. i # k BY <2>5, <3>1
    <3>3. QED BY <2>2, <2>3, <2>4, <2>5, <2>12, <3>1, <3>2 DEF Distinct
  <2>15. ASSUME NEW i \in 1 .. n, q[i].report # r
         PROVE  \E j \in 1 .. n - 1 : w[j] = q[i]
    <3>1. i # k BY <2>2, <2>15
    <3>2. CASE i < k
      <4>1. i \in 1 .. n - 1 /\ i <= k - 1 BY <2>5, <3>2
      <4>2. QED BY <2>12, <4>1
    <3>3. CASE i > k
      <4>1. i - 1 \in 1 .. n - 1 /\ ~ (i - 1 <= k - 1) /\ i - 1 + 1 = i BY <2>5, <3>3
      <4>2. QED BY <2>12, <4>1
    <3>4. QED BY <2>5, <3>1, <3>2, <3>3
  <2>16. Distinct(w)
    <3>1. ASSUME NEW i \in 1 .. n - 1, NEW j \in 1 .. n - 1, w[i].report = w[j].report
          PROVE  i = j
      <4>1. PICK x \in 1 .. n : w[i] = q[x] /\ x = IF i <= k - 1 THEN i ELSE i + 1 BY <2>14
      <4>2. PICK y \in 1 .. n : w[j] = q[y] /\ y = IF j <= k - 1 THEN j ELSE j + 1 BY <2>14
      <4>3. x = y BY <2>3, <2>4, <3>1, <4>1, <4>2 DEF Distinct
      <4>4. QED BY <2>5, <4>1, <4>2, <4>3
    <3>2. QED BY <2>13, <3>1 DEF Distinct
  <2>17. \A j \in DOMAIN w : \E i \in DOMAIN q : w[j] = q[i] /\ q[i].report # r
    BY <2>3, <2>4, <2>13, <2>14
  <2>18. \A i \in DOMAIN q : q[i].report # r => \E j \in DOMAIN w : w[j] = q[i]
    BY <2>3, <2>4, <2>13, <2>15
  <2>19. QED BY <2>11, <2>12, <2>16, <2>17, <2>18
<1>3. QED BY <1>1, <1>2

LEMMA EmptyGood == \A w : Good(<<>>, w)
BY EmptySeq DEF Good, Distinct

LEMMA GoodKept ==
  ASSUME NEW q, NEW v, NEW w, Good(q, v), Grows(v, w)
  PROVE  Good(q, w)
<1>1. \A i \in DOMAIN q : q[i] \in Items BY QueueFacts DEF Good
<1>2. \A i \in DOMAIN q : Honest(q[i], w) BY <1>1 DEF Good, Honest, Grows, Items
<1>3. QED BY <1>2 DEF Good

Of(x, y) == x.report = y.report

LEMMA HeadChanged ==
  ASSUME NEW q, NEW w, Good(q, w), q # <<>>,
         NEW x \in Items, Of(x, q[1]), Honest(x, w)
  PROVE  LET new == [q EXCEPT ![1] = x] IN
         /\ Good(new, w) /\ DOMAIN new = DOMAIN q /\ new # <<>>
         /\ new[1] = x /\ \A i \in DOMAIN q : i # 1 => new[i] = q[i]
<1>1. q \in Seq(Items) /\ 1 \in DOMAIN q /\ DOMAIN q = 1 .. Len(q) /\ Len(q) \in Nat
  BY QueueFacts DEF Good
<1> DEFINE new == [q EXCEPT ![1] = x]
<1>2. new \in Seq(Items) /\ DOMAIN new = DOMAIN q /\ new[1] = x
      /\ \A i \in DOMAIN q : i # 1 => new[i] = q[i]
  BY <1>1, ExceptSeq
<1> HIDE DEF new
<1>3. new # <<>> BY <1>1, <1>2, EmptySeq, QueueFacts
<1>4. Distinct(new) BY <1>2 DEF Good, Distinct, Of
<1>5. \A i \in DOMAIN new : Honest(new[i], w) BY <1>2 DEF Good
<1>6. Good(new, w) BY <1>2, <1>4, <1>5 DEF Good
<1>7. QED BY <1>2, <1>3, <1>6 DEF new

LEMMA TailGood ==
  ASSUME NEW q, NEW w, Good(q, w), q # <<>>
  PROVE  /\ Good(Tail(q), w)
         /\ \A i \in DOMAIN Tail(q) : \E j \in DOMAIN q :
               Tail(q)[i] = q[j] /\ q[j].report # q[1].report
<1>1. PICK n \in Nat : n = Len(q) BY QueueFacts DEF Good
<1>2. q \in Seq(Items) /\ 1 \in DOMAIN q /\ DOMAIN q = 1 .. n
  BY <1>1, QueueFacts DEF Good
<1>3. PICK s : s = Tail(q) OBVIOUS
<1>4. s \in Seq(Items) /\ Len(s) = n - 1 /\ \A i \in 1 .. Len(s) : s[i] = q[i + 1]
  BY <1>1, <1>2, <1>3, HeadTailProperties
<1>5. DOMAIN s = 1 .. n - 1 BY <1>4, QueueFacts
<1>6. \A i \in 1 .. n - 1 : s[i] = q[i + 1] /\ i + 1 \in 1 .. n /\ i + 1 # 1
  BY <1>4
<1>7. Distinct(s)
  <2>1. ASSUME NEW i \in 1 .. n - 1, NEW j \in 1 .. n - 1, s[i].report = s[j].report PROVE i = j
    <3>1. i + 1 \in 1 .. n /\ j + 1 \in 1 .. n /\ q[i + 1].report = q[j + 1].report
      BY <1>6, <2>1
    <3>2. Distinct(q) BY DEF Good
    <3>3. i + 1 = j + 1 BY <1>2, <3>1, <3>2 DEF Distinct
    <3>4. QED BY <3>3
  <2>2. QED BY <1>5, <2>1 DEF Distinct
<1>8. \A i \in DOMAIN s : Honest(s[i], w) BY <1>2, <1>5, <1>6 DEF Good
<1>9. \A i \in DOMAIN s : \E j \in DOMAIN q : s[i] = q[j] /\ q[j].report # q[1].report
  BY <1>2, <1>5, <1>6 DEF Good, Distinct
<1>10. QED BY <1>3, <1>4, <1>7, <1>8, <1>9 DEF Good

-----------------------------------------------------------------------------
(* What a step leaves of each part.                                         *)
LEMMA WorldGrows ==
  ASSUME composed \subseteq composed', held \subseteq held', refused \subseteq refused',
         dropped \subseteq dropped', files \subseteq Kept',
         \A r \in Report : filed[r] > 0 => filed'[r] > 0
  PROVE  Grows(World, World')
<1>1. Kept \subseteq Kept' BY DEF Kept
<1>2. QED BY <1>1 DEF Grows, World

LEMMA SameWorld ==
  ASSUME UNCHANGED <<files, server, composed, refused, dropped>>
  PROVE  World' = World /\ Grows(World, World')
<1>1. World' = World BY DEF World, Kept, server
<1>2. QED BY <1>1 DEF Grows

LEMMA CopiesKept ==
  ASSUME CopiesInv, Grows(World, World'),
         \A q \in {queue', flush'.todo, flush'.seen, ui'.seen} : q \in Copies \/ Good(q, World')
  PROVE  CopiesInv'
<1>1. PICK v : v = World OBVIOUS
<1>2. PICK w : w = World' OBVIOUS
<1>3. \A q \in Copies : Good(q, w) BY <1>1, <1>2, GoodKept DEF CopiesInv
<1>4. \A q \in Copies' : q \in {queue', flush'.todo, flush'.seen, ui'.seen} \/ q = <<>>
  BY DEF Copies
<1>5. \A q \in Copies' : Good(q, World') BY <1>2, <1>3, <1>4, EmptyGood
<1>6. QED BY <1>5 DEF CopiesInv

(* No step but EnqueueWrite brings a report into a queue.                    *)
Drawn(q) == \A j \in DOMAIN q : \E c \in Copies : \E i \in DOMAIN c : q[j].report = c[i].report

LEMMA NotDrawn ==
  ASSUME NEW r, \A q \in Copies : At(q, r) = {},
         \A q \in {queue', flush'.todo, flush'.seen, ui'.seen} : q \in Copies \/ Drawn(q)
  PROVE  \A q \in Copies' : At(q, r) = {}
<1>1. \A q \in Copies' : q \in {queue', flush'.todo, flush'.seen, ui'.seen} \/ q = <<>>
  BY DEF Copies
<1>2. At(<<>>, r) = {} BY EmptySeq DEF At
<1>3. \A q : Drawn(q) => At(q, r) = {} BY DEF Drawn, At
<1>4. QED BY <1>1, <1>2, <1>3

LEMMA HonestKept ==
  ASSUME NEW i, NEW v, NEW w, Honest(i, v), Grows(v, w), i.report \in Report
  PROVE  Honest(i, w)
BY DEF Honest, Grows

LEMMA UiKept ==
  ASSUME QueueTypes, UiInv, Grows(World, World'),
         \A q \in {queue', flush'.todo, flush'.seen, ui'.seen} : q \in Copies \/ Drawn(q),
         ui' = ui \/ ui'.pc = "idle"
  PROVE  UiInv'
<1>1. PICK v : v = World OBVIOUS
<1>2. PICK w : w = World' OBVIOUS
<1>3. PICK x : x = ui OBVIOUS
<1>4. CASE ui' = ui /\ ui.pc # "idle"
  <2>1. Honest(x, v) /\ x.report \in Report /\ \A q \in Copies : At(q, x.report) = {}
    BY <1>1, <1>3, <1>4 DEF UiInv, QueueTypes
  <2>2. Honest(x, w) BY <1>1, <1>2, <2>1, HonestKept
  <2>3. \A q \in Copies' : At(q, x.report) = {} BY <2>1, NotDrawn
  <2>4. QED BY <1>2, <1>3, <1>4, <2>2, <2>3 DEF UiInv
<1>5. CASE ui'.pc = "idle" BY <1>5 DEF UiInv
<1>6. CASE ui' = ui /\ ui.pc = "idle" BY <1>6 DEF UiInv
<1>7. QED BY <1>4, <1>5, <1>6

LEMMA FiledKept ==
  ASSUME FiledInv, filed' = filed, doubtful \subseteq doubtful', clobbered \subseteq clobbered',
         composed \subseteq composed', queue' = queue,
         ui'.pc # "idle" => ui.pc # "idle" /\ ui'.report = ui.report /\ ui'.sid = ui.sid,
         flush'.todo = flush.todo \/ flush'.todo = <<>>,
         flush.change = "created" => flush'.change = "created" /\ flush'.todo = flush.todo
  PROVE  FiledInv'
<1>1. DOMAIN <<>> = {} BY EmptySeq
<1>2. QED BY <1>1 DEF FiledInv

LEMMA LostKept ==
  ASSUME LostInv, Grows(World, World'), confirmed \subseteq Report, confirmed' = confirmed, queue' = queue,
         dropped \subseteq dropped', clobbered \subseteq clobbered'
  PROVE  LostInv'
<1>1. ASSUME NEW r \in Report, Sent(r) PROVE Sent(r)'
  BY <1>1 DEF Sent, Grows, World
<1>2. QED BY <1>1 DEF LostInv

LEMMA AlterFacts ==
  ASSUME QueueTypes, NEW c, NEW p, Alter(c, p)
  PROVE  /\ flush'.pc = "read" /\ flush'.change = c /\ flush'.photo = p
         /\ flush'.todo = flush.todo /\ flush'.seen = flush.seen
         /\ DOMAIN flush' = DOMAIN flush
BY DEF Alter, QueueTypes

LEMMA CurrentFacts ==
  ASSUME QueueTypes, CopiesInv, flush.todo # <<>>
  PROVE  /\ 1 \in DOMAIN flush.todo /\ Current = flush.todo[1] /\ flush.todo[1] \in Items
         /\ Honest(flush.todo[1], World) /\ flush.todo[1].report \in Report
         /\ Good(flush.todo, World)
<1>1. Good(flush.todo, World) BY DEF CopiesInv, Copies
<1>2. flush.todo \in Seq(Items) BY <1>1 DEF Good
<1>3. 1 \in DOMAIN flush.todo /\ flush.todo[1] \in Items BY <1>2, QueueFacts
<1>4. Current = flush.todo[1] BY <1>2, HeadTailProperties DEF Current
<1>5. QED BY <1>1, <1>3, <1>4 DEF Good, Items

-----------------------------------------------------------------------------
(* The composer.                                                            *)
LEMMA SubmitStep ==
  ASSUME QueueInv, NEW r \in Report, Submit(r)
  PROVE  QueueInv'
<1> USE DEF QueueInv
<1>1. /\ ui.pc = "idle" /\ r \notin composed
      /\ composed' = composed \cup {r} /\ files' = files \cup PhotosOf[r]
      /\ ui'.pc # "idle" /\ ui'.pc # "upload" /\ ui'.report = r /\ ui'.photos = PhotosOf[r]
      /\ ui'.sid = 0 /\ ui'.seen = <<>>
      /\ {"pc", "report", "photos", "sid", "seen"} \subseteq DOMAIN ui'
  BY DEF Submit, NoSubmission
<1>2. UNCHANGED <<queue, filed, held, flush, confirmed, refused, dropped, doubtful, clobbered>>
  BY DEF Submit, server, history
<1>3. Grows(World, World') BY <1>1, <1>2, WorldGrows DEF Kept
<1>4. QueueTypes' BY <1>1, <1>2, QueueConstants DEF QueueTypes
<1>5. CopiesInv'
  <2>1. \A q \in {queue', flush'.todo, flush'.seen, ui'.seen} : q \in Copies
    BY <1>1, <1>2 DEF Copies
  <2>2. QED BY <1>3, <2>1, CopiesKept
<1>6. UiInv'
  <2>1. \A q \in Copies' : q \in Copies BY <1>1, <1>2 DEF Copies
  <2>2. \A q \in Copies : \A i \in DOMAIN q : q[i].report # r
    BY <1>1 DEF CopiesInv, Good, Honest, World
  <2>3. \A q \in Copies' : At(q, r) = {} BY <2>1, <2>2 DEF At
  <2>4. PhotosOf[r] \subseteq Kept' BY <1>1 DEF Kept
  <2>5. r \in World'.composed /\ World'.kept = Kept' BY <1>1 DEF World
  <2>6. PICK x : x = ui' OBVIOUS
  <2>7. PICK w : w = World' OBVIOUS
  <2>8. Honest(x, w) BY <1>1, <2>4, <2>5, <2>6, <2>7 DEF Honest
  <2>9. QED BY <1>1, <2>3, <2>6, <2>7, <2>8 DEF UiInv
<1>7. FlushInv' BY <1>2 DEF FlushInv
<1>8. FiledInv' BY <1>1, <1>2 DEF FiledInv
<1>9. LostInv' BY <1>2, <1>3, LostKept DEF QueueTypes
<1>10. QED BY <1>4, <1>5, <1>6, <1>7, <1>8, <1>9

LEMMA SubmitCreatedStep ==
  ASSUME QueueInv, SubmitCreated
  PROVE  QueueInv'
<1> USE DEF QueueInv
<1>1. /\ ui.pc = "create" /\ ui.report \in Report /\ ui.sid = 0
  BY DEF SubmitCreated, UiInv, QueueTypes
<1>2. UNCHANGED <<queue, files, held, flush, composed, confirmed, refused, dropped, clobbered>>
      /\ filed' = [filed EXCEPT ![ui.report] = @ + 1]
  BY DEF SubmitCreated
<1>3. /\ filed' \in [Report -> Nat] /\ filed'[ui.report] = filed[ui.report] + 1
      /\ filed'[ui.report] \in Nat /\ filed'[ui.report] # 0
      /\ \A r \in Report : r # ui.report => filed'[r] = filed[r]
  BY <1>1, <1>2 DEF QueueTypes
<1>4. Grows(World, World')
  <2>1. \A r \in Report : filed[r] > 0 => filed'[r] > 0 BY <1>3 DEF QueueTypes
  <2>2. QED BY <1>2, <2>1, WorldGrows DEF Kept
<1>5. /\ ui'.report = ui.report /\ ui'.photos = ui.photos /\ ui'.seen = ui.seen /\ ui'.sid \in Nat
      /\ \/ ui'.pc = "upload" /\ ui'.sid = filed'[ui.report] /\ doubtful' = doubtful
         \/ ui'.pc = "read" /\ ui'.sid = 0 /\ doubtful' = doubtful \cup {ui.report}
      /\ {"pc", "report", "photos", "sid", "seen"} \subseteq DOMAIN ui'
  BY <1>1, <1>3 DEF SubmitCreated, Enqueue, QueueTypes
<1>6. QueueTypes' BY <1>1, <1>2, <1>3, <1>5 DEF QueueTypes
<1>7. \A q \in {queue', flush'.todo, flush'.seen, ui'.seen} : q \in Copies
  BY <1>2, <1>5 DEF Copies
<1>8. CopiesInv' BY <1>4, <1>7, CopiesKept
<1>9. UiInv'
  <2>1. \A q \in Copies : At(q, ui.report) = {} BY <1>1 DEF UiInv
  <2>2. \A q \in Copies' : At(q, ui.report) = {} BY <1>7, <2>1, NotDrawn
  <2>3. PICK x : x = ui' OBVIOUS
  <2>4. PICK w : w = World' OBVIOUS
  <2>5. PICK v : v = World OBVIOUS
  <2>6. PICK y : y = ui OBVIOUS
  <2>7. Honest(y, w)
    <3>1. Honest(y, v) BY <1>1, <2>5, <2>6 DEF UiInv
    <3>2. QED BY <1>1, <1>4, <2>4, <2>5, <2>6, <3>1, HonestKept
  <2>8. w.filed[y.report] > 0 BY <1>3, <2>4, <2>6 DEF World
  <2>9. Honest(x, w) BY <1>5, <2>3, <2>6, <2>7, <2>8 DEF Honest
  <2>10. QED BY <1>3, <1>5, <2>2, <2>3, <2>4, <2>9 DEF UiInv
<1>10. FlushInv' BY <1>2 DEF FlushInv
<1>11. FiledInv'
  <2>1. SUFFICES ASSUME NEW r \in Report \ (doubtful' \cup clobbered')
                 PROVE  /\ filed'[r] <= 1
                        /\ r \notin composed' => filed'[r] = 0
                        /\ ui'.pc # "idle" /\ ui'.report = r /\ ui'.sid = 0 => filed'[r] = 0
                        /\ \A j \in DOMAIN flush'.todo :
                             flush'.todo[j].report = r /\ flush'.todo[j].sid = 0 => filed'[r] = 0
                        /\ \A j \in DOMAIN queue' :
                             queue'[j].report = r /\ queue'[j].sid = 0 =>
                               filed'[r] = 0 \/ (flush'.change = "created" /\ flush'.todo[1].report = r)
    BY DEF FiledInv
  <2>2. r \in Report \ (doubtful \cup clobbered) BY <1>2, <1>5
  <2>3. CASE r # ui.report BY <1>2, <1>3, <1>5, <2>2, <2>3 DEF FiledInv
  <2>4. CASE r = ui.report
    <3>1. filed[r] = 0 /\ ui'.sid # 0
      BY <1>1, <1>3, <1>5, <2>1, <2>2, <2>4 DEF FiledInv
    <3>2. \A j \in DOMAIN queue : queue[j].report # r
      BY <1>1, <2>4 DEF UiInv, At, Copies
    <3>3. \A j \in DOMAIN flush.todo : flush.todo[j].report # r
      BY <1>1, <2>4 DEF UiInv, At, Copies
    <3>4. r \in composed BY <1>1, <2>4 DEF UiInv, Honest, World
    <3>5. QED BY <1>2, <1>3, <2>4, <3>1, <3>2, <3>3, <3>4
  <2>5. QED BY <2>3, <2>4
<1>12. LostInv' BY <1>2, <1>4, LostKept DEF QueueTypes
<1>13. QED BY <1>6, <1>8, <1>9, <1>10, <1>11, <1>12

(* Steps that end the submission, and those that only move it on.           *)
LEMMA SubmissionMoves ==
  ASSUME QueueInv, UNCHANGED <<queue, filed, flush, composed, dropped, doubtful, clobbered>>,
         confirmed' \subseteq Report, Grows(World, World'), LostInv',
         {"pc", "report", "photos", "sid", "seen"} \subseteq DOMAIN ui', ui'.sid \in Nat,
         held \cup refused \subseteq held' \cup refused',
         ui'.seen \in {ui.seen, queue, <<>>},
         ui'.pc # "idle" =>
           /\ ui.pc # "idle" /\ ui'.report = ui.report /\ ui'.sid = ui.sid
           /\ Honest(ui', World') /\ ui'.photos \subseteq Photo
           /\ ui'.pc # "create" /\ (ui'.pc = "upload" => ui.pc = "upload")
  PROVE  QueueInv'
<1> USE DEF QueueInv
<1>1. QueueTypes' BY DEF QueueTypes
<1>2. \A q \in {queue', flush'.todo, flush'.seen, ui'.seen} : q \in Copies BY DEF Copies
<1>3. CopiesInv' BY <1>2, CopiesKept
<1>4. UiInv'
  <2>1. ASSUME ui'.pc # "idle" PROVE \A q \in Copies' : At(q, ui'.report) = {}
    <3>1. \A q \in Copies : At(q, ui.report) = {} BY <2>1 DEF UiInv
    <3>2. \A q \in Copies' : At(q, ui.report) = {} BY <1>2, <3>1, NotDrawn
    <3>3. QED BY <2>1, <3>2
  <2>2. QED BY <2>1 DEF UiInv
<1>5. FlushInv' BY DEF FlushInv
<1>6. FiledInv' BY FiledKept
<1>7. QED BY <1>1, <1>3, <1>4, <1>5, <1>6

LEMMA SubmitNotCreatedStep ==
  ASSUME QueueInv, SubmitNotCreated
  PROVE  QueueInv'
<1>1. UNCHANGED <<queue, files, server, flush, composed, faults, history>> BY DEF SubmitNotCreated
<1>2. UNCHANGED <<filed, held, confirmed, refused, dropped, doubtful, clobbered>>
  BY <1>1 DEF server, history
<1>3. World' = World /\ Grows(World, World') BY <1>1, <1>2, SameWorld
<1>4. LostInv' BY <1>1, <1>2, <1>3, LostKept DEF QueueInv, QueueTypes
<1>5. CASE ui' = NoSubmission
  <2>1. /\ ui'.pc = "idle" /\ ui'.seen = <<>> /\ ui'.sid = 0
        /\ {"pc", "report", "photos", "sid", "seen"} \subseteq DOMAIN ui'
    BY <1>5 DEF NoSubmission
  <2>2. QED BY <1>1, <1>2, <1>3, <1>4, <2>1, SubmissionMoves DEF QueueInv, QueueTypes
<1>6. CASE Enqueue
  <2>1. /\ ui.pc # "idle" /\ ui'.pc = "read" /\ ui'.report = ui.report /\ ui'.sid = ui.sid
        /\ ui'.seen = ui.seen /\ ui'.photos = ui.photos
        /\ {"pc", "report", "photos", "sid", "seen"} \subseteq DOMAIN ui'
    BY <1>6 DEF SubmitNotCreated, Enqueue, QueueInv, QueueTypes
  <2>2. ui'.sid \in Nat /\ ui'.photos \subseteq Photo BY <2>1 DEF QueueInv, QueueTypes
  <2>3. Honest(ui', World') BY <1>3, <2>1 DEF QueueInv, UiInv, Honest
  <2>4. QED BY <1>1, <1>2, <1>3, <1>4, <2>1, <2>2, <2>3, SubmissionMoves DEF QueueInv, QueueTypes
<1>7. QED BY <1>5, <1>6 DEF SubmitNotCreated

LEMMA PhotoDoneGrows ==
  ASSUME NEW p, PhotoDone(p), UNCHANGED <<composed, filed, dropped>>
  PROVE  /\ Grows(World, World') /\ p \in World'.done
         /\ held \subseteq held' /\ refused \subseteq refused' /\ p \in held' \cup refused'
<1>1. /\ files' = files \ {p} /\ held \subseteq held' /\ refused \subseteq refused'
      /\ p \in held' \cup refused'
  BY DEF PhotoDone
<1>2. Kept \subseteq Kept' BY <1>1 DEF Kept
<1>3. QED BY <1>1, <1>2 DEF Grows, World

(* The completion of an upload whose answer is lost.                        *)
LEMMA PerhapsHeldGrows ==
  ASSUME NEW p, held' \in {held} \cup (IF p \in files THEN {held \cup {p}} ELSE {}),
         UNCHANGED <<files, composed, filed, dropped, refused>>
  PROVE  Grows(World, World') /\ held \subseteq held'
<1>1. held \subseteq held' OBVIOUS
<1>2. QED BY <1>1, WorldGrows DEF Kept

LEMMA SubmitPhotoStep ==
  ASSUME QueueInv, NEW p, SubmitPhoto(p)
  PROVE  QueueInv'
<1>1. /\ UNCHANGED <<queue, filed, flush, composed, confirmed, dropped, doubtful, clobbered>>
      /\ ui.pc = "upload" /\ PhotoDone(p) /\ ui' = [ui EXCEPT !.photos = @ \ {p}]
  BY DEF SubmitPhoto
<1>2. /\ Grows(World, World') /\ p \in World'.done
      /\ held \subseteq held' /\ refused \subseteq refused'
  BY <1>1, PhotoDoneGrows
<1>3. LostInv' BY <1>1, <1>2, LostKept DEF QueueInv, QueueTypes
<1>4. /\ ui'.pc = "upload" /\ ui'.report = ui.report /\ ui'.sid = ui.sid
      /\ ui'.seen = ui.seen /\ ui'.photos = ui.photos \ {p}
      /\ {"pc", "report", "photos", "sid", "seen"} \subseteq DOMAIN ui'
  BY <1>1 DEF QueueInv, QueueTypes
<1>5. ui'.sid \in Nat /\ ui'.photos \subseteq Photo BY <1>1, <1>4 DEF QueueInv, QueueTypes
<1>6. Honest(ui', World')
  <2>1. PICK v : v = World OBVIOUS
  <2>2. PICK w : w = World' OBVIOUS
  <2>3. PICK x : x = ui OBVIOUS
  <2>4. PICK y : y = ui' OBVIOUS
  <2>5. Honest(x, v) /\ x.report \in Report BY <1>1, <2>1, <2>3 DEF QueueInv, UiInv, QueueTypes
  <2>6. Honest(x, w) BY <1>2, <2>1, <2>2, <2>5, HonestKept
  <2>7. Honest(y, w) BY <1>2, <1>4, <2>2, <2>3, <2>4, <2>6 DEF Honest
  <2>8. QED BY <2>2, <2>4, <2>7
<1>7. QED BY <1>1, <1>2, <1>3, <1>4, <1>5, <1>6, SubmissionMoves DEF QueueInv, QueueTypes

LEMMA SubmitPhotoFailsStep ==
  ASSUME QueueInv, NEW p, SubmitPhotoFails(p)
  PROVE  QueueInv'
<1>1. /\ UNCHANGED <<queue, files, filed, flush, composed, faults, history>>
      /\ ui.pc = "upload" /\ held' \in {held} \cup (IF p \in files THEN {held \cup {p}} ELSE {})
      /\ ui' = [ui EXCEPT !.pc = "read"]
  BY DEF SubmitPhotoFails, Enqueue
<1>2. UNCHANGED <<confirmed, refused, dropped, doubtful, clobbered>> BY <1>1 DEF history
<1>3. Grows(World, World') /\ held \subseteq held' BY <1>1, <1>2, PerhapsHeldGrows
<1>4. LostInv' BY <1>1, <1>2, <1>3, LostKept DEF QueueInv, QueueTypes
<1>5. /\ ui'.pc = "read" /\ ui'.report = ui.report /\ ui'.sid = ui.sid
      /\ ui'.seen = ui.seen /\ ui'.photos = ui.photos
      /\ {"pc", "report", "photos", "sid", "seen"} \subseteq DOMAIN ui'
  BY <1>1 DEF QueueInv, QueueTypes
<1>6. ui'.sid \in Nat /\ ui'.photos \subseteq Photo BY <1>1, <1>5 DEF QueueInv, QueueTypes
<1>7. Honest(ui', World')
  <2>1. PICK v : v = World OBVIOUS
  <2>2. PICK w : w = World' OBVIOUS
  <2>3. PICK x : x = ui OBVIOUS
  <2>4. PICK y : y = ui' OBVIOUS
  <2>5. Honest(x, v) /\ x.report \in Report BY <1>1, <2>1, <2>3 DEF QueueInv, UiInv, QueueTypes
  <2>6. Honest(x, w) BY <1>3, <2>1, <2>2, <2>5, HonestKept
  <2>7. Honest(y, w) BY <1>5, <2>3, <2>4, <2>6 DEF Honest
  <2>8. QED BY <2>2, <2>4, <2>7
<1>8. QED BY <1>1, <1>2, <1>3, <1>4, <1>5, <1>6, <1>7, SubmissionMoves DEF QueueInv, QueueTypes

LEMMA SubmitSentStep ==
  ASSUME QueueInv, SubmitSent
  PROVE  QueueInv'
<1>1. /\ UNCHANGED <<queue, files, server, flush, composed, faults, refused, dropped, doubtful, clobbered>>
      /\ ui.pc = "upload" /\ ui.photos = {}
      /\ confirmed' = confirmed \cup {ui.report} /\ ui' = NoSubmission
  BY DEF SubmitSent
<1>2. UNCHANGED <<filed, held>> BY <1>1 DEF server
<1>3. World' = World /\ Grows(World, World') BY <1>1, SameWorld
<1>4. Sent(ui.report) /\ ui.report \in Report
  BY <1>1 DEF QueueInv, QueueTypes, UiInv, Honest, World, Sent
<1>5. LostInv' BY <1>1, <1>2, <1>4 DEF QueueInv, LostInv, Sent
<1>6. /\ ui'.pc = "idle" /\ ui'.seen = <<>> /\ ui'.sid = 0
      /\ {"pc", "report", "photos", "sid", "seen"} \subseteq DOMAIN ui'
  BY <1>1 DEF NoSubmission
<1>7. confirmed' \subseteq Report BY <1>1, <1>4 DEF QueueInv, QueueTypes
<1>8. QED BY <1>1, <1>2, <1>3, <1>5, <1>6, <1>7, SubmissionMoves

LEMMA EnqueueReadStep ==
  ASSUME QueueInv, EnqueueRead
  PROVE  QueueInv'
<1>1. UNCHANGED <<queue, files, server, flush, composed, history>> BY DEF EnqueueRead
<1>2. UNCHANGED <<filed, held, confirmed, refused, dropped, doubtful, clobbered>>
  BY <1>1 DEF server, history
<1>3. World' = World /\ Grows(World, World') BY <1>1, <1>2, SameWorld
<1>4. LostInv' BY <1>1, <1>2, <1>3, LostKept DEF QueueInv, QueueTypes
<1>5. PICK q \in {queue, <<>>} : ui' = [ui EXCEPT !.pc = "write", !.seen = q] BY DEF EnqueueRead
<1>6. /\ ui.pc # "idle" /\ ui'.pc = "write" /\ ui'.report = ui.report /\ ui'.sid = ui.sid
      /\ ui'.seen = q /\ ui'.photos = ui.photos
      /\ {"pc", "report", "photos", "sid", "seen"} \subseteq DOMAIN ui'
  BY <1>5 DEF EnqueueRead, QueueInv, QueueTypes
<1>7. ui'.sid \in Nat /\ ui'.photos \subseteq Photo BY <1>6 DEF QueueInv, QueueTypes
<1>8. Honest(ui', World') BY <1>3, <1>6 DEF QueueInv, UiInv, Honest
<1>9. QED BY <1>1, <1>2, <1>3, <1>4, <1>6, <1>7, <1>8, SubmissionMoves DEF QueueInv, QueueTypes

LEMMA EnqueueFailsStep ==
  ASSUME QueueInv, EnqueueFails
  PROVE  QueueInv'
<1>1. /\ UNCHANGED <<queue, files, server, flush, composed, history>> /\ ui' = NoSubmission
  BY DEF EnqueueFails
<1>2. UNCHANGED <<filed, held, confirmed, refused, dropped, doubtful, clobbered>>
  BY <1>1 DEF server, history
<1>3. World' = World /\ Grows(World, World') BY <1>1, <1>2, SameWorld
<1>4. LostInv' BY <1>1, <1>2, <1>3, LostKept DEF QueueInv, QueueTypes
<1>5. /\ ui'.pc = "idle" /\ ui'.seen = <<>> /\ ui'.sid = 0
      /\ {"pc", "report", "photos", "sid", "seen"} \subseteq DOMAIN ui'
  BY <1>1 DEF NoSubmission
<1>6. QED BY <1>1, <1>2, <1>3, <1>4, <1>5, SubmissionMoves DEF QueueInv, QueueTypes

(* A write of the queue that somebody read before: where nothing was         *)
(* clobbered, the entry of a report is as it was when it was read.           *)
LEMMA StoreFacts ==
  ASSUME NEW seen, NEW new, Store(seen, new), NEW r \in Report, r \notin clobbered'
  PROVE  /\ r \notin clobbered
         /\ \A i \in DOMAIN queue : queue[i].report = r =>
              \E j \in DOMAIN seen : seen[j] = queue[i]
         /\ \A j \in DOMAIN seen : seen[j].report = r =>
              \E i \in DOMAIN queue : queue[i] = seen[j]
<1>1. r \notin clobbered /\ Entry(queue, r) = Entry(seen, r) BY DEF Store
<1>2. \A q : \A i \in DOMAIN q : q[i].report = r => q[i] \in Entry(q, r) BY DEF Entry, At
<1>3. \A q : \A x \in Entry(q, r) : \E i \in DOMAIN q : q[i] = x BY DEF Entry, At
<1>4. QED BY <1>1, <1>2, <1>3

LEMMA EnqueueWriteStep ==
  ASSUME QueueInv, EnqueueWrite
  PROVE  QueueInv'
<1>1. PICK x : x = [report |-> ui.report, photos |-> ui.photos, sid |-> ui.sid, retries |-> 0] OBVIOUS
<1>2. PICK new : new = Append(ui.seen, x) OBVIOUS
<1>3. PICK seen : seen = ui.seen OBVIOUS
<1>4. /\ UNCHANGED <<files, server, flush, composed, faults, refused, dropped, doubtful>>
      /\ ui.pc = "write" /\ Store(seen, new) /\ confirmed' = confirmed \cup {ui.report}
      /\ ui' = NoSubmission
  BY <1>1, <1>2, <1>3 DEF EnqueueWrite
<1>5. UNCHANGED <<filed, held>> BY <1>4 DEF server
<1>6. /\ ui'.pc = "idle" /\ ui'.seen = <<>> /\ ui'.sid = 0
      /\ {"pc", "report", "photos", "sid", "seen"} \subseteq DOMAIN ui'
  BY <1>4 DEF NoSubmission
<1>7. World' = World /\ Grows(World, World') BY <1>4, SameWorld
<1>8. /\ queue' = new /\ clobbered \subseteq clobbered' BY <1>4 DEF Store
<1>9. PICK w : w = World OBVIOUS
<1>10. /\ ui.report \in Report /\ x \in Items /\ x.report = ui.report /\ x.sid = ui.sid
       /\ Honest(x, w) /\ Good(seen, w) /\ At(seen, x.report) = {}
  <2>1. ui.report \in Report /\ x \in Items /\ x.report = ui.report /\ x.sid = ui.sid
    BY <1>1, <1>4 DEF QueueInv, QueueTypes, Items
  <2>2. Honest(x, w) BY <1>1, <1>4, <1>9 DEF QueueInv, UiInv, Honest
  <2>3. Good(seen, w) BY <1>3, <1>9 DEF QueueInv, CopiesInv, Copies
  <2>4. At(seen, x.report) = {} BY <1>3, <1>4, <2>1 DEF QueueInv, UiInv, Copies
  <2>5. QED BY <2>1, <2>2, <2>3, <2>4
<1>11. /\ Good(new, w)
       /\ \A i \in DOMAIN new : new[i] = x \/ \E j \in DOMAIN seen : new[i] = seen[j]
       /\ \A j \in DOMAIN seen : \E i \in DOMAIN new : new[i] = seen[j]
       /\ \E i \in DOMAIN new : new[i] = x
  <2>1. PICK n \in Nat : n = Len(seen) BY <1>10, QueueFacts DEF Good
  <2>2. seen \in Seq(Items) /\ DOMAIN seen = 1 .. n BY <1>10, <2>1, QueueFacts DEF Good
  <2>3. /\ new \in Seq(Items) /\ Len(new) = n + 1
        /\ \A i \in 1 .. n : new[i] = seen[i]
        /\ new[n + 1] = x
    BY <1>2, <1>3, <1>10, <2>1, <2>2, AppendProperties
  <2>4. DOMAIN new = 1 .. n + 1 BY <2>3, QueueFacts
  <2>5. \A i \in 1 .. n : seen[i].report # x.report BY <1>10, <2>2 DEF At
  <2>6. \A i \in 1 .. n + 1 : i = n + 1 \/ i \in 1 .. n OBVIOUS
  <2>7. Distinct(seen) /\ \A i \in 1 .. n : Honest(seen[i], w) BY <1>10, <2>2 DEF Good
  <2>8. Distinct(new) BY <2>2, <2>3, <2>4, <2>5, <2>6, <2>7 DEF Distinct
  <2>9. \A i \in DOMAIN new : Honest(new[i], w) BY <1>10, <2>3, <2>4, <2>6, <2>7
  <2>10. Good(new, w) BY <2>3, <2>8, <2>9 DEF Good
  <2>11. \A i \in DOMAIN new : new[i] = x \/ \E j \in DOMAIN seen : new[i] = seen[j]
    BY <2>2, <2>3, <2>4, <2>6
  <2>12. \A j \in DOMAIN seen : \E i \in DOMAIN new : new[i] = seen[j] BY <2>2, <2>3, <2>4
  <2>13. \E i \in DOMAIN new : new[i] = x BY <2>3, <2>4
  <2>14. QED BY <2>10, <2>11, <2>12, <2>13
<1>12. QueueTypes' BY <1>4, <1>5, <1>6, <1>10 DEF QueueInv, QueueTypes
<1>13. CopiesInv'
  <2>1. \A q \in {queue', flush'.todo, flush'.seen, ui'.seen} : q \in Copies \/ Good(q, World')
    BY <1>4, <1>6, <1>7, <1>8, <1>9, <1>11 DEF Copies
  <2>2. QED BY <1>7, <2>1, CopiesKept DEF QueueInv
<1>14. UiInv' BY <1>6 DEF UiInv
<1>15. FlushInv' BY <1>4, <1>5 DEF QueueInv, FlushInv
<1>16. FiledInv'
  <2>1. SUFFICES ASSUME NEW r \in Report, r \notin doubtful', r \notin clobbered'
                 PROVE  /\ filed[r] <= 1
                        /\ r \notin composed => filed[r] = 0
                        /\ \A j \in DOMAIN flush.todo :
                             flush.todo[j].report = r /\ flush.todo[j].sid = 0 => filed[r] = 0
                        /\ \A j \in DOMAIN new :
                             new[j].report = r /\ new[j].sid = 0 =>
                               filed[r] = 0 \/ (flush.change = "created" /\ flush.todo[1].report = r)
    BY <1>4, <1>5, <1>6, <1>8 DEF FiledInv
  <2>2. /\ r \notin doubtful /\ r \notin clobbered
        /\ \A j \in DOMAIN seen : seen[j].report = r => \E i \in DOMAIN queue : queue[i] = seen[j]
    BY <1>4, <2>1, StoreFacts
  <2>3. ASSUME NEW j \in DOMAIN new, new[j].report = r, new[j].sid = 0
        PROVE  filed[r] = 0 \/ (flush.change = "created" /\ flush.todo[1].report = r)
    <3>1. CASE new[j] = x BY <1>4, <1>10, <2>2, <2>3, <3>1 DEF QueueInv, FiledInv
    <3>2. CASE \E k \in DOMAIN seen : new[j] = seen[k]
      <4>1. \E i \in DOMAIN queue : queue[i] = new[j] BY <2>2, <2>3, <3>2
      <4>2. QED BY <2>2, <2>3, <4>1 DEF QueueInv, FiledInv
    <3>3. QED BY <1>11, <3>1, <3>2
  <2>4. QED BY <2>2, <2>3 DEF QueueInv, FiledInv
<1>17. LostInv'
  <2>1. SUFFICES ASSUME NEW r \in confirmed', r \notin dropped, r \notin clobbered'
                 PROVE  At(new, r) # {} \/ Sent(r)
    BY <1>4, <1>5, <1>8 DEF LostInv, Sent
  <2>2. r \in Report BY <1>12 DEF QueueTypes
  <2>3. CASE r = ui.report BY <1>10, <1>11, <2>3 DEF At
  <2>4. CASE r \in confirmed
    <3>1. /\ r \notin clobbered
          /\ \A i \in DOMAIN queue : queue[i].report = r => \E j \in DOMAIN seen : seen[j] = queue[i]
      BY <1>4, <2>1, <2>2, StoreFacts
    <3>2. CASE Sent(r) BY <3>2
    <3>3. CASE At(queue, r) # {}
      <4>1. \E j \in DOMAIN seen : seen[j].report = r BY <3>1, <3>3 DEF At
      <4>2. QED BY <1>11, <4>1 DEF At
    <3>4. QED BY <2>1, <2>4, <3>1, <3>2, <3>3 DEF QueueInv, LostInv
  <2>5. QED BY <1>4, <2>1, <2>3, <2>4
<1>18. QED BY <1>12, <1>13, <1>14, <1>15, <1>16, <1>17 DEF QueueInv

-----------------------------------------------------------------------------
(* The flush, and the kill.  Steps that write no queue and create nothing.   *)
LEMMA FlushMoves ==
  ASSUME QueueInv, UNCHANGED <<queue, filed, composed, confirmed, clobbered>>,
         dropped \subseteq dropped', doubtful \subseteq doubtful',
         Grows(World, World'), ui' = ui \/ ui' = NoSubmission,
         {"pc", "todo", "change", "photo", "seen"} \subseteq DOMAIN flush', flush'.change \in Change,
         \/ flush'.todo \in {flush.todo, <<>>}
         \/ flush'.todo = queue /\ flush.change = "none",
         flush'.seen \in {flush.seen, queue, <<>>},
         flush.change = "created" =>
            \/ flush.todo[1].report \in doubtful'
            \/ flush'.change = "created" /\ flush'.todo = flush.todo,
         FlushInv'
  PROVE  QueueInv'
<1> USE DEF QueueInv
<1>1. ui' = NoSubmission => /\ ui'.pc = "idle" /\ ui'.seen = <<>> /\ ui'.sid = 0
                            /\ {"pc", "report", "photos", "sid", "seen"} \subseteq DOMAIN ui'
  BY DEF NoSubmission
<1>2. QueueTypes' BY <1>1 DEF QueueTypes
<1>3. \A q \in {queue', flush'.todo, flush'.seen, ui'.seen} : q \in Copies BY <1>1 DEF Copies
<1>4. CopiesInv' BY <1>3, CopiesKept
<1>5. UiInv' BY <1>1, <1>3, UiKept
<1>6. DOMAIN <<>> = {} BY EmptySeq
<1>7. FiledInv'
  <2>1. SUFFICES ASSUME NEW r \in Report, r \notin doubtful', r \notin clobbered
                 PROVE  /\ ui'.pc # "idle" /\ ui'.report = r /\ ui'.sid = 0 => filed[r] = 0
                        /\ \A j \in DOMAIN flush'.todo :
                             flush'.todo[j].report = r /\ flush'.todo[j].sid = 0 => filed[r] = 0
                        /\ \A j \in DOMAIN queue :
                             queue[j].report = r /\ queue[j].sid = 0 =>
                               filed[r] = 0 \/ (flush'.change = "created" /\ flush'.todo[1].report = r)
    BY DEF FiledInv
  <2>2. ui'.pc # "idle" /\ ui'.report = r /\ ui'.sid = 0 => filed[r] = 0
    BY <1>1, <2>1 DEF FiledInv
  <2>3. \A j \in DOMAIN flush'.todo :
           flush'.todo[j].report = r /\ flush'.todo[j].sid = 0 => filed[r] = 0
    <3>1. CASE flush'.todo = flush.todo BY <2>1, <3>1 DEF FiledInv
    <3>2. CASE flush'.todo = <<>> BY <1>6, <3>2
    <3>3. CASE flush'.todo = queue /\ flush.change = "none" BY <2>1, <3>3 DEF FiledInv
    <3>4. QED BY <3>1, <3>2, <3>3
  <2>4. \A j \in DOMAIN queue :
           queue[j].report = r /\ queue[j].sid = 0 =>
             filed[r] = 0 \/ (flush'.change = "created" /\ flush'.todo[1].report = r)
    BY <2>1 DEF FiledInv
  <2>5. QED BY <2>2, <2>3, <2>4
<1>8. LostInv' BY LostKept DEF QueueTypes
<1>9. QED BY <1>2, <1>4, <1>5, <1>7, <1>8

LEMMA NoFlushFacts ==
  /\ NoFlush.pc = "idle" /\ NoFlush.todo = <<>> /\ NoFlush.change = "none"
  /\ NoFlush.photo = Nil /\ NoFlush.seen = <<>>
  /\ {"pc", "todo", "change", "photo", "seen"} \subseteq DOMAIN NoFlush
BY DEF NoFlush

LEMMA IdleFlush == flush' = NoFlush => FlushInv' /\ flush'.todo = <<>> /\ flush'.seen = <<>>
  /\ flush'.change \in Change /\ {"pc", "todo", "change", "photo", "seen"} \subseteq DOMAIN flush'
BY NoFlushFacts DEF FlushInv, Change

LEMMA StartFlushStep ==
  ASSUME QueueInv, StartFlush
  PROVE  QueueInv'
<1>1. UNCHANGED <<queue, files, server, ui, composed, history>> /\ flush = NoFlush
  BY DEF StartFlush
<1>2. UNCHANGED <<filed, held, confirmed, refused, dropped, doubtful, clobbered>>
  BY <1>1 DEF server, history
<1>3. Grows(World, World') BY <1>1, <1>2, SameWorld
<1>4. PICK q \in {queue, <<>>} : flush' = [NoFlush EXCEPT !.pc = "next", !.todo = q] BY DEF StartFlush
<1>5. /\ flush'.pc = "next" /\ flush'.todo = q /\ flush'.change = "none" /\ flush'.photo = Nil
      /\ flush'.seen = <<>> /\ {"pc", "todo", "change", "photo", "seen"} \subseteq DOMAIN flush'
  BY <1>4 DEF NoFlush
<1>6. FlushInv' BY <1>5 DEF FlushInv
<1>7. flush.change = "none" BY <1>1, NoFlushFacts
<1>8. QED BY <1>1, <1>2, <1>3, <1>5, <1>6, <1>7, FlushMoves DEF Change

(* A run that ends, between two items or because it cannot go on.            *)
LEMMA FlushEnds ==
  ASSUME QueueInv, EndFlush \/ LosesConnection
  PROVE  QueueInv'
<1>1. /\ UNCHANGED <<queue, files, server, ui, composed, faults, history>>
      /\ flush' = NoFlush /\ flush.pc = "next"
  BY DEF EndFlush, LosesConnection
<1>2. UNCHANGED <<filed, held, confirmed, refused, dropped, doubtful, clobbered>>
  BY <1>1 DEF server, history
<1>3. Grows(World, World') BY <1>1, <1>2, SameWorld
<1>4. flush.change = "none" BY <1>1 DEF QueueInv, FlushInv
<1>5. QED BY <1>1, <1>2, <1>3, <1>4, IdleFlush, FlushMoves

LEMMA ProcessItemStep ==
  ASSUME QueueInv, ProcessItem
  PROVE  QueueInv'
<1>1. /\ UNCHANGED <<queue, files, server, ui, composed, faults, history>>
      /\ flush.pc = "next" /\ flush.todo # <<>>
      /\ flush' = [flush EXCEPT !.pc = IF Current.sid = 0 THEN "create" ELSE "upload"]
  BY DEF ProcessItem
<1>2. UNCHANGED <<filed, held, confirmed, refused, dropped, doubtful, clobbered>>
  BY <1>1 DEF server, history
<1>3. Grows(World, World') BY <1>1, <1>2, SameWorld
<1>4. flush.change = "none" BY <1>1 DEF QueueInv, FlushInv
<1>5. Current = flush.todo[1] BY <1>1, CurrentFacts DEF QueueInv
<1>6. /\ flush'.todo = flush.todo /\ flush'.change = flush.change /\ flush'.photo = flush.photo
      /\ flush'.seen = flush.seen /\ {"pc", "todo", "change", "photo", "seen"} \subseteq DOMAIN flush'
      /\ flush'.pc = IF flush.todo[1].sid = 0 THEN "create" ELSE "upload"
  BY <1>1, <1>5 DEF QueueInv, QueueTypes
<1>7. FlushInv' BY <1>1, <1>4, <1>6 DEF QueueInv, FlushInv
<1>8. QED BY <1>1, <1>2, <1>3, <1>4, <1>6, <1>7, FlushMoves DEF Change

(* What a step that alters the queue leaves for UpdateRead and UpdateWrite.  *)
LEMMA AlterStep ==
  ASSUME QueueInv, NEW c \in Change, NEW p, Alter(c, p),
         UNCHANGED <<queue, filed, composed, confirmed, clobbered, ui>>,
         dropped \subseteq dropped', doubtful \subseteq doubtful', Grows(World, World'),
         held \subseteq held', refused \subseteq refused',
         flush.todo # <<>>, flush.change = "none", c \notin {"none", "created"},
         c # "photo" => p = Nil,
         c \in {"photo", "dequeue"} => flush.todo[1].sid # 0,
         c = "photo" => p \in held' \cup refused',
         c = "dequeue" => flush.todo[1].photos = {},
         c = "drop" => flush.todo[1].report \in dropped'
  PROVE  QueueInv'
<1>1. /\ flush'.pc = "read" /\ flush'.change = c /\ flush'.photo = p
      /\ flush'.todo = flush.todo /\ flush'.seen = flush.seen
      /\ DOMAIN flush' = DOMAIN flush
  BY AlterFacts DEF QueueInv
<1>2. {"pc", "todo", "change", "photo", "seen"} \subseteq DOMAIN flush' BY <1>1 DEF QueueInv, QueueTypes
<1>3. FlushInv' BY <1>1 DEF FlushInv
<1>4. QED BY <1>1, <1>2, <1>3, FlushMoves

LEMMA DropGrows ==
  ASSUME QueueInv, flush.todo # <<>>, files' = files \ Current.photos,
         dropped' = dropped \cup {Current.report}, UNCHANGED <<composed, filed, held, refused>>
  PROVE  Grows(World, World')
<1>1. Current.photos \subseteq PhotosOf[Current.report]
  BY CurrentFacts DEF QueueInv, Honest
<1>2. Kept \subseteq Kept' BY <1>1 DEF Kept
<1>3. QED BY <1>2 DEF Grows, World

LEMMA DropStep ==
  ASSUME QueueInv, DropItem, UNCHANGED <<queue, server, ui, composed, confirmed, refused, doubtful, clobbered>>,
         flush.todo # <<>>, flush.change = "none"
  PROVE  QueueInv'
<1>1. Alter("drop", Nil) /\ files' = files \ Current.photos /\ dropped' = dropped \cup {Current.report}
  BY DEF DropItem
<1>2. UNCHANGED <<filed, held>> BY DEF server
<1>3. Grows(World, World') BY <1>1, <1>2, DropGrows
<1>4. flush.todo[1].report \in dropped' BY <1>1, CurrentFacts DEF QueueInv
<1>5. "drop" \in Change /\ "drop" \notin {"none", "created", "photo", "dequeue"} BY DEF Change
<1>6. QED BY <1>1, <1>2, <1>3, <1>4, <1>5, AlterStep

LEMMA GiveUpStep ==
  ASSUME QueueInv, GiveUp
  PROVE  QueueInv'
BY DropStep DEF GiveUp, QueueInv, FlushInv

LEMMA FlushNotCreatedStep ==
  ASSUME QueueInv, FlushNotCreated
  PROVE  QueueInv'
<1>1. /\ UNCHANGED <<queue, server, ui, composed, faults, confirmed, refused, doubtful, clobbered>>
      /\ flush.pc = "create" /\ flush.todo # <<>> /\ flush.change = "none"
  BY DEF FlushNotCreated, QueueInv, FlushInv
<1>2. CASE DropItem BY <1>1, <1>2, DropStep
<1>3. CASE Alter("retry", Nil) /\ UNCHANGED <<files, dropped>>
  <2>1. UNCHANGED <<filed, held>> BY <1>1 DEF server
  <2>2. Grows(World, World') BY <1>1, <1>3, SameWorld
  <2>3. "retry" \in Change /\ "retry" \notin {"none", "created", "photo", "dequeue", "drop"} BY DEF Change
  <2>4. QED BY <1>1, <1>3, <2>1, <2>2, <2>3, AlterStep
<1>4. QED BY <1>2, <1>3 DEF FlushNotCreated

LEMMA FlushPhotoStep ==
  ASSUME QueueInv, NEW p, FlushPhoto(p)
  PROVE  QueueInv'
<1>1. /\ UNCHANGED <<queue, filed, ui, composed, faults, confirmed, dropped, doubtful, clobbered>>
      /\ flush.pc = "upload" /\ PhotoDone(p) /\ Alter("photo", p)
  BY DEF FlushPhoto
<1>2. flush.todo # <<>> /\ flush.change = "none" /\ flush.todo[1].sid # 0
  BY <1>1 DEF QueueInv, FlushInv
<1>3. /\ Grows(World, World') /\ held \subseteq held' /\ refused \subseteq refused'
      /\ p \in held' \cup refused'
  BY <1>1, PhotoDoneGrows
<1>4. "photo" \in Change /\ "photo" \notin {"none", "created", "dequeue", "drop"} BY DEF Change
<1>5. QED BY <1>1, <1>2, <1>3, <1>4, AlterStep

LEMMA FlushPhotoFailsStep ==
  ASSUME QueueInv, NEW p, FlushPhotoFails(p)
  PROVE  QueueInv'
<1>1. /\ UNCHANGED <<queue, files, filed, ui, composed, faults, history>>
      /\ flush.pc = "upload" /\ Alter("retry", Nil)
      /\ held' \in {held} \cup (IF p \in files THEN {held \cup {p}} ELSE {})
  BY DEF FlushPhotoFails, KeepFile
<1>2. UNCHANGED <<confirmed, refused, dropped, doubtful, clobbered>> BY <1>1 DEF history
<1>3. flush.todo # <<>> /\ flush.change = "none" BY <1>1 DEF QueueInv, FlushInv
<1>4. Grows(World, World') /\ held \subseteq held' BY <1>1, <1>2, PerhapsHeldGrows
<1>5. "retry" \in Change /\ "retry" \notin {"none", "created", "photo", "dequeue", "drop"} BY DEF Change
<1>6. QED BY <1>1, <1>2, <1>3, <1>4, <1>5, AlterStep

LEMMA FlushSentStep ==
  ASSUME QueueInv, FlushSent
  PROVE  QueueInv'
<1>1. /\ UNCHANGED <<queue, files, server, ui, composed, faults, history>>
      /\ flush.pc = "upload" /\ Alter("dequeue", Nil) /\ Current.photos = {}
  BY DEF FlushSent
<1>2. UNCHANGED <<filed, held, confirmed, refused, dropped, doubtful, clobbered>>
  BY <1>1 DEF server, history
<1>3. flush.todo # <<>> /\ flush.change = "none" /\ flush.todo[1].sid # 0
  BY <1>1 DEF QueueInv, FlushInv
<1>4. flush.todo[1].photos = {} BY <1>1, <1>3, CurrentFacts DEF QueueInv
<1>5. Grows(World, World') BY <1>1, <1>2, SameWorld
<1>6. "dequeue" \in Change /\ "dequeue" \notin {"none", "created", "photo", "drop"} BY DEF Change
<1>7. QED BY <1>1, <1>2, <1>3, <1>4, <1>5, <1>6, AlterStep

LEMMA UpdateReadStep ==
  ASSUME QueueInv, UpdateRead
  PROVE  QueueInv'
<1>1. UNCHANGED <<queue, files, server, ui, composed, history>> /\ flush.pc = "read"
  BY DEF UpdateRead
<1>2. UNCHANGED <<filed, held, confirmed, refused, dropped, doubtful, clobbered>>
  BY <1>1 DEF server, history
<1>3. Grows(World, World') BY <1>1, <1>2, SameWorld
<1>4. PICK q \in {queue, <<>>} : flush' = [flush EXCEPT !.pc = "write", !.seen = q] BY DEF UpdateRead
<1>5. /\ flush'.pc = "write" /\ flush'.todo = flush.todo /\ flush'.change = flush.change
      /\ flush'.photo = flush.photo /\ flush'.seen = q
      /\ {"pc", "todo", "change", "photo", "seen"} \subseteq DOMAIN flush'
  BY <1>4 DEF QueueInv, QueueTypes
<1>6. FlushInv' BY <1>1, <1>2, <1>5 DEF QueueInv, FlushInv
<1>7. QED BY <1>1, <1>2, <1>3, <1>5, <1>6, FlushMoves DEF QueueInv, QueueTypes

(* A creation that is not recorded is one the report is doubtful for.        *)
LEMMA UpdateFailsStep ==
  ASSUME QueueInv, UpdateFails
  PROVE  QueueInv'
<1>1. /\ UNCHANGED <<queue, files, server, ui, composed, confirmed, refused, dropped, clobbered>>
      /\ flush.pc = "write" /\ doubtful' = doubtful \cup Unrecorded
      /\ \/ flush' = NoFlush
         \/ flush' = [flush EXCEPT !.pc = "read", !.change = "retry", !.photo = Nil, !.seen = <<>>]
  BY DEF UpdateFails
<1>2. UNCHANGED <<filed, held>> BY <1>1 DEF server
<1>3. Grows(World, World') BY <1>1, SameWorld
<1>4. flush.todo # <<>> BY <1>1 DEF QueueInv, FlushInv
<1>5. flush.change = "created" => flush.todo[1].report \in doubtful'
  BY <1>1, <1>4, CurrentFacts DEF Unrecorded, QueueInv
<1>6. CASE flush' = NoFlush BY <1>1, <1>2, <1>3, <1>5, <1>6, IdleFlush, FlushMoves
<1>7. CASE flush' = [flush EXCEPT !.pc = "read", !.change = "retry", !.photo = Nil, !.seen = <<>>]
  <2>1. /\ flush'.pc = "read" /\ flush'.todo = flush.todo /\ flush'.change = "retry"
        /\ flush'.photo = Nil /\ flush'.seen = <<>>
        /\ {"pc", "todo", "change", "photo", "seen"} \subseteq DOMAIN flush'
    BY <1>7 DEF QueueInv, QueueTypes
  <2>2. FlushInv' BY <1>4, <2>1 DEF FlushInv
  <2>3. "retry" \in Change BY DEF Change
  <2>4. QED BY <1>1, <1>2, <1>3, <1>5, <2>1, <2>2, <2>3, FlushMoves
<1>8. QED BY <1>1, <1>6, <1>7

LEMMA KillStep ==
  ASSUME QueueInv, Kill
  PROVE  QueueInv'
<1>1. /\ UNCHANGED <<queue, files, server, composed, confirmed, refused, dropped, clobbered>>
      /\ ui' = NoSubmission /\ flush' = NoFlush /\ doubtful' = doubtful \cup Unrecorded
  BY DEF Kill
<1>2. UNCHANGED <<filed, held>> BY <1>1 DEF server
<1>3. Grows(World, World') BY <1>1, SameWorld
<1>4. flush.change = "created" => flush.todo[1].report \in doubtful'
  <2>1. flush.change = "created" => flush.todo # <<>> BY DEF QueueInv, FlushInv
  <2>2. QED BY <1>1, <2>1, CurrentFacts DEF Unrecorded, QueueInv
<1>5. QED BY <1>1, <1>2, <1>3, <1>4, IdleFlush, FlushMoves

LEMMA FlushCreatedStep ==
  ASSUME QueueInv, FlushCreated
  PROVE  QueueInv'
<1>1. /\ UNCHANGED <<queue, files, held, ui, composed, confirmed, refused, dropped, clobbered>>
      /\ flush.pc = "create" /\ filed' = [filed EXCEPT ![Current.report] = @ + 1]
  BY DEF FlushCreated
<1>2. flush.todo # <<>> /\ flush.change = "none" /\ flush.photo = Nil /\ flush.todo[1].sid = 0
  BY <1>1 DEF QueueInv, FlushInv
<1>3. PICK c : c = flush.todo[1] OBVIOUS
<1>4. PICK R : R = c.report OBVIOUS
<1>5. /\ 1 \in DOMAIN flush.todo /\ Current = c /\ c \in Items /\ Honest(c, World)
      /\ R \in Report /\ Good(flush.todo, World)
  BY <1>2, <1>3, <1>4, CurrentFacts DEF QueueInv
<1>6. /\ filed' \in [Report -> Nat] /\ filed'[R] = filed[R] + 1
      /\ filed'[R] \in Nat /\ filed'[R] # 0 /\ filed[R] \in Nat
      /\ \A r \in Report : r # R => filed'[r] = filed[r]
  BY <1>1, <1>4, <1>5 DEF QueueInv, QueueTypes
<1>7. Grows(World, World')
  <2>1. \A r \in Report : filed[r] > 0 => filed'[r] > 0 BY <1>6 DEF QueueInv, QueueTypes
  <2>2. QED BY <1>1, <2>1, WorldGrows DEF Kept
<1>8. PICK w : w = World' OBVIOUS
<1>9. Honest(c, w) /\ w.filed[R] > 0 /\ Good(flush.todo, w)
  <2>1. PICK v : v = World OBVIOUS
  <2>2. Honest(c, w) BY <1>4, <1>5, <1>7, <1>8, <2>1, HonestKept
  <2>3. Good(flush.todo, w) BY <1>5, <1>7, <1>8, <2>1, GoodKept
  <2>4. QED BY <1>6, <1>8, <2>2, <2>3 DEF World
<1>10. PICK new : new = flush'.todo OBVIOUS
<1>11. /\ Good(new, w) /\ DOMAIN new = DOMAIN flush.todo /\ new # <<>>
       /\ \A i \in DOMAIN new : new[i].report = flush.todo[i].report
       /\ \A i \in DOMAIN new : new[i].report # R => new[i] = flush.todo[i]
       /\ flush'.pc = "read" /\ flush'.photo = Nil /\ flush'.seen = flush.seen
       /\ {"pc", "todo", "change", "photo", "seen"} \subseteq DOMAIN flush'
       /\ \/ /\ flush'.change = "created" /\ doubtful' = doubtful
             /\ new[1].sid # 0
             /\ \A i \in DOMAIN new : new[i].report = R => new[i].sid # 0
          \/ /\ flush'.change = "retry" /\ doubtful' = doubtful \cup {R}
  <2>1. CASE RecordCreated(filed'[Current.report]) /\ UNCHANGED <<faults, doubtful>>
    <3>1. PICK s : s = filed'[R] OBVIOUS
    <3>2. flush' = [flush EXCEPT !.pc = "read", !.change = "created",
                                 !.todo = [@ EXCEPT ![1].sid = s]]
      BY <1>4, <1>5, <2>1, <3>1 DEF RecordCreated
    <3>3. PICK x : x = [c EXCEPT !.sid = s] OBVIOUS
    <3>4. /\ flush'.pc = "read" /\ flush'.change = "created" /\ flush'.photo = Nil
          /\ flush'.seen = flush.seen
          /\ {"pc", "todo", "change", "photo", "seen"} \subseteq DOMAIN flush'
          /\ new = [flush.todo EXCEPT ![1].sid = s]
      BY <1>2, <1>10, <3>2 DEF QueueInv, QueueTypes
    <3>5. new = [flush.todo EXCEPT ![1] = x] BY <1>3, <3>3, <3>4
    <3>6. x \in Items /\ x.report = R /\ x.photos = c.photos /\ x.sid = s /\ s \in Nat /\ s # 0
      BY <1>4, <1>5, <1>6, <3>1, <3>3 DEF Items
    <3>7. Honest(x, w) BY <1>4, <1>9, <3>6 DEF Honest
    <3>8. PICK q : q = flush.todo OBVIOUS
    <3>9. /\ Good(new, w) /\ DOMAIN new = DOMAIN q /\ new # <<>>
          /\ new[1] = x /\ \A i \in DOMAIN q : i # 1 => new[i] = q[i]
      <4>1. Good(q, w) /\ q # <<>> /\ Of(x, q[1]) /\ new = [q EXCEPT ![1] = x]
        BY <1>2, <1>3, <1>4, <1>9, <3>5, <3>6, <3>8 DEF Of
      <4>2. x \in Items BY <3>6
      <4>3. QED BY <3>7, <4>1, <4>2, HeadChanged
    <3>10. /\ \A i \in DOMAIN new : new[i].report = q[i].report
           /\ \A i \in DOMAIN new : new[i].report # R => new[i] = q[i]
           /\ \A i \in DOMAIN new : new[i].report = R => new[i].sid # 0
      <4>1. 1 \in DOMAIN q /\ q[1].report = R /\ Distinct(q)
        BY <1>3, <1>4, <1>5, <3>8 DEF Good
      <4>2. \A i \in DOMAIN q : q[i].report = R => i = 1 BY <4>1 DEF Distinct
      <4>3. QED BY <3>6, <3>9, <4>1, <4>2
    <3>11. QED BY <2>1, <3>4, <3>6, <3>8, <3>9, <3>10
  <2>2. CASE Alter("retry", Nil) /\ doubtful' = doubtful \cup {Current.report}
    <3>1. /\ flush'.pc = "read" /\ flush'.change = "retry" /\ flush'.photo = Nil
          /\ flush'.todo = flush.todo /\ flush'.seen = flush.seen
          /\ DOMAIN flush' = DOMAIN flush
      BY <2>2, AlterFacts DEF QueueInv
    <3>2. {"pc", "todo", "change", "photo", "seen"} \subseteq DOMAIN flush'
      BY <3>1 DEF QueueInv, QueueTypes
    <3>3. QED BY <1>2, <1>4, <1>5, <1>9, <1>10, <2>2, <3>1, <3>2
  <2>3. QED BY <2>1, <2>2 DEF FlushCreated
<1>12. QueueTypes' BY <1>1, <1>6, <1>11 DEF QueueInv, QueueTypes, Change
<1>13. CopiesInv'
  <2>1. \A q \in {queue', flush'.todo, flush'.seen, ui'.seen} : q \in Copies \/ Good(q, World')
    BY <1>1, <1>8, <1>10, <1>11 DEF Copies
  <2>2. QED BY <1>7, <2>1, CopiesKept DEF QueueInv
<1>14. UiInv'
  <2>1. Drawn(flush'.todo) BY <1>10, <1>11 DEF Drawn, Copies
  <2>2. \A q \in {queue', flush'.todo, flush'.seen, ui'.seen} : q \in Copies \/ Drawn(q)
    BY <1>1, <1>11, <2>1 DEF Copies
  <2>3. QED BY <1>1, <1>7, <2>2, UiKept DEF QueueInv
<1>15. FlushInv' BY <1>10, <1>11 DEF FlushInv
<1>16. FiledInv'
  <2>1. SUFFICES ASSUME NEW r \in Report, r \notin doubtful', r \notin clobbered
                 PROVE  /\ filed'[r] <= 1
                        /\ r \notin composed => filed'[r] = 0
                        /\ ui.pc # "idle" /\ ui.report = r /\ ui.sid = 0 => filed'[r] = 0
                        /\ \A j \in DOMAIN new : new[j].report = r /\ new[j].sid = 0 => filed'[r] = 0
                        /\ \A j \in DOMAIN queue :
                             queue[j].report = r /\ queue[j].sid = 0 =>
                               filed'[r] = 0 \/ (flush'.change = "created" /\ new[1].report = r)
    BY <1>1, <1>10 DEF FiledInv
  <2>2. r \notin doubtful BY <1>11, <2>1
  <2>3. CASE r # R
    <3>1. filed'[r] = filed[r] BY <1>6, <2>3
    <3>2. \A j \in DOMAIN new : new[j].report = r /\ new[j].sid = 0 => filed[r] = 0
      BY <1>11, <2>1, <2>2, <2>3 DEF QueueInv, FiledInv
    <3>3. \A j \in DOMAIN queue : queue[j].report = r /\ queue[j].sid = 0 => filed[r] = 0
      BY <1>2, <2>1, <2>2 DEF QueueInv, FiledInv
    <3>4. QED BY <2>1, <2>2, <3>1, <3>2, <3>3 DEF QueueInv, FiledInv
  <2>4. CASE r = R
    <3>1. flush'.change = "created" /\ \A i \in DOMAIN new : new[i].report = R => new[i].sid # 0
      BY <1>11, <2>1, <2>4
    <3>2. filed[r] = 0 BY <1>2, <1>3, <1>4, <1>5, <2>1, <2>2, <2>4 DEF QueueInv, FiledInv
    <3>3. filed'[r] = 1 BY <1>6, <2>4, <3>2
    <3>4. r \in composed BY <1>4, <1>5, <2>4 DEF Honest, World
    <3>5. ~ (ui.pc # "idle" /\ ui.report = r)
      BY <1>3, <1>4, <1>5, <2>4 DEF QueueInv, UiInv, At, Copies
    <3>6. new[1].report = r BY <1>3, <1>4, <1>5, <1>11, <2>4
    <3>7. QED BY <2>4, <3>1, <3>3, <3>4, <3>5, <3>6
  <2>5. QED BY <2>3, <2>4
<1>17. LostInv' BY <1>1, <1>7, LostKept DEF QueueInv, QueueTypes
<1>18. QED BY <1>12, <1>13, <1>14, <1>15, <1>16, <1>17 DEF QueueInv

LEMMA RevisedFacts ==
  ASSUME QueueInv, flush.pc = "write", flush.change \notin {"dequeue", "drop"},
         NEW w, w = World, NEW y \in Items, y.report = flush.todo[1].report, Honest(y, w)
  PROVE  /\ Revised(y) \in Items /\ Revised(y).report = y.report /\ Honest(Revised(y), w)
         /\ Revised(y).sid = IF flush.change = "created" THEN flush.todo[1].sid ELSE y.sid
<1>1. flush.todo # <<>> /\ flush.change \in {"created", "photo", "retry"}
  BY DEF QueueInv, QueueTypes, FlushInv, Change
<1>2. PICK c : c = flush.todo[1] OBVIOUS
<1>3. Current = c /\ c \in Items /\ Honest(c, w)
  BY <1>1, <1>2, CurrentFacts DEF QueueInv
<1>4. CASE flush.change = "created"
  <2>1. Revised(y) = [y EXCEPT !.sid = c.sid] BY <1>3, <1>4 DEF Revised, Marked
  <2>2. PICK z : z = Revised(y) OBVIOUS
  <2>3. /\ z \in Items /\ z.report = y.report /\ z.photos = y.photos /\ z.sid = c.sid
    BY <1>3, <2>1, <2>2 DEF Items
  <2>4. Honest(z, w) BY <1>2, <1>3, <2>3 DEF Honest
  <2>5. QED BY <1>2, <1>4, <2>2, <2>3, <2>4
<1>5. CASE flush.change = "photo"
  <2>1. PICK p : p = flush.photo OBVIOUS
  <2>2. Revised(y) = [y EXCEPT !.photos = @ \ {p}] BY <1>5, <2>1 DEF Revised, Uploaded
  <2>3. PICK z : z = Revised(y) OBVIOUS
  <2>4. z \in Items /\ z.report = y.report /\ z.photos = y.photos \ {p} /\ z.sid = y.sid
    BY <2>2, <2>3 DEF Items
  <2>5. p \in w.done BY <1>5, <2>1 DEF QueueInv, FlushInv, World
  <2>6. Honest(z, w) BY <2>4, <2>5 DEF Honest
  <2>7. QED BY <1>5, <2>3, <2>4, <2>6
<1>6. CASE flush.change = "retry"
  <2>1. Revised(y) = [y EXCEPT !.retries = @ + 1] BY <1>6 DEF Revised, Retried
  <2>2. PICK z : z = Revised(y) OBVIOUS
  <2>3. z \in Items /\ z.report = y.report /\ z.photos = y.photos /\ z.sid = y.sid
    BY <2>1, <2>2 DEF Items
  <2>4. Honest(z, w) BY <2>3 DEF Honest
  <2>5. QED BY <1>6, <2>2, <2>3, <2>4
<1>7. QED BY <1>1, <1>4, <1>5, <1>6

LEMMA UpdatedFacts ==
  ASSUME QueueInv, flush.pc = "write",
         NEW q, q = flush.seen, NEW c, c = flush.todo[1], NEW new, new = Updated
  PROVE  /\ Good(new, World)
         /\ \A j \in DOMAIN new : \E i \in DOMAIN q :
              /\ new[j].report = q[i].report
              /\ IF q[i].report # c.report THEN new[j] = q[i]
                 ELSE new[j].sid = IF flush.change = "created" THEN c.sid ELSE q[i].sid
         /\ \A i \in DOMAIN q : q[i].report # c.report \/ flush.change \notin {"dequeue", "drop"} =>
              \E j \in DOMAIN new : new[j].report = q[i].report
<1>1. flush.todo # <<>> BY DEF QueueInv, FlushInv
<1>2. PICK R : R = c.report OBVIOUS
<1>3. Current.report = R BY <1>1, <1>2, CurrentFacts DEF QueueInv
<1>4. PICK w : w = World OBVIOUS
<1>5. Good(q, w) BY <1>4 DEF QueueInv, CopiesInv, Copies
<1>6. q \in Seq(Items) /\ Distinct(q) /\ \A i \in DOMAIN q : q[i] \in Items /\ Honest(q[i], w)
  BY <1>5, QueueFacts DEF Good
<1>7. CASE flush.change \in {"dequeue", "drop"}
  <2>1. new = Without(q, R) BY <1>3, <1>7 DEF Updated
  <2>2. /\ new \in Seq(Items) /\ Distinct(new)
        /\ \A j \in DOMAIN new : \E i \in DOMAIN q : new[j] = q[i] /\ q[i].report # R
        /\ \A i \in DOMAIN q : q[i].report # R => \E j \in DOMAIN new : new[j] = q[i]
    <3>1. q \in Seq(Items) /\ Distinct(q) BY <1>6
    <3>2. QED BY <2>1, <3>1, WithoutFacts
  <2>3. \A j \in DOMAIN new : Honest(new[j], w) BY <1>6, <2>2
  <2>4. Good(new, w) BY <2>2, <2>3 DEF Good
  <2>5. QED BY <1>2, <1>4, <1>7, <2>2, <2>4
<1>8. CASE flush.change \notin {"dequeue", "drop"}
  <2>1. new = [i \in DOMAIN q |-> IF q[i].report = R THEN Revised(q[i]) ELSE q[i]]
    BY <1>3, <1>8 DEF Updated
  <2>2. PICK n \in Nat : n = Len(q) BY <1>6, QueueFacts
  <2>3. DOMAIN q = 1 .. n /\ DOMAIN new = 1 .. n BY <1>6, <2>1, <2>2, QueueFacts
  <2>4. ASSUME NEW i \in 1 .. n
        PROVE  /\ new[i] \in Items /\ new[i].report = q[i].report /\ Honest(new[i], w)
               /\ IF q[i].report # R THEN new[i] = q[i]
                  ELSE new[i].sid = IF flush.change = "created" THEN c.sid ELSE q[i].sid
    <3>1. PICK y : y = q[i] OBVIOUS
    <3>2. y \in Items /\ Honest(y, w) BY <1>6, <2>3, <3>1
    <3>3. CASE y.report = R
      <4>1. new[i] = Revised(y) BY <2>1, <2>3, <3>1, <3>3
      <4>2. /\ Revised(y) \in Items /\ Revised(y).report = y.report /\ Honest(Revised(y), w)
            /\ Revised(y).sid = IF flush.change = "created" THEN flush.todo[1].sid ELSE y.sid
        BY <1>2, <1>4, <1>8, <3>2, <3>3, RevisedFacts
      <4>3. QED BY <3>1, <3>3, <4>1, <4>2
    <3>4. CASE y.report # R
      <4>1. new[i] = y BY <2>1, <2>3, <3>1, <3>4
      <4>2. QED BY <3>1, <3>2, <3>4, <4>1
    <3>5. QED BY <3>3, <3>4
  <2>5. new \in Seq(Items)
    <3>1. new = [i \in 1 .. n |-> new[i]] BY <2>1, <2>3
    <3>2. QED BY <2>4, <3>1, IsASeq
  <2>6. Distinct(new) BY <1>6, <2>3, <2>4 DEF Distinct
  <2>7. Good(new, w) BY <2>3, <2>4, <2>5, <2>6 DEF Good
  <2>8. QED BY <1>2, <1>4, <1>8, <2>3, <2>4, <2>7
<1>9. QED BY <1>7, <1>8

LEMMA UpdateWriteStep ==
  ASSUME QueueInv, UpdateWrite
  PROVE  QueueInv'
<1>1. PICK q : q = flush.seen OBVIOUS
<1>2. PICK c : c = flush.todo[1] OBVIOUS
<1>3. PICK R : R = c.report OBVIOUS
<1>4. PICK new : new = Updated OBVIOUS
<1>5. PICK td : td = flush.todo OBVIOUS
<1>6. PICK td1 : td1 = flush'.todo OBVIOUS
<1>7. PICK w : w = World OBVIOUS
<1>8. /\ UNCHANGED <<files, server, ui, composed, faults, confirmed, refused, dropped, doubtful>>
      /\ flush.pc = "write" /\ Store(q, new)
      /\ flush' = IF flush.change \in {"created", "photo"}
                  THEN [NoFlush EXCEPT !.pc = "upload",
                          !.todo = [flush.todo EXCEPT ![1].photos = @ \ {flush.photo}]]
                  ELSE [NoFlush EXCEPT !.pc = "next", !.todo = Tail(flush.todo)]
  BY <1>1, <1>4 DEF UpdateWrite
<1>9. UNCHANGED <<filed, held>> BY <1>8 DEF server
<1>10. World' = World /\ Grows(World, World') BY <1>8, SameWorld
<1>11. queue' = new /\ clobbered \subseteq clobbered' BY <1>8 DEF Store
<1>12. td # <<>> /\ flush.change # "none" BY <1>5, <1>8 DEF QueueInv, FlushInv
<1>13. /\ 1 \in DOMAIN td /\ c = td[1] /\ c \in Items /\ Honest(c, w) /\ R \in Report
       /\ Good(td, w)
  BY <1>2, <1>3, <1>5, <1>7, <1>12, CurrentFacts DEF QueueInv
<1>14. /\ Good(new, w)
       /\ \A j \in DOMAIN new : \E i \in DOMAIN q :
            /\ new[j].report = q[i].report
            /\ IF q[i].report # R THEN new[j] = q[i]
               ELSE new[j].sid = IF flush.change = "created" THEN c.sid ELSE q[i].sid
       /\ \A i \in DOMAIN q : q[i].report # R \/ flush.change \notin {"dequeue", "drop"} =>
            \E j \in DOMAIN new : new[j].report = q[i].report
  BY <1>1, <1>2, <1>3, <1>4, <1>7, <1>8, UpdatedFacts
(* The run: it goes on with the same items, the first of them brought up to  *)
(* date, or with the others.                                                 *)
<1>15. /\ flush'.change = "none" /\ flush'.photo = Nil /\ flush'.seen = <<>>
       /\ {"pc", "todo", "change", "photo", "seen"} \subseteq DOMAIN flush'
       /\ flush'.pc = "next" \/ (flush'.pc = "upload" /\ td1 # <<>> /\ td1[1].sid # 0)
       /\ Good(td1, w)
       /\ \A i \in DOMAIN td1 : \E j \in DOMAIN td :
            td1[i].report = td[j].report /\ td1[i].sid = td[j].sid
  <2>1. CASE flush.change \in {"created", "photo"}
    <3>1. PICK p : p = flush.photo OBVIOUS
    <3>2. PICK x : x = [c EXCEPT !.photos = @ \ {p}] OBVIOUS
    <3>3. /\ flush'.pc = "upload" /\ flush'.change = "none" /\ flush'.photo = Nil
          /\ flush'.seen = <<>> /\ td1 = [td EXCEPT ![1].photos = @ \ {p}]
          /\ {"pc", "todo", "change", "photo", "seen"} \subseteq DOMAIN flush'
      BY <1>5, <1>6, <1>8, <2>1, <3>1 DEF NoFlush
    <3>4. td1 = [td EXCEPT ![1] = x] BY <1>13, <3>2, <3>3
    <3>5. x \in Items /\ x.report = R /\ x.photos = c.photos \ {p} /\ x.sid = c.sid
      BY <1>3, <1>13, <3>2 DEF Items
    <3>6. c.sid # 0 BY <1>2, <2>1 DEF QueueInv, FlushInv
    <3>7. p \in w.done \/ p = Nil BY <1>7, <2>1, <3>1 DEF QueueInv, FlushInv, World
    <3>8. p \in w.done \/ p \notin PhotosOf[R]
      BY <1>13, <3>7, QueueConstants
    <3>9. Honest(x, w) BY <1>3, <1>13, <3>5, <3>6, <3>8 DEF Honest
    <3>10. /\ Good(td1, w) /\ DOMAIN td1 = DOMAIN td /\ td1 # <<>>
           /\ td1[1] = x /\ \A i \in DOMAIN td : i # 1 => td1[i] = td[i]
      <4>1. Good(td, w) /\ td # <<>> /\ Of(x, td[1]) BY <1>3, <1>12, <1>13, <3>5 DEF Of
      <4>2. x \in Items BY <3>5
      <4>3. QED BY <3>4, <3>9, <4>1, <4>2, HeadChanged
    <3>11. \A i \in DOMAIN td1 : td1[i].report = td[i].report /\ td1[i].sid = td[i].sid
      BY <1>3, <1>13, <3>5, <3>10
    <3>12. QED BY <3>3, <3>5, <3>6, <3>10, <3>11
  <2>2. CASE flush.change \notin {"created", "photo"}
    <3>1. /\ flush'.pc = "next" /\ flush'.change = "none" /\ flush'.photo = Nil
          /\ flush'.seen = <<>>
          /\ {"pc", "todo", "change", "photo", "seen"} \subseteq DOMAIN flush'
      BY <1>8, <2>2 DEF NoFlush
    <3>2. /\ Good(Tail(td), w)
          /\ \A i \in DOMAIN Tail(td) : \E j \in DOMAIN td :
                Tail(td)[i] = td[j] /\ td[j].report # td[1].report
      BY <1>12, <1>13, TailGood
    <3>3. /\ Good(td1, w)
          /\ \A i \in DOMAIN td1 : \E j \in DOMAIN td : td1[i] = td[j]
      <4>1. PICK t : t = Tail(td) OBVIOUS
      <4>2. Good(t, w) /\ \A i \in DOMAIN t : \E j \in DOMAIN td : t[i] = td[j]
        BY <3>2, <4>1
      <4>3. t = td1 BY <1>5, <1>6, <1>8, <2>2, <4>1 DEF NoFlush
      <4>4. QED BY <4>2, <4>3
    <3>4. \A i \in DOMAIN td1 : \E j \in DOMAIN td :
             td1[i].report = td[j].report /\ td1[i].sid = td[j].sid
      BY <3>3
    <3>5. QED BY <3>1, <3>3, <3>4
  <2>3. QED BY <2>1, <2>2
<1>16. QueueTypes' BY <1>8, <1>9, <1>15 DEF QueueInv, QueueTypes, Change
<1>17. CopiesInv'
  <2>1. \A s \in {queue', flush'.todo, flush'.seen, ui'.seen} : s \in Copies \/ Good(s, World')
    BY <1>6, <1>7, <1>8, <1>10, <1>11, <1>14, <1>15 DEF Copies
  <2>2. QED BY <1>10, <2>1, CopiesKept DEF QueueInv
<1>18. UiInv'
  <2>1. Drawn(td1) BY <1>5, <1>15 DEF Drawn, Copies
  <2>2. Drawn(new) BY <1>1, <1>14 DEF Drawn, Copies
  <2>3. \A s \in {queue', flush'.todo, flush'.seen, ui'.seen} : s \in Copies \/ Drawn(s)
    BY <1>6, <1>8, <1>11, <1>15, <2>1, <2>2 DEF Copies
  <2>4. QED BY <1>8, <1>10, <2>3, UiKept DEF QueueInv
<1>19. FlushInv' BY <1>6, <1>15 DEF FlushInv
<1>20. FiledInv'
  <2>1. SUFFICES ASSUME NEW r \in Report, r \notin doubtful, r \notin clobbered'
                 PROVE  /\ filed[r] <= 1
                        /\ r \notin composed => filed[r] = 0
                        /\ ui.pc # "idle" /\ ui.report = r /\ ui.sid = 0 => filed[r] = 0
                        /\ \A j \in DOMAIN td1 : td1[j].report = r /\ td1[j].sid = 0 => filed[r] = 0
                        /\ \A j \in DOMAIN new : new[j].report = r /\ new[j].sid = 0 => filed[r] = 0
    BY <1>6, <1>8, <1>9, <1>11 DEF FiledInv
  <2>2. /\ r \notin clobbered
        /\ \A j \in DOMAIN q : q[j].report = r => \E i \in DOMAIN queue : queue[i] = q[j]
    BY <1>8, <2>1, StoreFacts
  <2>3. \A j \in DOMAIN td1 : td1[j].report = r /\ td1[j].sid = 0 => filed[r] = 0
    BY <1>5, <1>15, <2>1, <2>2 DEF QueueInv, FiledInv
  <2>4. ASSUME NEW j \in DOMAIN new, new[j].report = r, new[j].sid = 0
        PROVE  filed[r] = 0
    <3>1. PICK i \in DOMAIN q :
            /\ new[j].report = q[i].report
            /\ IF q[i].report # R THEN new[j] = q[i]
               ELSE new[j].sid = IF flush.change = "created" THEN c.sid ELSE q[i].sid
      BY <1>14
    <3>2. flush.change = "created" => c.sid # 0 BY <1>2 DEF QueueInv, FlushInv
    <3>3. q[i].report = r /\ q[i].sid = 0 /\ (flush.change = "created" => r # R)
      BY <2>4, <3>1, <3>2
    <3>4. PICK k \in DOMAIN queue : queue[k] = q[i] BY <2>2, <3>3
    <3>5. filed[r] = 0 \/ (flush.change = "created" /\ flush.todo[1].report = r)
      BY <2>1, <2>2, <3>3, <3>4 DEF QueueInv, FiledInv
    <3>6. QED BY <1>2, <1>3, <3>3, <3>5
  <2>5. QED BY <2>1, <2>2, <2>3, <2>4 DEF QueueInv, FiledInv
<1>21. LostInv'
  <2>1. SUFFICES ASSUME NEW r \in confirmed, r \notin dropped, r \notin clobbered'
                 PROVE  At(new, r) # {} \/ Sent(r)
    BY <1>8, <1>9, <1>11 DEF LostInv, Sent
  <2>2. r \in Report BY DEF QueueInv, QueueTypes
  <2>3. /\ r \notin clobbered
        /\ \A i \in DOMAIN queue : queue[i].report = r => \E j \in DOMAIN q : q[j] = queue[i]
    BY <1>8, <2>1, <2>2, StoreFacts
  <2>4. CASE Sent(r) BY <2>4
  <2>5. CASE At(queue, r) # {} /\ ~ (r = R /\ flush.change \in {"dequeue", "drop"})
    <3>1. PICK j \in DOMAIN q : q[j].report = r BY <2>3, <2>5 DEF At
    <3>2. QED BY <1>14, <2>5, <3>1 DEF At
  <2>6. CASE r = R /\ flush.change = "dequeue"
    <3>1. c.sid # 0 /\ c.photos = {} BY <1>2, <2>6 DEF QueueInv, FlushInv
    <3>2. QED BY <1>3, <1>7, <1>13, <2>2, <2>6, <3>1 DEF Honest, World, Sent
  <2>7. CASE r = R /\ flush.change = "drop"
    BY <1>2, <1>3, <2>1, <2>7 DEF QueueInv, FlushInv
  <2>8. QED BY <2>1, <2>3, <2>4, <2>5, <2>6, <2>7 DEF QueueInv, LostInv
<1>22. QED BY <1>16, <1>17, <1>18, <1>19, <1>20, <1>21 DEF QueueInv

-----------------------------------------------------------------------------
(* The theorems.                                                            *)
LEMMA QueueInitInv == QueueInit => QueueInv
<1> SUFFICES ASSUME QueueInit PROVE QueueInv OBVIOUS
<1>1. /\ queue = <<>> /\ filed = [r \in Report |-> 0] /\ composed = {} /\ confirmed = {}
      /\ ui.pc = "idle" /\ ui.sid = 0 /\ ui.seen = <<>>
      /\ flush = NoFlush
      /\ {"pc", "report", "photos", "sid", "seen"} \subseteq DOMAIN ui
  BY DEF QueueInit, NoSubmission
<1>2. /\ flush.pc = "idle" /\ flush.todo = <<>> /\ flush.change = "none"
      /\ flush.photo = Nil /\ flush.seen = <<>>
      /\ {"pc", "todo", "change", "photo", "seen"} \subseteq DOMAIN flush
  BY <1>1, NoFlushFacts
<1>3. DOMAIN <<>> = {} BY EmptySeq
<1>4. QueueTypes BY <1>1, <1>2 DEF QueueTypes, Change
<1>5. CopiesInv BY <1>1, <1>2, EmptyGood DEF CopiesInv, Copies
<1>6. UiInv BY <1>1 DEF UiInv
<1>7. FlushInv BY <1>2 DEF FlushInv
<1>8. FiledInv BY <1>1, <1>2, <1>3 DEF FiledInv
<1>9. LostInv BY <1>1 DEF LostInv
<1>10. QED BY <1>4, <1>5, <1>6, <1>7, <1>8, <1>9 DEF QueueInv

LEMMA QueueStutters == ASSUME QueueInv, UNCHANGED queueVars PROVE QueueInv'
BY DEF queueVars, server, history, QueueInv, QueueTypes, CopiesInv, Copies, World, Kept, UiInv,
       FlushInv, FiledInv, LostInv, Sent, Good, Honest

LEMMA QueueStep == ASSUME QueueInv, [QueueNext]_queueVars PROVE QueueInv'
<1>1. CASE \E r \in Report : Submit(r) BY <1>1, SubmitStep
<1>2. CASE UIStep
  BY <1>2, SubmitCreatedStep, SubmitNotCreatedStep, SubmitPhotoStep, SubmitPhotoFailsStep,
     SubmitSentStep, EnqueueReadStep, EnqueueWriteStep, EnqueueFailsStep DEF UIStep
<1>3. CASE StartFlush BY <1>3, StartFlushStep
<1>4. CASE FlushStep
  BY <1>4, FlushEnds, GiveUpStep, ProcessItemStep, FlushCreatedStep, FlushNotCreatedStep,
     FlushPhotoStep, FlushPhotoFailsStep, FlushSentStep, UpdateReadStep, UpdateWriteStep,
     UpdateFailsStep DEF FlushStep
<1>5. CASE Kill BY <1>5, KillStep
<1>6. CASE UNCHANGED queueVars BY <1>6, QueueStutters
<1>7. QED BY <1>1, <1>2, <1>3, <1>4, <1>5, <1>6 DEF QueueNext

(* Every copy of the queue that some step of the phone works on is truthful   *)
(* about its reports: an id means that the report was created, and a photo    *)
(* that is no longer listed is held by the server or was refused; and the     *)
(* change under way is what happened (reportQueue.ts flushOne, api.ts).       *)
THEOREM QueueInvariant == QueueSpec => []QueueInv
<1>1. QueueInit => QueueInv BY QueueInitInv
<1>2. QueueInv /\ [QueueNext]_queueVars => QueueInv' BY QueueStep
<1>3. QED BY <1>1, <1>2, PTL DEF QueueSpec

(* Nothing that the user was told is sent or queued is lost.                 *)
THEOREM NothingEverLost == QueueSpec => []NothingLost
<1>1. QueueInv => NothingLost
  <2>1. SUFFICES ASSUME QueueInv, NEW r \in confirmed, r \notin dropped, r \notin clobbered
                 PROVE  /\ filed[r] > 0 \/ Queued(r)
                        /\ PhotosOf[r] \subseteq held \cup refused \cup {p \in Photo : Waiting(p)}
    BY DEF NothingLost
  <2>2. r \in Report /\ PhotosOf[r] \subseteq Photo BY <2>1, QueueConstants DEF QueueInv, QueueTypes
  <2>3. CASE Sent(r) BY <2>3 DEF Sent
  <2>4. CASE At(queue, r) # {}
    <3>1. PICK i \in DOMAIN queue : queue[i].report = r BY <2>4 DEF At
    <3>2. Queued(r) BY <3>1 DEF Queued, Entry, At
    <3>3. Honest(queue[i], World) BY <2>1 DEF QueueInv, CopiesInv, Copies, Good
    <3>4. PhotosOf[r] \subseteq held \cup refused \cup queue[i].photos BY <3>1, <3>3 DEF Honest, World
    <3>5. \A p \in queue[i].photos : Waiting(p) BY DEF Waiting
    <3>6. QED BY <2>2, <3>2, <3>4, <3>5
  <2>5. QED BY <2>1, <2>3, <2>4 DEF QueueInv, LostInv
<1>2. QED BY <1>1, QueueInvariant, PTL

(* A report whose creation the phone could record is created once.           *)
THEOREM FiledAtMostOnce == QueueSpec => []FiledOnce
<1>1. QueueInv => FiledOnce BY DEF QueueInv, FiledInv, FiledOnce
<1>2. QED BY <1>1, QueueInvariant, PTL

(* No local copy of a photo that still waits is deleted before its fate is   *)
(* known (deleteLocalPhoto in reportQueue.ts).                               *)
THEOREM PhotosAlwaysSurvive == QueueSpec => []PhotosSurvive
<1>1. QueueInv => PhotosSurvive
  <2>1. SUFFICES ASSUME QueueInv, NEW i \in DOMAIN queue
                 PROVE  queue[i].photos \subseteq files \cup held \cup refused \cup UNION {PhotosOf[r] : r \in dropped}
    BY DEF PhotosSurvive
  <2>2. Honest(queue[i], World) BY <2>1 DEF QueueInv, CopiesInv, Copies, Good
  <2>3. QED BY <2>2 DEF Honest, World, Kept
<1>2. QED BY <1>1, QueueInvariant, PTL
=============================================================================
