----------------------------- MODULE AuthTokens -----------------------------
(***************************************************************************)
(* Device accounts and their tokens on the server (handlers/auth.go,       *)
(* handlers/devices.go): registration, rotation of refresh tokens with     *)
(* reuse detection, logout, deletion of the account and push consent.      *)
(*                                                                         *)
(* Requests come from anybody who holds a token, old copies included.  The *)
(* statements of a transaction are separate steps where another one can    *)
(* act in between: READ COMMITTED, row locks held until the end.           *)
(***************************************************************************)
EXTENDS Integers, FiniteSets

CONSTANTS
    Device,          \* devices, each with an account of its own
    Pair,            \* token pairs that NewToken may yet draw
    Request,         \* concurrent API requests
    None

ASSUME NoneAssumption == None \notin Device \cup Pair

(* An access and a refresh token are the two rows of a pair. *)
Kind == {"access", "refresh"}
Token == Pair \X Kind

VARIABLES
    devices,     \* devices, one per account
    owner,       \* the device of each pair that was issued
    parent,      \* the pair whose refresh token was rotated into this pair
    rows,        \* auth_tokens: the tokens that have a row
    revoked,     \* tokens with revoked_at set
    expired,     \* tokens past expires_at
    push,        \* devices with a push token, the one of their phone
    request,     \* requests under way
    condemned    \* history: tokens that a logout or a detected reuse was to revoke

vars == <<devices, owner, parent, rows, revoked, expired, push, request, condemned>>

Issued == {p \in Pair : owner[p] # None}
TokensOf(d) == {t \in rows : owner[t[1]] = d}
Live(t) == t \in rows \ revoked

(* pc: where the request is.  token: the one presented.  device: the one it *)
(* belongs to.  scan: what the revoking UPDATE found; known: what the device *)
(* had when the request was accepted.                                        *)
RequestState ==
    [pc : {"idle", "rotate", "scan", "revoke", "push", "unpush", "delete"},
     op : {"refresh", "logout", "other"},
     pair : Pair \cup {None}, device : Device \cup {None},
     scan : SUBSET Token, known : SUBSET Token]
Idle == [pc |-> "idle", op |-> "other", pair |-> None, device |-> None, scan |-> {}, known |-> {}]

TypeOK ==
    /\ devices \subseteq Device
    /\ owner \in [Pair -> Device \cup {None}]
    /\ parent \in [Pair -> Pair \cup {None}]
    /\ rows \subseteq Token
    /\ revoked \subseteq Token
    /\ expired \subseteq Token
    /\ push \subseteq devices
    /\ request \in [Request -> RequestState]
    /\ condemned \subseteq Token
    /\ \A t \in rows : owner[t[1]] \in devices

Init ==
    /\ devices = {}
    /\ owner = [p \in Pair |-> None]
    /\ parent = [p \in Pair |-> None]
    /\ rows = {}
    /\ revoked = {}
    /\ expired = {}
    /\ push = {}
    /\ request = [q \in Request |-> Idle]
    /\ condemned = {}

(* SELECT ... FOR UPDATE OF t holds the presented token until the end of the *)
(* transaction.  The mutant leaves out the lock.                            *)
BugLocked(t) == FALSE
Locked(t) ==
    \E q \in Request : request[q].pc \in {"rotate", "scan", "revoke"}
                       /\ request[q].op = "refresh" /\ t = <<request[q].pair, "refresh">>

End(q) == request' = [request EXCEPT ![q] = Idle]

(* issueTokens, with tokens nobody has seen before. *)
Issue(p, d, from) ==
    /\ p \notin Issued
    /\ owner' = [owner EXCEPT ![p] = d]
    /\ parent' = [parent EXCEPT ![p] = from]

-----------------------------------------------------------------------------
(* RegisterDevice: one transaction that nobody can interfere with. *)
RegisterDevice(d, p) ==
    /\ d \notin devices
    /\ \A x \in Issued : owner[x] # d
    /\ Issue(p, d, None)
    /\ devices' = devices \cup {d}
    /\ rows' = rows \cup {<<p, "access">>, <<p, "refresh">>}
    /\ UNCHANGED <<revoked, expired, push, request, condemned>>

Expire(t) ==
    /\ t \in rows \ expired
    /\ t[2] = "refresh" => <<t[1], "access">> \in expired
    /\ expired' = expired \cup {t}
    /\ UNCHANGED <<devices, owner, parent, rows, revoked, push, request, condemned>>

-----------------------------------------------------------------------------
(* A request that was accepted, for device d.                               *)
Accepted(pc, op, pair, d) ==
    [pc |-> pc, op |-> op, pair |-> pair, device |-> d, scan |-> {}, known |-> TokensOf(d)]

(* RefreshTokens.  The row read is the one that is there once it is free:   *)
(* revoked before means reuse; an expired or unknown token ends the request. *)
PresentRefresh(q, p) ==
    LET t == <<p, "refresh">> IN
    /\ request[q] = Idle
    /\ t \in rows
    /\ ~Locked(t)
    /\ \/ t \in revoked
          /\ request' = [request EXCEPT ![q] = Accepted("scan", "refresh", p, owner[p])]
       \/ t \notin revoked \cup expired
          /\ request' = [request EXCEPT ![q] = Accepted("rotate", "refresh", p, owner[p])]
    /\ UNCHANGED <<devices, owner, parent, rows, revoked, expired, push, condemned>>

(* Rows of the device that expired more than a day ago are deleted. *)
Rotate(q, p) ==
    LET old == request[q].pair
        d == request[q].device
    IN
    /\ request[q].pc = "rotate"
    /\ d \in devices
    /\ Issue(p, d, old)
    /\ revoked' = revoked \cup {<<old, "refresh">>}
    /\ \E stale \in SUBSET ({t \in TokensOf(d) : t \in expired /\ ~Locked(t)}) :
         rows' = (rows \ stale) \cup {<<p, "access">>, <<p, "refresh">>}
    /\ End(q)
    /\ UNCHANGED <<devices, expired, push, condemned>>

-----------------------------------------------------------------------------
(* The revoking UPDATE of reuse detection and of Logout: it finds the       *)
(* unrevoked rows of the device, waits for those another request holds and  *)
(* looks at these again.  Rows inserted meanwhile escape it.                *)

(* The mutant forgets the access tokens. *)
BugRevocable(d) == {t \in TokensOf(d) : Live(t) /\ t[2] = "refresh"}
Revocable(d) == {t \in TokensOf(d) : Live(t)}

ScanTokens(q) ==
    /\ request[q].pc = "scan"
    /\ request' = [request EXCEPT ![q] =
          [@ EXCEPT !.pc = "revoke", !.scan = Revocable(request[q].device)]]
    /\ UNCHANGED <<devices, owner, parent, rows, revoked, expired, push, condemned>>

(* Logout withdraws the push token too. *)
RevokeTokens(q) ==
    LET own == <<request[q].pair, "refresh">> IN
    /\ request[q].pc = "revoke"
    /\ \A t \in request[q].scan \ {own} : ~Locked(t)
    /\ revoked' = revoked \cup request[q].scan
    /\ push' = IF request[q].op = "logout" THEN push \ {request[q].device} ELSE push
    /\ condemned' = condemned \cup request[q].known
    /\ End(q)
    /\ UNCHANGED <<devices, owner, parent, rows, expired>>

-----------------------------------------------------------------------------
(* Requests behind RequireAuth: authenticate looks at the token once, the   *)
(* handler acts later.                                                      *)
Authenticate(q, p) ==
    LET t == <<p, "access">> IN
    /\ request[q] = Idle
    /\ Live(t)
    /\ t \notin expired
    /\ \/ request' = [request EXCEPT ![q] = Accepted("scan", "logout", None, owner[p])]
       \/ \E pc \in {"push", "unpush", "delete"} :
            request' = [request EXCEPT ![q] = Accepted(pc, "other", None, owner[p])]
    /\ UNCHANGED <<devices, owner, parent, rows, revoked, expired, push, condemned>>

(* The push token is the phone's: it moves from an earlier device record.   *)
RegisterPushToken(q) ==
    /\ request[q].pc = "push"
    /\ request[q].device \in devices
    /\ push' = {request[q].device}
    /\ End(q)
    /\ UNCHANGED <<devices, owner, parent, rows, revoked, expired, condemned>>

UnregisterPushToken(q) ==
    /\ request[q].pc = "unpush"
    /\ push' = push \ {request[q].device}
    /\ End(q)
    /\ UNCHANGED <<devices, owner, parent, rows, revoked, expired, condemned>>

(* ON DELETE CASCADE. *)
Cascade(d) == TokensOf(d)

(* The device goes with its account, its tokens and its push token, once    *)
(* nobody holds one of the tokens.                                          *)
DeleteAccount(q) ==
    LET d == request[q].device IN
    /\ request[q].pc = "delete"
    /\ \A t \in TokensOf(d) : ~Locked(t)
    /\ devices' = devices \ {d}
    /\ rows' = rows \ Cascade(d)
    /\ push' = push \ {d}
    /\ End(q)
    /\ UNCHANGED <<owner, parent, revoked, expired, condemned>>

(* The client goes away, a statement fails or Postgres breaks a deadlock. *)
Abort(q) ==
    /\ request[q] # Idle
    /\ End(q)
    /\ UNCHANGED <<devices, owner, parent, rows, revoked, expired, push, condemned>>

-----------------------------------------------------------------------------
Next ==
    \/ \E d \in Device, p \in Pair : RegisterDevice(d, p)
    \/ \E t \in Token : Expire(t)
    \/ \E q \in Request :
         \/ \E p \in Pair : PresentRefresh(q, p) \/ Rotate(q, p) \/ Authenticate(q, p)
         \/ ScanTokens(q) \/ RevokeTokens(q)
         \/ RegisterPushToken(q) \/ UnregisterPushToken(q) \/ DeleteAccount(q)
         \/ Abort(q)

Spec == Init /\ [][Next]_vars

-----------------------------------------------------------------------------
(* Properties.                                                             *)

(* Rotation makes a chain of each device's tokens: a refresh token is       *)
(* rotated into one pair at most and at most one of a device is live,       *)
(* however many copies of it are presented at once.                         *)
FamilyIsChain ==
    /\ \A p, x \in Issued : parent[p] # None /\ parent[p] = parent[x] => p = x
    /\ \A d \in devices : Cardinality({t \in TokensOf(d) : Live(t) /\ t[2] = "refresh"}) <= 1

(* Once a logout or a detected reuse has committed, none of the tokens the  *)
(* device had when the request was accepted is ever good again, access      *)
(* tokens that have not expired included.                                   *)
RevocationComplete == \A t \in condemned : ~Live(t)
=============================================================================
