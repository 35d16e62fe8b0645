------------------------------ MODULE Channels ------------------------------
(***************************************************************************)
(* SMS and USSD requests of one phone (handlers/channels.go), any number of *)
(* which may be under way at once at one instance or at several: the limit  *)
(* on requests that each instance keeps for itself (handlers/ratelimit.go), *)
(* the account that the phone gets with its first report, and the hourly    *)
(* limit on reports.  Nothing orders the requests of a phone; the database  *)
(* calls of each are separate steps.                                        *)
(***************************************************************************)
EXTENDS Naturals, Sequences, FiniteSetsExt, Instances

CONSTANTS
    Callback,                    \* bound: requests under way at once
    PerMinute, ReportsPerHour,   \* ChannelConfig; a tick brings a client one more request
    Window                       \* ticks in the hour that reports are counted over

ASSUME ChannelAssumption ==
    /\ IsFiniteSet(Callback) /\ None \notin Callback /\ Callback # {}
    /\ PerMinute \in Nat \ {0} /\ ReportsPerHour \in Nat \ {0} /\ Window \in Nat \ {0}

VARIABLES
    tokens,     \* the phone's bucket at each instance
    accounts,   \* accounts made for the phone, each named for the request that made it
    linked,     \* channel_reporters: the phone's account
    linking,    \* whose transaction has inserted the row and not ended
    reports,    \* ages of the phone's reports of the last hour, oldest first
    request     \* requests, each at an instance

channelVars == <<tokens, accounts, linked, linking, reports, request>>

NoRequest == [pc |-> "none", at |-> None, account |-> None]

ChannelInit ==
    /\ tokens = [i \in Instance |-> PerMinute]
    /\ accounts = {} /\ linked = None /\ linking = None
    /\ reports = <<>>
    /\ request = [q \in Callback |-> NoRequest]

Recent == Len(reports)

RequestsAt(i) == {q \in Callback : request[q].at = i}

(* allowChannel takes a token (a bucket that is full again is as good as   *)
(* one that sweepLocked dropped).  Menus, risk and help change nothing else;   *)
(* over the limit nothing changes at all.                                   *)
Request(q, i) ==
    /\ request[q].pc = "none" /\ tokens[i] > 0
    /\ tokens' = [tokens EXCEPT ![i] = @ - 1]
    /\ request' \in {request, [request EXCEPT ![q] = [pc |-> "account", at |-> i, account |-> None]]}
    /\ UNCHANGED <<accounts, linked, linking, reports>>

To(q, pc, account) ==
    request' = [request EXCEPT ![q] = [pc |-> pc, at |-> request[q].at, account |-> account]]

Answered(q) == request' = [request EXCEPT ![q] = NoRequest]

(* channelAccount, outside of a transaction.                                *)
FindAccount(q) ==
    /\ request[q].pc = "account"
    /\ IF linked # None THEN To(q, "count", linked) ELSE To(q, "create", None)
    /\ UNCHANGED <<tokens, accounts, linked, linking, reports>>

(* Mutant: the account is not part of the transaction that links it.        *)
BugCreateAccount(q) ==
    /\ request[q].pc = "create" /\ linking = None
    /\ accounts' = accounts \cup {q}
    /\ IF linked = None THEN linking' = q /\ To(q, "commit", q)
                        ELSE To(q, "theirs", None) /\ UNCHANGED linking
    /\ UNCHANGED <<tokens, linked, reports>>

(* The insert waits for one that has not ended, and then finds its row.     *)
CreateAccount(q) ==
    /\ request[q].pc = "create" /\ linking = None
    /\ IF linked = None THEN linking' = q /\ To(q, "commit", q)
                        ELSE To(q, "theirs", None) /\ UNCHANGED linking
    /\ UNCHANGED <<tokens, accounts, linked, reports>>

TheirAccount(q) ==
    /\ request[q].pc = "theirs"
    /\ To(q, "count", linked)
    /\ UNCHANGED <<tokens, accounts, linked, linking, reports>>

CommitAccount(q) ==
    /\ request[q].pc = "commit"
    /\ accounts' = accounts \cup {request[q].account}
    /\ linked' = request[q].account
    /\ linking' = None
    /\ To(q, "count", request[q].account)
    /\ UNCHANGED <<tokens, reports>>

(* Mutant: off by one.                                                      *)
BugCountReports(q) ==
    /\ request[q].pc = "count"
    /\ IF Recent > ReportsPerHour THEN Answered(q) ELSE To(q, "store", request[q].account)
    /\ UNCHANGED <<tokens, accounts, linked, linking, reports>>

CountReports(q) ==
    /\ request[q].pc = "count"
    /\ IF Recent >= ReportsPerHour THEN Answered(q) ELSE To(q, "store", request[q].account)
    /\ UNCHANGED <<tokens, accounts, linked, linking, reports>>

(* storeReport; a report's age counts from its commit here, in whole ticks. *)
StoreReport(q) ==
    /\ request[q].pc = "store"
    /\ reports' = Append(reports, 0)
    /\ Answered(q)
    /\ UNCHANGED <<tokens, accounts, linked, linking>>

ServeChannel(q) ==
    \/ FindAccount(q) \/ CreateAccount(q) \/ TheirAccount(q) \/ CommitAccount(q)
    \/ CountReports(q) \/ StoreReport(q)

(* A statement fails, or the process ends: transactions are rolled back.    *)
Cut(Q) ==
    /\ request' = [q \in Callback |-> IF q \in Q THEN NoRequest ELSE request[q]]
    /\ linking' = IF linking \in Q THEN None ELSE linking
    /\ UNCHANGED <<accounts, linked, reports>>

(* The buckets fill up, the reports age.                                    *)
Expired == Cardinality({n \in DOMAIN reports : reports[n] = Window - 1})

ChannelTick ==
    /\ tokens' = [i \in Instance |-> Min({tokens[i] + 1, PerMinute})]
    /\ reports' = [n \in 1 .. Len(reports) - Expired |-> reports[n + Expired] + 1]
    /\ UNCHANGED <<accounts, linked, linking, request>>

Requests ==
    [pc : {"none", "account", "create", "theirs", "commit", "count", "store"},
     at : Instance \cup {None}, account : Callback \cup {None}]

ChannelTypeOK ==
    /\ tokens \in [Instance -> 0 .. PerMinute]
    /\ accounts \subseteq Callback
    /\ linked \in Callback \cup {None} /\ linking \in Callback \cup {None}
    /\ reports \in Seq(Nat)
    /\ request \in [Callback -> Requests]
=============================================================================
