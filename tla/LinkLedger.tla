---------------------------- MODULE LinkLedger ----------------------------
(***************************************************************************)
(* What linking an account to a public key promises, whatever calls run at *)
(* the same time: a submission is counted against the account's open       *)
(* request before anything else happens to it, the count buys one credit,  *)
(* and a link is made by spending one credit of that account.              *)
(***************************************************************************)
EXTENDS Naturals

CONSTANTS Users, Npubs, None, MaxAttempts

VARIABLES
    lastId,     \* the requests issued so far are 1 .. lastId
    open,       \* each account's open request, or None
    credits,    \* submissions counted and not yet judged
    linked      \* the public key of each account

ledgerVars == <<lastId, open, credits, linked>>

Init ==
    /\ lastId = 0
    /\ open = [u \in Users |-> None]
    /\ credits = {}
    /\ linked = [u \in Users |-> None]

\* A new request has its own id and no attempts counted.
Issue(u) ==
    /\ lastId' = lastId + 1
    /\ open' = [open EXCEPT ![u] = [id |-> lastId + 1, attempts |-> 0]]
    /\ UNCHANGED <<credits, linked>>

\* A request ends: used, expired, used up or dropped.
Close(u) ==
    /\ open' = [open EXCEPT ![u] = None]
    /\ UNCHANGED <<lastId, credits, linked>>

\* One submission is counted; its credit is unlike any other.
Count(u) ==
    LET credit == [user |-> u, id |-> open[u].id, attempt |-> open[u].attempts + 1]
    IN  /\ open[u] # None
        /\ open[u].attempts < MaxAttempts
        /\ credit \notin credits
        /\ open' = [open EXCEPT ![u] = [id |-> credit.id, attempts |-> credit.attempt]]
        /\ credits' = credits \cup {credit}
        /\ UNCHANGED <<lastId, linked>>

\* The submission was wrong, or its call was lost.
Forfeit(credit) ==
    /\ credits' = credits \ {credit}
    /\ UNCHANGED <<lastId, open, linked>>

\* The submission was right: its account, and no other, gets the public key.
Link(credit, k) ==
    /\ credits' = credits \ {credit}
    /\ linked' = [linked EXCEPT ![credit.user] = k]
    /\ UNCHANGED <<lastId, open>>

Next ==
    \/ \E u \in Users : Issue(u) \/ Close(u) \/ Count(u)
    \/ \E credit \in credits : Forfeit(credit) \/ \E k \in Npubs : Link(credit, k)

Spec == Init /\ [][Next]_ledgerVars
===========================================================================
