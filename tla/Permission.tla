----------------------------- MODULE Permission -----------------------------
(***************************************************************************)
(* What the browser promises of the user's key: each request of a page is  *)
(* decided once, and signed only if the site is trusted or the user        *)
(* allowed this method of this site; the user is asked to allow only what  *)
(* a page asked for; and what was decided is answered once and for good.   *)
(***************************************************************************)
EXTENDS Naturals

CONSTANTS
    Requests,
    Keys,       \* what can be asked: a method of a site
    Trusted,    \* those of trusted sites
    None

VARIABLES
    asked,      \* what each request asks, None before it is sent
    verdict,
    answers,    \* how often each was answered
    granted     \* what the user ever allowed

permissionVars == <<asked, verdict, answers, granted>>

Open == {r \in Requests : asked[r] # None /\ verdict[r] = "open"}

Init ==
    /\ asked = [r \in Requests |-> None]
    /\ verdict = [r \in Requests |-> "open"]
    /\ answers = [r \in Requests |-> 0]
    /\ granted = {}

Ask(r, k) ==
    /\ asked[r] = None /\ verdict[r] = "open"
    /\ asked' = [asked EXCEPT ![r] = k]
    /\ UNCHANGED <<verdict, answers, granted>>

Decide(R, decision) ==
    verdict' = [r \in Requests |-> IF r \in R THEN decision ELSE verdict[r]]

Answer(R) ==
    answers' = [r \in Requests |-> IF r \in R THEN answers[r] + 1 ELSE answers[r]]

\* The user allows what a request asks or asked, or what was allowed is carried out.
Allow(K, R) ==
    /\ granted' = granted \cup K
    /\ \A r \in R : asked[r] \in Trusted \cup granted'
    /\ Decide(R, "allowed")
    /\ UNCHANGED <<asked, answers>>

Deny(R) ==
    /\ Decide(R, "denied") /\ Answer(R)
    /\ UNCHANGED <<asked, granted>>

Sign(r) ==
    /\ verdict[r] = "allowed"
    /\ Decide({r}, "signed") /\ Answer({r})
    /\ UNCHANGED <<asked, granted>>

Next ==
    \/ \E r \in Requests : Sign(r) \/ \E k \in Keys : Ask(r, k)
    \/ \E R \in SUBSET Open :
          Deny(R) \/ \E K \in SUBSET ({asked[r] : r \in Requests} \ {None}) : Allow(K, R)

Spec == Init /\ [][Next]_permissionVars
=============================================================================
