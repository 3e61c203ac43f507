----------------------------- MODULE PushLedger -----------------------------
(***************************************************************************)
(* What the notification daemon promises of the pushes it sends, whatever  *)
(* the order of requests and notes, the failures and the restarts: a phone *)
(* is told of a note only when its owner asked for such notes and gave     *)
(* that phone's token, and the push bears the author's Trustroots name     *)
(* only when NIP-05 confirmed it.                                          *)
(***************************************************************************)
CONSTANTS Requests, Notes, UserOf, Asks, Gives, Matches, AuthorOf

VARIABLES
    requested,  \* the requests (kind 10395) ever published
    confirmed,  \* the authors NIP-05 ever confirmed
    pushed      \* the pushes that ever left

Init == requested = {} /\ confirmed = {} /\ pushed = {}

Request == \E r \in Requests : requested' = requested \cup {r} /\ UNCHANGED <<confirmed, pushed>>

Confirm == \E n \in Notes :
    confirmed' = confirmed \cup {AuthorOf[n]} /\ UNCHANGED <<requested, pushed>>

\* A user may have asked with one request and given the token with another.
Allowed(push) ==
    /\ \E r \in requested : UserOf[r] = push.user /\ push.filter \in Asks[r]
    /\ \E r \in requested : UserOf[r] = push.user /\ push.token \in Gives[r]
    /\ <<push.note, push.filter>> \in Matches
    /\ push.named => AuthorOf[push.note] \in confirmed

Push ==
    /\ pushed \subseteq pushed'
    /\ \A push \in pushed' \ pushed : Allowed(push)
    /\ UNCHANGED <<requested, confirmed>>

Next == Request \/ Confirm \/ Push

Spec == Init /\ [][Next]_<<requested, confirmed, pushed>>
=============================================================================
