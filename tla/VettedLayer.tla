---------------------------- MODULE VettedLayer ----------------------------
(***************************************************************************)
(* What a client that filters on the validation server's copies relies on: *)
(* a place on the map shows a note only after somebody checked that its    *)
(* author claimed a Trustroots username and that Trustroots gives that     *)
(* username to the author.  A copy stays until another takes its place:    *)
(* nothing revokes it.                                                     *)
(***************************************************************************)
CONSTANTS Notes, Authors, Pubkeys, Usernames, Places, AuthorOf, PlaceOf, None

VARIABLES
    claimed,    \* <<author, username>>: every claim an author ever made
    owner,      \* the pubkey Trustroots now gives for a username, or None
    vetted,     \* the notes whose authors were checked
    shown       \* the note at each place, or None

layerVars == <<claimed, owner, vetted, shown>>

Init ==
    /\ claimed = {}
    /\ owner = [u \in Usernames |-> None]
    /\ vetted = {}
    /\ shown = [p \in Places |-> None]

Claim(a, u) ==
    /\ claimed' = claimed \cup {<<a, u>>}
    /\ UNCHANGED <<owner, vetted, shown>>

Assign(u, k) ==
    /\ owner' = [owner EXCEPT ![u] = k]
    /\ UNCHANGED <<claimed, vetted, shown>>

\* Only an account's owner gets a note vetted, under a name the owner claimed.
Vet(n) ==
    /\ \E u \in Usernames : <<AuthorOf[n], u>> \in claimed /\ owner[u] = AuthorOf[n]
    /\ vetted' = vetted \cup {n}
    /\ UNCHANGED <<claimed, owner, shown>>

Show(n) ==
    /\ n \in vetted
    /\ shown' = [shown EXCEPT ![PlaceOf[n]] = n]
    /\ UNCHANGED <<claimed, owner, vetted>>

Next ==
    \/ \E a \in Authors, u \in Usernames : Claim(a, u)
    \/ \E u \in Usernames, k \in Pubkeys \cup {None} : Assign(u, k)
    \/ \E n \in Notes : Vet(n) \/ Show(n)

Spec == Init /\ [][Next]_layerVars
============================================================================
