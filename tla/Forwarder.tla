----------------------------- MODULE Forwarder -----------------------------
(***************************************************************************)
(* What a loop of the ingestor promises of a source it forwards: at least  *)
(* once, in whatever order and with whatever failures, and never again     *)
(* what its saved mark is past.  The mark only moves on, over what was     *)
(* posted or what the source did not show.                                 *)
(***************************************************************************)
EXTENDS Naturals

CONSTANT Items

VARIABLES
    came,       \* what there is at the source
    skipped,    \* what the loop need not post: it was not shown, or was there before
    posts,      \* how often each item was posted
    passed      \* what the saved mark is past

fwdVars == <<came, skipped, posts, passed>>

Init ==
    /\ came = {} /\ skipped = {} /\ passed = {}
    /\ posts = [i \in Items |-> 0]

\* An item that comes behind the mark is one the source will not show.
Come(i) ==
    /\ i \notin came
    /\ came' = came \cup {i}
    /\ \/ UNCHANGED <<skipped, passed>>
       \/ skipped' = skipped \cup {i} /\ passed' \in {passed, passed \cup {i}}
    /\ UNCHANGED posts

Skip(S) ==
    /\ S \cap passed = {}
    /\ skipped' = skipped \cup S
    /\ UNCHANGED <<came, posts, passed>>

\* Only where the loop begins may it skip what is there.
Begin ==
    /\ passed = {} /\ posts = [i \in Items |-> 0]
    /\ skipped' = came /\ passed' = came
    /\ UNCHANGED <<came, posts>>

Post(S) ==
    /\ S \cap passed \subseteq skipped
    /\ posts' = [i \in Items |-> IF i \in S THEN posts[i] + 1 ELSE posts[i]]
    /\ UNCHANGED <<came, skipped, passed>>

Pass(S) ==
    /\ passed \subseteq S
    /\ \A i \in S : i \in skipped \/ posts[i] > 0
    /\ passed' = S
    /\ UNCHANGED <<came, skipped, posts>>

Next ==
    \/ Begin
    \/ \E i \in Items : Come(i)
    \/ \E S \in SUBSET came : Skip(S) \/ Post(S) \/ Pass(S)

Spec == Init /\ [][Next]_fwdVars
=============================================================================
