------------------------ MODULE MCTokenVerification ------------------------
(* The instances of TokenVerification that TLC checks. *)
EXTENDS TokenVerification, TLC

CONSTANTS d1, d2

\* A caller submits a code, right or wrong depending on the code that was
\* drawn, or the token of the first request, current or outdated.
MCSubmissions == {[code |-> d1, token |-> 0], [code |-> None, token |-> 1]}

Symmetry == Permutations(Calls)
============================================================================
