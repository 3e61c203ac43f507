--------------------------- MODULE MCRepostServer ---------------------------
(* The instances of RepostServer that TLC checks. *)
EXTENDS RepostServer, TLC

CONSTANTS n1, n2, p1, o1, a1, a2, place

\* Two notes of one author for one place: an edit and its original.
MCAuthorOf  == n1 :> a1 @@ n2 :> a1
MCPlaceOf   == n1 :> place @@ n2 :> place
MCCreatedAt == n1 :> 2 @@ n2 :> 1
=============================================================================
