-------------------------- MODULE MCRepostPipeline --------------------------
(* The instance of RepostPipeline that TLC checks. *)
EXTENDS RepostPipeline, TLC

CONSTANTS n1, a1, place

MCAuthorOf  == n1 :> a1
MCPlaceOf   == n1 :> place
MCCreatedAt == n1 :> 1
=============================================================================
