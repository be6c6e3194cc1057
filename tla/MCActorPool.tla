---------------------------- MODULE MCActorPool ----------------------------
(***************************************************************************)
(* The instances of ActorPool that TLC checks: two actors, so that a       *)
(* change of the count concerns one and not the other, each with a few     *)
(* match indices to use up, replay or skip.                                *)
(***************************************************************************)
EXTENDS ActorPool
=============================================================================
