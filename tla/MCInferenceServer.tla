------------------------- MODULE MCInferenceServer -------------------------
(* Two connections: an actor's, and an evaluation's that also asks for a second policy. *)
EXTENDS InferenceServer

ActorAndEvaluation == {"a", "e"}
OwnWants == [c \in Clients |-> IF c = "e" THEN Policies ELSE {Current}]
TwoOfOne == [c \in Clients |-> IF c = "e" THEN 2 ELSE 1]
=============================================================================
