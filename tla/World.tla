------------------------------- MODULE World --------------------------------
(***************************************************************************)
(* What the entity store and its snapshots promise the rules engine: a set *)
(* of living objects, each with at most one component of each type, the    *)
(* systems told which of them are in a zone, the card names loaded, and    *)
(* slots that hold the world as it was, to be gone back to exactly.        *)
(*                                                                         *)
(* One promise is conditional.  Names are told apart by game and number    *)
(* only, so going back is exact as long as play has not gone on from a     *)
(* restored slot to load names that differ from those another slot of the  *)
(* same game keeps.                                                        *)
(***************************************************************************)
EXTENDS Naturals, FiniteSets

CONSTANTS Ids, Types, CardData, Zone, Data, Cards, Slots

VARIABLES
    living,      \* the entities that exist
    holds,       \* holds[t][e]: the t component of e, for the entities that have one
    zoned,       \* what the systems iterate over
    names,       \* the entity of each card name loaded
    game,        \* which game of the process this is
    saved,       \* the world kept in each slot, or Nothing
    diverged     \* names that differ were loaded after going back

vars == <<living, holds, zoned, names, game, saved, diverged>>

Nothing == [kept |-> FALSE]
Now == [kept |-> TRUE, living |-> living, holds |-> holds, names |-> names, game |-> game]

Put(f, e, d) == [x \in DOMAIN f \cup {e} |-> IF x = e THEN d ELSE f[x]]
Drop(f, e) == [x \in DOMAIN f \ {e} |-> f[x]]
Extends(g, f) == DOMAIN f \subseteq DOMAIN g /\ \A c \in DOMAIN f : g[c] = f[c]

Diverging ==
    \E k \in Slots :
        /\ saved[k] # Nothing /\ saved[k].game = game
        /\ ~Extends(names, saved[k].names) /\ ~Extends(saved[k].names, names)

(* Every step tells the systems what is in a zone. *)
Told == zoned' = DOMAIN holds'[Zone]

Init ==
    /\ living = {} /\ holds = [t \in Types |-> << >>] /\ zoned = {}
    /\ names = << >> /\ game = 0
    /\ saved = [k \in Slots |-> Nothing] /\ diverged = FALSE

Create ==
    /\ \E e \in Ids \ living : living' = living \cup {e}
    /\ UNCHANGED <<holds, names, game, saved, diverged>>

Destroy ==
    /\ \E e \in living :
          /\ living' = living \ {e}
          /\ holds' = [t \in Types |-> Drop(holds[t], e)]
    /\ UNCHANGED <<names, game, saved, diverged>>

AddComponent ==
    /\ \E e \in living, t \in Types, d \in Data :
          /\ e \notin DOMAIN holds[t]
          /\ holds' = [holds EXCEPT ![t] = Put(@, e, d)]
    /\ UNCHANGED <<living, names, game, saved, diverged>>

RemoveComponent ==
    /\ \E t \in Types : \E e \in DOMAIN holds[t] : holds' = [holds EXCEPT ![t] = Drop(@, e)]
    /\ UNCHANGED <<living, names, game, saved, diverged>>

(* A component is written through a reference, or components change hands. *)
ChangeComponents ==
    /\ \E t \in Types : \E f \in [DOMAIN holds[t] -> Data] : holds' = [holds EXCEPT ![t] = f]
    /\ UNCHANGED <<living, names, game, saved, diverged>>

LoadCard ==
    /\ \E c \in Cards \ DOMAIN names, e \in Ids \ living :
          /\ living' = living \cup {e}
          /\ holds' = [holds EXCEPT ![CardData] = Put(@, e, c)]
          /\ names' = Put(names, c, e)
    /\ UNCHANGED <<game, saved>>
    /\ diverged' = (diverged \/ Diverging')

Save ==
    /\ \E k \in Slots : saved' = [saved EXCEPT ![k] = Now]
    /\ UNCHANGED <<living, holds, names, game, diverged>>

Restore ==
    /\ \E k \in Slots :
          /\ saved[k] # Nothing
          /\ living' = saved[k].living /\ holds' = saved[k].holds /\ game' = saved[k].game
          /\ ~diverged => names' = saved[k].names
    /\ UNCHANGED <<saved, diverged>>

NextGame ==
    /\ living' = {} /\ holds' = [t \in Types |-> << >>] /\ names' = << >> /\ game' = game + 1
    /\ saved' \in {saved, [k \in Slots |-> Nothing]}
    /\ UNCHANGED diverged

Next ==
    /\ \/ Create \/ Destroy \/ AddComponent \/ RemoveComponent \/ ChangeComponents
       \/ LoadCard \/ Save \/ Restore \/ NextGame
    /\ Told

Spec == Init /\ [][Next]_vars
=============================================================================
