-------------------------------- MODULE Ecs ---------------------------------
(***************************************************************************)
(* The entity store of the engine and its snapshots: Coordinator and its   *)
(* managers (src/ecs/), whose component arrays are kept dense by swapping; *)
(* card_db, the prototype entity of each card name loaded (card_db.cpp);   *)
(* references that tell an object from a later holder of its id            *)
(* (object_ref.cpp); and the slots that save and restore all of it         *)
(* (snapshot.cpp).  Module World says what they promise.                   *)
(*                                                                         *)
(* The three systems ask for the same signature, {Zone}, so one set stands *)
(* for the mEntities of each.                                              *)
(***************************************************************************)
EXTENDS Naturals, Sequences, FiniteSets, Functions

CONSTANTS
    LastId,          \* MAX_ENTITIES - 1: ids are 1 .. LastId, 0 is the null entity
    Types,           \* component types
    CardData, Zone,  \* the type of a prototype, and the one the systems ask for
    Data, NoData,    \* what a component may hold; what an element holds that was never written
    Cards,           \* card names; what a card's prototype holds is its name
    Slots,           \* snapshot slots
    Callers          \* what callers of the store do, and how much: each behaviour has one

ASSUME LastIdAssumption == LastId \in Nat
ASSUME TypesAssumption == CardData \in Types /\ Zone \in Types
ASSUME DataAssumption == NoData \notin Data
ASSUME CardsAssumption == Cards \subseteq Data /\ IsFiniteSet(Cards)

(* A caller: the types it adds components of, the data it puts in, the names it loads, the slots
   it uses and whether it keeps references; and its bounds: the entities alive at once, the times
   an id is issued, the games of the process. *)
Caller == [types : SUBSET Types, data : SUBSET Data, cards : SUBSET Cards, slots : SUBSET Slots,
           refs : BOOLEAN, living : Nat, issues : Nat, games : Nat]
ASSUME CallersAssumption == Callers \subseteq Caller

VARIABLES
    caller,      \* what this behaviour's caller does
    ecs,         \* global_coordinator
    card_db,     \* card name -> entity
    generation,  \* g_card_db_generation
    kept,        \* a reference the game keeps (part of cur_game), or NoRef
    slots,       \* g_slots
    diverged     \* history: names that differ from a slot's were loaded after a restore

vars == <<caller, ecs, card_db, generation, kept, slots, diverged>>

Ids == 1..LastId
Index == 0..LastId               \* of arrays of MAX_ENTITIES elements
NO_INDEX == LastId + 1

-----------------------------------------------------------------------------
(* One component array.                                                     *)

BlankArray == [index |-> [e \in Ids |-> NO_INDEX], entity |-> [i \in Index |-> 0],
               data |-> [i \in Index |-> NoData], size |-> 0]

Has(a, e) == a.index[e] # NO_INDEX
Holders(a) == {e \in Ids : Has(a, e)}
DataOf(a, e) == a.data[a.index[e]]
Held(a) == [e \in Holders(a) |-> DataOf(a, e)]

InsertData(a, e, d) ==
    [index |-> [a.index EXCEPT ![e] = a.size], entity |-> [a.entity EXCEPT ![a.size] = e],
     data |-> [a.data EXCEPT ![a.size] = d], size |-> a.size + 1]

(* The last element takes the place of the removed one; what it leaves behind is not cleared. *)
LastStays(a, e) == a.index                          \* mutant: the moved element is not looked up anew
LastMoves(a, e) == [a.index EXCEPT ![a.entity[a.size - 1]] = a.index[e]]
RemoveData(a, e) ==
    [index |-> [LastMoves(a, e) EXCEPT ![e] = NO_INDEX],
     entity |-> [a.entity EXCEPT ![a.index[e]] = a.entity[a.size - 1]],
     data |-> [a.data EXCEPT ![a.index[e]] = a.data[a.size - 1]],
     size |-> a.size - 1]

Write(a, e, d) == [a EXCEPT !.data[a.index[e]] = d]

(* es[i] takes the component es[from[i]] had: the maps change, no component moves. *)
PermuteData(a, es, from) ==
    [a EXCEPT !.index = [e \in Ids |-> IF e \in es THEN a.index[from[e]] ELSE @[e]],
              !.entity = [i \in Index |-> IF \E e \in es : a.index[from[e]] = i
                                          THEN CHOOSE e \in es : a.index[from[e]] = i
                                          ELSE @[i]]]

(* RestoreFrom and SnapshotClone: maps and size are copied, and the live elements only. *)
RestoreFrom(into, a) ==
    [a EXCEPT !.data = [i \in Index |-> IF i < a.size THEN @[i] ELSE into.data[i]]]

-----------------------------------------------------------------------------
(* The coordinator.                                                         *)

BlankEcs == [avail |-> [i \in 1..LastId |-> i], alive |-> {}, issue |-> [e \in Ids |-> 0],
             signature |-> [e \in Ids |-> {}], arrays |-> [t \in Types |-> BlankArray],
             zoned |-> {}]

(* The id that has been free longest is issued again first. *)
NextId(s) == Head(s.avail)
Uncounted(s, e) == s.issue                          \* mutant: a later holder counts as the same
Counted(s, e) == [s.issue EXCEPT ![e] = @ + 1]
CreateEntity(s) ==
    [s EXCEPT !.avail = Tail(@), !.alive = @ \cup {NextId(s)}, !.issue = Counted(s, NextId(s))]

DestroyEntity(s, e) ==
    [s EXCEPT !.alive = @ \ {e}, !.signature[e] = {}, !.avail = Append(@, e),
              !.arrays = [t \in Types |-> IF Has(@[t], e) THEN RemoveData(@[t], e) ELSE @[t]],
              !.zoned = @ \ {e}]

(* SetSignature and EntitySignatureChanged. *)
SetSignature(s, e, signature) ==
    [s EXCEPT !.signature[e] = signature,
              !.zoned = IF Zone \in signature THEN @ \cup {e} ELSE @ \ {e}]

AddComponent(s, e, t, d) ==
    SetSignature([s EXCEPT !.arrays[t] = InsertData(@, e, d)], e, s.signature[e] \cup {t})

RemoveComponent(s, e, t) ==
    SetSignature([s EXCEPT !.arrays[t] = RemoveData(@, e)], e, s.signature[e] \ {t})

(* snapshot_to and restore_from: everything by value, the arrays into those that are there. *)
Restored(into, s) ==
    [s EXCEPT !.arrays = [t \in Types |-> RestoreFrom(into.arrays[t], @[t])]]

-----------------------------------------------------------------------------
NoRef == [e |-> 0, issue |-> 0, reissued |-> FALSE]
(* ObjectRef::of; reissued is a history: the id has gone to another object since. *)
RefOf(e) == [e |-> e, issue |-> ecs.issue[e], reissued |-> FALSE]
(* lki_entity *)
Resolves(r) == r.e # 0 /\ r.issue = ecs.issue[r.e]
Issuing(e) == kept' = IF kept.e = e THEN [kept EXCEPT !.reissued = TRUE] ELSE kept

(* meant is a history: the names there were at the save, whatever the copy holds. *)
FreeSlot == [live |-> FALSE, match |-> FALSE, ecs |-> BlankEcs, kept |-> NoRef, names |-> << >>,
             generation |-> 0, meant |-> << >>]

Extends(g, f) == DOMAIN f \subseteq DOMAIN g /\ \A c \in DOMAIN f : g[c] = f[c]
Diverging ==
    \E k \in Slots :
        /\ slots[k].live /\ slots[k].generation = generation
        /\ ~Extends(card_db, slots[k].meant) /\ ~Extends(slots[k].meant, card_db)

Init ==
    /\ caller \in Callers
    /\ ecs = BlankEcs /\ card_db = << >> /\ generation = 0 /\ kept = NoRef
    /\ slots = [k \in Slots |-> FreeSlot] /\ diverged = FALSE

(* Prototypes live as long as their game. *)
Prototypes == {card_db[c] : c \in DOMAIN card_db}
Objects == ecs.alive \ Prototypes

(* An id is left: taking one from the empty queue is fatal. *)
CanIssue ==
    /\ generation > 0 /\ ecs.avail # << >>
    /\ Cardinality(ecs.alive) < caller.living /\ ecs.issue[NextId(ecs)] < caller.issues

Create ==
    /\ caller.types # {} /\ CanIssue
    /\ ecs' = CreateEntity(ecs) /\ Issuing(NextId(ecs))
    /\ UNCHANGED <<card_db, generation, slots, diverged>>

Destroy ==
    /\ \E e \in Objects : ecs' = DestroyEntity(ecs, e)
    /\ UNCHANGED <<card_db, generation, kept, slots, diverged>>

Add ==
    /\ \E e \in Objects, t \in caller.types, d \in caller.data :
          ~Has(ecs.arrays[t], e) /\ ecs' = AddComponent(ecs, e, t, d)
    /\ UNCHANGED <<card_db, generation, kept, slots, diverged>>

Remove ==
    /\ \E e \in Objects, t \in caller.types :
          Has(ecs.arrays[t], e) /\ ecs' = RemoveComponent(ecs, e, t)
    /\ UNCHANGED <<card_db, generation, kept, slots, diverged>>

(* Through the reference GetComponent returns. *)
Change ==
    /\ \E e \in Objects, t \in caller.types, d \in caller.data :
          Has(ecs.arrays[t], e) /\ ecs' = [ecs EXCEPT !.arrays[t] = Write(@, e, d)]
    /\ UNCHANGED <<card_db, generation, kept, slots, diverged>>

Permute ==
    /\ \E t \in caller.types : \E es \in SUBSET (Holders(ecs.arrays[t]) \cap Objects) :
          \E from \in Bijection(es, es) :
              ecs' = [ecs EXCEPT !.arrays[t] = PermuteData(@, es, from)]
    /\ UNCHANGED <<card_db, generation, kept, slots, diverged>>

(* load_card of a name not loaded: the parser makes its prototype. *)
LoadCard ==
    /\ CanIssue
    /\ \E c \in caller.cards \ DOMAIN card_db :
          /\ ecs' = AddComponent(CreateEntity(ecs), NextId(ecs), CardData, c)
          /\ card_db' = [x \in DOMAIN card_db \cup {c} |->
                            IF x = c THEN NextId(ecs) ELSE card_db[x]]
    /\ Issuing(NextId(ecs))
    /\ UNCHANGED <<generation, slots>>
    /\ diverged' = (diverged \/ Diverging')

KeepRef ==
    /\ caller.refs
    /\ \E e \in ecs.alive : kept' = RefOf(e)
    /\ UNCHANGED <<ecs, card_db, generation, slots, diverged>>

(* A copy of the names is not made where generation and size say there is one already. *)
SameSize(s) == Cardinality(DOMAIN card_db) = Cardinality(DOMAIN s.names)
SameNames(s) == generation = s.generation /\ SameSize(s)

(* snapshot_save; a slot saved while sideboarding is of the match. *)
Save ==
    /\ generation > 0
    /\ \E k \in caller.slots, match \in {FALSE, caller.games > 1} :
          slots' = [slots EXCEPT ![k] =
              [live |-> TRUE, match |-> match, ecs |-> Restored(@.ecs, ecs), kept |-> kept,
               names |-> IF SameNames(@) THEN @.names ELSE card_db,
               generation |-> generation, meant |-> card_db]]
    /\ UNCHANGED <<ecs, card_db, generation, kept, diverged>>

(* restore_slot *)
Restore ==
    /\ \E k \in caller.slots :
          /\ slots[k].live
          /\ ecs' = Restored(ecs, slots[k].ecs)
          /\ card_db' = IF SameNames(slots[k]) THEN card_db ELSE slots[k].names
          /\ generation' = slots[k].generation /\ kept' = slots[k].kept
    /\ UNCHANGED <<slots, diverged>>

(* init_ecs, and the start of play_single_game: the slots go unless one is of the match. *)
NextGame ==
    /\ generation < caller.games
    /\ ecs' = BlankEcs /\ card_db' = << >> /\ generation' = generation + 1 /\ kept' = NoRef
    /\ slots' = IF \E k \in Slots : slots[k].live /\ slots[k].match THEN slots
                ELSE [k \in Slots |-> FreeSlot]
    /\ UNCHANGED diverged

Next ==
    /\ \/ Create \/ Destroy \/ Add \/ Remove \/ Change \/ Permute
       \/ LoadCard \/ KeepRef \/ Save \/ Restore \/ NextGame
    /\ UNCHANGED caller

Spec == Init /\ [][Next]_vars

-----------------------------------------------------------------------------
(* The store keeps the promises of World: components stay with their entity whatever else is
   added, removed, permuted or restored, the systems see exactly what is in a zone, and going
   back to a slot brings back the world it was saved in. *)
Kept(s) == [kept |-> TRUE, living |-> s.ecs.alive,
            holds |-> [t \in Types |-> Held(s.ecs.arrays[t])],
            names |-> s.meant, game |-> s.generation]
W == INSTANCE World WITH
        living <- ecs.alive,
        holds <- [t \in Types |-> Held(ecs.arrays[t])],
        zoned <- ecs.zoned, names <- card_db, game <- generation,
        saved <- [k \in Slots |-> IF slots[k].live THEN Kept(slots[k]) ELSE [kept |-> FALSE]]
ImplementsWorld == W!Spec

(* A loaded name is the living prototype of its card, after saves and restores in any order: "a
   later load_card/GetData would then abort" (snapshot.cpp:31-32) otherwise.  This is on the
   condition that no names were loaded after going back that differ from those a slot of the same
   game keeps (diverged); with them it does not hold, for IdenticalNames does not. *)
NamesResolve ==
    ~diverged => \A c \in DOMAIN card_db :
                    /\ card_db[c] \in ecs.alive /\ Has(ecs.arrays[CardData], card_db[c])
                    /\ DataOf(ecs.arrays[CardData], card_db[c]) = c

(* "within one generation a size match means nothing was loaded since the save and the maps are
   identical" (snapshot.cpp:144-146, and :93-94 of the copy kept by a save), whatever was loaded.
   Two slots that went separate ways refute it: save one, load X, save the other, go back to the
   first and load Y. *)
IdenticalNames == \A k \in Slots : slots[k].live /\ SameNames(slots[k]) => slots[k].meant = card_db

(* A reference the game keeps resolves while its id has not gone to another object, and never
   after, also when ids and counts are rolled back under it. *)
RefsNameTheirObject == kept # NoRef => (Resolves(kept) <=> ~kept.reissued)
=============================================================================
