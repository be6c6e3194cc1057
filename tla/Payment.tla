------------------------------ MODULE Payment ------------------------------
(***************************************************************************)
(* How mana is found for a cost (src/mana_system.cpp): the payer that taps *)
(* sources greedily, in simulation for the offers and for real in the      *)
(* payment, the mana a permanent makes on its way out, and the snapshot a  *)
(* reversed payment goes back to.                                          *)
(*                                                                         *)
(* Mana has no colour here: a cost is a number, and the one order in which *)
(* the payer considers the sources is a sequence that comes with the       *)
(* position.  All of it is one player's; g is that player's side of the    *)
(* game.                                                                   *)
(***************************************************************************)
EXTENDS Integers, FiniteSets, FiniteSetsExt, SequencesExt

CONSTANTS
    Objects,       \* the player's cards and permanents
    ManaAbilities, \* permanents' mana abilities, all of which tap them: the mana, the life it
                   \* costs, the damage it deals when it resolves, and whether it sacrifices
    Artifacts      \* the permanents Improvise can tap

ASSUME ObjectsAssumption == IsFiniteSet(Objects)
ASSUME ManaAbilitiesFinite == IsFiniteSet(ManaAbilities)
ASSUME ManaAbilitiesAssumption ==
    ManaAbilities \subseteq [on : Objects, yield : Nat, life : Nat, hurt : Nat, sac : BOOLEAN,
                             improvise : {FALSE}]
ASSUME ArtifactsAssumption == Artifacts \subseteq Objects

OnField(g, o) == g.zone[o] = "field"
Yard(g) == {o \in Objects : g.zone[o] = "yard"}

(* can_pay_life() *)
LifePayable(g, n) == g.life >= n
PayLife(g, n) == [g EXCEPT !.life = @ - n, !.lost = @ + n]

Loss(m) == m.life + m.hurt
(* Painful abilities may not spend the life the cost itself still needs. *)
PainPayable(g, m, reserve) == Loss(m) = 0 \/ g.life - Loss(m) >= reserve

Sources(g, exclude, reserve) ==
    {m \in ManaAbilities : /\ OnField(g, m.on) /\ m.on \notin g.tapped
                           /\ m.on # exclude /\ PainPayable(g, m, reserve)}

Improvised(a) ==
    [on |-> a, yield |-> 1, life |-> 0, hurt |-> 0, sac |-> FALSE, improvise |-> TRUE]
AllMeans == ManaAbilities \union {Improvised(a) : a \in Artifacts}
Tappable(g) == {Improvised(a) : a \in {o \in Artifacts : OnField(g, o) /\ o \notin g.tapped}}

(* What is tapped makes mana, or pays as if; the payer in simulation pays the ability's cost, and
   leaves out the damage the ability deals. *)
Tap(g, m, drained) ==
    [PayLife(g, drained) EXCEPT !.pool = @ + m.yield, !.tapped = @ \union {m.on},
                                !.zone[m.on] = IF m.sac THEN "yard" ELSE @]
Activated(g, m) == Tap(g, m, Loss(m))
Simulated(g, m) == Tap(g, m, m.life)
Used(g, m, commit) == IF commit THEN Activated(g, m) ELSE Simulated(g, m)

YieldOf(S) == MapThenSumSet(LAMBDA m : m.yield, S)

(* The tiers of preference: painless, painful, sacrificed, and at last Improvise. *)
Tier(m) == IF m.improvise THEN 4 ELSE IF m.sac THEN 3 ELSE IF Loss(m) > 0 THEN 2 ELSE 1

(* auto_pay_mana_attempt(): down the order, tier by tier, tap the sources of A until the pool covers
   the cost, each permanent once. *)
Attempt(g, owed, A, reserve, commit) ==
    FoldLeft(LAMBDA h, m : IF \/ m \notin A \/ h.pool >= owed
                              \/ m.on \in h.tapped \/ ~PainPayable(h, m, reserve)
                           THEN h ELSE Used(h, m, commit),
             g, g.order)
Wins(g, owed, A, reserve) == Attempt(g, owed, A, reserve, FALSE).pool >= owed

(* Only the ability of each permanent with the highest yield, the first in a tie. *)
Earlier(g, m, n) == \E i, j \in DOMAIN g.order : i < j /\ g.order[i] = m /\ g.order[j] = n
BestYield(g, A) ==
    {m \in A : \A n \in A \ {m} : n.on = m.on /\ n.improvise = m.improvise =>
                   \/ n.yield < m.yield
                   \/ n.yield = m.yield /\ ~Earlier(g, n, m)}

(* auto_pay_mana(): the preferred sources, and when those fall short the highest yields only. *)
Strategy(g, owed, A, reserve) == IF Wins(g, owed, A, reserve) THEN A ELSE BestYield(g, A)

Payable(g, exclude, reserve, improvise) ==
    Sources(g, exclude, reserve) \union (IF improvise THEN Tappable(g) ELSE {})

(* can_pay_mana(): the payer in simulation. *)
CanPay(g, owed, exclude, reserve, improvise) ==
    LET A == Payable(g, exclude, reserve, improvise)
    IN  \E S \in {A, BestYield(g, A)} : Wins(g, owed, S, reserve)

(* can_afford_with_sources(): a coarse bound, every other permanent at its highest yield. *)
AffordableWithout(g, owed, o, reserve) ==
    g.pool + YieldOf(BestYield(g, Sources(g, o, reserve))) >= owed

(* float_mana_before_cost_removal(): a permanent about to leave for a cost is tapped first, if the
   cost needs it, without pain where it can. *)
Floated(g, owed, leaving, reserve) ==
    LET A == {m \in Sources(g, "none", reserve) : m.on = leaving /\ ~m.sac}
        chosen == CHOOSE m \in A : Loss(m) > 0 => \A n \in A : Loss(n) > 0
    IN  IF \/ owed = 0 \/ g.pool >= owed \/ A = {}
           \/ Loss(chosen) > 0 /\ AffordableWithout(g, owed, leaving, reserve)
        THEN g
        ELSE Activated(g, chosen)

(* snapshot_mana_state() and restore_mana_state(): not the zone of a sacrificed source. *)
Snapshot(g) ==
    [pool |-> g.pool, life |-> g.life, lost |-> g.lost, tapped |-> g.tapped, delved |-> g.delved]
KeepsTaps(g, snap) ==                        \* mutant: the permanents stay tapped
    [g EXCEPT !.pool = snap.pool, !.life = snap.life, !.lost = snap.lost, !.delved = snap.delved]
Restored(g, snap) ==
    LET exiled == {g.delved[i] : i \in DOMAIN g.delved \ DOMAIN snap.delved}
    IN  [g EXCEPT !.pool = snap.pool, !.life = snap.life, !.lost = snap.lost,
                  !.tapped = snap.tapped, !.delved = snap.delved,
                  !.zone = [o \in Objects |-> IF o \in exiled THEN "yard" ELSE @[o]]]
=============================================================================
