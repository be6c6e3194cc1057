----------------------------- MODULE MCCastFlow ----------------------------
(* Positions with a proposal or two each, their costs those of the cards they are named after,
   some of them under Thalia or Trinisphere. *)
EXTENDS CastFlow

Spells ==
    {"force", "fireblast", "daze", "rotation", "therapy", "deluge", "consign", "dismember",
     "murktide", "uro", "nethergoyf", "jackpot", "rebuke", "battlemage", "surgical", "rotation3"}
Battlefield ==
    {"island1", "island2", "tomb", "petal", "elf", "elf2", "reclaimer", "canopy", "clearing", "led",
     "ranger", "candelabra", "tomb2", "grove", "spawn"}
MCObjects == Spells \union Battlefield \union {"wraith", "blue", "g1", "g2", "g3"}
MCArtifacts == {"petal", "candelabra", "led"}

TapsFor(o, n) == [on |-> o, yield |-> n, life |-> 0, hurt |-> 0, sac |-> FALSE, improvise |-> FALSE]
Pays1Life(o) == [TapsFor(o, 1) EXCEPT !.life = 1]
Deals2(o) == [TapsFor(o, 2) EXCEPT !.hurt = 2]
Sacrificed(o) == [TapsFor(o, 1) EXCEPT !.sac = TRUE]
(* In the order of their entities, say: two Ancient Tombs, and a third that Yavimaya, Cradle of
   Growth makes a Forest too. *)
Sorted ==
    <<TapsFor("island1", 1), Deals2("tomb"), Sacrificed("petal"), Pays1Life("canopy"),
      Pays1Life("clearing"), TapsFor("grove", 1), Deals2("grove"), TapsFor("island2", 1),
      Deals2("tomb2"), Sacrificed("spawn"), Improvised("petal"), Improvised("candelabra"),
      Improvised("led")>>
MCManaAbilities == {Sorted[i] : i \in {j \in DOMAIN Sorted : ~Sorted[j].improvise}}
MCTypes ==
    [o \in MCObjects |-> CASE o = "g1" -> {"instant"} [] o = "g2" -> {"land"} [] OTHER -> {"creature"}]
Lands == {"island1", "island2", "tomb", "canopy", "grove"}
Creatures == {"elf", "elf2", "spawn"}
N(n, S) == [n |-> n, of |-> S]

Of(c) == [Cast EXCEPT !.card = c]
MCCasts ==
    {[Of("force") EXCEPT !.kind = "alt", !.generic = 1, !.pitch = N(1, {"blue", "wraith"}),
                         !.life = 1, !.target = TRUE],
     [Of("fireblast") EXCEPT !.kind = "alt", !.alt_sac = N(2, Lands), !.target = TRUE],
     [Of("daze") EXCEPT !.kind = "alt", !.generic = 1, !.return = N(1, {"island1", "island2"})],
     [Of("rotation") EXCEPT !.generic = 1, !.sac = Lands],
     [Of("rotation3") EXCEPT !.generic = 3, !.sac = Lands],
     [Of("rotation") EXCEPT !.kind = "permitted", !.from = "exile", !.generic = 1, !.sac = Lands],
     [Of("therapy") EXCEPT !.kind = "flashback", !.from = "yard", !.generic = 1,
                           !.flash_sac = Creatures],
     [Of("deluge") EXCEPT !.generic = 3, !.life_x = TRUE],
     [Of("consign") EXCEPT !.generic = 1, !.replicate = 1, !.target = TRUE],
     [Of("dismember") EXCEPT !.generic = 1, !.pips = 2, !.target = TRUE],
     [Of("surgical") EXCEPT !.generic = 1, !.pips = 1, !.target = TRUE],
     [Of("murktide") EXCEPT !.generic = 3, !.delve = TRUE],
     [Of("uro") EXCEPT !.kind = "escape", !.from = "yard", !.generic = 1, !.exile = 2],
     [Of("nethergoyf") EXCEPT !.kind = "escape", !.from = "yard", !.generic = 1, !.types = 2],
     [Of("jackpot") EXCEPT !.kind = "grant", !.from = "exile", !.energy = 2, !.generic = 1,
                           !.gift = TRUE, !.resolving = TRUE],
     [Of("rebuke") EXCEPT !.generic = 2, !.improvise = TRUE],
     [Of("battlemage") EXCEPT !.kickers = <<1, 2>>, !.generic = 1, !.x = 1]}

From(o) == [Ability EXCEPT !.source = o]
MCAbilities ==
    {[From("reclaimer") EXCEPT !.mana = 2, !.tap = TRUE, !.sac = Lands],
     [From("canopy") EXCEPT !.mana = 1, !.tap = TRUE, !.sac_self = TRUE],
     [From("wraith") EXCEPT !.from = "hand", !.life = 2, !.discard_self = TRUE],
     [From("led") EXCEPT !.tap = TRUE, !.sac_self = TRUE, !.discard_hand = TRUE, !.makes = 3],
     [From("ranger") EXCEPT !.return = {"island1", "island2"}, !.target = TRUE],
     [From("candelabra") EXCEPT !.tap = TRUE, !.x = 1, !.target = TRUE],
     [From("tomb") EXCEPT !.tap = TRUE, !.makes = 2]}

Ordered(means, zone) ==
    LET InTier(t) == SelectSeq(means, LAMBDA m : zone[m.on] = "field" /\ Tier(m) = t)
    IN  InTier(1) \o InTier(2) \o InTier(3) \o InTier(4)
Deal(life, hand, field, yard, exile) ==
    LET zone == [o \in MCObjects |-> CASE o \in hand -> "hand" [] o \in field -> "field"
                                       [] o \in yard -> "yard" [] o \in exile -> "exile"
                                       [] OTHER -> "none"]
    IN  [zone |-> zone, tapped |-> {}, life |-> life, energy |-> 2, order |-> Ordered(Sorted, zone)]
(* The same deals in their own order, and in the one the demand of another hand turns round. *)
BothOrders(S) == S \union {[d EXCEPT !.order = Ordered(Reverse(Sorted), d.zone)] : d \in S}
MCDeals ==
    BothOrders(
    {Deal(3, {"force", "blue", "wraith"}, {"tomb"}, {}, {}),
     Deal(2, {"fireblast", "rotation"}, {"island1", "tomb", "canopy"}, {}, {}),
     Deal(3, {"daze"}, {"island1", "island2", "ranger"}, {}, {}),
     Deal(2, {"rotation"}, {"tomb", "petal", "reclaimer"}, {}, {}),
     Deal(2, {}, {"canopy", "petal"}, {}, {"rotation"}),
     Deal(3, {}, {"elf", "elf2", "petal", "canopy"}, {"therapy"}, {}),
     Deal(2, {}, {"spawn", "petal"}, {"therapy"}, {}),
     Deal(4, {"deluge"}, {"tomb", "island1"}, {}, {}),
     Deal(2, {"consign"}, {"island1", "island2", "petal", "led"}, {}, {}),
     Deal(3, {"dismember"}, {"island1", "petal"}, {}, {}),
     Deal(4, {"dismember", "daze"}, {"tomb"}, {}, {}),
     Deal(3, {"rotation3"}, {"tomb", "tomb2"}, {}, {}),
     Deal(2, {"surgical"}, {"canopy", "clearing"}, {}, {}),
     Deal(3, {"surgical"}, {"tomb"}, {}, {}),
     Deal(2, {"force", "blue"}, {"tomb"}, {}, {}),
     Deal(3, {"murktide"}, {"tomb", "petal"}, {"g1", "g2", "g3"}, {}),
     Deal(2, {}, {"island1", "island2"}, {"g1", "g2", "uro"}, {}),
     Deal(2, {}, {"island1"}, {"g1", "g2", "g3", "nethergoyf"}, {}),
     Deal(3, {"rebuke"}, {"petal", "candelabra", "island1", "tomb"}, {}, {"jackpot"}),
     Deal(4, {"deluge"}, {"tomb", "tomb2"}, {}, {}),
     Deal(3, {"deluge"}, {"grove", "reclaimer"}, {}, {}),
     Deal(5, {"battlemage"}, {"island1", "tomb", "petal", "led"}, {}, {}),
     Deal(3, {"battlemage"}, {"tomb", "tomb2", "petal"}, {}, {})})
Every == [auto : BOOLEAN, cancel : BOOLEAN]

(* One spell with a replicate cost and the mana to pay it twice, its questions with a Cancel row. *)
Replicated == {Deal(2, {"consign"}, {"island1", "island2", "petal"}, {}, {})}
(* A grant of a card with an additional cost, cast with nothing on the battlefield to sacrifice. *)
GrantedRotation ==
    {[Of("rotation") EXCEPT !.kind = "grant", !.from = "exile", !.sac = Lands, !.resolving = TRUE]}
Landless == {Deal(2, {}, {"petal"}, {}, {"rotation"})}
WithCancel == {[auto |-> TRUE, cancel |-> TRUE]}
(* Three to pay from two Ancient Tombs, with the life for one. *)
Tombs == {Deal(3, {"deluge"}, {"tomb", "tomb2"}, {}, {})}
(* A flashback that sacrifices a creature, and an Eldrazi Spawn to pay it with. *)
Spawned == {Deal(2, {}, {"spawn"}, {"therapy"}, {})}
Machine == {[auto |-> TRUE, cancel |-> FALSE]}
=============================================================================
