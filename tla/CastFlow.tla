------------------------------ MODULE CastFlow -----------------------------
(***************************************************************************)
(* Casting a spell and activating an ability (src/action_processor.cpp,    *)
(* PendingCast and PendingActivation of src/classes/game.h): the proposal, *)
(* the choices it asks for one at a time, the payment, and its reversal    *)
(* when the player cancels it or the payment fails.                        *)
(*                                                                         *)
(* Between a question and its answer nothing else runs (GameLoop), so a    *)
(* step that asks is one action here, with any answer of its menu.  One    *)
(* player proposes; colours, timing, targets and the other player's board  *)
(* are left out, and what a cost's specification matches is a set.         *)
(***************************************************************************)
EXTENDS Payment

CONSTANTS
    Casts,         \* ways to cast a card: records of their costs, see Cast
    Abilities,     \* activated abilities: records of their costs, see Ability
    TypesOf,       \* the card types of each object
    Deals,         \* the positions a behaviour starts in
    Modes,         \* [auto, cancel]: the options auto_mana and offer_cast_cancel
    MaxProposals   \* bound: proposals in one behaviour

(* A way to cast, with no cost at all; the real ones differ from it in a few fields. *)
Nothing == [n |-> 0, of |-> {}]
Cast ==
    [kind |-> "regular", card |-> "none", from |-> "hand", generic |-> 0, pips |-> 0,
     kickers |-> <<>>, replicate |-> 0, x |-> 0, life_x |-> FALSE, delve |-> FALSE,
     improvise |-> FALSE, gift |-> FALSE, target |-> FALSE, pitch |-> Nothing,
     return |-> Nothing, alt_sac |-> Nothing, sac |-> {}, flash_sac |-> {}, types |-> 0,
     exile |-> 0, life |-> 0, energy |-> 0, resolving |-> FALSE]
Ability ==
    [source |-> "none", from |-> "field", mana |-> 0, x |-> 0, tap |-> FALSE, target |-> FALSE,
     sac |-> {}, return |-> {}, life |-> 0, energy |-> 0, sac_self |-> FALSE,
     discard_self |-> FALSE, discard_hand |-> FALSE, makes |-> 0]

Zones == {"hand", "field", "yard", "exile", "stack", "none"}
Items == [n : Nat, of : SUBSET Objects]
Menu == SUBSET Objects

(* No card is cast, and no ability activated, from the stack; permanents are not cast. *)
ASSUME CastsAssumption ==
    Casts \subseteq
        [kind : {"regular", "permitted", "alt", "flashback", "escape", "grant"}, card : Objects,
         from : {"hand", "yard", "exile"}, generic : Nat, pips : Nat, kickers : Seq(Nat),
         replicate : Nat, x : Nat, life_x : BOOLEAN, delve : BOOLEAN, improvise : BOOLEAN,
         gift : BOOLEAN, target : BOOLEAN, pitch : Items, return : Items, alt_sac : Items,
         sac : Menu, flash_sac : Menu, types : Nat, exile : Nat, life : Nat, energy : Nat,
         resolving : BOOLEAN]
ASSUME AbilitiesAssumption ==
    Abilities \subseteq
        [source : Objects, from : Zones \ {"stack"}, mana : Nat, x : Nat, tap : BOOLEAN,
         target : BOOLEAN, sac : Menu, return : Menu, life : Nat, energy : Nat,
         sac_self : BOOLEAN, discard_self : BOOLEAN, discard_hand : BOOLEAN, makes : Nat]
ASSUME DealsAssumption ==
    Deals \subseteq [zone : [Objects -> Zones], tapped : SUBSET Objects, life : Nat, energy : Nat,
                     order : Seq(AllMeans)]
(* The payer's order: every source on the battlefield, tier by tier; within a tier as the stable
   sort by the demand of the hand and the utility of the source left them. *)
ASSUME OrdersAssumption ==
    \A d \in Deals : /\ {d.order[i] : i \in DOMAIN d.order} = {m \in AllMeans : OnField(d, m.on)}
                     /\ \A i, j \in DOMAIN d.order : i < j => Tier(d.order[i]) <= Tier(d.order[j])
ASSUME ModesAssumption == Modes \subseteq [auto : BOOLEAN, cancel : BOOLEAN]
ASSUME TypesOfAssumption == DOMAIN TypesOf = Objects /\ \A o \in Objects : IsFiniteSet(TypesOf[o])
(* The costs that only one kind of cast has; delve and Improvise, only a card's own costs. *)
ASSUME KindsAssumption ==
    \A c \in Casts : /\ c.kind # "alt" => c.alt_sac.n = 0
                     /\ c.kind # "flashback" => c.flash_sac = {}
                     /\ c.kind \notin {"regular", "permitted"} => ~c.delve /\ ~c.improvise
                     /\ c.kind = "escape" => 0 \in {c.types, c.exile}
                     /\ c.kind # "escape" => c.types = 0 /\ c.exile = 0
(* No card matches two costs of a way that take a permanent; the code does not compare them. *)
Apart(S, T) == S \intersect T = {}
ASSUME CostsApartAssumption ==
    /\ \A c \in Casts : /\ Apart(c.sac, c.flash_sac) /\ Apart(c.return.of, c.alt_sac.of)
                        /\ Apart(c.sac \union c.flash_sac, c.return.of \union c.alt_sac.of)
    /\ \A a \in Abilities : /\ Apart(a.sac, a.return)
                            /\ a.sac_self \/ a.discard_self => a.source \notin a.sac \union a.return
                            /\ a.discard_hand => a.return = {}
ASSUME MaxProposalsAssumption == MaxProposals \in Nat

VARIABLES
    mode,       \* the options, which never change
    game,       \* what a proposal can change, see Position
    fails,      \* priority.payment_fail_counts
    flow,       \* pending.cast or pending.activation
    before,     \* history: the game as the last proposal found it
    proposals   \* how many there have been

vars == <<mode, game, fails, flow, before, proposals>>

Idle == [kind |-> "none"]
Casting == flow.kind = "cast"
Activating == flow.kind = "activation"
At(step) == flow.kind # "none" /\ flow.step = step
Goto(step) == flow' = [flow EXCEPT !.step = step]

(* stamps: the components on a card that is being cast; casts: the spells cast this turn;
   copies: on the stack, or created and still without a zone; abilities: on the stack. *)
Position(d) ==
    [zone |-> d.zone, tapped |-> d.tapped, life |-> d.life, lost |-> 0, energy |-> d.energy,
     pool |-> 0, order |-> d.order, delved |-> <<>>, stamps |-> [o \in Objects |-> {}], casts |-> 0,
     copies |-> [placed |-> 0, made |-> 0], abilities |-> 0]

Init ==
    /\ mode \in Modes
    /\ game \in {Position(d) : d \in Deals}
    /\ fails = [o \in Objects |-> 0]
    /\ flow = Idle /\ before = game /\ proposals = 0

-----------------------------------------------------------------------------
(* What the offers and the steps know of the payment to come.               *)

NewCast(c) ==
    [kind |-> "cast", step |-> "COST", way |-> c, cost |-> 0, kicker |-> 1, kicked |-> 0,
     replicated |-> 0, x |-> 0, pip |-> 0, life_paid |-> 0, life_x |-> 0, delving |-> 0,
     chosen |-> <<>>, snap |-> <<>>, copying |-> 0]
NewActivation(a) ==
    [kind |-> "activation", step |-> IF a.from = "field" THEN "X_LADDER" ELSE "ZONE_TARGET",
     way |-> a, cost |-> 0, x |-> 0, chosen |-> <<>>, snap |-> <<>>]

(* life_reserved_for_pending_payment() *)
Reserved(f) == IF f.kind = "cast" THEN f.way.life + f.life_x ELSE f.way.life

DelveEligible(g) == Cardinality(Yard(g))
AfterDelve(c, g, owed) == IF c.delve THEN owed - Min({owed, DelveEligible(g)}) ELSE owed
CanPayFor(c, owed, reserve) ==
    CanPay(game, AfterDelve(c, game, owed), "none", reserve, c.improvise)
NoReserve(c) == 0                            \* mutant: the gate forgets the cost's own life
LifeOf(c) == c.life

(* can_pay_spell_mana(): some of the Phyrexian pips are paid with life. *)
CanPaySpell(c) ==
    \E k \in 0..c.pips : /\ LifePayable(game, 2 * k)
                         /\ CanPayFor(c, c.generic + c.pips - k, 2 * k)

Controlled(of) == {o \in of : OnField(game, o)}
(* payment_blocked() *)
Blocked(o) == fails[o] >= 2

(* The mana of a cost that replaces the card's own, before the life it takes. *)
CanPayInstead(c) ==
    LifePayable(game, c.life) /\ CanPay(game, c.generic, "none", LifeOf(c), FALSE)

(* can_afford_alt() *)
ItemsUnseen(c) == CanPayInstead(c)           \* mutant: the gate forgets the cost items
AltAffordable(c) ==
    /\ Cardinality(Controlled(c.return.of)) >= c.return.n
    /\ Cardinality(Controlled(c.alt_sac.of)) >= c.alt_sac.n
    /\ c.pitch.n = 0 \/ \E o \in c.pitch.of \ {c.card} : game.zone[o] = "hand"
    /\ CanPayInstead(c)

OtherYard(c) == Yard(game) \ {c.card}
EscapeAffordable(c) ==
    /\ CanPayInstead(c)
    /\ Cardinality(UNION {TypesOf[o] : o \in OtherYard(c)}) >= c.types
    /\ Cardinality(OtherYard(c)) >= c.exile

(* The offers of determine_legal_actions(). A "permitted" cast is for the card's own costs under
   a permission for its zone; a "grant" replaces its mana cost. *)
Offered(c) ==
    /\ game.zone[c.card] = c.from /\ ~Blocked(c.card)
    /\ CASE c.kind = "regular" -> CanPaySpell(c) /\ (c.sac # {} => Controlled(c.sac) # {})
         [] c.kind = "permitted" -> CanPaySpell(c)
         [] c.kind = "alt" -> AltAffordable(c)
         [] c.kind = "flashback" -> /\ CanPayInstead(c)
                                    /\ c.flash_sac # {} => Controlled(c.flash_sac) # {}
         [] c.kind = "escape" -> EscapeAffordable(c)
         [] c.kind = "grant" -> CanPayInstead(c) /\ game.energy >= c.energy

Excluded(a) == IF a.tap THEN a.source ELSE "none"
(* can_activate_now(); a mana ability is offered to be floated, or at instant speed. *)
Activatable(a) ==
    /\ game.zone[a.source] = a.from /\ ~Blocked(a.source)
    /\ a.tap => a.source \notin game.tapped
    /\ CanPay(game, a.mana, Excluded(a), a.life, FALSE)
    /\ LifePayable(game, a.life) /\ game.energy >= a.energy
    /\ a.sac # {} => Controlled(a.sac) # {}
    /\ a.return # {} => Controlled(a.return) # {}
    /\ a.makes > 0 => ~mode.auto \/ a.discard_hand

-----------------------------------------------------------------------------
(* The proposal, and its reversal.                                          *)

(* process_action() and begin_cast(): the card is on the stack from the start. *)
ProposeCast(c) ==
    /\ flow = Idle /\ proposals < MaxProposals /\ Offered(c)
    /\ game' = [game EXCEPT !.zone[c.card] = "stack", !.stamps[c.card] = {"Spell"}]
    /\ flow' = NewCast(c)
    /\ before' = game /\ proposals' = proposals + 1
    /\ UNCHANGED <<mode, fails>>

(* process_activate_ability() and begin_activation() *)
ProposeActivation(a) ==
    /\ flow = Idle /\ proposals < MaxProposals /\ Activatable(a)
    /\ game' = IF a.makes > 0 THEN game ELSE [game EXCEPT !.abilities = @ + 1]
    /\ flow' = NewActivation(a)
    /\ before' = game /\ proposals' = proposals + 1
    /\ UNCHANGED <<mode, fails>>

Undone(g) == IF flow.snap = <<>> THEN g ELSE Restored(g, flow.snap[1])
(* rewind_cast() *)
RewoundCast(g) ==
    [g EXCEPT !.life = @ + flow.life_paid, !.lost = @ - flow.life_paid,
              !.zone[flow.way.card] = flow.way.from, !.stamps[flow.way.card] = {}]
(* rewind_activation() *)
RewoundActivation(g) == IF flow.way.makes > 0 THEN g ELSE [g EXCEPT !.abilities = @ - 1]
Rewind(g) ==
    /\ game' = IF Casting THEN RewoundCast(Undone(g)) ELSE RewoundActivation(Undone(g))
    /\ flow' = Idle

Subject == IF Casting THEN flow.way.card ELSE flow.way.source
(* fail_cast_payment() and fail_activation_payment() *)
FailPayment(g) ==
    /\ Rewind(g)
    /\ fails' = [fails EXCEPT ![Subject] = @ + 1]
    /\ UNCHANGED <<mode, before, proposals>>

(* A step that changes only the pending proposal. *)
Only == UNCHANGED <<mode, game, fails, before, proposals>>

-----------------------------------------------------------------------------
(* The steps of run_cast_flow(), in their order.                            *)

CostStep ==
    /\ Casting /\ At("COST")
    /\ flow' = [flow EXCEPT
            !.step = IF flow.way.kind \in {"regular", "permitted"} THEN "KICKER" ELSE "GIFT",
            !.cost = flow.way.generic]
    /\ Only

WithKicker == flow.cost + flow.way.kickers[flow.kicker]
KickerOffered == flow.kicker <= Len(flow.way.kickers)
Kicker ==
    /\ At("KICKER")
    /\ IF ~KickerOffered THEN Goto("REPLICATE")
       ELSE \E yes \in BOOLEAN :
            /\ yes => CanPayFor(flow.way, WithKicker, Reserved(flow))
            /\ flow' = [flow EXCEPT !.kicker = @ + 1,
                                    !.kicked = IF yes THEN @ + flow.way.kickers[flow.kicker] ELSE @,
                                    !.cost = IF yes THEN WithKicker ELSE @]
    /\ Only

WithReplicate == flow.cost + flow.way.replicate
ReplicateOffered == flow.way.replicate > 0 /\ CanPayFor(flow.way, WithReplicate, Reserved(flow))
Replicate ==
    /\ At("REPLICATE")
    /\ \/ Goto("CHOOSE_X")
       \/ /\ ReplicateOffered
          /\ flow' = [flow EXCEPT !.cost = WithReplicate, !.replicated = @ + 1]
    /\ Only

UpToMax(S) == 0..Max(S \union {0})
(* payable_max_x(): every X up to the largest the payer accepts. *)
PayableX(owed, pips, CanPayIt(_)) ==
    UpToMax({x \in 0..(YieldOf(ManaAbilities) + game.pool) : CanPayIt(owed + x * pips)})
ChooseX ==
    /\ At("CHOOSE_X")
    /\ IF flow.way.x = 0 THEN Goto("PHYREXIAN_PIP")
       ELSE \E x \in PayableX(flow.cost, flow.way.x,
                              LAMBDA owed : CanPayFor(flow.way, owed, Reserved(flow))) :
            flow' = [flow EXCEPT !.step = "PHYREXIAN_PIP", !.x = x, !.cost = @ + x * flow.way.x]
    /\ Only

(* Each pip is paid with life at once, or added to the cost; never offered an empty menu. *)
PipLife ==
    /\ At("PHYREXIAN_PIP") /\ flow.pip < flow.way.pips /\ LifePayable(game, 2)
    /\ game' = PayLife(game, 2)
    /\ flow' = [flow EXCEPT !.pip = @ + 1, !.life_paid = @ + 2]
    /\ UNCHANGED <<mode, fails, before, proposals>>
PipMana ==
    /\ At("PHYREXIAN_PIP") /\ flow.pip < flow.way.pips
    /\ ~LifePayable(game, 2) \/ CanPayFor(flow.way, flow.cost + 1, Reserved(flow))
    /\ flow' = [flow EXCEPT !.pip = @ + 1, !.cost = @ + 1]
    /\ Only
PipsDone == At("PHYREXIAN_PIP") /\ flow.pip = flow.way.pips /\ Goto("LIFE_X") /\ Only

(* max_life_x(): the life the mana payment leaves. *)
LifeXs ==
    UpToMax({x \in 0..(game.life - flow.way.life) :
                flow.cost = 0 \/ CanPayFor(flow.way, flow.cost, flow.way.life + x)})
LifeX ==
    /\ At("LIFE_X")
    /\ \E x \in IF flow.way.life_x THEN LifeXs ELSE {0} :
            flow' = [flow EXCEPT !.step = "GIFT", !.life_x = x]
    /\ Only

Gift == At("GIFT") /\ Goto("MODES_TARGETS") /\ Only

(* ANNOUNCE, MODES_TARGETS and AURA_TARGET: once the targets are chosen the card has its ability. *)
Targets ==
    /\ Casting /\ At("MODES_TARGETS") /\ Goto("ALT_PITCH")
    /\ game' = [game EXCEPT !.stamps[flow.way.card] = @ \union {"Ability"}]
    /\ UNCHANGED <<mode, fails, before, proposals>>

-----------------------------------------------------------------------------
(* The cost items: chosen one at a time now, moved when the costs are paid. *)

ChosenAt(step) == {i \in DOMAIN flow.chosen : flow.chosen[i].at = step}
(* already_chosen_as_cost() *)
Forgotten == {}                              \* mutant
AlreadyChosen == {flow.chosen[i].item : i \in DOMAIN flow.chosen}
ChooseItem(f, o, dest) ==
    [f EXCEPT !.chosen = Append(@, [item |-> o, dest |-> dest, at |-> f.step])]

(* Still to be chosen at a step that wants n items of a menu; a menu that runs dry ends it. *)
Picking(n, menu) == Cardinality(ChosenAt(flow.step)) < n /\ menu # {}
Pick(n, menu, dest, next) ==
    /\ Casting
    /\ IF Picking(n, menu)
       THEN \E o \in menu : flow' = ChooseItem(flow, o, dest)
       ELSE Goto(next)
    /\ Only

InHand(of) == {o \in of : game.zone[o] = "hand"}
PitchMenu == InHand(flow.way.pitch.of) \ (AlreadyChosen \union {flow.way.card})
ReturnMenu == Controlled(flow.way.return.of) \ AlreadyChosen
AltSacMenu == Controlled(flow.way.alt_sac.of) \ AlreadyChosen
ExileMenu == Yard(game) \ (AlreadyChosen \union {flow.way.card})

(* The three picks of an alternative cost; the first two ask even with nothing to choose. *)
AltPitch ==
    /\ At("ALT_PITCH")
    /\ Picking(flow.way.pitch.n, {"any"}) => PitchMenu # {}
    /\ Pick(flow.way.pitch.n, PitchMenu, "exile", "ALT_RETURN")
AltReturn ==
    /\ At("ALT_RETURN")
    /\ Picking(flow.way.return.n, {"any"}) => ReturnMenu # {}
    /\ Pick(flow.way.return.n, ReturnMenu, "hand", "ALT_SAC")
AltSac == At("ALT_SAC") /\ Pick(flow.way.alt_sac.n, AltSacMenu, "yard", "SPELL_SAC")

(* The additional sacrifice of the spell itself, of every cast of it. *)
SpellSac == At("SPELL_SAC") /\ Pick(1, Controlled(flow.way.sac), "yard", "DELVE_COUNT")

(* Delve: how many, then which; each pays one of the cost. *)
DelveMax == Min({DelveEligible(game), flow.cost})
DelveMin == Min({n \in 0..DelveMax :
                    n = DelveMax \/ CanPay(game, flow.cost - n, "none", Reserved(flow), flow.way.improvise)})
Delving == flow.way.delve /\ DelveMax > 0
DelveCount ==
    /\ Casting /\ At("DELVE_COUNT")
    /\ IF ~Delving THEN Goto("DEF_SAC")
       ELSE \E n \in DelveMin..DelveMax : flow' = [flow EXCEPT !.step = "DELVE_PICK", !.delving = n]
    /\ Only
DelveMenu == Yard(game) \ AlreadyChosen
DelvePick ==
    /\ Casting /\ At("DELVE_PICK")
    /\ IF Picking(flow.delving, DelveMenu)
       THEN \E o \in DelveMenu : flow' = [ChooseItem(flow, o, "exile") EXCEPT !.cost = @ - 1]
       ELSE Goto("DEF_SAC")
    /\ Only

DefSac == At("DEF_SAC") /\ Pick(1, Controlled(flow.way.flash_sac), "yard", "DEF_EXILE_TYPES")

ExiledTypes == UNION {TypesOf[flow.chosen[i].item] : i \in ChosenAt("DEF_EXILE_TYPES")}
DefExileTypes ==
    /\ At("DEF_EXILE_TYPES")
    /\ IF Cardinality(ExiledTypes) < flow.way.types
       THEN Pick(Cardinality(Objects), ExileMenu, "exile", "DEF_EXILE_COUNT")
       ELSE Goto("DEF_EXILE_COUNT") /\ Only
DefExileCount == At("DEF_EXILE_COUNT") /\ Pick(flow.way.exile, ExileMenu, "exile", "MANA_PAY")

-----------------------------------------------------------------------------
(* The payment.                                                             *)

FloatAll(g, owed) ==
    FoldLeft(LAMBDA h, c : Floated(h, owed, c.item, Reserved(flow)), g, flow.chosen)

(* The payment begins: game h with the snapshot taken, what leaves for a cost tapped first. *)
BeginPayment(h, owed) ==
    /\ game' = FloatAll(h, owed)
    /\ flow' = [flow EXCEPT !.step = "PAYING", !.cost = owed, !.snap = <<Snapshot(game)>>]
    /\ UNCHANGED <<mode, fails, before, proposals>>
ManaPay == Casting /\ At("MANA_PAY") /\ BeginPayment(game, flow.cost)

(* prompt_mana_payment(): out of the pool, by the automatic payer, or source by source; a payment
   the player gives up or the payer cannot make fails. *)
Paying == At("PAYING")
Short == game.pool < flow.cost
Improvises == Casting /\ flow.way.improvise
Usable == Payable(game, "none", Reserved(flow), Improvises)
Plan == Strategy(game, flow.cost, Usable, Reserved(flow))
Pays == Wins(game, flow.cost, Plan, Reserved(flow))
FromPool ==
    /\ Paying /\ ~Short
    /\ game' = [game EXCEPT !.pool = @ - flow.cost]
    /\ Goto("PAY_APPLY")
    /\ UNCHANGED <<mode, fails, before, proposals>>
AutoPay ==
    /\ Paying /\ Short /\ mode.auto /\ Pays
    /\ LET paid == Attempt(game, flow.cost, Plan, Reserved(flow), TRUE)
       IN  IF paid.pool >= flow.cost
           THEN /\ game' = [paid EXCEPT !.pool = @ - flow.cost]
                /\ Goto("PAY_APPLY")
                /\ UNCHANGED <<mode, fails, before, proposals>>
           ELSE FailPayment(paid)
AutoFails == Paying /\ Short /\ mode.auto /\ ~Pays /\ FailPayment(game)
TapSource ==
    /\ Paying /\ Short /\ ~mode.auto
    /\ \E m \in Usable : game' = Activated(game, m)
    /\ UNCHANGED <<mode, fails, flow, before, proposals>>
CancelPayment == Paying /\ Short /\ ~mode.auto /\ FailPayment(game)

CostLife == IF Casting THEN flow.way.life + flow.life_x ELSE flow.way.life
CanApply == LifePayable(game, CostLife) /\ game.energy >= flow.way.energy

(* add_to_zone() of every chosen item *)
Moved(g) ==
    FoldLeft(LAMBDA h, c : [h EXCEPT !.zone[c.item] = c.dest], g, flow.chosen)
CostsPaid(g) == [PayLife(g, CostLife) EXCEPT !.energy = @ - flow.way.energy]
Delved == FoldLeft(LAMBDA d, c : IF c.at = "DELVE_PICK" THEN Append(d, c.item) ELSE d, <<>>, flow.chosen)
Apply(g) == game' = g /\ Goto("FINISH") /\ UNCHANGED <<mode, fails, before, proposals>>
PayApply ==
    /\ Casting /\ At("PAY_APPLY")
    /\ IF CanApply
       THEN Apply([Moved(CostsPaid(game)) EXCEPT
                !.delved = IF flow.way.delve THEN Delved ELSE @])
       ELSE FailPayment(game)

(* FINISH: the spell becomes cast, and a copy is due for each replicate payment. *)
Finish ==
    /\ Casting /\ At("FINISH")
    /\ game' = [game EXCEPT !.casts = @ + 1]
    /\ flow' = [flow EXCEPT !.step = "COPY_TARGETS", !.copying = flow.replicated]
    /\ UNCHANGED <<mode, fails, before, proposals>>

(* run_copy_spell(): the copy is created, asks for its target, and only then is on the stack. *)
MakeCopy ==
    /\ At("COPY_TARGETS") /\ flow.copying > 0 /\ game.copies.made = 0
    /\ game' = [game EXCEPT !.copies.made = 1]
    /\ UNCHANGED <<mode, fails, flow, before, proposals>>
PlaceCopy ==
    /\ At("COPY_TARGETS") /\ flow.copying > 0 /\ game.copies.made = 1
    /\ game' = [game EXCEPT !.copies = [placed |-> @.placed + 1, made |-> 0]]
    /\ flow' = [flow EXCEPT !.copying = @ - 1]
    /\ UNCHANGED <<mode, fails, before, proposals>>

(* take_action() forgets the failed payments, unless the cast is part of a resolution. *)
CastDone ==
    /\ At("COPY_TARGETS") /\ flow.copying = 0
    /\ fails' = IF flow.way.resolving THEN fails ELSE [o \in Objects |-> 0]
    /\ flow' = Idle
    /\ UNCHANGED <<mode, game, before, proposals>>

-----------------------------------------------------------------------------
(* The steps of run_activation_flow().                                      *)

ActivationX ==
    /\ Activating /\ At("X_LADDER")
    /\ IF flow.way.x = 0 THEN Goto("TARGET")
       ELSE \E x \in PayableX(flow.way.mana, flow.way.x, LAMBDA owed :
                        CanPay(game, owed, Excluded(flow.way), Reserved(flow), FALSE)) :
            flow' = [flow EXCEPT !.step = "TARGET", !.x = x]
    /\ Only
ActivationTarget ==
    /\ Activating /\ (At("TARGET") \/ At("ZONE_TARGET"))
    /\ Goto("COST_SAC") /\ Only

(* The one permanent of each kind of cost; none, if nothing matches. *)
PickOne(menu, dest, next) ==
    /\ Activating
    /\ IF menu = {} THEN Goto(next)
       ELSE \E o \in menu : flow' = [ChooseItem(flow, o, dest) EXCEPT !.step = next]
    /\ Only
ActivationSac == At("COST_SAC") /\ PickOne(Controlled(flow.way.sac), "yard", "COST_RETURN")
ActivationReturn == At("COST_RETURN") /\ PickOne(Controlled(flow.way.return), "hand", "PAY")

Tapped(g) == IF flow.way.tap THEN [g EXCEPT !.tapped = @ \union {flow.way.source}] ELSE g
ActivationOwed == flow.way.mana + flow.x * flow.way.x
ActivationPay ==
    /\ Activating /\ At("PAY")
    /\ BeginPayment(Tapped(game), ActivationOwed)

Discarded(g) ==
    [g EXCEPT !.zone = [o \in Objects |->
        IF \/ flow.way.sac_self /\ o = flow.way.source
           \/ flow.way.discard_self /\ o = flow.way.source
           \/ flow.way.discard_hand /\ g.zone[o] = "hand"
        THEN "yard" ELSE @[o]]]
ActivationApply ==
    /\ Activating /\ At("PAY_APPLY")
    /\ IF CanApply THEN Apply(Discarded(Moved(CostsPaid(game)))) ELSE FailPayment(game)

(* FINISH: a mana ability makes its mana and nobody's priority passes; any other is on the stack,
   and a card activated outside the battlefield is used up. *)
ActivationFinish ==
    /\ Activating /\ At("FINISH")
    /\ game' = IF flow.way.makes > 0 THEN [game EXCEPT !.pool = @ + flow.way.makes]
               ELSE IF flow.way.from # "field" THEN [game EXCEPT !.zone[flow.way.source] = "yard"]
               ELSE game
    /\ fails' = IF flow.way.makes > 0 THEN fails ELSE [o \in Objects |-> 0]
    /\ flow' = Idle
    /\ UNCHANGED <<mode, before, proposals>>

-----------------------------------------------------------------------------
(* The row arm_flow_query() adds to the question a step asks.               *)

Asks ==
    CASE At("KICKER") -> KickerOffered /\ CanPayFor(flow.way, WithKicker, Reserved(flow))
      [] At("REPLICATE") -> ReplicateOffered
      [] At("CHOOSE_X") \/ At("X_LADDER") -> flow.way.x > 0
      [] At("PHYREXIAN_PIP") -> flow.pip < flow.way.pips
      [] At("LIFE_X") -> flow.way.life_x
      [] At("GIFT") -> flow.way.gift
      [] At("MODES_TARGETS") \/ At("TARGET") \/ At("ZONE_TARGET") -> flow.way.target
      [] At("ALT_PITCH") -> Picking(flow.way.pitch.n, PitchMenu)
      [] At("ALT_RETURN") -> Picking(flow.way.return.n, ReturnMenu)
      [] At("ALT_SAC") -> Picking(flow.way.alt_sac.n, AltSacMenu)
      [] At("SPELL_SAC") -> Picking(1, Controlled(flow.way.sac))
      [] At("DELVE_COUNT") -> Delving /\ DelveMax > DelveMin
      [] At("DELVE_PICK") -> /\ Picking(flow.delving, DelveMenu)
                             /\ Cardinality(DelveMenu) > flow.delving - Cardinality(ChosenAt("DELVE_PICK"))
      [] At("DEF_SAC") -> Picking(1, Controlled(flow.way.flash_sac))
      [] At("DEF_EXILE_TYPES") -> Cardinality(ExiledTypes) < flow.way.types /\ ExileMenu # {}
      [] At("DEF_EXILE_COUNT") -> Picking(flow.way.exile, ExileMenu)
      [] At("COST_SAC") -> Controlled(flow.way.sac) # {}
      [] At("COST_RETURN") -> Controlled(flow.way.return) # {}
      [] At("COPY_TARGETS") -> flow.way.target /\ game.copies.made = 1
      [] OTHER -> FALSE

(* resume_cast_flow() and resume_activation_flow() with the Cancel row chosen *)
CancelProposal ==
    /\ mode.cancel /\ Asks
    /\ Rewind(game)
    /\ UNCHANGED <<mode, fails, before, proposals>>

-----------------------------------------------------------------------------

CastStep ==
    \/ CostStep \/ Kicker \/ Replicate \/ ChooseX \/ PipLife \/ PipMana \/ PipsDone \/ LifeX
    \/ Gift \/ Targets \/ AltPitch \/ AltReturn \/ AltSac \/ SpellSac \/ DelveCount \/ DelvePick
    \/ DefSac \/ DefExileTypes \/ DefExileCount \/ ManaPay \/ PayApply \/ Finish \/ MakeCopy
    \/ PlaceCopy \/ CastDone
ActivationStep ==
    \/ ActivationX \/ ActivationTarget \/ ActivationSac \/ ActivationReturn \/ ActivationPay
    \/ ActivationApply \/ ActivationFinish
PaymentStep == FromPool \/ AutoPay \/ AutoFails \/ TapSource \/ CancelPayment
Step == CastStep \/ ActivationStep \/ PaymentStep \/ CancelProposal

Next ==
    \/ \E c \in Casts : ProposeCast(c)
    \/ \E a \in Abilities : ProposeActivation(a)
    \/ Step

Spec == Init /\ [][Next]_vars
(* A step that asks waits for its answer and no longer: the agents always give one. *)
FairSpec == Spec /\ WF_vars(Step)

-----------------------------------------------------------------------------
(* Properties.                                                              *)

(* The end of a proposal that was neither cast nor activated. *)
Reverses ==
    /\ flow # Idle /\ flow' = Idle
    /\ ~At("FINISH") /\ ~(At("COPY_TARGETS") /\ flow.copying = 0)
(* A source sacrificed for mana in a payment that then fails stays sacrificed; the automatic payer
   sacrifices it in the very step that fails. *)
SacrificedIn(g) ==
    {m.on : m \in {n \in ManaAbilities : n.sac /\ OnField(before, n.on) /\ ~OnField(g, n.on)}}
SpentSources ==
    IF At("PAYING") \/ At("PAY_APPLY") THEN SacrificedIn(IF mode.auto THEN game' ELSE game) ELSE {}
LeavesNoTrace ==
    game' = [before EXCEPT !.zone = [o \in Objects |-> IF o \in SpentSources THEN "yard" ELSE @[o]]]

(* A proposal cancelled at any question before its costs are paid, or whose payment fails, leaves
   the game exactly as it was: the card and every cost item in place, mana, taps, life and life
   lost, energy, stack and spells cast (rewind_cast, rewind_activation, restore_mana_state). *)
ReversedLeavesNoTrace == [][Reverses /\ ~At("COPY_TARGETS") => LeavesNoTrace]_vars

(* "Cancel" reverses the proposal, whichever question it answers (the --offer-cancel row of
   arm_flow_query). *)
CancelReversesTheProposal == [][Reverses => LeavesNoTrace]_vars

One(b) == IF b THEN 1 ELSE 0
(* What was tapped for mana since the proposal, and what it was tapped for: one ability each. *)
Engaged ==
    game.tapped \ (before.tapped \union (IF Activating /\ flow.way.tap THEN {flow.way.source} ELSE {}))
Means == ManaAbilities \union (IF Improvises THEN {Improvised(a) : a \in Artifacts} ELSE {})
Accounts ==
    {U \in SUBSET {m \in Means : m.on \in Engaged} :
        {m.on : m \in U} = Engaged /\ \A m, n \in U : m.on = n.on => m = n}
LossOf(U) == MapThenSumSet(Loss, U)
SacrificedFor(U) == {m.on : m \in {n \in U : n.sac}}

(* The items chosen at a step match, and went from one zone to another. *)
Went(step, of, from, to) ==
    \A i \in ChosenAt(step) : LET o == flow.chosen[i].item
                             IN  o \in of /\ before.zone[o] = from /\ game.zone[o] = to
Count(step) == Cardinality(ChosenAt(step))
Took(step, n, of, from, to) == Count(step) = n /\ Went(step, of, from, to)
ChosenOnce == \A i, j \in DOMAIN flow.chosen : flow.chosen[i].item = flow.chosen[j].item => i = j
(* Of the others only what the way itself moves did, and the sources sacrificed for mana. *)
OthersStay(U, moved, to) ==
    \A o \in Objects : (\A i \in DOMAIN flow.chosen : flow.chosen[i].item # o) =>
        game.zone[o] = CASE o \in moved -> to
                         [] o \in SacrificedFor(U) \ moved -> "yard"
                         [] OTHER -> before.zone[o]

OwnPips(w) == IF w.kind \in {"regular", "permitted"} THEN w.pips ELSE 0
CastPaid(w, U) ==
    /\ before.pool + YieldOf(U) - game.pool =
            w.generic + flow.kicked + flow.replicated * w.replicate + flow.x * w.x
                + OwnPips(w) - flow.life_paid \div 2 - Count("DELVE_PICK")
    /\ before.life - game.life = w.life + flow.life_x + flow.life_paid + LossOf(U)
    /\ Took("ALT_PITCH", w.pitch.n, w.pitch.of, "hand", "exile")
    /\ Took("ALT_RETURN", w.return.n, w.return.of, "field", "hand")
    /\ Took("ALT_SAC", w.alt_sac.n, w.alt_sac.of, "field", "yard")
    /\ Went("SPELL_SAC", w.sac, "field", "yard") /\ Count("SPELL_SAC") <= 1
    /\ w.kind = "regular" /\ w.sac # {} => Count("SPELL_SAC") = 1
    /\ Took("DELVE_PICK", flow.delving, Objects, "yard", "exile")
    /\ Took("DEF_SAC", One(w.flash_sac # {}), w.flash_sac, "field", "yard")
    /\ Went("DEF_EXILE_TYPES", Objects, "yard", "exile") /\ Cardinality(ExiledTypes) >= w.types
    /\ w.types = 0 => Count("DEF_EXILE_TYPES") = 0
    /\ Took("DEF_EXILE_COUNT", w.exile, Objects, "yard", "exile")
    /\ OthersStay(U, {w.card}, "stack")

Spent(w) ==
    {o \in Objects : \/ (w.sac_self \/ w.discard_self) /\ o = w.source
                     \/ w.discard_hand /\ before.zone[o] = "hand"}
ActivationPaid(w, U) ==
    /\ before.pool + YieldOf(U) - game.pool = w.mana + flow.x * w.x
    /\ before.life - game.life = w.life + LossOf(U)
    /\ Took("COST_SAC", One(w.sac # {}), w.sac, "field", "yard")
    /\ Took("COST_RETURN", One(w.return # {}), w.return, "field", "hand")
    /\ OthersStay(U, Spent(w), "yard")

(* When a spell becomes cast or an ability activated, the player has paid exactly what its choices
   came to: the mana that was made is the mana spent, one ability of each permanent tapped for it,
   each cost item left once, from and to its place, no other card moved, and life and energy went
   down by their costs and by what the painful sources took. *)
PaidInFull ==
    At("FINISH") => /\ ChosenOnce
                    /\ before.energy - game.energy = flow.way.energy
                    /\ \E U \in Accounts :
                          IF Casting THEN CastPaid(flow.way, U) ELSE ActivationPaid(flow.way, U)

(* "Nothing here can fail - the choices were made against the live board and only this step moves
   anything": the items chosen for a cost are where they were when the costs are paid (PAY_APPLY). *)
ItemsStayUntilPaid ==
    At("PAY_APPLY") =>
        \A i \in DOMAIN flow.chosen : LET o == flow.chosen[i].item IN game.zone[o] = before.zone[o]

(* Why an automatic payment can fail although the gate offered it: the life paid for a Phyrexian pip
   is life that the sources of the rest cost; two sources hurt and the simulation left the damage
   out, for the payment or for the gate before a cost item was tapped; or a permanent chosen for the
   cost was tapped for the lesser of its two abilities. *)
SpentOnPips ==
    /\ Casting /\ flow.life_paid > 0
    /\ CanPay([game EXCEPT !.life = @ + flow.life_paid], flow.cost, "none", Reserved(flow), Improvises)
Since(o) == o \in game.tapped \ before.tapped
DamageUnseen ==
    \E m, n \in ManaAbilities :
        /\ m # n /\ m.hurt > 0 /\ Loss(n) > 0
        /\ \A o \in {m.on, n.on} : OnField(before, o) /\ o \notin before.tapped
        /\ Pays \/ Since(m.on) \/ Since(n.on)
TappedForLess ==
    \E i \in DOMAIN flow.chosen : LET o == flow.chosen[i].item
                                  IN  /\ Since(o)
                                      /\ \E m, n \in ManaAbilities : m.on = o /\ n.on = o /\ m # n
(* What the gates offer, the automatic payer pays, whatever is chosen on the way and although the
   choices spend life and remove sources the gate counted, and the costs are then applied; there are
   three exceptions and no more.  (No card with a Phyrexian pip has an X or an optional cost.) *)
MachinePaymentsSucceed ==
    [][mode.auto /\ (Paying \/ At("PAY_APPLY")) /\ flow' = Idle =>
        Paying /\ (SpentOnPips \/ DamageUnseen \/ TappedForLess)]_vars

(* "So a spell can never be offered as legal and then fail to pay": none is rewound for the automatic
   payer's failure, but for one with several Phyrexian pips, the exception that is documented. *)
OfferedSpellsArePaid ==
    mode.auto => \A o \in Objects : fails[o] > 0 => \E c \in Casts : c.card = o /\ c.pips > 1

(* "As an additional cost, sacrifice ...": no spell is cast without it. *)
AdditionalCostsPaid ==
    At("FINISH") /\ Casting /\ flow.way.sac # {} => ChosenAt("SPELL_SAC") # {}

(* Every proposal comes to an end: no question is asked with nothing to choose from, and no
   payment goes on for ever. *)
EveryProposalEnds == flow # Idle ~> flow = Idle
=============================================================================
