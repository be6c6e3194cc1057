------------------------------ MODULE GameLoop ------------------------------
(***************************************************************************)
(* The decision loop of one game: play_single_game (game_driver.cpp), the  *)
(* step machine it drives (Game::advance_step, classes/game.cpp), the      *)
(* turn-based actions and state-based effects it runs                      *)
(* (systems/state_manager*.cpp) and every flow that can suspend itself in  *)
(* the middle and park a question (PendingQuery) for the top of the loop.  *)
(*                                                                         *)
(* The program is one thread, but no call in it blocks for a decision in   *)
(* the middle of a rules procedure: the procedure stores where it is, parks *)
(* the question and returns to the loop top, which reads the answer and    *)
(* sends it back.  What the cards do is data: a resolution, a payment or a *)
(* step change may leave any of the Happenings behind it.                  *)
(***************************************************************************)
EXTENDS Naturals, Sequences

CONSTANTS
    Happenings,      \* what cards may cause in this instance
    FirstSeats,      \* the seats that may go first
    ActingSteps,     \* bound: the steps in which cards do anything and players act
    MaxStack,        \* bound: objects on the stack and triggers still to be put there
    MaxOwed,         \* bound: extra turns owed at a time
    MaxTurn,         \* bound: from this turn on the libraries are empty
    MaxExcess,       \* bound: cards in hand above the maximum hand size
    MaxDue           \* bound: legend conflicts and checks in a row with something else to do

Players == {"A", "B"}
Opponent(p) == IF p = "A" THEN "B" ELSE "A"
Seat == Players \cup {"none"}

HappeningKinds ==
    {"etb", "legend", "sba", "lose", "win", "excess", "miracle", "trigger",
     "mana_trigger", "extra_turn", "dredge", "preset", "concede"}

ASSUME HappeningsAssumption == Happenings \subseteq HappeningKinds
ASSUME FirstSeatsAssumption == FirstSeats \subseteq Players
ASSUME MaxStackAssumption == MaxStack \in Nat
ASSUME MaxOwedAssumption == MaxOwed \in Nat
ASSUME MaxTurnAssumption == MaxTurn \in Nat
ASSUME MaxExcessAssumption == MaxExcess \in Nat
ASSUME MaxDueAssumption == MaxDue \in Nat

VARIABLES
    pc,          \* where play_single_game stands
    site,        \* which call of state_based_effects is running
    ended,       \* Game::ended
    unwind,      \* g_concede_unwinding
    stage,       \* pregame.stage, with oh_any_ran and the two points where it waits for an SBE pass
    first,       \* pregame.a_goes_first, as the seat
    query,       \* pending.query
    turn_state,  \* Game::turn_state
    extra_turns, \* turn_state.extra_turns
    priority,    \* Game::priority
    combat,      \* Game::combat
    choice,      \* pending.choice
    stack,       \* the objects on the stack, bottom first
    resolution,  \* Game::resolution, the suspended resolution
    flow,        \* pending.cast and pending.activation
    draw,        \* pending.draw.active
    damage,      \* pending.damage.active
    placement,   \* pending.trigger_placement
    waiting,     \* waiting_triggers and the events not yet scanned for them, per controller
    miracle,     \* pending.miracle_reveal, as the owner of the card
    world        \* what the next state-based check or cleanup will find

pregame == <<stage, first>>
cards == <<world, waiting, miracle, extra_turns, ended>>
turn == <<turn_state, combat, choice>>
flows == <<resolution, flow, draw, damage, placement>>
vars == <<pc, site, ended, unwind, stage, first, query, turn_state, extra_turns,
          priority, combat, choice, stack, resolution, flow, draw, damage,
          placement, waiting, miracle, world>>

Steps == {"UNTAP", "UPKEEP", "DRAW", "FIRST_MAIN", "BEGIN_COMBAT", "DECLARE_ATTACKERS",
          "DECLARE_BLOCKERS", "FIRST_STRIKE_DAMAGE", "COMBAT_DAMAGE", "END_OF_COMBAT",
          "SECOND_MAIN", "END_STEP", "CLEANUP"}
ASSUME ActingStepsAssumption == ActingSteps \subseteq Steps

Tags == {"NONE", "RESOLUTION", "SBE_LATCHED", "TURN_DRAW", "CAST", "ACTIVATION",
         "ATTACK_TARGET", "BLOCK_TARGET", "DAMAGE_ASSIGN", "TRIGGER_PLACE"}
Choices == {"NONE", "DECLARE_ATTACKERS", "DECLARE_BLOCKERS", "ASSIGN_COMBAT_DAMAGE",
            "CLEANUP_DISCARD"}
Stages == {"MULLIGANS", "FIAT_SETUP", "FIAT_SBE", "OPENING_ACTIONS", "OPENING_RAN", "OPENING_SBE",
           "DONE"}
Locations == {"top", "gate", "mandatory", "sbe", "placing", "returned", "advance", "resolving", "flow",
              "post_mandatory", "input", "leaving", "exited"}
Sites == {"none", "fiat", "opening", "pre", "post"}

(***************************************************************************)
(* The parked question: at most one in the whole game.  prev is the seat   *)
(* that held priority when it was armed, key what the question is about    *)
(* (the SBE site and its chooser).                                         *)
(***************************************************************************)
NoQuery == [tag |-> "NONE", answered |-> FALSE, chooser |-> "A", prev |-> "A", key |-> "none"]
NoFrame == [active |-> FALSE, at |-> 0, prev |-> "A", offered |-> "none", casting |-> FALSE,
            cast_prev |-> "A"]
NoFlow == [kind |-> "none", actor |-> "A", paid |-> FALSE, caller |-> "loop"]
NoTriggers == [p \in Players |-> 0]
NoPlacement == [active |-> FALSE, queue |-> NoTriggers, saved |-> "A", announcing |-> FALSE,
                placed |-> FALSE, resumed |-> FALSE]

Suspended == query.tag # "NONE"                     \* decision_suspended()
Parked(tag, p, key) ==
    [tag |-> tag, answered |-> FALSE, chooser |-> p, prev |-> priority.holder, key |-> key]
GivePriority(p) == [holder |-> p, passed |-> {}]
Seated(p) == [priority EXCEPT !.holder = p]
BothPassed == priority.passed = Players             \* ready_to_resolve()
Active == turn_state.active
Acting == turn_state.step \in ActingSteps

(* An object put on the stack: needs is who has not passed since it is there. *)
Object(p) == [ctrl |-> p, needs |-> Players]
Without(s, i) == [j \in 1..(Len(s) - 1) |-> IF j < i THEN s[j] ELSE s[j + 1]]
Count(triggers) == triggers["A"] + triggers["B"]
Load == Len(stack) + Count(waiting) + Count(placement.queue)
Caused(kinds) == IF Acting THEN kinds \cap Happenings ELSE {}
MoreTriggers(p) == [waiting EXCEPT ![p] = @ + 1]
MayTrigger ==
    {waiting} \cup (IF "trigger" \in Caused({"trigger"}) /\ Load < MaxStack
                   THEN {MoreTriggers(p) : p \in Players} ELSE {})

(* What the state-based checks to come will find: each player's legend conflicts (several
   legendary permanents of one name) and, in sba, how many checks in a row have anything else to
   do.  A death may leave an Aura without its object, or a creature without the bonus that kept
   it alive: all that applies goes together, what that leaves is found by the next check. *)
NoConflict == [p \in Players |-> 0]
Due == world.legend["A"] + world.legend["B"] + world.sba

(***************************************************************************)
(* What cards may leave behind at a point where they act: at most one of   *)
(* the kinds given.  Everything here is found later, by the state-based    *)
(* check, the trigger scan, the cleanup step or the mandatory-choice test. *)
(***************************************************************************)
CardsMay(kinds) ==
    \/ UNCHANGED cards
    \/ /\ Caused(kinds) \cap {"etb", "legend", "sba", "excess", "lose"} # {}
       /\ \E p \in Players :
            \/ /\ "etb" \in Caused(kinds) /\ world.etb = "none"
               /\ world' = [world EXCEPT !.etb = p]
            \/ /\ "legend" \in Caused(kinds) /\ Due < MaxDue
               /\ world' = [world EXCEPT !.legend[p] = @ + 1]
            \/ /\ "sba" \in Caused(kinds)
               /\ \E n \in 1..MaxDue - Due : world' = [world EXCEPT !.sba = @ + n]
            \/ /\ "excess" \in Caused(kinds)
               /\ world' = [world EXCEPT !.excess = MaxExcess]
            \/ /\ "lose" \in Caused(kinds)
               /\ world' = [world EXCEPT !.losers = @ \cup {p}]
       /\ UNCHANGED <<waiting, miracle, extra_turns, ended>>
    \/ /\ "trigger" \in Caused(kinds) /\ Load < MaxStack
       /\ \E p \in Players : waiting' = MoreTriggers(p)
       /\ UNCHANGED <<world, miracle, extra_turns, ended>>
    \/ /\ "miracle" \in Caused(kinds)
       /\ miracle' \in Players
       /\ UNCHANGED <<world, waiting, extra_turns, ended>>
    \/ /\ "extra_turn" \in Caused(kinds) /\ Len(extra_turns) < MaxOwed
       /\ \E p \in Players : extra_turns' = Append(extra_turns, p)
       /\ UNCHANGED <<world, waiting, miracle, ended>>
    \/ /\ "win" \in Caused(kinds)
       /\ ended' = TRUE
       /\ UNCHANGED <<world, waiting, miracle, extra_turns>>

Effects == {"etb", "legend", "sba", "lose", "win", "excess", "miracle", "trigger", "extra_turn"}
Costs == {"sba", "lose", "trigger"}

Init ==
    /\ pc = "top" /\ site = "none"
    /\ ended = FALSE /\ unwind = FALSE
    /\ stage = "MULLIGANS" /\ first \in FirstSeats
    /\ query = NoQuery
    /\ turn_state = [step |-> "UNTAP", turn |-> 0, active |-> "A", cleanup_effects_ended |-> FALSE,
                     cleanup_sba_performed |-> FALSE, cleanup_priority_round |-> FALSE]
    /\ extra_turns = <<>>
    /\ priority = GivePriority("A")
    /\ combat = [attackers_declared |-> FALSE, blockers_declared |-> FALSE,
                 damage_dealt |-> FALSE, attacking |-> FALSE, assigned |-> FALSE]
    /\ choice = "NONE"
    /\ stack = <<>> /\ resolution = NoFrame /\ flow = NoFlow
    /\ draw = FALSE /\ damage = FALSE /\ placement = NoPlacement
    /\ waiting = NoTriggers /\ miracle = "none"
    /\ world = [etb |-> "none", legend |-> NoConflict, sba |-> 0,
                losers |-> {}, excess |-> 0]

-----------------------------------------------------------------------------
(* The top of the loop.                                                     *)

LoopLive == ~ended \/ Suspended \/ resolution.active \/ stage # "DONE"
Conceded == ended /\ unwind
AtTop(tag) == pc = "top" /\ ~Conceded /\ query.tag = tag /\ query.answered

(* The loop condition fails. *)
LeaveLoop ==
    /\ pc = "top" /\ ~LoopLive
    /\ pc' = "leaving"
    /\ UNCHANGED <<site, cards, unwind, pregame, query, turn, priority, stack, flows>>

(* discard_conceded_game_suspensions *)
DiscardConceded ==
    /\ pc = "top" /\ LoopLive /\ Conceded
    /\ pc' = "leaving"
    /\ query' = NoQuery /\ resolution' = NoFrame /\ flow' = NoFlow
    /\ draw' = FALSE /\ damage' = FALSE /\ placement' = NoPlacement
    /\ choice' = "NONE" /\ miracle' = "none" /\ stage' = "DONE"
    /\ UNCHANGED <<site, ended, unwind, first, turn_state, combat, extra_turns, priority, stack,
                   waiting, world>>

(* The parked menu is emitted and its answer latched. *)
AnswerQuery ==
    /\ pc = "top" /\ ~Conceded /\ Suspended /\ ~query.answered
    /\ query' = [query EXCEPT !.answered = TRUE]
    /\ UNCHANGED <<pc, site, cards, unwind, pregame, turn, priority, stack, flows>>

(* Nothing is parked: fall into the pregame gate. *)
NothingParked ==
    /\ pc = "top" /\ LoopLive /\ ~Conceded /\ ~Suspended
    /\ pc' = "gate"
    /\ UNCHANGED <<site, cards, unwind, pregame, query, turn, priority, stack, flows>>

(* Where a decision is read, its player may concede instead (concede_current_game).  A read
   below the loop hands back choice 0 and the caller runs on to the loop top. *)
Reading ==
    \/ pc = "top" /\ Suspended /\ ~query.answered
    \/ pc \in {"input", "mandatory", "flow", "resolving"}
    \/ pc = "gate" /\ stage \in {"MULLIGANS", "OPENING_ACTIONS", "OPENING_RAN"}

Concede ==
    /\ "concede" \in Happenings
    /\ Reading /\ ~ended
    /\ ended' = TRUE /\ unwind' = TRUE
    /\ pc' = IF pc \in {"input", "gate"} THEN "top" ELSE pc
    /\ UNCHANGED <<site, world, waiting, miracle, extra_turns, pregame, query, turn, priority,
                   stack, flows>>

(* The dispatch of a latched answer, one action per tag. *)
ResumeCombatTarget ==
    /\ AtTop("ATTACK_TARGET") \/ AtTop("BLOCK_TARGET")
    /\ combat' = [combat EXCEPT !.attacking = @ \/ query.tag = "ATTACK_TARGET"]
    /\ query' = NoQuery
    /\ pc' = "gate"
    /\ UNCHANGED <<site, cards, unwind, pregame, turn_state, choice, priority, stack, flows>>

ResumeDamageAssignment ==
    /\ AtTop("DAMAGE_ASSIGN")
    /\ priority' = Seated(Active)
    /\ \/ /\ query' = [query EXCEPT !.answered = FALSE]     \* the next pick is parked
          /\ UNCHANGED <<pc, damage, choice>>
       \/ /\ query' = NoQuery /\ damage' = FALSE /\ choice' = "NONE"
          /\ pc' = "gate"
    /\ UNCHANGED <<site, cards, unwind, pregame, turn_state, combat, stack, resolution, flow, draw,
                   placement>>

ResumeFlow ==
    /\ AtTop("CAST") \/ AtTop("ACTIVATION")
    /\ query' = NoQuery
    /\ flow' = [flow EXCEPT !.caller = "dispatch"]
    /\ pc' = "flow"
    /\ UNCHANGED <<site, cards, unwind, pregame, turn, priority, stack, resolution, draw, damage,
                   placement>>

ResumePlacement ==
    /\ AtTop("TRIGGER_PLACE")
    /\ placement' = [placement EXCEPT !.resumed = TRUE]
    /\ pc' = "placing"
    /\ UNCHANGED <<site, cards, unwind, pregame, query, turn, priority, stack, resolution, flow,
                   draw, damage>>

(* The draw or dredge, then the step-change epilogue advance_step left undone. *)
ResumeTurnDraw ==
    /\ AtTop("TURN_DRAW")
    /\ query' = NoQuery /\ draw' = FALSE
    /\ CardsMay({"trigger", "excess", "miracle", "lose", "win"})
    /\ priority' = GivePriority(Active)               \* finish_suspended_turn_draw
    /\ pc' = "gate"
    /\ UNCHANGED <<site, unwind, pregame, turn, stack, resolution, flow, damage, placement>>

(* The answer stays latched for the state-based check that asked. *)
KeepLatched ==
    /\ AtTop("SBE_LATCHED")
    /\ pc' = "gate"
    /\ UNCHANGED <<site, cards, unwind, pregame, query, turn, priority, stack, flows>>

ReenterResolution ==
    /\ AtTop("RESOLUTION")
    /\ pc' = "advance"
    /\ UNCHANGED <<site, cards, unwind, pregame, query, turn, priority, stack, flows>>

-----------------------------------------------------------------------------
(* The pregame gate (run_pregame_step): one step per loop iteration.        *)

(* One keep, mulligan or bottoming decision, or the end of the mulligans. *)
Mulligans ==
    /\ pc = "gate" /\ stage = "MULLIGANS"
    /\ \/ \E p \in Players : priority' = Seated(p) /\ UNCHANGED stage
       \/ stage' = "FIAT_SETUP" /\ UNCHANGED priority
    /\ pc' = "top"
    /\ UNCHANGED <<site, cards, unwind, first, query, turn, stack, flows>>

(* Permanents placed before the game get their state-based pass. *)
FiatSetup ==
    /\ pc = "gate" /\ stage = "FIAT_SETUP"
    /\ \/ /\ stage' = "OPENING_ACTIONS" /\ pc' = "top"
          /\ UNCHANGED <<cards, site>>
       \/ /\ "preset" \in Happenings
          /\ stage' = "FIAT_SBE" /\ pc' = "sbe" /\ site' = "fiat"
          /\ CardsMay({"etb", "legend", "sba", "trigger", "lose"})
    /\ UNCHANGED <<unwind, first, query, turn, priority, stack, flows>>

(* An opening-hand offer is taken up, or the offers end: a state-based pass if any was. *)
SeatFirstTurn ==
    /\ turn_state' = [turn_state EXCEPT !.active = first]
    /\ priority' = Seated(first)

OpeningActions ==
    /\ pc = "gate" /\ stage \in {"OPENING_ACTIONS", "OPENING_RAN"}
    /\ \/ /\ "preset" \in Happenings
          /\ CardsMay({"etb", "trigger"})
          /\ stage' = "OPENING_RAN" /\ pc' = "top"
          /\ UNCHANGED <<site, turn_state, priority>>
       \/ /\ stage = "OPENING_RAN"
          /\ stage' = "OPENING_SBE" /\ pc' = "sbe" /\ site' = "opening"
          /\ UNCHANGED <<cards, turn_state, priority>>
       \/ /\ stage = "OPENING_ACTIONS"
          /\ stage' = "DONE" /\ pc' = "top"
          /\ SeatFirstTurn
          /\ UNCHANGED <<cards, site>>
    /\ UNCHANGED <<unwind, first, query, combat, choice, stack, flows>>

(* The state-based pass of a stage that is waiting for it, run again after each suspension. *)
PregameCheck ==
    /\ pc = "gate" /\ stage \in {"FIAT_SBE", "OPENING_SBE"}
    /\ pc' = "sbe" /\ site' = IF stage = "FIAT_SBE" THEN "fiat" ELSE "opening"
    /\ UNCHANGED <<cards, unwind, pregame, query, turn, priority, stack, flows>>

-----------------------------------------------------------------------------
(* Turn-based actions (process_turn_based_actions).                         *)

AtGate == pc = "gate" /\ stage = "DONE"

GameOver ==
    /\ AtGate /\ ended
    /\ pc' = "leaving"
    /\ UNCHANGED <<site, cards, unwind, pregame, query, turn, priority, stack, flows>>

DamageStep == turn_state.step \in {"FIRST_STRIKE_DAMAGE", "COMBAT_DAMAGE"} /\ ~combat.damage_dealt
MayNeedDivision == DamageStep /\ combat.attacking /\ ~combat.assigned

(* The choice the step cannot go on without, "NONE" if there is none. *)
DueChoice ==
    IF turn_state.step = "DECLARE_ATTACKERS" /\ ~combat.attackers_declared
    THEN "DECLARE_ATTACKERS"
    ELSE IF turn_state.step = "DECLARE_BLOCKERS" /\ ~combat.blockers_declared
    THEN "DECLARE_BLOCKERS"
    ELSE IF turn_state.step = "CLEANUP" /\ world.excess > 0
    THEN "CLEANUP_DISCARD"
    ELSE "NONE"

CheckAfterOnly(mandatory, s) ==                 \* mutant: no check before the step changes
    /\ pc' = IF mandatory THEN "mandatory" ELSE IF s = "pre" THEN "returned" ELSE "sbe"
    /\ site' = IF mandatory THEN "none" ELSE s

(* is_mandatory_choice_pending is tested before each state-based check. *)
CheckUnless(mandatory, s) ==
    /\ pc' = IF mandatory THEN "mandatory" ELSE "sbe"
    /\ site' = IF mandatory THEN "none" ELSE s

NeedsDivision ==
    /\ AtGate /\ ~ended /\ MayNeedDivision
    /\ choice' = "ASSIGN_COMBAT_DAMAGE"
    /\ pc' = "mandatory"
    /\ UNCHANGED <<site, cards, unwind, pregame, query, turn_state, combat, priority, stack, flows>>

DealDamage ==
    /\ AtGate /\ ~ended /\ DamageStep
    /\ combat' = [combat EXCEPT !.damage_dealt = TRUE]
    /\ choice' = "NONE"
    /\ IF combat.attacking THEN CardsMay({"sba", "lose", "trigger"}) ELSE UNCHANGED cards
    /\ CheckUnless(miracle # "none", "pre")
    /\ UNCHANGED <<unwind, pregame, query, turn_state, priority, stack, flows>>

(* Nothing to deal: the cleanup actions of CR 514.2 once the hand is small enough, or a choice. *)
EndsEffects == turn_state.step = "CLEANUP" /\ DueChoice = "NONE" /\ ~turn_state.cleanup_effects_ended

TurnBasedActions ==
    /\ AtGate /\ ~ended /\ ~DamageStep
    /\ choice' = DueChoice
    /\ IF EndsEffects
       THEN /\ turn_state' = [turn_state EXCEPT !.cleanup_effects_ended = TRUE]
            /\ CardsMay({"sba"})
       ELSE UNCHANGED <<turn_state, cards>>
    /\ CheckUnless(DueChoice # "NONE" \/ miracle # "none", "pre")
    /\ UNCHANGED <<unwind, pregame, query, combat, priority, stack, flows>>

-----------------------------------------------------------------------------
(* Mandatory choices (proc_mandatory_choice); each ends at the loop top.    *)

AtChoice(c) == pc = "mandatory" /\ miracle = "none" /\ choice = c

(* The drawer declines, the card has left the hand, or it is revealed. *)
RevealMiracle ==
    /\ pc = "mandatory" /\ miracle # "none"
    /\ miracle' = "none"
    /\ \/ UNCHANGED stack
       \/ Load < MaxStack /\ stack' = Append(stack, Object(miracle))
    /\ pc' = "top"
    /\ UNCHANGED <<site, ended, unwind, pregame, query, turn, extra_turns, priority, flows, waiting,
                   world>>

(* The selection loop: an attacker with one target is committed in place, one with several
   parks the target question, confirming (or having no creature to offer) ends the choice. *)
DeclareAttackers ==
    /\ AtChoice("DECLARE_ATTACKERS")
    /\ \/ /\ combat' = [combat EXCEPT !.attackers_declared = TRUE]
          /\ choice' = "NONE"
          /\ IF combat.attacking THEN CardsMay({"trigger"}) ELSE UNCHANGED cards
          /\ pc' = "top" /\ UNCHANGED query
       \/ /\ ~combat.attacking
          /\ combat' = [combat EXCEPT !.attacking = TRUE]
          /\ UNCHANGED <<pc, choice, query, cards>>
       \/ /\ query' = Parked("ATTACK_TARGET", Active, "none")
          /\ pc' = "top"
          /\ UNCHANGED <<combat, choice, cards>>
    /\ UNCHANGED <<site, unwind, pregame, turn_state, priority, stack, flows>>

DeclareBlockers ==
    /\ AtChoice("DECLARE_BLOCKERS")
    /\ \/ /\ combat' = [combat EXCEPT !.blockers_declared = TRUE]      \* finish_blocker_declaration
          /\ choice' = "NONE"
          /\ priority' = Seated(Active)
          /\ UNCHANGED query
       \/ /\ combat.attacking
          /\ priority' = Seated(Opponent(Active))
          /\ query' = [Parked("BLOCK_TARGET", Opponent(Active), "none")
                         EXCEPT !.prev = Opponent(Active)]
          /\ UNCHANGED <<combat, choice>>
    /\ pc' = "top"
    /\ UNCHANGED <<site, cards, unwind, pregame, turn_state, stack, flows>>

AssignCombatDamage ==
    /\ AtChoice("ASSIGN_COMBAT_DAMAGE")
    /\ priority' = Seated(Active)
    /\ combat' = [combat EXCEPT !.assigned = TRUE]
    /\ \/ /\ choice' = "NONE"                       \* no blocker could be killed: nothing to ask
          /\ UNCHANGED <<query, damage>>
       \/ /\ damage' = TRUE
          /\ query' = [Parked("DAMAGE_ASSIGN", Active, "none") EXCEPT !.prev = Active]
          /\ UNCHANGED choice
    /\ pc' = "top"
    /\ UNCHANGED <<site, cards, unwind, pregame, turn_state, stack, resolution, flow, draw,
                   placement>>

CleanupDiscard ==
    /\ AtChoice("CLEANUP_DISCARD")
    /\ choice' = "NONE"
    /\ world' = [world EXCEPT !.excess = @ - 1]
    /\ waiting' \in MayTrigger
    /\ pc' = "top"
    /\ UNCHANGED <<site, ended, unwind, pregame, query, turn_state, combat, extra_turns, priority,
                   stack, flows, miracle>>

-----------------------------------------------------------------------------
(* State-based effects (StateManager::state_based_effects), one pass at a time. *)

InSbe == pc = "sbe" /\ ~ended
LegendOwner == IF world.legend[Active] > 0 THEN Active ELSE Opponent(Active)    \* APNAP
Settled == world.etb = "none" /\ world.losers = {} /\ world.legend = NoConflict /\ world.sba = 0
SbaMark(t) == IF t.step = "CLEANUP" THEN [t EXCEPT !.cleanup_sba_performed = TRUE] ELSE t

ArmSbeUnseated(p, key) ==                       \* mutant: priority is not moved to the chooser
    /\ ~Suspended
    /\ query' = Parked("SBE_LATCHED", p, key)
    /\ UNCHANGED priority
    /\ pc' = "top" /\ site' = "none"

(* pq_arm_sbe: the question is parked with priority at its chooser and the call returns. *)
ArmSbe(p, key) ==
    /\ ~Suspended
    /\ query' = Parked("SBE_LATCHED", p, key)
    /\ priority' = Seated(p)
    /\ pc' = "top" /\ site' = "none"

(* pq_take_latched: the re-run has found its question again and takes the answer. *)
TakeLatched(key) ==
    /\ Suspended /\ query.key = key
    /\ query' = NoQuery
    /\ priority' = Seated(query.prev)
    /\ UNCHANGED <<pc, site>>

SbeGameOver ==
    /\ pc = "sbe" /\ ended
    /\ pc' = "returned"
    /\ UNCHANGED <<site, cards, unwind, pregame, query, turn, priority, stack, flows>>

(* A permanent that needs a choice as it enters (apply_permanent_components).  The choice may
   cost its controller life, and the permanent may trigger. *)
AskEntering ==
    /\ InSbe /\ world.etb # "none"
    /\ ArmSbe(world.etb, "etb")
    /\ UNCHANGED <<cards, unwind, pregame, turn, stack, flows>>

CompleteEntering ==
    /\ InSbe /\ world.etb # "none"
    /\ TakeLatched("etb")
    /\ \E lost \in {{}} \cup (IF "lose" \in Happenings THEN {{world.etb}} ELSE {}) :
          world' = [world EXCEPT !.etb = "none", !.losers = @ \cup lost]
    /\ waiting' \in MayTrigger
    /\ UNCHANGED <<miracle, extra_turns, ended, unwind, pregame, turn, stack, flows>>

PlayersLose ==
    /\ InSbe /\ world.etb = "none" /\ world.losers # {}
    /\ ended' = TRUE
    /\ pc' = "returned"
    /\ UNCHANGED <<site, world, waiting, miracle, extra_turns, unwind, pregame, query, turn,
                   priority, stack, flows>>

(* The keep choice of one conflict, the active player's first, is made before any action of the
   check is performed. *)
AskLegend ==
    /\ InSbe /\ world.etb = "none" /\ world.losers = {} /\ world.legend # NoConflict
    /\ ArmSbe(LegendOwner, "legend")
    /\ UNCHANGED <<cards, unwind, pregame, turn, stack, flows>>

Fewer(n) == IF n > 0 THEN n - 1 ELSE 0
LegendOnly == [world EXCEPT !.legend[LegendOwner] = Fewer(@)]  \* mutant: nothing else is done
Performed == [world EXCEPT !.legend[LegendOwner] = Fewer(@), !.sba = Fewer(@)]

(* One conflict and all else that applies are carried out together, and the check starts over: it
   finds the next conflict, and what this one left.  What dies may trigger. *)
PerformSbas ==
    /\ InSbe /\ world.etb = "none" /\ world.losers = {}
    /\ \/ world.legend # NoConflict /\ TakeLatched("legend")
       \/ world.legend = NoConflict /\ world.sba > 0 /\ UNCHANGED <<pc, site, query, priority>>
    /\ \/ world' = Performed
       \/ world.legend # NoConflict /\ "sba" \in Happenings /\ world' = [Performed EXCEPT !.sba = @ + 1]
    /\ turn_state' = SbaMark(turn_state)
    /\ waiting' \in MayTrigger
    /\ UNCHANGED <<miracle, extra_turns, ended, unwind, pregame, combat, choice, stack, flows>>

(* Nothing applies any more: the triggers that wait are put on the stack (place_waiting_triggers,
   place_triggers_apnap). *)
Settle ==
    /\ InSbe /\ Settled
    /\ IF Count(waiting) = 0 \/ placement.active
       THEN pc' = "returned" /\ UNCHANGED <<placement, waiting>>
       ELSE /\ pc' = "placing"
            /\ placement' = [NoPlacement EXCEPT !.active = TRUE, !.queue = waiting,
                                                !.saved = priority.holder]
            /\ waiting' = NoTriggers
    /\ UNCHANGED <<site, world, miracle, extra_turns, ended, unwind, pregame, query, turn, priority,
                   stack, resolution, flow, draw, damage>>

(* Back in the caller with no question parked. *)
SbeReturned ==
    /\ pc = "returned"
    /\ site' = "none"
    /\ \/ /\ site \in {"pre", "post"}
          /\ pc' = IF ended THEN "leaving" ELSE IF site = "pre" THEN "advance" ELSE "input"
          /\ UNCHANGED <<stage, turn_state, priority>>
       \/ /\ site = "fiat"
          /\ stage' = "OPENING_ACTIONS" /\ pc' = "top"
          /\ UNCHANGED <<turn_state, priority>>
       \/ /\ site = "opening"
          /\ stage' = "DONE" /\ pc' = "top"
          /\ SeatFirstTurn
    /\ UNCHANGED <<cards, unwind, first, query, combat, choice, stack, flows>>

-----------------------------------------------------------------------------
(* Putting triggers on the stack (resume_trigger_placement): the active player's, then the
   other's, each in an order of its controller's choosing. *)

Front == IF placement.queue[Active] > 0 THEN Active ELSE Opponent(Active)
Placing == pc = "placing" /\ Count(placement.queue) > 0
NeedsOrder == placement.queue[Front] > 1 /\ ~placement.announcing
PlacedOne == [placement EXCEPT !.queue[Front] = @ - 1, !.announcing = FALSE]

(* The ordering pick, or a mode or target of the trigger picked. *)
AskPlacement ==
    /\ Placing /\ ~Suspended
    /\ query' = [Parked("TRIGGER_PLACE", Front, "none") EXCEPT !.prev = Front]
    /\ priority' = Seated(Front)
    /\ pc' = "top" /\ site' = "none"
    /\ UNCHANGED <<cards, unwind, pregame, turn, stack, flows>>

TakePlacementAnswer ==
    /\ Placing /\ Suspended
    /\ query' = NoQuery
    /\ priority' = Seated(Front)
    /\ placement' = [placement EXCEPT !.announcing = TRUE]
    /\ UNCHANGED <<pc, site, cards, unwind, pregame, turn, stack, resolution, flow, draw, damage>>

PutTriggerOnStack ==
    /\ Placing /\ ~Suspended /\ ~NeedsOrder
    /\ priority' = Seated(Front)
    /\ placement' = [PlacedOne EXCEPT !.placed = TRUE]
    /\ stack' = Append(stack, Object(Front))
    /\ UNCHANGED <<pc, site, cards, unwind, pregame, query, turn, resolution, flow, draw, damage>>

(* CR 603.3c/d: no legal mode or target. *)
RemoveTrigger ==
    /\ Placing /\ ~Suspended /\ ~NeedsOrder
    /\ priority' = Seated(Front)
    /\ placement' = PlacedOne
    /\ UNCHANGED <<pc, site, cards, unwind, pregame, query, turn, stack, resolution, flow, draw,
                   damage>>

SavedSeatForgotten == priority                  \* mutant: the seat stays with the last controller
SavedSeat == Seated(placement.saved)
CheckAgain == IF Count(waiting') > 0 THEN "sbe" ELSE "returned"

(* The placed abilities' targets may trigger in turn (Ward); the seat is restored.  Called from
   the state-based check, that check runs again for them; resumed, the loop goes on. *)
PlacementDone ==
    /\ pc = "placing" /\ Count(placement.queue) = 0
    /\ placement' = NoPlacement
    /\ priority' = SavedSeat
    /\ waiting' \in IF placement.placed THEN MayTrigger ELSE {waiting}
    /\ pc' = IF placement.resumed THEN "gate" ELSE CheckAgain
    /\ UNCHANGED <<site, world, miracle, extra_turns, ended, unwind, pregame, query, turn, stack,
                   resolution, flow, draw, damage>>

-----------------------------------------------------------------------------
(* Game::advance_step.                                                      *)

CleanupRoundStackOnly ==                        \* mutant: a state-based action gives no priority
    /\ turn_state.step = "CLEANUP" /\ ~turn_state.cleanup_priority_round
    /\ ~resolution.active
    /\ stack # <<>>

(* CR 514.3a: something happened in this cleanup step, so its players get priority. *)
CleanupRoundDue ==
    /\ turn_state.step = "CLEANUP" /\ ~turn_state.cleanup_priority_round
    /\ ~resolution.active
    /\ (turn_state.cleanup_sba_performed \/ stack # <<>>)

SomeoneHasPriority ==
    /\ pc = "advance" /\ ~BothPassed /\ turn_state.step # "UNTAP"
    /\ pc' = "post_mandatory"
    /\ UNCHANGED <<site, cards, unwind, pregame, query, turn, priority, stack, flows>>

OpenCleanupRound ==
    /\ pc = "advance" /\ BothPassed /\ CleanupRoundDue
    /\ turn_state' = [turn_state EXCEPT !.cleanup_priority_round = TRUE]
    /\ priority' = GivePriority(Active)
    /\ pc' = "post_mandatory"
    /\ UNCHANGED <<site, cards, unwind, pregame, query, combat, choice, stack, flows>>

Resolves ==
    /\ pc = "advance" /\ BothPassed /\ ~CleanupRoundDue
    /\ stack # <<>> /\ turn_state.step # "UNTAP"

(* A permanent spell enters the battlefield; no frame, nothing can suspend. *)
ResolvePermanent ==
    /\ Resolves /\ ~resolution.active
    /\ stack' = Without(stack, Len(stack))
    /\ CardsMay({"etb", "legend", "sba", "trigger"})
    /\ priority' = [priority EXCEPT !.passed = {}]
    /\ pc' = "post_mandatory"
    /\ UNCHANGED <<site, unwind, pregame, query, turn, flows>>

(* frame_enter: the top object begins to resolve under its controller's seat. *)
EnterFrame ==
    /\ Resolves /\ ~resolution.active
    /\ resolution' = [NoFrame EXCEPT !.active = TRUE, !.at = Len(stack), !.prev = priority.holder]
    /\ priority' = Seated(stack[Len(stack)].ctrl)
    /\ pc' = "resolving"
    /\ UNCHANGED <<site, cards, unwind, pregame, query, turn, stack, flow, draw, damage, placement>>

ResumeFrame ==
    /\ Resolves /\ resolution.active
    /\ pc' = "resolving"
    /\ UNCHANGED <<site, cards, unwind, pregame, query, turn, priority, stack, flows>>

(* The step ends.  What follows it, and what a change clears. *)
StepEnds ==
    /\ pc = "advance"
    /\ \/ turn_state.step = "UNTAP"
       \/ BothPassed /\ ~CleanupRoundDue /\ stack = <<>>

StepsAfter(step) ==
    CASE step = "UNTAP" -> {"UPKEEP"}
      [] step = "UPKEEP" -> {"DRAW"}
      [] step = "DRAW" -> {"FIRST_MAIN"}
      [] step = "FIRST_MAIN" -> {"BEGIN_COMBAT"}
      [] step = "BEGIN_COMBAT" -> {"DECLARE_ATTACKERS"}
      [] step = "DECLARE_ATTACKERS" ->      \* the attackers may have left combat again
            {"END_OF_COMBAT"} \cup (IF combat.attacking THEN {"DECLARE_BLOCKERS"} ELSE {})
      [] step = "DECLARE_BLOCKERS" -> {"FIRST_STRIKE_DAMAGE", "COMBAT_DAMAGE"}
      [] step = "FIRST_STRIKE_DAMAGE" -> {"COMBAT_DAMAGE"}
      [] step = "COMBAT_DAMAGE" -> {"END_OF_COMBAT"}
      [] step = "END_OF_COMBAT" -> {"SECOND_MAIN"}
      [] step = "SECOND_MAIN" -> {"END_STEP"}
      [] step = "END_STEP" -> {"CLEANUP"}
      [] OTHER -> {}

CombatAfter(step) ==
    CASE step = "BEGIN_COMBAT" -> [combat EXCEPT !.attackers_declared = FALSE]
      [] step = "DECLARE_ATTACKERS" -> [combat EXCEPT !.blockers_declared = FALSE]
      [] step = "DECLARE_BLOCKERS" -> [combat EXCEPT !.damage_dealt = FALSE]
      [] step = "FIRST_STRIKE_DAMAGE" ->
            [combat EXCEPT !.damage_dealt = FALSE, !.assigned = FALSE]
      [] step = "END_OF_COMBAT" -> [combat EXCEPT !.attacking = FALSE, !.assigned = FALSE]
      [] OTHER -> combat

CleanupBegunMarked(t) ==                        \* mutant: an action of the last cleanup still counts
    [t EXCEPT !.step = "CLEANUP", !.cleanup_effects_ended = FALSE, !.cleanup_priority_round = FALSE]

(* begin_cleanup_step *)
CleanupBegun(t) ==
    [t EXCEPT !.step = "CLEANUP", !.cleanup_effects_ended = FALSE,
              !.cleanup_sba_performed = FALSE, !.cleanup_priority_round = FALSE]

(* In untap and cleanup both players count as having passed; elsewhere the active player gets
   priority. *)
PriorityIn(t) ==
    IF t.step \in {"UNTAP", "CLEANUP"}
    THEN [priority EXCEPT !.passed = Players]
    ELSE GivePriority(t.active)

ChangeStep ==
    /\ StepEnds /\ turn_state.step \notin {"UPKEEP", "END_STEP", "CLEANUP"}
    /\ \E step \in StepsAfter(turn_state.step) :
          turn_state' = [turn_state EXCEPT !.step = step]
    /\ combat' = CombatAfter(turn_state.step)
    /\ CardsMay({"trigger", "etb"})
    /\ priority' = PriorityIn(turn_state')
    /\ pc' = "top"
    /\ UNCHANGED <<site, unwind, pregame, query, choice, stack, flows>>

(* The draw step is entered and its draw made: skipped on the first turn; from MaxTurn on the
   library is empty, which loses the game at the next check. *)
EmptyLibrary == turn_state.turn >= MaxTurn
EnterDraw ==
    /\ StepEnds /\ turn_state.step = "UPKEEP"
    /\ turn_state' = [turn_state EXCEPT !.step = "DRAW"]
    /\ IF turn_state.turn > 0 /\ EmptyLibrary
       THEN /\ world' = [world EXCEPT !.losers = @ \cup {Active}]
            /\ UNCHANGED <<waiting, miracle, extra_turns, ended>>
       ELSE CardsMay(IF turn_state.turn = 0 THEN {"trigger"}
                     ELSE {"trigger", "excess", "miracle", "win"})
    /\ priority' = GivePriority(Active)
    /\ pc' = "top"
    /\ UNCHANGED <<site, unwind, pregame, query, combat, choice, stack, flows>>

(* A dredge question parks the draw: the priority epilogue is left for its dispatch. *)
SuspendDraw ==
    /\ StepEnds /\ turn_state.step = "UPKEEP"
    /\ "dredge" \in Happenings /\ turn_state.turn > 0 /\ ~EmptyLibrary
    /\ turn_state' = [turn_state EXCEPT !.step = "DRAW"]
    /\ draw' = TRUE
    /\ query' = Parked("TURN_DRAW", Active, "none")
    /\ priority' = Seated(Active)
    /\ pc' = "top"
    /\ UNCHANGED <<site, cards, unwind, pregame, combat, choice, stack, resolution, flow, damage,
                   placement>>

(* The end step ends, or a cleanup step in which players had priority: a new cleanup step. *)
BeginCleanup ==
    /\ StepEnds
    /\ \/ turn_state.step = "END_STEP"
       \/ turn_state.step = "CLEANUP" /\ turn_state.cleanup_priority_round
    /\ turn_state' = CleanupBegun(turn_state)
    /\ CardsMay({"trigger"})
    /\ priority' = PriorityIn(turn_state')
    /\ pc' = "top"
    /\ UNCHANGED <<site, unwind, pregame, query, combat, choice, stack, flows>>

FirstOwed == IF extra_turns # <<>> THEN extra_turns[1] ELSE Opponent(Active)  \* mutant: first in
NextActive == IF extra_turns # <<>> THEN extra_turns[Len(extra_turns)] ELSE Opponent(Active)

(* The turn ends: the player owed the most recent extra turn is next, or the opponent. *)
NextTurn ==
    /\ StepEnds /\ turn_state.step = "CLEANUP" /\ ~turn_state.cleanup_priority_round
    /\ turn_state' = [turn_state EXCEPT
          !.step = "UNTAP", !.turn = @ + 1, !.active = NextActive]
    /\ extra_turns' = IF extra_turns # <<>> THEN Without(extra_turns, Len(extra_turns))
                      ELSE extra_turns
    /\ miracle' = "none"                                  \* reset_turn_counters
    /\ priority' = PriorityIn(turn_state')
    /\ pc' = "top"
    /\ UNCHANGED <<site, world, waiting, ended, unwind, pregame, query, combat, choice, stack,
                   flows>>

-----------------------------------------------------------------------------
(* Inside a resolution.  A handler entered again skips to where it suspended. *)

Handler == pc = "resolving" /\ ~Suspended /\ ~resolution.casting

(* FrameCtx::ask: park the question, or take its answer on re-entry. *)
Ask ==
    /\ Handler
    /\ CardsMay(Effects)
    /\ \E p \in Players :
          /\ query' = Parked("RESOLUTION", p, "none")
          /\ priority' = Seated(p)
    /\ resolution' = [resolution EXCEPT !.offered = "none"]
    /\ pc' = "top"
    /\ UNCHANGED <<site, unwind, pregame, turn, stack, flow, draw, damage, placement>>

StillParked == query                            \* mutant: the question read is left parked
AnswerRead == NoQuery

TakeAnswer ==
    /\ pc = "resolving" /\ Suspended
    /\ query' = AnswerRead
    /\ priority' = Seated(query.prev)
    /\ resolution' = [resolution EXCEPT !.offered = query.chooser]
    /\ UNCHANGED <<pc, site, cards, unwind, pregame, turn, stack, flow, draw, damage, placement>>

(* cast_during_resolution: the answer took an offered spell; it is cast by the player asked, then
   the resolution goes on. *)
CastDuringResolution ==
    /\ Handler /\ resolution.offered # "none" /\ Load < MaxStack
    /\ LET p == resolution.offered IN
          /\ flow' = [kind |-> "cast", actor |-> p, paid |-> FALSE, caller |-> "resolution"]
          /\ stack' = Append(stack, Object(p))
          /\ resolution' = [resolution EXCEPT !.offered = "none", !.casting = TRUE,
                                              !.cast_prev = priority.holder]
          /\ priority' = Seated(p)
    /\ pc' = "flow"
    /\ UNCHANGED <<site, cards, unwind, pregame, query, turn, draw, damage, placement>>

InnerCastDone ==
    /\ pc = "resolving" /\ ~Suspended /\ resolution.casting
    /\ resolution' = [resolution EXCEPT !.casting = FALSE]
    /\ priority' = Seated(resolution.cast_prev)
    /\ UNCHANGED <<pc, site, cards, unwind, pregame, query, turn, stack, flow, draw, damage,
                   placement>>

(* frame_finish: the object leaves the stack, the seat is restored and nobody has passed. *)
FinishResolution ==
    /\ Handler
    /\ CardsMay(Effects)
    /\ stack' = Without(stack, resolution.at)
    /\ priority' = GivePriority(resolution.prev)
    /\ resolution' = NoFrame
    /\ pc' = "post_mandatory"
    /\ UNCHANGED <<site, unwind, pregame, query, turn, flow, draw, damage, placement>>

PostMandatory ==
    /\ pc = "post_mandatory"
    /\ CheckUnless(choice # "NONE" \/ miracle # "none", "post")
    /\ UNCHANGED <<cards, unwind, pregame, query, turn, priority, stack, flows>>

-----------------------------------------------------------------------------
(* The priority decision (process_action), or the lone pass taken unasked.  *)

Pass ==
    /\ pc = "input"
    /\ priority' = [holder |-> Opponent(priority.holder), passed |-> priority.passed \cup {priority.holder}]
    /\ stack' = [i \in DOMAIN stack |-> [stack[i] EXCEPT !.needs = @ \ {priority.holder}]]
    /\ pc' = "top"
    /\ UNCHANGED <<site, cards, unwind, pregame, query, turn, flows>>

(* take_action: somebody acted, so nobody has passed. *)
PassesKept == priority                          \* mutant: the passes made before still count
ActionTaken == [priority EXCEPT !.passed = {}]

(* A land, a suspended card, a companion: no stack.  A payment may fail, which is no action. *)
SpecialAction ==
    /\ pc = "input" /\ Acting
    /\ \/ CardsMay({"etb", "legend", "sba", "trigger"}) /\ priority' = ActionTaken
       \/ UNCHANGED <<cards, priority>>
    /\ pc' = "top"
    /\ UNCHANGED <<site, unwind, pregame, query, turn, stack, flows>>

(* begin_cast, begin_activation: the object goes on the stack as its proposal begins; a mana
   ability never does. *)
BeginFlow ==
    /\ pc = "input" /\ Acting /\ Load < MaxStack
    /\ \E kind \in {"cast", "activation", "mana"} :
          /\ flow' = [kind |-> kind, actor |-> priority.holder, paid |-> FALSE, caller |-> "loop"]
          /\ stack' = IF kind = "mana" THEN stack ELSE Append(stack, Object(priority.holder))
    /\ pc' = "flow"
    /\ UNCHANGED <<site, cards, unwind, pregame, query, turn, priority, resolution, draw, damage,
                   placement>>

-----------------------------------------------------------------------------
(* A cast or an activation in progress (run_cast_flow, run_activation_flow). *)

ReturnsToGate ==                                \* mutant: the resolution around a cast is forgotten
    pc' = CASE flow.caller = "loop" -> "top"
            [] flow.caller = "resolution" -> "resolving"
            [] OTHER -> "gate"
FlowReturns ==
    pc' = CASE flow.caller = "loop" -> "top"
            [] flow.caller = "resolution" -> "resolving"
            [] OTHER -> IF resolution.active THEN "advance" ELSE "gate"

(* Paying and completing may sacrifice, cost life or trigger; a mana ability that triggers is a
   happening of its own. *)
FlowEffects ==
    IF flow.kind # "mana" \/ "mana_trigger" \in Happenings THEN Costs ELSE {"lose"}

FlowAsk ==
    /\ pc = "flow"
    /\ query' = Parked(IF flow.kind = "cast" THEN "CAST" ELSE "ACTIVATION", flow.actor, "none")
    /\ pc' = "top"
    /\ UNCHANGED <<site, cards, unwind, pregame, turn, priority, stack, flows>>

FlowPay ==
    /\ pc = "flow" /\ ~flow.paid
    /\ flow' = [flow EXCEPT !.paid = TRUE]
    /\ CardsMay(FlowEffects)
    /\ UNCHANGED <<pc, site, unwind, pregame, query, turn, priority, stack, resolution, draw, damage,
                   placement>>

(* The payment fails or is cancelled: rewind_cast, rewind_activation. *)
FlowRewind ==
    /\ pc = "flow" /\ ~flow.paid
    /\ stack' = IF flow.kind = "mana" THEN stack ELSE Without(stack, Len(stack))
    /\ flow' = NoFlow
    /\ FlowReturns
    /\ UNCHANGED <<site, cards, unwind, pregame, query, turn, priority, resolution, draw, damage,
                   placement>>

KeepsPassesForManaOnly == flow.kind = "mana"    \* mutant: an inner cast counts as an action
KeepsPasses == flow.kind = "mana" \/ (flow.kind = "cast" /\ resolution.active)

(* The spell is cast or the ability activated.  Passes start over, except that a spell cast
   during a resolution leaves the resolving object's passes alone and a mana ability "does not
   pass priority". *)
FlowDone ==
    /\ pc = "flow" /\ flow.paid
    /\ CardsMay(FlowEffects)
    /\ priority' = IF KeepsPasses THEN priority ELSE ActionTaken
    /\ flow' = NoFlow
    /\ FlowReturns
    /\ UNCHANGED <<site, unwind, pregame, query, turn, stack, resolution, draw, damage, placement>>

-----------------------------------------------------------------------------
LoopLeft ==
    /\ pc = "leaving"
    /\ pc' = "exited"
    /\ unwind' = FALSE                                    \* concede_reset_unwind
    /\ UNCHANGED <<site, cards, pregame, query, turn, priority, stack, flows>>

Finished == pc = "exited" /\ UNCHANGED vars

AtTheTop == LeaveLoop \/ DiscardConceded \/ AnswerQuery \/ NothingParked \/ Concede
Dispatch == ResumeCombatTarget \/ ResumeDamageAssignment \/ ResumeFlow \/ ResumePlacement
            \/ ResumeTurnDraw \/ KeepLatched \/ ReenterResolution
Pregame == Mulligans \/ FiatSetup \/ OpeningActions \/ PregameCheck
TurnBased == GameOver \/ NeedsDivision \/ DealDamage \/ TurnBasedActions
Mandatory == RevealMiracle \/ DeclareAttackers \/ DeclareBlockers \/ AssignCombatDamage
             \/ CleanupDiscard \/ PostMandatory
StateBased == SbeGameOver \/ AskEntering \/ CompleteEntering \/ PlayersLose \/ AskLegend
              \/ PerformSbas \/ Settle \/ SbeReturned
Placement == AskPlacement \/ TakePlacementAnswer \/ PutTriggerOnStack \/ RemoveTrigger
             \/ PlacementDone
AdvanceStep == SomeoneHasPriority \/ OpenCleanupRound \/ ResolvePermanent \/ EnterFrame
               \/ ResumeFrame \/ ChangeStep \/ EnterDraw \/ SuspendDraw \/ BeginCleanup \/ NextTurn
Resolution == Ask \/ TakeAnswer \/ CastDuringResolution \/ InnerCastDone \/ FinishResolution
Priority == Pass \/ SpecialAction \/ BeginFlow
Flow == FlowAsk \/ FlowPay \/ FlowRewind \/ FlowDone

Next == AtTheTop \/ Dispatch \/ Pregame \/ TurnBased \/ Mandatory \/ StateBased \/ Placement
        \/ AdvanceStep \/ Resolution \/ Priority \/ Flow \/ LoopLeft \/ Finished

Spec == Init /\ [][Next]_vars
FairSpec == Spec /\ WF_vars(Next)
-----------------------------------------------------------------------------
(* Properties.                                                              *)

Queries == [tag : Tags, answered : BOOLEAN, chooser : Players, prev : Players,
            key : {"none", "etb", "legend"}]
TurnStates == [step : Steps, turn : Nat, active : Players, cleanup_effects_ended : BOOLEAN,
               cleanup_sba_performed : BOOLEAN, cleanup_priority_round : BOOLEAN]
Priorities == [holder : Players, passed : SUBSET Players]
Combats == [attackers_declared : BOOLEAN, blockers_declared : BOOLEAN, damage_dealt : BOOLEAN,
            attacking : BOOLEAN, assigned : BOOLEAN]
Objects == [ctrl : Players, needs : SUBSET Players]
Frames == [active : BOOLEAN, at : Nat, prev : Players, offered : Seat, casting : BOOLEAN,
           cast_prev : Players]
Flows == [kind : {"none", "cast", "activation", "mana"}, actor : Players, paid : BOOLEAN,
          caller : {"loop", "resolution", "dispatch"}]
Triggers == [Players -> Nat]
Placements == [active : BOOLEAN, queue : Triggers, saved : Players, announcing : BOOLEAN,
               placed : BOOLEAN, resumed : BOOLEAN]
Worlds == [etb : Seat, legend : [Players -> 0..MaxDue], sba : 0..MaxDue, losers : SUBSET Players,
           excess : 0..MaxExcess]

TypeOK ==
    /\ pc \in Locations /\ site \in Sites
    /\ ended \in BOOLEAN /\ unwind \in BOOLEAN
    /\ stage \in Stages /\ first \in Players
    /\ query \in Queries
    /\ turn_state \in TurnStates /\ extra_turns \in Seq(Players)
    /\ priority \in Priorities
    /\ combat \in Combats /\ choice \in Choices
    /\ stack \in Seq(Objects)
    /\ resolution \in Frames /\ flow \in Flows
    /\ draw \in BOOLEAN /\ damage \in BOOLEAN
    /\ placement \in Placements
    /\ waiting \in Triggers /\ miracle \in Seat
    /\ world \in Worlds

(* The question the state-based check would ask now. *)
SbeQuestion ==
    IF world.etb # "none" THEN <<"etb", world.etb>>
    ELSE IF world.losers = {} /\ world.legend # NoConflict THEN <<"legend", LegendOwner>>
    ELSE <<"none", "none">>

NoFatalError ==
    /\ pc = "top" /\ Suspended /\ ~query.answered /\ ~Conceded => priority.holder = query.chooser
    /\ pc = "input" => ~Suspended /\ flow = NoFlow /\ ~draw
    /\ pc = "leaving" => ~Suspended /\ ~resolution.active /\ flow = NoFlow /\ ~draw
                         /\ stage = "DONE"
    /\ InSbe /\ Suspended => /\ query.tag = "SBE_LATCHED" /\ query.answered
                             /\ SbeQuestion = <<query.key, query.chooser>>
    /\ pc = "resolving" /\ Suspended => query.tag = "RESOLUTION" /\ query.answered
    /\ pc = "resolving" => flow = NoFlow
    /\ pc = "placing" /\ Suspended => query.tag = "TRIGGER_PLACE" /\ query.answered
    /\ AtTop("CAST") => flow.kind = "cast"
    /\ AtTop("ACTIVATION") => flow.kind \in {"activation", "mana"}
    /\ AtTop("DAMAGE_ASSIGN") => damage
    /\ AtTop("TURN_DRAW") => draw
    /\ AtTop("TRIGGER_PLACE") => placement.active
    /\ pc = "mandatory" /\ miracle = "none" /\ choice # "CLEANUP_DISCARD" => ~Suspended

(* State-based effects never run with a resolution, a cast, an activation, a draw or a placement
   under way. *)
ChecksOnlyBetweenFlows ==
    pc = "sbe" => ~resolution.active /\ flow = NoFlow /\ ~draw /\ ~damage /\ ~placement.active

(* While a resolution is suspended both players count as having passed: that is what sends the
   loop back into it. *)
ResolutionHoldsPasses == resolution.active => BothPassed

(* An object resolves only after each player has passed with it on the stack, but in the priority
   rounds of a cleanup step: there a player can pass, then discard because the object before drew
   cards (process_turn_based_actions runs again), and what the discard triggers meets the pass. *)
NoObjectResolvesUnseen ==
    Resolves /\ ~resolution.active /\ ~turn_state.cleanup_priority_round
        => stack[Len(stack)].needs = {}

(* The player asked for a priority decision has not already passed. *)
AskedPlayerHasNotPassed == pc = "input" => priority.holder \notin priority.passed

(* A step ends with nothing left over for it: no trigger waiting, nothing a state-based check
   would do, no flow under way. *)
Leftover == Count(waiting) > 0 \/ ~Settled
StepEndsClean ==
    [][turn_state'.step # turn_state.step
       => ~Leftover /\ ~resolution.active /\ flow = NoFlow /\ ~placement.active]_vars

(* A turn ends on an empty stack, with a small enough hand and after a cleanup step in which
   nobody had priority and no state-based action was performed. *)
TurnEndsClean ==
    [][turn_state'.turn # turn_state.turn
       => /\ stack = <<>> /\ world.excess = 0 /\ turn_state.cleanup_effects_ended
          /\ ~turn_state.cleanup_priority_round /\ ~turn_state.cleanup_sba_performed]_vars

(* The loop always comes back to its top or ends.  A check starts over after every conflict and
   every round of actions, a placement sends back to the check what triggered meanwhile, a
   resolution and a cast run on after each answer: none of them spins. *)
LoopAdvances == []<>(pc \in {"top", "exited"})

(* A game in which, from some point on, players only pass, are asked and offered nothing in
   between, nothing triggers and no state-based action becomes due comes to its end: no step,
   cleanup round or turn repeats for ever. *)
Quiet == stage = "DONE" /\ ~Suspended /\ world.sba = 0 /\ Count(waiting) = 0
PassingEndsGame ==
    <>[]Quiet /\ <>[][~SpecialAction /\ ~BeginFlow /\ ~RevealMiracle]_vars => <>(pc = "exited")

(* A latched answer is used up, by the question that asked for it or by the concession that
   drops it. *)
EveryAnswerIsUsed == query.answered ~> ~query.answered

(* The step order of CR 500-514, frozen once the game is over. *)
Turns == INSTANCE TurnStructure
            WITH step <- turn_state.step, turn <- turn_state.turn, active <- turn_state.active,
                 owed <- extra_turns, over <- ended
FollowsTurnStructure == Turns!Spec

(* The statements below are made by the documents and comments of the repository and do not hold.

   docs/mtg_comprehensive_rules.txt 117.3b: the active player receives priority after a spell or
   ability resolves. *)
ActivePlayerAfterResolution ==
    [][pc' = "post_mandatory" /\ Len(stack') < Len(stack) => priority'.holder = Active]_vars

(* game_driver.cpp, the pregame gate's end test: nothing below it asks a new decision in a game
   that is over. *)
NoDecisionAfterEnd == pc = "mandatory" \/ pc = "input" => ~ended \/ unwind

(* orderer.cpp: a pending miracle reveal is presented to its owner before the game goes on, so
   no later draw replaces it. *)
MiracleKept == [][miracle # "none" /\ miracle' # miracle => miracle' = "none"]_vars

(* game_driver.cpp, SBE_LATCHED: the state-based check runs again on the frozen state, so nothing
   is decided between the answer and its use. *)
LatchedStateFrozen == query.tag = "SBE_LATCHED" /\ query.answered => pc # "mandatory"
=============================================================================
