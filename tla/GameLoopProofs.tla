--------------------------- MODULE GameLoopProofs ---------------------------
(***************************************************************************)
(* What the decision loop promises, for every set of happenings and all     *)
(* bounds.  Three invariants say what can be where:                         *)
(*                                                                          *)
(*   TypeInv    the types, with the one fact they need to be inductive: the *)
(*              hand is discarded from only while it is too large;          *)
(*   Control    where each suspended procedure can be found and what holds  *)
(*              while a resolution is suspended;                            *)
(*   Clock      which steps the loop may be entered in, at which stage of   *)
(*              the game.                                                   *)
(*                                                                          *)
(* Control gives the two theorems a reader of the loop relies on: a         *)
(* state-based check never runs inside another procedure, and the passes    *)
(* that send the loop back into a suspended resolution are never lost.      *)
(* Clock gives the refinement of TurnStructure.                             *)
(*                                                                          *)
(* Four more, each inductive given the ones before it, say who is asked     *)
(* what, and what a step leaves behind:                                     *)
(*                                                                          *)
(*   Parking    which question may be parked or answered at which point of  *)
(*              the loop, who holds priority meanwhile, and what stays      *)
(*              frozen until the answer is read;                            *)
(*   Swept      what a state-based check leaves behind when it lets the     *)
(*              game go on;                                                 *)
(*   Passing    the seat a question or a placement will give back has not   *)
(*              passed;                                                     *)
(*   SeenByAll  a pass counts only for the objects the player saw on the    *)
(*              stack.                                                      *)
(***************************************************************************)
EXTENDS GameLoop, TLAPS

TypeInv == TypeOK /\ (choice = "CLEANUP_DISCARD" => world.excess > 0)

(***************************************************************************)
(* Types of the operators the actions are built from.                      *)
(***************************************************************************)
LEMMA WithoutType ==
  ASSUME NEW S, NEW s \in Seq(S), NEW i \in Nat
  PROVE  Without(s, i) \in Seq(S) /\ (s # <<>> => Len(Without(s, i)) = Len(s) - 1)
<1>1. CASE s = <<>>
  <2>1. Without(s, i) = <<>>
    BY <1>1 DEF Without
  <2> QED
    BY <1>1, <2>1
<1>2. CASE s # <<>>
  <2>1. Len(s) \in Nat /\ Len(s) > 0
    BY <1>2
  <2>2. \A j \in 1..(Len(s) - 1) : (IF j < i THEN s[j] ELSE s[j + 1]) \in S
    BY <2>1
  <2>3. Without(s, i) \in [1..(Len(s) - 1) -> S]
    BY <2>2 DEF Without
  <2> QED
    BY <2>1, <2>3
<1> QED
  BY <1>1, <1>2

LEMMA ObjectType ==
  ASSUME TypeOK, NEW p \in Players
  PROVE  Append(stack, Object(p)) \in Seq(Objects)
<1>1. Object(p) \in Objects
  BY DEF Object, Objects
<1> QED
  BY <1>1 DEF TypeOK

LEMMA ParkedType ==
  ASSUME TypeOK, NEW tag \in Tags, NEW p \in Players, NEW key \in {"none", "etb", "legend"}
  PROVE  Parked(tag, p, key) \in Queries
BY DEF TypeOK, Parked, Queries, Priorities

LEMMA PriorityType ==
  ASSUME TypeOK, NEW p \in Players
  PROVE  /\ Seated(p) \in Priorities
         /\ GivePriority(p) \in Priorities
         /\ ActionTaken \in Priorities
         /\ [priority EXCEPT !.passed = Players] \in Priorities
BY DEF TypeOK, Seated, GivePriority, ActionTaken, Priorities

LEMMA Absent ==
  /\ NoQuery \in Queries /\ NoFrame \in Frames /\ NoFlow \in Flows
  /\ NoTriggers \in Triggers /\ NoPlacement \in Placements
<1>1. NoTriggers \in Triggers
  BY DEF NoTriggers, Triggers, Players
<1>2. NoQuery \in Queries
  BY DEF NoQuery, Queries, Tags, Players
<1>3. NoFrame \in Frames
  BY DEF NoFrame, Frames, Players, Seat
<1>4. NoFlow \in Flows
  BY DEF NoFlow, Flows, Players
<1>5. NoPlacement \in Placements
  BY <1>1 DEF NoPlacement, Placements, Players
<1> QED
  BY <1>1, <1>2, <1>3, <1>4, <1>5

LEMMA MoreTriggersType ==
  ASSUME TypeOK, NEW p \in Players
  PROVE  MoreTriggers(p) \in Triggers
BY DEF TypeOK, MoreTriggers, Triggers

LEMMA MayTriggerType ==
  ASSUME TypeOK
  PROVE  MayTrigger \subseteq Triggers
BY MoreTriggersType DEF TypeOK, MayTrigger

CardsOK ==
  /\ world \in Worlds /\ waiting \in Triggers /\ miracle \in Seat
  /\ extra_turns \in Seq(Players) /\ ended \in BOOLEAN

LEMMA CardsMayType ==
  ASSUME TypeOK, NEW kinds, CardsMay(kinds)
  PROVE  CardsOK' /\ (world.excess > 0 => world'.excess > 0)
<1>1. CASE UNCHANGED cards
  BY <1>1 DEF cards, TypeOK, CardsOK
<1>2. CASE world' \in Worlds /\ (world.excess > 0 => world'.excess > 0)
           /\ UNCHANGED <<waiting, miracle, extra_turns, ended>>
  BY <1>2 DEF TypeOK, CardsOK
<1>3. CASE /\ \E p \in Players : waiting' = MoreTriggers(p)
           /\ UNCHANGED <<world, miracle, extra_turns, ended>>
  BY <1>3, MoreTriggersType DEF TypeOK, CardsOK
<1>4. CASE miracle' \in Players /\ UNCHANGED <<world, waiting, extra_turns, ended>>
  BY <1>4 DEF TypeOK, CardsOK, Seat
<1>5. CASE /\ \E p \in Players : extra_turns' = Append(extra_turns, p)
           /\ UNCHANGED <<world, waiting, miracle, ended>>
  BY <1>5 DEF TypeOK, CardsOK
<1>6. CASE ended' = TRUE /\ UNCHANGED <<world, waiting, miracle, extra_turns>>
  BY <1>6 DEF TypeOK, CardsOK
<1>7. ASSUME NEW p \in Players,
             \/ world' = [world EXCEPT !.etb = p]
             \/ Due < MaxDue /\ world' = [world EXCEPT !.legend[p] = @ + 1]
             \/ \E n \in 1..MaxDue - Due : world' = [world EXCEPT !.sba = @ + n]
             \/ world' = [world EXCEPT !.excess = MaxExcess]
             \/ world' = [world EXCEPT !.losers = @ \cup {p}]
      PROVE  world' \in Worlds /\ (world.excess > 0 => world'.excess > 0)
  <2>1. world \in Worlds /\ p \in Seat /\ MaxExcess \in 0..MaxExcess
    BY <1>7, MaxExcessAssumption DEF TypeOK, Seat
  <2>2. CASE world' = [world EXCEPT !.etb = p]
    BY <2>1, <2>2 DEF Worlds
  <2>3. CASE Due < MaxDue /\ world' = [world EXCEPT !.legend[p] = @ + 1]
    <3>1. world.legend[p] + 1 \in 0..MaxDue
      BY <1>7, <2>1, <2>3, MaxDueAssumption DEF Worlds, Due, Players
    <3> QED
      BY <1>7, <2>1, <2>3, <3>1 DEF Worlds
  <2>4. CASE \E n \in 1..MaxDue - Due : world' = [world EXCEPT !.sba = @ + n]
    <3>1. PICK n \in 1..MaxDue - Due : world' = [world EXCEPT !.sba = @ + n]
      BY <2>4
    <3>2. world.sba + n \in 0..MaxDue
      BY <2>1, <3>1, MaxDueAssumption DEF Worlds, Due, Players
    <3> QED
      BY <2>1, <3>1, <3>2 DEF Worlds
  <2>5. CASE world' = [world EXCEPT !.excess = MaxExcess]
    BY <2>1, <2>5, MaxExcessAssumption DEF Worlds
  <2>6. CASE world' = [world EXCEPT !.losers = @ \cup {p}]
    BY <2>1, <2>6 DEF Worlds
  <2> QED
    BY <1>7, <2>2, <2>3, <2>4, <2>5, <2>6
<1>8. CASE /\ \E p \in Players :
                \/ world' = [world EXCEPT !.etb = p]
                \/ Due < MaxDue /\ world' = [world EXCEPT !.legend[p] = @ + 1]
                \/ \E n \in 1..MaxDue - Due : world' = [world EXCEPT !.sba = @ + n]
                \/ world' = [world EXCEPT !.excess = MaxExcess]
                \/ world' = [world EXCEPT !.losers = @ \cup {p}]
           /\ UNCHANGED <<waiting, miracle, extra_turns, ended>>
  BY <1>2, <1>7, <1>8
<1> QED
  BY <1>1, <1>3, <1>4, <1>5, <1>6, <1>8 DEF CardsMay

LEMMA LegendOwnerType ==
  ASSUME TypeOK
  PROVE  LegendOwner \in Players
BY DEF TypeOK, TurnStates, LegendOwner, Active, Opponent, Players

LEMMA PerformedType ==
  ASSUME TypeOK, NEW w,
         \/ w = Performed
         \/ world.legend # NoConflict /\ w = [Performed EXCEPT !.sba = @ + 1]
  PROVE  w \in Worlds /\ w.excess = world.excess
<1>1. world \in Worlds /\ MaxDue \in Nat /\ LegendOwner \in Players
  BY LegendOwnerType, MaxDueAssumption DEF TypeOK
<1>2. \A n \in 0..MaxDue : Fewer(n) \in 0..MaxDue
  BY <1>1 DEF Fewer
<1>3. Performed = [world EXCEPT !.legend = [world.legend EXCEPT ![LegendOwner] = Fewer(@)],
                               !.sba = Fewer(world.sba)]
  BY <1>1 DEF Performed, Worlds
<1>4. [world.legend EXCEPT ![LegendOwner] = Fewer(@)] \in [Players -> 0..MaxDue]
  BY <1>1, <1>2 DEF Worlds
<1>5. Performed \in Worlds /\ Performed.excess = world.excess /\ Performed.sba = Fewer(world.sba)
  BY <1>1, <1>2, <1>3, <1>4 DEF Worlds
<1>6. world.legend # NoConflict => Fewer(world.sba) + 1 \in 0..MaxDue
  <2>1. world.sba \in 0..MaxDue /\ world.legend \in [Players -> 0..MaxDue]
    BY <1>1 DEF Worlds
  <2>2. world.legend # NoConflict => MaxDue > 0
    BY <1>1, <2>1 DEF NoConflict
  <2> QED
    BY <1>1, <2>1, <2>2 DEF Fewer
<1> HIDE DEF Performed
<1> QED
  BY <1>5, <1>6 DEF Worlds

(***************************************************************************)
(* TypeInv is inductive.                                                   *)
(***************************************************************************)
LEMMA InitTypes == Init => TypeInv
<1> SUFFICES ASSUME Init PROVE TypeInv
  OBVIOUS
<1>1. turn_state \in TurnStates
  BY DEF Init, TurnStates, Steps, Players
<1>2. priority \in Priorities
  BY DEF Init, Priorities, GivePriority, Players
<1>3. world \in Worlds
  BY MaxExcessAssumption, MaxDueAssumption DEF Init, Worlds, Players, Seat, NoConflict
<1>4. combat \in Combats
  BY DEF Init, Combats
<1>5. stack \in Seq(Objects) /\ extra_turns \in Seq(Players)
  BY DEF Init
<1>6. /\ pc \in Locations /\ site \in Sites /\ stage \in Stages /\ first \in Players
      /\ choice \in Choices /\ choice # "CLEANUP_DISCARD" /\ miracle \in Seat
  BY FirstSeatsAssumption DEF Init, Locations, Sites, Stages, Choices, Players, Seat
<1>7. ended \in BOOLEAN /\ unwind \in BOOLEAN /\ draw \in BOOLEAN /\ damage \in BOOLEAN
  BY DEF Init
<1> QED
  BY <1>1, <1>2, <1>3, <1>4, <1>5, <1>6, <1>7, Absent DEF Init, TypeInv, TypeOK

LEMMA AtTheTopKeepsTypes == TypeInv /\ AtTheTop => TypeInv'
<1> SUFFICES ASSUME TypeInv, AtTheTop PROVE TypeInv'
  OBVIOUS
<1> USE DEF TypeInv, TypeOK, Locations, cards, pregame, turn, flows
<1>1. CASE LeaveLoop
  BY <1>1 DEF LeaveLoop
<1>2. CASE DiscardConceded
  BY <1>2, Absent DEF DiscardConceded, Choices, Stages, Seat
<1>3. CASE AnswerQuery
  <2>1. query' \in Queries
    BY <1>3 DEF AnswerQuery, Queries
  <2> QED
    BY <1>3, <2>1 DEF AnswerQuery
<1>4. CASE NothingParked
  BY <1>4 DEF NothingParked
<1>5. CASE Concede
  BY <1>5 DEF Concede
<1> QED
  BY <1>1, <1>2, <1>3, <1>4, <1>5 DEF AtTheTop

LEMMA DispatchKeepsTypes == TypeInv /\ Dispatch => TypeInv'
<1> SUFFICES ASSUME TypeInv, Dispatch PROVE TypeInv'
  OBVIOUS
<1> USE DEF TypeInv, TypeOK, Locations, cards, pregame, turn, flows
<1>1. CASE ResumeCombatTarget
  <2>1. combat' \in Combats
    BY <1>1 DEF ResumeCombatTarget, Combats
  <2> QED
    BY <1>1, <2>1, Absent DEF ResumeCombatTarget
<1>2. CASE ResumeDamageAssignment
  <2>1. query' \in Queries
    BY <1>2, Absent DEF ResumeDamageAssignment, Queries
  <2>2. priority' \in Priorities
    BY <1>2, PriorityType DEF ResumeDamageAssignment, Active, TurnStates
  <2> QED
    BY <1>2, <2>1, <2>2 DEF ResumeDamageAssignment, Choices
<1>3. CASE ResumeFlow
  <2>1. flow' \in Flows
    BY <1>3 DEF ResumeFlow, Flows
  <2> QED
    BY <1>3, <2>1, Absent DEF ResumeFlow
<1>4. CASE ResumePlacement
  <2>1. placement' \in Placements
    BY <1>4 DEF ResumePlacement, Placements
  <2> QED
    BY <1>4, <2>1 DEF ResumePlacement
<1>5. CASE ResumeTurnDraw
  <2>1. CardsOK' /\ (world.excess > 0 => world'.excess > 0)
    BY <1>5, CardsMayType DEF ResumeTurnDraw
  <2>2. priority' \in Priorities
    BY <1>5, PriorityType DEF ResumeTurnDraw, Active, TurnStates
  <2> QED
    BY <1>5, <2>1, <2>2, Absent DEF ResumeTurnDraw, CardsOK
<1>6. CASE KeepLatched
  BY <1>6 DEF KeepLatched
<1>7. CASE ReenterResolution
  BY <1>7 DEF ReenterResolution
<1> QED
  BY <1>1, <1>2, <1>3, <1>4, <1>5, <1>6, <1>7 DEF Dispatch

LEMMA PregameKeepsTypes == TypeInv /\ Pregame => TypeInv'
<1> SUFFICES ASSUME TypeInv, Pregame PROVE TypeInv'
  OBVIOUS
<1> USE DEF TypeInv, TypeOK, Locations, Sites, Stages, cards, pregame, turn, flows
<1>1. CASE Mulligans
  BY <1>1, PriorityType DEF Mulligans
<1>2. CASE FiatSetup
  <2>1. CardsOK' /\ (world.excess > 0 => world'.excess > 0)
    BY <1>2, CardsMayType DEF FiatSetup, CardsOK
  <2> QED
    BY <1>2, <2>1 DEF FiatSetup, CardsOK
<1>3. CASE OpeningActions
  <2>1. CardsOK' /\ (world.excess > 0 => world'.excess > 0)
    BY <1>3, CardsMayType DEF OpeningActions, CardsOK
  <2>2. turn_state' \in TurnStates /\ priority' \in Priorities
    BY <1>3, PriorityType DEF OpeningActions, SeatFirstTurn, TurnStates
  <2> QED
    BY <1>3, <2>1, <2>2 DEF OpeningActions, CardsOK
<1>4. CASE PregameCheck
  BY <1>4 DEF PregameCheck
<1> QED
  BY <1>1, <1>2, <1>3, <1>4 DEF Pregame

LEMMA TurnBasedKeepsTypes == TypeInv /\ TurnBased => TypeInv'
<1> SUFFICES ASSUME TypeInv, TurnBased PROVE TypeInv'
  OBVIOUS
<1> USE DEF TypeInv, TypeOK, Locations, Sites, Choices, cards, pregame, turn, flows
<1>1. CASE GameOver
  BY <1>1 DEF GameOver
<1>2. CASE NeedsDivision
  BY <1>2 DEF NeedsDivision
<1>3. CASE DealDamage
  <2>1. CardsOK'
    BY <1>3, CardsMayType DEF DealDamage, CardsOK
  <2>2. combat' \in Combats
    BY <1>3 DEF DealDamage, Combats
  <2> QED
    BY <1>3, <2>1, <2>2 DEF DealDamage, CheckUnless, CardsOK
<1>4. CASE TurnBasedActions
  <2>1. CardsOK' /\ (world.excess > 0 => world'.excess > 0)
    BY <1>4, CardsMayType DEF TurnBasedActions, CardsOK
  <2>2. turn_state' \in TurnStates
    BY <1>4 DEF TurnBasedActions, TurnStates
  <2>3. choice' \in Choices /\ (choice' = "CLEANUP_DISCARD" => world.excess > 0)
    BY <1>4 DEF TurnBasedActions, DueChoice
  <2> QED
    BY <1>4, <2>1, <2>2, <2>3 DEF TurnBasedActions, CheckUnless, CardsOK
<1> QED
  BY <1>1, <1>2, <1>3, <1>4 DEF TurnBased

LEMMA MandatoryKeepsTypes == TypeInv /\ Mandatory => TypeInv'
<1> SUFFICES ASSUME TypeInv, Mandatory PROVE TypeInv'
  OBVIOUS
<1> USE DEF TypeInv, TypeOK, Locations, Sites, Choices, cards, pregame, turn, flows
<1>0. Active \in Players /\ Opponent(Active) \in Players
  BY DEF Active, TurnStates, Opponent, Players
<1>1. CASE RevealMiracle
  <2>1. stack' \in Seq(Objects)
    BY <1>1, ObjectType DEF RevealMiracle, Seat
  <2> QED
    BY <1>1, <2>1 DEF RevealMiracle, Seat
<1>2. CASE DeclareAttackers
  <2>1. CardsOK'
    BY <1>2, CardsMayType DEF DeclareAttackers, CardsOK
  <2>2. combat' \in Combats
    BY <1>2 DEF DeclareAttackers, Combats
  <2>3. query' \in Queries
    BY <1>0, <1>2, ParkedType DEF DeclareAttackers, Tags
  <2>4. choice' # "CLEANUP_DISCARD" /\ choice' \in Choices
    BY <1>2 DEF DeclareAttackers, AtChoice
  <2> QED
    BY <1>2, <2>1, <2>2, <2>3, <2>4 DEF DeclareAttackers, CardsOK
<1>3. CASE DeclareBlockers
  <2>1. priority' \in Priorities
    BY <1>0, <1>3, PriorityType DEF DeclareBlockers
  <2>2. combat' \in Combats
    BY <1>3 DEF DeclareBlockers, Combats
  <2>3. Parked("BLOCK_TARGET", Opponent(Active), "none") \in Queries
    BY <1>0, ParkedType DEF Tags
  <2>4. query' \in Queries
    BY <1>0, <1>3, <2>3 DEF DeclareBlockers, Queries
  <2>5. choice' # "CLEANUP_DISCARD" /\ choice' \in Choices
    BY <1>3 DEF DeclareBlockers, AtChoice
  <2> QED
    BY <1>3, <2>1, <2>2, <2>4, <2>5 DEF DeclareBlockers
<1>4. CASE AssignCombatDamage
  <2>1. priority' \in Priorities
    BY <1>0, <1>4, PriorityType DEF AssignCombatDamage
  <2>2. combat' \in Combats
    BY <1>4 DEF AssignCombatDamage, Combats
  <2>3. Parked("DAMAGE_ASSIGN", Active, "none") \in Queries
    BY <1>0, ParkedType DEF Tags
  <2>4. query' \in Queries
    BY <1>0, <1>4, <2>3 DEF AssignCombatDamage, Queries
  <2>5. choice' # "CLEANUP_DISCARD" /\ choice' \in Choices
    BY <1>4 DEF AssignCombatDamage, AtChoice
  <2> QED
    BY <1>4, <2>1, <2>2, <2>4, <2>5 DEF AssignCombatDamage
<1>5. CASE CleanupDiscard
  <2>1. world' \in Worlds
    <3>1. world.excess - 1 \in 0..MaxExcess
      BY <1>5, MaxExcessAssumption DEF CleanupDiscard, AtChoice, Worlds
    <3> QED
      BY <1>5, <3>1 DEF CleanupDiscard, Worlds
  <2>2. waiting' \in Triggers
    BY <1>5, MayTriggerType DEF CleanupDiscard
  <2> QED
    BY <1>5, <2>1, <2>2 DEF CleanupDiscard
<1>6. CASE PostMandatory
  BY <1>6 DEF PostMandatory, CheckUnless
<1> QED
  BY <1>1, <1>2, <1>3, <1>4, <1>5, <1>6 DEF Mandatory

LEMMA StateBasedKeepsTypes == TypeInv /\ StateBased => TypeInv'
<1> SUFFICES ASSUME TypeInv, StateBased PROVE TypeInv'
  OBVIOUS
<1> USE DEF TypeInv, TypeOK, Locations, Sites, Stages, cards, pregame, turn, flows
<1>1. CASE SbeGameOver
  BY <1>1 DEF SbeGameOver
<1>2. CASE AskEntering
  <2>1. world.etb \in Players
    BY <1>2 DEF AskEntering, Worlds, Seat
  <2>2. query' \in Queries /\ priority' \in Priorities
    BY <1>2, <2>1, ParkedType, PriorityType DEF AskEntering, ArmSbe, Tags
  <2> QED
    BY <1>2, <2>2 DEF AskEntering, ArmSbe
<1>3. CASE CompleteEntering
  <2>1. priority' \in Priorities
    BY <1>3, PriorityType DEF CompleteEntering, TakeLatched, Queries
  <2>2. waiting' \in Triggers
    BY <1>3, MayTriggerType DEF CompleteEntering
  <2>3. world' \in Worlds /\ world'.excess = world.excess
    <3>1. world.etb \in Players
      BY <1>3 DEF CompleteEntering, Worlds, Seat
    <3>2. PICK lost \in SUBSET {world.etb} :
             world' = [world EXCEPT !.etb = "none", !.losers = @ \cup lost]
      BY <1>3 DEF CompleteEntering
    <3> QED
      BY <3>1, <3>2 DEF Worlds, Seat
  <2> QED
    BY <1>3, <2>1, <2>2, <2>3, Absent DEF CompleteEntering, TakeLatched
<1>4. CASE PlayersLose
  BY <1>4 DEF PlayersLose
<1>5. CASE AskLegend
  <2>1. LegendOwner \in Players
    BY LegendOwnerType
  <2>2. query' \in Queries /\ priority' \in Priorities
    BY <1>5, <2>1, ParkedType, PriorityType DEF AskLegend, ArmSbe, Tags
  <2> QED
    BY <1>5, <2>2 DEF AskLegend, ArmSbe
<1>6. CASE PerformSbas
  <2>1. pc' = pc /\ site' = site /\ query' \in Queries /\ priority' \in Priorities
    BY <1>6, PriorityType, Absent DEF PerformSbas, TakeLatched, Queries
  <2>2. waiting' \in Triggers
    BY <1>6, MayTriggerType DEF PerformSbas
  <2>3. world' \in Worlds /\ world'.excess = world.excess
    <3>1. PerformSbas => \/ world' = Performed
                         \/ world.legend # NoConflict /\ world' = [Performed EXCEPT !.sba = @ + 1]
      BY DEF PerformSbas
    <3> QED
      BY <1>6, <3>1, PerformedType
  <2>4. turn_state' \in TurnStates
    BY <1>6 DEF PerformSbas, SbaMark, TurnStates
  <2> QED
    BY <1>6, <2>1, <2>2, <2>3, <2>4 DEF PerformSbas
<1>7. CASE Settle
  <2>1. placement' \in Placements
    BY <1>7, Absent DEF Settle, Placements, Priorities
  <2> QED
    BY <1>7, <2>1, Absent DEF Settle
<1>8. CASE SbeReturned
  <2>1. turn_state' \in TurnStates /\ priority' \in Priorities
    BY <1>8, PriorityType DEF SbeReturned, SeatFirstTurn, TurnStates
  <2> QED
    BY <1>8, <2>1 DEF SbeReturned
<1> QED
  BY <1>1, <1>2, <1>3, <1>4, <1>5, <1>6, <1>7, <1>8 DEF StateBased

LEMMA PlacementKeepsTypes == TypeInv /\ Placement => TypeInv'
<1> SUFFICES ASSUME TypeInv, Placement PROVE TypeInv'
  OBVIOUS
<1> USE DEF TypeInv, TypeOK, Locations, Sites, cards, pregame, turn, flows
<1>0. Front \in Players /\ Active \in Players
  BY DEF Front, Active, TurnStates, Opponent, Players
<1>1. Seated(Front) \in Priorities
  BY <1>0, PriorityType
<1>2. Placing => PlacedOne \in Placements
  <2> SUFFICES ASSUME Placing PROVE PlacedOne \in Placements
    OBVIOUS
  <2>1. placement.queue \in Triggers
    BY DEF Placements
  <2>2. placement.queue[Front] \in Nat \ {0}
    BY <2>1 DEF Placing, Count, Front, Active, TurnStates, Opponent, Players, Triggers
  <2>3. [placement.queue EXCEPT ![Front] = @ - 1] \in Triggers
    BY <1>0, <2>1, <2>2 DEF Triggers
  <2> QED
    BY <2>3 DEF PlacedOne, Placements
<1>3. CASE AskPlacement
  <2>1. Parked("TRIGGER_PLACE", Front, "none") \in Queries
    BY <1>0, ParkedType DEF Tags
  <2>2. query' \in Queries
    BY <1>0, <1>3, <2>1 DEF AskPlacement, Queries
  <2> QED
    BY <1>1, <1>3, <2>2 DEF AskPlacement
<1>4. CASE TakePlacementAnswer
  <2>1. placement' \in Placements
    BY <1>4 DEF TakePlacementAnswer, Placements
  <2> QED
    BY <1>1, <1>4, <2>1, Absent DEF TakePlacementAnswer
<1>5. CASE PutTriggerOnStack
  <2>1. placement' \in Placements
    BY <1>2, <1>5 DEF PutTriggerOnStack, Placements
  <2>2. stack' \in Seq(Objects)
    BY <1>0, <1>5, ObjectType DEF PutTriggerOnStack
  <2> QED
    BY <1>1, <1>5, <2>1, <2>2 DEF PutTriggerOnStack
<1>6. CASE RemoveTrigger
  BY <1>1, <1>2, <1>6 DEF RemoveTrigger
<1>7. CASE PlacementDone
  <2>1. SavedSeat \in Priorities
    BY PriorityType DEF SavedSeat, Placements
  <2>2. waiting' \in Triggers
    BY <1>7, MayTriggerType DEF PlacementDone
  <2> QED
    BY <1>7, <2>1, <2>2, Absent DEF PlacementDone, CheckAgain
<1> QED
  BY <1>3, <1>4, <1>5, <1>6, <1>7 DEF Placement

LEMMA AdvanceStepKeepsTypes == TypeInv /\ AdvanceStep => TypeInv'
<1> SUFFICES ASSUME TypeInv, AdvanceStep PROVE TypeInv'
  OBVIOUS
<1> USE DEF TypeInv, TypeOK, Locations, Sites, cards, pregame, turn, flows
<1>0. Active \in Players /\ \A t \in TurnStates : PriorityIn(t) \in Priorities
  BY PriorityType DEF Active, TurnStates, PriorityIn
<1>1. CASE SomeoneHasPriority
  BY <1>1 DEF SomeoneHasPriority
<1>2. CASE OpenCleanupRound
  <2>1. turn_state' \in TurnStates
    BY <1>2 DEF OpenCleanupRound, TurnStates
  <2> QED
    BY <1>0, <1>2, <2>1, PriorityType DEF OpenCleanupRound
<1>3. CASE ResolvePermanent
  <2>1. CardsOK' /\ (world.excess > 0 => world'.excess > 0)
    BY <1>3, CardsMayType DEF ResolvePermanent
  <2>2. stack' \in Seq(Objects)
    BY <1>3, WithoutType DEF ResolvePermanent, Resolves
  <2>3. priority' \in Priorities
    BY <1>3 DEF ResolvePermanent, Priorities
  <2> QED
    BY <1>3, <2>1, <2>2, <2>3 DEF ResolvePermanent, CardsOK
<1>4. CASE EnterFrame
  <2>1. stack[Len(stack)] \in Objects
    BY <1>4 DEF EnterFrame, Resolves
  <2>2. priority' \in Priorities
    BY <1>4, <2>1, PriorityType DEF EnterFrame, Objects
  <2>3. resolution' \in Frames
    <3>1. Len(stack) \in Nat /\ priority.holder \in Players
      BY DEF Priorities
    <3> QED
      BY <1>4, <3>1, Absent DEF EnterFrame, Frames
  <2> QED
    BY <1>4, <2>2, <2>3 DEF EnterFrame
<1>5. CASE ResumeFrame
  BY <1>5 DEF ResumeFrame
<1>6. CASE ChangeStep
  <2>1. CardsOK' /\ (world.excess > 0 => world'.excess > 0)
    BY <1>6, CardsMayType DEF ChangeStep
  <2>2. turn_state' \in TurnStates
    <3>1. StepsAfter(turn_state.step) \subseteq Steps
      BY DEF StepsAfter, Steps
    <3> QED
      BY <1>6, <3>1 DEF ChangeStep, TurnStates
  <2>3. combat' \in Combats
    BY <1>6 DEF ChangeStep, CombatAfter, Combats
  <2> QED
    BY <1>0, <1>6, <2>1, <2>2, <2>3 DEF ChangeStep, CardsOK
<1>7. CASE EnterDraw
  <2>1. CardsOK' /\ (world.excess > 0 => world'.excess > 0)
    <3>1. [world EXCEPT !.losers = @ \cup {Active}] \in Worlds
      BY <1>0 DEF Worlds
    <3>2. [world EXCEPT !.losers = @ \cup {Active}].excess = world.excess
      BY DEF Worlds
    <3> QED
      BY <1>7, <3>1, <3>2, CardsMayType DEF EnterDraw, CardsOK
  <2>2. turn_state' \in TurnStates
    BY <1>7 DEF EnterDraw, TurnStates, Steps
  <2> QED
    BY <1>0, <1>7, <2>1, <2>2, PriorityType DEF EnterDraw, CardsOK
<1>8. CASE SuspendDraw
  <2>1. turn_state' \in TurnStates
    BY <1>8 DEF SuspendDraw, TurnStates, Steps
  <2>2. query' \in Queries
    BY <1>0, <1>8, ParkedType DEF SuspendDraw, Tags
  <2> QED
    BY <1>0, <1>8, <2>1, <2>2, PriorityType DEF SuspendDraw
<1>9. CASE BeginCleanup
  <2>1. CardsOK' /\ (world.excess > 0 => world'.excess > 0)
    BY <1>9, CardsMayType DEF BeginCleanup
  <2>2. turn_state' \in TurnStates
    BY <1>9 DEF BeginCleanup, CleanupBegun, TurnStates, Steps
  <2> QED
    BY <1>0, <1>9, <2>1, <2>2 DEF BeginCleanup, CardsOK
<1>10. CASE NextTurn
  <2>1. NextActive \in Players
    BY <1>0 DEF NextActive, Opponent, Players
  <2>2. turn_state' \in TurnStates
    <3>1. turn_state.turn + 1 \in Nat
      BY DEF TurnStates
    <3> QED
      BY <1>10, <2>1, <3>1 DEF NextTurn, TurnStates, Steps
  <2>3. extra_turns' \in Seq(Players)
    BY <1>10, WithoutType DEF NextTurn
  <2> QED
    BY <1>0, <1>10, <2>2, <2>3 DEF NextTurn, Seat
<1> QED
  BY <1>1, <1>2, <1>3, <1>4, <1>5, <1>6, <1>7, <1>8, <1>9, <1>10 DEF AdvanceStep

LEMMA ResolutionKeepsTypes == TypeInv /\ Resolution => TypeInv'
<1> SUFFICES ASSUME TypeInv, Resolution PROVE TypeInv'
  OBVIOUS
<1> USE DEF TypeInv, TypeOK, Locations, Sites, cards, pregame, turn, flows
<1>1. CASE Ask
  <2>1. CardsOK' /\ (world.excess > 0 => world'.excess > 0)
    BY <1>1, CardsMayType DEF Ask
  <2>2. query' \in Queries /\ priority' \in Priorities
    BY <1>1, ParkedType, PriorityType DEF Ask, Tags
  <2>3. resolution' \in Frames
    BY <1>1 DEF Ask, Frames, Seat
  <2> QED
    BY <1>1, <2>1, <2>2, <2>3 DEF Ask, CardsOK
<1>2. CASE TakeAnswer
  <2>1. priority' \in Priorities
    BY <1>2, PriorityType DEF TakeAnswer, Queries
  <2>2. resolution' \in Frames
    BY <1>2 DEF TakeAnswer, Frames, Seat, Queries
  <2> QED
    BY <1>2, <2>1, <2>2, Absent DEF TakeAnswer, AnswerRead
<1>3. CASE CastDuringResolution
  <2>1. resolution.offered \in Players
    BY <1>3 DEF CastDuringResolution, Frames, Seat
  <2>2. flow' \in Flows
    BY <1>3, <2>1 DEF CastDuringResolution, Flows
  <2>3. stack' \in Seq(Objects)
    BY <1>3, <2>1, ObjectType DEF CastDuringResolution
  <2>4. resolution' \in Frames
    BY <1>3 DEF CastDuringResolution, Frames, Seat, Priorities
  <2>5. priority' \in Priorities
    BY <1>3, <2>1, PriorityType DEF CastDuringResolution
  <2> QED
    BY <1>3, <2>2, <2>3, <2>4, <2>5 DEF CastDuringResolution
<1>4. CASE InnerCastDone
  <2>1. resolution' \in Frames /\ priority' \in Priorities
    BY <1>4, PriorityType DEF InnerCastDone, Frames
  <2> QED
    BY <1>4, <2>1 DEF InnerCastDone
<1>5. CASE FinishResolution
  <2>1. CardsOK' /\ (world.excess > 0 => world'.excess > 0)
    BY <1>5, CardsMayType DEF FinishResolution
  <2>2. stack' \in Seq(Objects)
    BY <1>5, WithoutType DEF FinishResolution, Frames
  <2>3. priority' \in Priorities
    BY <1>5, PriorityType DEF FinishResolution, Frames
  <2> QED
    BY <1>5, <2>1, <2>2, <2>3, Absent DEF FinishResolution, CardsOK
<1> QED
  BY <1>1, <1>2, <1>3, <1>4, <1>5 DEF Resolution

LEMMA PriorityKeepsTypes == TypeInv /\ Priority => TypeInv'
<1> SUFFICES ASSUME TypeInv, Priority PROVE TypeInv'
  OBVIOUS
<1> USE DEF TypeInv, TypeOK, Locations, Sites, cards, pregame, turn, flows
<1>0. priority.holder \in Players
  BY DEF Priorities
<1>1. CASE Pass
  <2>1. priority' \in Priorities
    BY <1>1 DEF Pass, Priorities, Opponent, Players
  <2>2. stack' \in Seq(Objects)
    <3>1. \A i \in 1..Len(stack) : stack[i] \in Objects
      OBVIOUS
    <3>2. \A o \in Objects : [o EXCEPT !.needs = @ \ {priority.holder}] \in Objects
      BY DEF Objects
    <3>3. stack' \in [1..Len(stack) -> Objects]
      BY <1>1, <3>1, <3>2 DEF Pass
    <3> QED
      BY <3>3
  <2> QED
    BY <1>1, <2>1, <2>2 DEF Pass
<1>2. CASE SpecialAction
  <2>1. CardsOK' /\ (world.excess > 0 => world'.excess > 0)
    BY <1>2, CardsMayType DEF SpecialAction, CardsOK
  <2> QED
    BY <1>0, <1>2, <2>1, PriorityType DEF SpecialAction, CardsOK
<1>3. CASE BeginFlow
  <2>1. flow' \in Flows
    BY <1>0, <1>3 DEF BeginFlow, Flows
  <2>2. stack' \in Seq(Objects)
    BY <1>0, <1>3, ObjectType DEF BeginFlow
  <2> QED
    BY <1>3, <2>1, <2>2 DEF BeginFlow
<1> QED
  BY <1>1, <1>2, <1>3 DEF Priority

LEMMA FlowKeepsTypes == TypeInv /\ Flow => TypeInv'
<1> SUFFICES ASSUME TypeInv, Flow PROVE TypeInv'
  OBVIOUS
<1> USE DEF TypeInv, TypeOK, Locations, Sites, cards, pregame, turn, flows
<1>1. CASE FlowAsk
  <2>1. query' \in Queries
    BY <1>1, ParkedType DEF FlowAsk, Tags, Flows
  <2> QED
    BY <1>1, <2>1 DEF FlowAsk
<1>2. CASE FlowPay
  <2>1. CardsOK' /\ (world.excess > 0 => world'.excess > 0)
    BY <1>2, CardsMayType DEF FlowPay
  <2>2. flow' \in Flows
    BY <1>2 DEF FlowPay, Flows
  <2> QED
    BY <1>2, <2>1, <2>2 DEF FlowPay, CardsOK
<1>3. CASE FlowRewind
  <2>1. stack' \in Seq(Objects)
    BY <1>3, WithoutType DEF FlowRewind
  <2> QED
    BY <1>3, <2>1, Absent DEF FlowRewind, FlowReturns
<1>4. CASE FlowDone
  <2>1. CardsOK' /\ (world.excess > 0 => world'.excess > 0)
    BY <1>4, CardsMayType DEF FlowDone
  <2>2. ActionTaken \in Priorities
    BY DEF ActionTaken, Priorities
  <2> QED
    BY <1>4, <2>1, <2>2, Absent DEF FlowDone, FlowReturns, CardsOK
<1> QED
  BY <1>1, <1>2, <1>3, <1>4 DEF Flow

LEMMA NextKeepsTypes == TypeInv /\ [Next]_vars => TypeInv'
<1> SUFFICES ASSUME TypeInv, [Next]_vars PROVE TypeInv'
  OBVIOUS
<1>1. CASE LoopLeft
  BY <1>1 DEF LoopLeft, TypeInv, TypeOK, Locations, cards, pregame, turn, flows
<1>2. CASE Finished
  BY <1>2 DEF Finished, TypeInv, TypeOK, vars
<1>3. CASE UNCHANGED vars
  BY <1>3 DEF TypeInv, TypeOK, vars
<1> QED
  BY <1>1, <1>2, <1>3, AtTheTopKeepsTypes, DispatchKeepsTypes, PregameKeepsTypes, TurnBasedKeepsTypes,
     MandatoryKeepsTypes, StateBasedKeepsTypes, PlacementKeepsTypes, AdvanceStepKeepsTypes,
     ResolutionKeepsTypes, PriorityKeepsTypes, FlowKeepsTypes
  DEF Next

(* Every state of the loop has its types: no queue of triggers, excess of cards or index into the
   stack ever leaves its range. *)
THEOREM TypeInvariant == Spec => []TypeOK
<1>1. TypeInv => TypeOK
  BY DEF TypeInv
<1> QED
  BY <1>1, InitTypes, NextKeepsTypes, PTL DEF Spec

(***************************************************************************)
(* Where a suspended procedure may be found.                               *)
(***************************************************************************)
FlowHome ==
  flow # NoFlow => pc = "flow" \/ (pc = "top" /\ query.tag \in {"CAST", "ACTIVATION"})
DrawHome == draw => pc = "top" /\ query.tag = "TURN_DRAW"
DamageHome == damage => pc = "top" /\ query.tag = "DAMAGE_ASSIGN"
PlacementHome ==
  placement.active => pc = "placing" \/ (pc = "top" /\ query.tag = "TRIGGER_PLACE")
ResolutionHome ==
  resolution.active => \/ pc \in {"resolving", "flow", "advance"}
                       \/ pc = "top" /\ query.tag \in {"RESOLUTION", "CAST"}
ResolutionHolds ==
  resolution.active => BothPassed /\ turn_state.step # "UNTAP" /\ stack # <<>>
InnerCast ==
  resolution.active /\ (pc = "flow" \/ (pc = "top" /\ query.tag = "CAST"))
    => flow.kind = "cast" /\ flow.caller # "loop" /\ Len(stack) > 1

Control ==
  /\ TypeInv /\ FlowHome /\ DrawHome /\ DamageHome /\ PlacementHome
  /\ ResolutionHome /\ ResolutionHolds /\ InnerCast

LEMMA AtTheTopKeepsControl == Control /\ AtTheTop => Control'
<1> SUFFICES ASSUME Control, AtTheTop PROVE Control'
  OBVIOUS
<1>0. /\ TypeInv' /\ query \in Queries /\ priority \in Priorities /\ turn_state \in TurnStates
      /\ stack \in Seq(Objects) /\ resolution \in Frames /\ flow \in Flows
      /\ placement \in Placements
  BY NextKeepsTypes DEF Control, Next, TypeInv, TypeOK
<1> USE DEF Control, FlowHome, DrawHome, DamageHome, PlacementHome, ResolutionHome, ResolutionHolds,
            InnerCast, BothPassed, cards, pregame, turn, flows
<1>1. CASE LeaveLoop
  BY <1>0, <1>1 DEF LeaveLoop, LoopLive, Suspended
<1>2. CASE DiscardConceded
  BY <1>0, <1>2 DEF DiscardConceded, NoFlow, NoFrame, NoQuery, NoPlacement
<1>3. CASE AnswerQuery
  BY <1>0, <1>3 DEF AnswerQuery, Queries
<1>4. CASE NothingParked
  BY <1>0, <1>4 DEF NothingParked, Suspended
<1>5. CASE Concede
  BY <1>0, <1>5 DEF Concede, Reading
<1> QED
  BY <1>1, <1>2, <1>3, <1>4, <1>5 DEF AtTheTop

LEMMA DispatchKeepsControl == Control /\ Dispatch => Control'
<1> SUFFICES ASSUME Control, Dispatch PROVE Control'
  OBVIOUS
<1>0. /\ TypeInv' /\ query \in Queries /\ priority \in Priorities /\ turn_state \in TurnStates
      /\ stack \in Seq(Objects) /\ resolution \in Frames /\ flow \in Flows
      /\ placement \in Placements
  BY NextKeepsTypes DEF Control, Next, TypeInv, TypeOK
<1> USE DEF Control, FlowHome, DrawHome, DamageHome, PlacementHome, ResolutionHome, ResolutionHolds,
            InnerCast, BothPassed, cards, pregame, turn, flows
<1>1. CASE ResumeCombatTarget
  BY <1>0, <1>1 DEF ResumeCombatTarget, AtTop, NoQuery
<1>2. CASE ResumeDamageAssignment
  BY <1>0, <1>2 DEF ResumeDamageAssignment, AtTop, NoQuery, Seated, Priorities, Queries
<1>3. CASE ResumeFlow
  BY <1>0, <1>3 DEF ResumeFlow, AtTop, NoQuery, Flows
<1>4. CASE ResumePlacement
  BY <1>0, <1>4 DEF ResumePlacement, AtTop, Placements
<1>5. CASE ResumeTurnDraw
  BY <1>0, <1>5 DEF ResumeTurnDraw, AtTop, NoQuery
<1>6. CASE KeepLatched
  BY <1>0, <1>6 DEF KeepLatched, AtTop
<1>7. CASE ReenterResolution
  BY <1>0, <1>7 DEF ReenterResolution, AtTop
<1> QED
  BY <1>1, <1>2, <1>3, <1>4, <1>5, <1>6, <1>7 DEF Dispatch

LEMMA PregameKeepsControl == Control /\ Pregame => Control'
<1> SUFFICES ASSUME Control, Pregame PROVE Control'
  OBVIOUS
<1>0. /\ TypeInv' /\ query \in Queries /\ priority \in Priorities /\ turn_state \in TurnStates
      /\ stack \in Seq(Objects) /\ resolution \in Frames /\ flow \in Flows
      /\ placement \in Placements
  BY NextKeepsTypes DEF Control, Next, TypeInv, TypeOK
<1> USE DEF Control, FlowHome, DrawHome, DamageHome, PlacementHome, ResolutionHome, ResolutionHolds,
            InnerCast, BothPassed, cards, pregame, turn, flows
<1>1. CASE Mulligans
  BY <1>0, <1>1 DEF Mulligans, Seated, Priorities
<1>2. CASE FiatSetup
  BY <1>0, <1>2 DEF FiatSetup
<1>3. CASE OpeningActions
  BY <1>0, <1>3 DEF OpeningActions, SeatFirstTurn, Seated, Priorities, TurnStates
<1>4. CASE PregameCheck
  BY <1>0, <1>4 DEF PregameCheck
<1> QED
  BY <1>1, <1>2, <1>3, <1>4 DEF Pregame

LEMMA TurnBasedKeepsControl == Control /\ TurnBased => Control'
<1> SUFFICES ASSUME Control, TurnBased PROVE Control'
  OBVIOUS
<1>0. /\ TypeInv' /\ query \in Queries /\ priority \in Priorities /\ turn_state \in TurnStates
      /\ stack \in Seq(Objects) /\ resolution \in Frames /\ flow \in Flows
      /\ placement \in Placements
  BY NextKeepsTypes DEF Control, Next, TypeInv, TypeOK
<1> USE DEF Control, FlowHome, DrawHome, DamageHome, PlacementHome, ResolutionHome, ResolutionHolds,
            InnerCast, BothPassed, cards, pregame, turn, flows
<1>1. CASE GameOver
  BY <1>0, <1>1 DEF GameOver, AtGate
<1>2. CASE NeedsDivision
  BY <1>0, <1>2 DEF NeedsDivision, AtGate
<1>3. CASE DealDamage
  BY <1>0, <1>3 DEF DealDamage, AtGate, CheckUnless
<1>4. CASE TurnBasedActions
  BY <1>0, <1>4 DEF TurnBasedActions, AtGate, CheckUnless, TurnStates
<1> QED
  BY <1>1, <1>2, <1>3, <1>4 DEF TurnBased

LEMMA MandatoryKeepsControl == Control /\ Mandatory => Control'
<1> SUFFICES ASSUME Control, Mandatory PROVE Control'
  OBVIOUS
<1>0. /\ TypeInv' /\ query \in Queries /\ priority \in Priorities /\ turn_state \in TurnStates
      /\ stack \in Seq(Objects) /\ resolution \in Frames /\ flow \in Flows
      /\ placement \in Placements
  BY NextKeepsTypes DEF Control, Next, TypeInv, TypeOK
<1> USE DEF Control, FlowHome, DrawHome, DamageHome, PlacementHome, ResolutionHome, ResolutionHolds,
            InnerCast, BothPassed, cards, pregame, turn, flows
<1>1. CASE RevealMiracle
  BY <1>0, <1>1 DEF RevealMiracle
<1>2. CASE DeclareAttackers
  BY <1>0, <1>2 DEF DeclareAttackers, AtChoice, Parked
<1>3. CASE DeclareBlockers
  BY <1>0, <1>3 DEF DeclareBlockers, AtChoice, Seated, Priorities
<1>4. CASE AssignCombatDamage
  BY <1>0, <1>4 DEF AssignCombatDamage, AtChoice, Seated, Priorities, Parked
<1>5. CASE CleanupDiscard
  BY <1>0, <1>5 DEF CleanupDiscard, AtChoice
<1>6. CASE PostMandatory
  BY <1>0, <1>6 DEF PostMandatory, CheckUnless
<1> QED
  BY <1>1, <1>2, <1>3, <1>4, <1>5, <1>6 DEF Mandatory

LEMMA StateBasedKeepsControl == Control /\ StateBased => Control'
<1> SUFFICES ASSUME Control, StateBased PROVE Control'
  OBVIOUS
<1>0. /\ TypeInv' /\ query \in Queries /\ priority \in Priorities /\ turn_state \in TurnStates
      /\ stack \in Seq(Objects) /\ resolution \in Frames /\ flow \in Flows
      /\ placement \in Placements
  BY NextKeepsTypes DEF Control, Next, TypeInv, TypeOK
<1> USE DEF Control, FlowHome, DrawHome, DamageHome, PlacementHome, ResolutionHome, ResolutionHolds,
            InnerCast, BothPassed, cards, pregame, turn, flows
<1>1. CASE SbeGameOver
  BY <1>0, <1>1 DEF SbeGameOver
<1>2. CASE AskEntering
  BY <1>0, <1>2 DEF AskEntering, InSbe, ArmSbe, Parked
<1>3. CASE CompleteEntering
  BY <1>0, <1>3 DEF CompleteEntering, InSbe, TakeLatched
<1>4. CASE PlayersLose
  BY <1>0, <1>4 DEF PlayersLose, InSbe
<1>5. CASE AskLegend
  BY <1>0, <1>5 DEF AskLegend, InSbe, ArmSbe, Parked
<1>6. CASE PerformSbas
  BY <1>0, <1>6 DEF PerformSbas, InSbe, TakeLatched
<1>7. CASE Settle
  BY <1>0, <1>7 DEF Settle, InSbe
<1>8. CASE SbeReturned
  BY <1>0, <1>8 DEF SbeReturned, SeatFirstTurn
<1> QED
  BY <1>1, <1>2, <1>3, <1>4, <1>5, <1>6, <1>7, <1>8 DEF StateBased

LEMMA PlacementKeepsControl == Control /\ Placement => Control'
<1> SUFFICES ASSUME Control, Placement PROVE Control'
  OBVIOUS
<1>0. /\ TypeInv' /\ query \in Queries /\ priority \in Priorities /\ turn_state \in TurnStates
      /\ stack \in Seq(Objects) /\ resolution \in Frames /\ flow \in Flows
      /\ placement \in Placements
  BY NextKeepsTypes DEF Control, Next, TypeInv, TypeOK
<1> USE DEF Control, FlowHome, DrawHome, DamageHome, PlacementHome, ResolutionHome, ResolutionHolds,
            InnerCast, BothPassed, cards, pregame, turn, flows
<1>1. CASE AskPlacement
  BY <1>0, <1>1 DEF AskPlacement, Placing, Parked
<1>2. CASE TakePlacementAnswer
  BY <1>0, <1>2 DEF TakePlacementAnswer, Placing
<1>3. CASE PutTriggerOnStack
  BY <1>0, <1>3 DEF PutTriggerOnStack, Placing, PlacedOne, Placements
<1>4. CASE RemoveTrigger
  BY <1>0, <1>4 DEF RemoveTrigger, Placing, PlacedOne, Placements
<1>5. CASE PlacementDone
  BY <1>0, <1>5 DEF PlacementDone, NoPlacement, CheckAgain
<1> QED
  BY <1>1, <1>2, <1>3, <1>4, <1>5 DEF Placement

LEMMA AdvanceStepKeepsControl == Control /\ AdvanceStep => Control'
<1> SUFFICES ASSUME Control, AdvanceStep PROVE Control'
  OBVIOUS
<1>0. /\ TypeInv' /\ query \in Queries /\ priority \in Priorities /\ turn_state \in TurnStates
      /\ stack \in Seq(Objects) /\ resolution \in Frames /\ flow \in Flows
      /\ placement \in Placements
  BY NextKeepsTypes DEF Control, Next, TypeInv, TypeOK
<1> USE DEF Control, FlowHome, DrawHome, DamageHome, PlacementHome, ResolutionHome, ResolutionHolds,
            InnerCast, BothPassed, cards, pregame, turn, flows
<1>1. CASE SomeoneHasPriority
  BY <1>0, <1>1 DEF SomeoneHasPriority
<1>2. CASE OpenCleanupRound
  BY <1>0, <1>2 DEF OpenCleanupRound, CleanupRoundDue
<1>3. CASE ResolvePermanent
  BY <1>0, <1>3 DEF ResolvePermanent, Resolves
<1>4. CASE EnterFrame
  BY <1>0, <1>4 DEF EnterFrame, Resolves, NoFrame, Seated, Priorities
<1>5. CASE ResumeFrame
  BY <1>0, <1>5 DEF ResumeFrame, Resolves
<1>6. CASE ChangeStep
  BY <1>0, <1>6 DEF ChangeStep, StepEnds
<1>7. CASE EnterDraw
  BY <1>0, <1>7 DEF EnterDraw, StepEnds
<1>8. CASE SuspendDraw
  BY <1>0, <1>8 DEF SuspendDraw, StepEnds, Parked
<1>9. CASE BeginCleanup
  BY <1>0, <1>9 DEF BeginCleanup, StepEnds
<1>10. CASE NextTurn
  BY <1>0, <1>10 DEF NextTurn, StepEnds
<1> QED
  BY <1>1, <1>2, <1>3, <1>4, <1>5, <1>6, <1>7, <1>8, <1>9, <1>10 DEF AdvanceStep

LEMMA ResolutionKeepsControl == Control /\ Resolution => Control'
<1> SUFFICES ASSUME Control, Resolution PROVE Control'
  OBVIOUS
<1>0. /\ TypeInv' /\ query \in Queries /\ priority \in Priorities /\ turn_state \in TurnStates
      /\ stack \in Seq(Objects) /\ resolution \in Frames /\ flow \in Flows
      /\ placement \in Placements
  BY NextKeepsTypes DEF Control, Next, TypeInv, TypeOK
<1> USE DEF Control, FlowHome, DrawHome, DamageHome, PlacementHome, ResolutionHome, ResolutionHolds,
            InnerCast, BothPassed, cards, pregame, turn, flows
<1>1. CASE Ask
  BY <1>0, <1>1 DEF Ask, Handler, Parked, Seated, Priorities, Frames
<1>2. CASE TakeAnswer
  BY <1>0, <1>2 DEF TakeAnswer, AnswerRead, NoQuery, Seated, Priorities, Frames
<1>3. CASE CastDuringResolution
  BY <1>0, <1>3 DEF CastDuringResolution, Handler, Seated, Priorities, Frames, Flows
<1>4. CASE InnerCastDone
  BY <1>0, <1>4 DEF InnerCastDone, Seated, Priorities, Frames
<1>5. CASE FinishResolution
  BY <1>0, <1>5 DEF FinishResolution, Handler, NoFrame
<1> QED
  BY <1>1, <1>2, <1>3, <1>4, <1>5 DEF Resolution

LEMMA PriorityKeepsControl == Control /\ Priority => Control'
<1> SUFFICES ASSUME Control, Priority PROVE Control'
  OBVIOUS
<1>0. /\ TypeInv' /\ query \in Queries /\ priority \in Priorities /\ turn_state \in TurnStates
      /\ stack \in Seq(Objects) /\ resolution \in Frames /\ flow \in Flows
      /\ placement \in Placements
  BY NextKeepsTypes DEF Control, Next, TypeInv, TypeOK
<1> USE DEF Control, FlowHome, DrawHome, DamageHome, PlacementHome, ResolutionHome, ResolutionHolds,
            InnerCast, BothPassed, cards, pregame, turn, flows
<1>1. CASE Pass
  BY <1>0, <1>1 DEF Pass
<1>2. CASE SpecialAction
  BY <1>0, <1>2 DEF SpecialAction
<1>3. CASE BeginFlow
  BY <1>0, <1>3 DEF BeginFlow
<1> QED
  BY <1>1, <1>2, <1>3 DEF Priority

LEMMA FlowKeepsControl == Control /\ Flow => Control'
<1> SUFFICES ASSUME Control, Flow PROVE Control'
  OBVIOUS
<1>0. /\ TypeInv' /\ query \in Queries /\ priority \in Priorities /\ turn_state \in TurnStates
      /\ stack \in Seq(Objects) /\ resolution \in Frames /\ flow \in Flows
      /\ placement \in Placements
  BY NextKeepsTypes DEF Control, Next, TypeInv, TypeOK
<1> USE DEF Control, FlowHome, DrawHome, DamageHome, PlacementHome, ResolutionHome, ResolutionHolds,
            InnerCast, BothPassed, cards, pregame, turn, flows
<1>1. CASE FlowAsk
  BY <1>0, <1>1 DEF FlowAsk, Parked
<1>2. CASE FlowPay
  BY <1>0, <1>2 DEF FlowPay
<1>3. CASE FlowRewind
  <2>1. resolution.active => stack' # <<>>
    <3> SUFFICES ASSUME resolution.active PROVE stack' # <<>>
      OBVIOUS
    <3>1. flow.kind = "cast" /\ Len(stack) \in Nat /\ Len(stack) > 1 /\ stack # <<>>
      BY <1>0, <1>3 DEF FlowRewind
    <3>2. Len(stack') = Len(stack) - 1
      BY <1>0, <1>3, <3>1, WithoutType DEF FlowRewind
    <3> QED
      BY <3>1, <3>2
  <2>2. pc' # "flow" /\ flow' = NoFlow
    BY <1>3 DEF FlowRewind, FlowReturns
  <2> QED
    BY <1>0, <1>3, <2>1, <2>2 DEF FlowRewind, FlowReturns
<1>4. CASE FlowDone
  BY <1>0, <1>4 DEF FlowDone, FlowReturns, NoFlow, KeepsPasses
<1> QED
  BY <1>1, <1>2, <1>3, <1>4 DEF Flow

LEMMA InitControl == Init => Control
BY InitTypes
DEF Init, Control, FlowHome, DrawHome, DamageHome, PlacementHome, ResolutionHome, ResolutionHolds,
    InnerCast, NoFrame, NoPlacement

LEMMA NextKeepsControl == Control /\ [Next]_vars => Control'
<1> SUFFICES ASSUME Control, [Next]_vars PROVE Control'
  OBVIOUS
<1>0. TypeInv'
  BY NextKeepsTypes DEF Control
<1> USE DEF Control, FlowHome, DrawHome, DamageHome, PlacementHome, ResolutionHome,
            ResolutionHolds, InnerCast, BothPassed
<1>1. CASE LoopLeft
  BY <1>0, <1>1 DEF LoopLeft, cards, pregame, turn, flows
<1>2. CASE UNCHANGED vars
  BY <1>0, <1>2 DEF vars
<1>3. CASE Finished
  BY <1>2, <1>3 DEF Finished
<1> QED
  BY <1>1, <1>2, <1>3, AtTheTopKeepsControl, DispatchKeepsControl, PregameKeepsControl,
     TurnBasedKeepsControl, MandatoryKeepsControl, StateBasedKeepsControl, PlacementKeepsControl,
     AdvanceStepKeepsControl, ResolutionKeepsControl, PriorityKeepsControl, FlowKeepsControl
  DEF Next

LEMMA ControlInvariant == Spec => []Control
BY InitControl, NextKeepsControl, PTL DEF Spec

(* state_based_effects never runs with a resolution, a cast, an activation, a draw, a damage
   assignment or a trigger placement under way, however the loop suspends and resumes them. *)
THEOREM ChecksBetweenFlows == Spec => []ChecksOnlyBetweenFlows
<1>1. Control => ChecksOnlyBetweenFlows
  BY DEF Control, ChecksOnlyBetweenFlows, FlowHome, DrawHome, DamageHome, PlacementHome,
         ResolutionHome
<1> QED
  BY <1>1, ControlInvariant, PTL

(* From the first question of a resolution to its end both players count as having passed, a spell
   cast during it included: advance_step always goes back into it. *)
THEOREM PassesHeld == Spec => []ResolutionHoldsPasses
<1>1. Control => ResolutionHoldsPasses
  BY DEF Control, ResolutionHolds, ResolutionHoldsPasses
<1> QED
  BY <1>1, ControlInvariant, PTL

-----------------------------------------------------------------------------
(***************************************************************************)
(* GameLoop implements TurnStructure: whatever the loop suspends, resumes   *)
(* and asks, the turns it plays are those of the abstract specification.    *)
(***************************************************************************)


(***************************************************************************)
(* When the step machine may be entered: a check in progress knows the     *)
(* stage of the game it belongs to, a resolution question has its           *)
(* resolution, and advance_step runs in a game that goes on unless it runs  *)
(* to go back into a resolution.                                            *)
(***************************************************************************)
SiteHome ==
  /\ site # "none" => pc \in {"sbe", "placing", "returned"}
  /\ placement.resumed => /\ site = "none"
                          /\ pc = "placing" \/ (pc = "top" /\ query.tag = "TRIGGER_PLACE")
SiteStage ==
  /\ site = "fiat" => stage = "FIAT_SBE"
  /\ site = "opening" => stage = "OPENING_SBE"
  /\ site \in {"pre", "post"} => stage = "DONE"
StageClock ==
  /\ stage # "DONE" => turn_state.turn = 0 /\ turn_state.step = "UNTAP"
  /\ resolution.active \/ pc \in {"advance", "post_mandatory"} => stage = "DONE"
FrameKnown ==
  /\ pc = "resolving" => resolution.active
  /\ query.tag = "RESOLUTION" => resolution.active
  /\ pc = "flow" /\ flow.caller = "resolution" => resolution.active
StillOn == pc = "advance" => resolution.active \/ ~ended

Clock == Control /\ SiteHome /\ SiteStage /\ StageClock /\ FrameKnown /\ StillOn

LEMMA InitClock == Init => Clock
BY InitControl
DEF Init, Clock, SiteHome, SiteStage, StageClock, FrameKnown, StillOn, NoFrame, NoQuery,
    NoPlacement, NoFlow

LEMMA AtTheTopKeepsClock == Clock /\ AtTheTop => Clock'
<1> SUFFICES ASSUME Clock, AtTheTop PROVE Clock'
  OBVIOUS
<1>0. /\ Control' /\ query \in Queries /\ turn_state \in TurnStates /\ resolution \in Frames
      /\ flow \in Flows /\ placement \in Placements /\ PlacementHome /\ ResolutionHome
  BY NextKeepsControl DEF Clock, Control, Next, TypeInv, TypeOK
<1> USE DEF Clock, SiteHome, SiteStage, StageClock, FrameKnown, StillOn, PlacementHome,
            ResolutionHome, cards, pregame, turn, flows
<1>1. CASE LeaveLoop
  BY <1>0, <1>1 DEF LeaveLoop, LoopLive, Suspended
<1>2. CASE DiscardConceded
  BY <1>0, <1>2 DEF DiscardConceded, NoQuery, NoFrame, NoPlacement
<1>3. CASE AnswerQuery
  BY <1>0, <1>3 DEF AnswerQuery
<1>4. CASE NothingParked
  BY <1>0, <1>4 DEF NothingParked, Suspended
<1>5. CASE Concede
  BY <1>0, <1>5 DEF Concede, Reading
<1> QED
  BY <1>1, <1>2, <1>3, <1>4, <1>5 DEF AtTheTop

LEMMA DispatchKeepsClock == Clock /\ Dispatch => Clock'
<1> SUFFICES ASSUME Clock, Dispatch PROVE Clock'
  OBVIOUS
<1>0. /\ Control' /\ query \in Queries /\ turn_state \in TurnStates /\ resolution \in Frames
      /\ flow \in Flows /\ placement \in Placements /\ PlacementHome /\ ResolutionHome
  BY NextKeepsControl DEF Clock, Control, Next, TypeInv, TypeOK
<1> USE DEF Clock, SiteHome, SiteStage, StageClock, FrameKnown, StillOn, PlacementHome,
            ResolutionHome, cards, pregame, turn, flows
<1>1. CASE ResumeCombatTarget
  BY <1>0, <1>1 DEF ResumeCombatTarget, AtTop, NoQuery
<1>2. CASE ResumeDamageAssignment
  BY <1>0, <1>2 DEF ResumeDamageAssignment, AtTop, NoQuery, Queries
<1>3. CASE ResumeFlow
  BY <1>0, <1>3 DEF ResumeFlow, AtTop, NoQuery, Flows
<1>4. CASE ResumePlacement
  BY <1>0, <1>4 DEF ResumePlacement, AtTop, Placements
<1>5. CASE ResumeTurnDraw
  BY <1>0, <1>5 DEF ResumeTurnDraw, AtTop, NoQuery
<1>6. CASE KeepLatched
  BY <1>0, <1>6 DEF KeepLatched, AtTop
<1>7. CASE ReenterResolution
  BY <1>0, <1>7 DEF ReenterResolution, AtTop
<1> QED
  BY <1>1, <1>2, <1>3, <1>4, <1>5, <1>6, <1>7 DEF Dispatch

LEMMA PregameKeepsClock == Clock /\ Pregame => Clock'
<1> SUFFICES ASSUME Clock, Pregame PROVE Clock'
  OBVIOUS
<1>0. /\ Control' /\ query \in Queries /\ turn_state \in TurnStates /\ resolution \in Frames
      /\ flow \in Flows /\ placement \in Placements /\ PlacementHome /\ ResolutionHome
  BY NextKeepsControl DEF Clock, Control, Next, TypeInv, TypeOK
<1> USE DEF Clock, SiteHome, SiteStage, StageClock, FrameKnown, StillOn, PlacementHome,
            ResolutionHome, cards, pregame, turn, flows
<1>1. CASE Mulligans
  BY <1>0, <1>1 DEF Mulligans
<1>2. CASE FiatSetup
  BY <1>0, <1>2 DEF FiatSetup
<1>3. CASE OpeningActions
  BY <1>0, <1>3 DEF OpeningActions, SeatFirstTurn, TurnStates
<1>4. CASE PregameCheck
  BY <1>0, <1>4 DEF PregameCheck
<1> QED
  BY <1>1, <1>2, <1>3, <1>4 DEF Pregame

LEMMA TurnBasedKeepsClock == Clock /\ TurnBased => Clock'
<1> SUFFICES ASSUME Clock, TurnBased PROVE Clock'
  OBVIOUS
<1>0. /\ Control' /\ query \in Queries /\ turn_state \in TurnStates /\ resolution \in Frames
      /\ flow \in Flows /\ placement \in Placements /\ PlacementHome /\ ResolutionHome
  BY NextKeepsControl DEF Clock, Control, Next, TypeInv, TypeOK
<1> USE DEF Clock, SiteHome, SiteStage, StageClock, FrameKnown, StillOn, PlacementHome,
            ResolutionHome, cards, pregame, turn, flows
<1>1. CASE GameOver
  BY <1>0, <1>1 DEF GameOver, AtGate
<1>2. CASE NeedsDivision
  BY <1>0, <1>2 DEF NeedsDivision, AtGate
<1>3. CASE DealDamage
  BY <1>0, <1>3 DEF DealDamage, CheckUnless, AtGate
<1>4. CASE TurnBasedActions
  BY <1>0, <1>4 DEF TurnBasedActions, CheckUnless, AtGate, TurnStates
<1> QED
  BY <1>1, <1>2, <1>3, <1>4 DEF TurnBased

LEMMA MandatoryKeepsClock == Clock /\ Mandatory => Clock'
<1> SUFFICES ASSUME Clock, Mandatory PROVE Clock'
  OBVIOUS
<1>0. /\ Control' /\ query \in Queries /\ turn_state \in TurnStates /\ resolution \in Frames
      /\ flow \in Flows /\ placement \in Placements /\ PlacementHome /\ ResolutionHome
  BY NextKeepsControl DEF Clock, Control, Next, TypeInv, TypeOK
<1> USE DEF Clock, SiteHome, SiteStage, StageClock, FrameKnown, StillOn, PlacementHome,
            ResolutionHome, cards, pregame, turn, flows
<1>1. CASE RevealMiracle
  BY <1>0, <1>1 DEF RevealMiracle
<1>2. CASE DeclareAttackers
  BY <1>0, <1>2 DEF DeclareAttackers, AtChoice, Parked
<1>3. CASE DeclareBlockers
  BY <1>0, <1>3 DEF DeclareBlockers, AtChoice, Parked
<1>4. CASE AssignCombatDamage
  BY <1>0, <1>4 DEF AssignCombatDamage, AtChoice, Parked
<1>5. CASE CleanupDiscard
  BY <1>0, <1>5 DEF CleanupDiscard, AtChoice
<1>6. CASE PostMandatory
  BY <1>0, <1>6 DEF PostMandatory, CheckUnless
<1> QED
  BY <1>1, <1>2, <1>3, <1>4, <1>5, <1>6 DEF Mandatory

LEMMA StateBasedKeepsClock == Clock /\ StateBased => Clock'
<1> SUFFICES ASSUME Clock, StateBased PROVE Clock'
  OBVIOUS
<1>0. /\ Control' /\ query \in Queries /\ turn_state \in TurnStates /\ resolution \in Frames
      /\ flow \in Flows /\ placement \in Placements /\ PlacementHome /\ ResolutionHome
  BY NextKeepsControl DEF Clock, Control, Next, TypeInv, TypeOK
<1> USE DEF Clock, SiteHome, SiteStage, StageClock, FrameKnown, StillOn, PlacementHome,
            ResolutionHome, cards, pregame, turn, flows
<1>1. CASE SbeGameOver
  BY <1>0, <1>1 DEF SbeGameOver
<1>2. CASE AskEntering
  BY <1>0, <1>2 DEF AskEntering, InSbe, ArmSbe, Parked
<1>3. CASE CompleteEntering
  BY <1>0, <1>3 DEF CompleteEntering, InSbe, TakeLatched, NoQuery
<1>4. CASE PlayersLose
  BY <1>0, <1>4 DEF PlayersLose, InSbe
<1>5. CASE AskLegend
  BY <1>0, <1>5 DEF AskLegend, InSbe, ArmSbe, Parked
<1>6. CASE PerformSbas
  BY <1>0, <1>6 DEF PerformSbas, InSbe, TakeLatched, NoQuery, SbaMark, TurnStates
<1>7. CASE Settle
  BY <1>0, <1>7 DEF Settle, InSbe, NoPlacement
<1>8. CASE SbeReturned
  BY <1>0, <1>8 DEF SbeReturned, SeatFirstTurn, TurnStates
<1> QED
  BY <1>1, <1>2, <1>3, <1>4, <1>5, <1>6, <1>7, <1>8 DEF StateBased

LEMMA PlacementKeepsClock == Clock /\ Placement => Clock'
<1> SUFFICES ASSUME Clock, Placement PROVE Clock'
  OBVIOUS
<1>0. /\ Control' /\ query \in Queries /\ turn_state \in TurnStates /\ resolution \in Frames
      /\ flow \in Flows /\ placement \in Placements /\ PlacementHome /\ ResolutionHome
  BY NextKeepsControl DEF Clock, Control, Next, TypeInv, TypeOK
<1> USE DEF Clock, SiteHome, SiteStage, StageClock, FrameKnown, StillOn, PlacementHome,
            ResolutionHome, cards, pregame, turn, flows
<1>1. CASE AskPlacement
  BY <1>0, <1>1 DEF AskPlacement, Placing, Parked
<1>2. CASE TakePlacementAnswer
  BY <1>0, <1>2 DEF TakePlacementAnswer, Placing, NoQuery, Placements
<1>3. CASE PutTriggerOnStack
  BY <1>0, <1>3 DEF PutTriggerOnStack, Placing, PlacedOne, Placements
<1>4. CASE RemoveTrigger
  BY <1>0, <1>4 DEF RemoveTrigger, Placing, PlacedOne, Placements
<1>5. CASE PlacementDone
  BY <1>0, <1>5 DEF PlacementDone, NoPlacement, CheckAgain
<1> QED
  BY <1>1, <1>2, <1>3, <1>4, <1>5 DEF Placement

LEMMA AdvanceStepKeepsClock == Clock /\ AdvanceStep => Clock'
<1> SUFFICES ASSUME Clock, AdvanceStep PROVE Clock'
  OBVIOUS
<1>0. /\ Control' /\ query \in Queries /\ turn_state \in TurnStates /\ resolution \in Frames
      /\ flow \in Flows /\ placement \in Placements /\ PlacementHome /\ ResolutionHome
  BY NextKeepsControl DEF Clock, Control, Next, TypeInv, TypeOK
<1> USE DEF Clock, SiteHome, SiteStage, StageClock, FrameKnown, StillOn, PlacementHome,
            ResolutionHome, cards, pregame, turn, flows
<1>1. CASE SomeoneHasPriority
  BY <1>0, <1>1 DEF SomeoneHasPriority
<1>2. CASE OpenCleanupRound
  BY <1>0, <1>2 DEF OpenCleanupRound, TurnStates
<1>3. CASE ResolvePermanent
  BY <1>0, <1>3 DEF ResolvePermanent, Resolves
<1>4. CASE EnterFrame
  BY <1>0, <1>4 DEF EnterFrame, Resolves, NoFrame
<1>5. CASE ResumeFrame
  BY <1>0, <1>5 DEF ResumeFrame, Resolves
<1>6. CASE ChangeStep
  BY <1>0, <1>6 DEF ChangeStep, StepEnds
<1>7. CASE EnterDraw
  BY <1>0, <1>7 DEF EnterDraw, StepEnds
<1>8. CASE SuspendDraw
  BY <1>0, <1>8 DEF SuspendDraw, Parked, StepEnds
<1>9. CASE BeginCleanup
  BY <1>0, <1>9 DEF BeginCleanup, StepEnds
<1>10. CASE NextTurn
  BY <1>0, <1>10 DEF NextTurn, StepEnds
<1> QED
  BY <1>1, <1>2, <1>3, <1>4, <1>5, <1>6, <1>7, <1>8, <1>9, <1>10 DEF AdvanceStep

LEMMA ResolutionKeepsClock == Clock /\ Resolution => Clock'
<1> SUFFICES ASSUME Clock, Resolution PROVE Clock'
  OBVIOUS
<1>0. /\ Control' /\ query \in Queries /\ turn_state \in TurnStates /\ resolution \in Frames
      /\ flow \in Flows /\ placement \in Placements /\ PlacementHome /\ ResolutionHome
  BY NextKeepsControl DEF Clock, Control, Next, TypeInv, TypeOK
<1> USE DEF Clock, SiteHome, SiteStage, StageClock, FrameKnown, StillOn, PlacementHome,
            ResolutionHome, cards, pregame, turn, flows
<1>1. CASE Ask
  BY <1>0, <1>1 DEF Ask, Handler, Parked, Frames
<1>2. CASE TakeAnswer
  BY <1>0, <1>2 DEF TakeAnswer, AnswerRead, NoQuery, Frames
<1>3. CASE CastDuringResolution
  BY <1>0, <1>3 DEF CastDuringResolution, Handler, Frames
<1>4. CASE InnerCastDone
  BY <1>0, <1>4 DEF InnerCastDone, Frames
<1>5. CASE FinishResolution
  BY <1>0, <1>5 DEF FinishResolution, Handler, Suspended, NoFrame
<1> QED
  BY <1>1, <1>2, <1>3, <1>4, <1>5 DEF Resolution

LEMMA PriorityKeepsClock == Clock /\ Priority => Clock'
<1> SUFFICES ASSUME Clock, Priority PROVE Clock'
  OBVIOUS
<1>0. /\ Control' /\ query \in Queries /\ turn_state \in TurnStates /\ resolution \in Frames
      /\ flow \in Flows /\ placement \in Placements /\ PlacementHome /\ ResolutionHome
  BY NextKeepsControl DEF Clock, Control, Next, TypeInv, TypeOK
<1> USE DEF Clock, SiteHome, SiteStage, StageClock, FrameKnown, StillOn, PlacementHome,
            ResolutionHome, cards, pregame, turn, flows
<1>1. CASE Pass
  BY <1>0, <1>1 DEF Pass
<1>2. CASE SpecialAction
  BY <1>0, <1>2 DEF SpecialAction
<1>3. CASE BeginFlow
  BY <1>0, <1>3 DEF BeginFlow
<1> QED
  BY <1>1, <1>2, <1>3 DEF Priority

LEMMA FlowKeepsClock == Clock /\ Flow => Clock'
<1> SUFFICES ASSUME Clock, Flow PROVE Clock'
  OBVIOUS
<1>0. /\ Control' /\ query \in Queries /\ turn_state \in TurnStates /\ resolution \in Frames
      /\ flow \in Flows /\ placement \in Placements /\ PlacementHome /\ ResolutionHome
  BY NextKeepsControl DEF Clock, Control, Next, TypeInv, TypeOK
<1> USE DEF Clock, SiteHome, SiteStage, StageClock, FrameKnown, StillOn, PlacementHome,
            ResolutionHome, cards, pregame, turn, flows
<1>1. CASE FlowAsk
  BY <1>0, <1>1 DEF FlowAsk, Parked
<1>2. CASE FlowPay
  BY <1>0, <1>2 DEF FlowPay, Flows
<1>3. CASE FlowRewind
  BY <1>0, <1>3 DEF FlowRewind, FlowReturns, NoFlow
<1>4. CASE FlowDone
  BY <1>0, <1>4 DEF FlowDone, FlowReturns, NoFlow
<1> QED
  BY <1>1, <1>2, <1>3, <1>4 DEF Flow

LEMMA NextKeepsClock == Clock /\ [Next]_vars => Clock'
<1> SUFFICES ASSUME Clock, [Next]_vars PROVE Clock'
  OBVIOUS
<1>0. Control'
  BY NextKeepsControl DEF Clock
<1> USE DEF Clock, SiteHome, SiteStage, StageClock, FrameKnown, StillOn
<1>1. CASE LoopLeft
  BY <1>0, <1>1 DEF LoopLeft, cards, pregame, turn, flows
<1>2. CASE UNCHANGED vars
  BY <1>0, <1>2 DEF vars
<1>3. CASE Finished
  BY <1>2, <1>3 DEF Finished
<1> QED
  BY <1>1, <1>2, <1>3, AtTheTopKeepsClock, DispatchKeepsClock, PregameKeepsClock,
     TurnBasedKeepsClock, MandatoryKeepsClock, StateBasedKeepsClock, PlacementKeepsClock,
     AdvanceStepKeepsClock, ResolutionKeepsClock, PriorityKeepsClock, FlowKeepsClock
  DEF Next

-----------------------------------------------------------------------------
(* How a step of the loop looks to the turn structure. *)

TurnVars == <<turn_state.step, turn_state.turn, turn_state.active, extra_turns, ended>>
Ends == ended' = TRUE /\ UNCHANGED <<turn_state, extra_turns>>
Owes == (\E p \in Players : extra_turns' = Append(extra_turns, p)) /\ UNCHANGED <<turn_state, ended>>
Rests == UNCHANGED <<turn_state, extra_turns, ended>>

LEMMA TurnStutter ==
  ASSUME Ends \/ Owes \/ Rests
  PROVE  [Turns!Next]_(Turns!vars)
BY DEF Ends, Owes, Rests, Turns!Next, Turns!vars, Turns!GameEnds, Turns!TurnOwed, Turns!Seats, Players

LEMMA CardsMayShow ==
  ASSUME NEW kinds, CardsMay(kinds)
  PROVE  /\ \/ UNCHANGED <<extra_turns, ended>>
            \/ ended' = TRUE /\ UNCHANGED extra_turns
            \/ (\E p \in Players : extra_turns' = Append(extra_turns, p)) /\ UNCHANGED ended
         /\ "extra_turn" \notin kinds => UNCHANGED extra_turns
         /\ "win" \notin kinds => UNCHANGED ended
BY DEF CardsMay, Caused, cards

LEMMA CardsMayKeep ==
  ASSUME NEW kinds, CardsMay(kinds) \/ UNCHANGED cards, kinds \cap {"extra_turn", "win"} = {}
  PROVE  UNCHANGED <<extra_turns, ended>>
<1>1. "extra_turn" \notin kinds /\ "win" \notin kinds
  OBVIOUS
<1> QED
  BY <1>1, CardsMayShow DEF cards

LEMMA InitRefines == Init => Turns!Init
BY DEF Init, Turns!Init, Turns!Seats

(***************************************************************************)
(* Each action of the loop is a step of the turn structure or shows it     *)
(* nothing.                                                                *)
(***************************************************************************)
Shows == [Turns!Next]_(Turns!vars)

LEMMA SameTurn ==
  ASSUME Rests \/ Ends \/ UNCHANGED TurnVars
  PROVE  Shows
BY TurnStutter DEF Shows, TurnVars, Turns!vars, Turns!Next

LEMMA TopShows == Clock /\ AtTheTop => Shows
BY SameTurn
DEF AtTheTop, LeaveLoop, DiscardConceded, AnswerQuery, NothingParked, Concede, Rests, Ends, cards,
    turn

LEMMA DispatchShows == Clock /\ Dispatch => Shows
<1>1. Clock /\ ResumeTurnDraw => Shows
  BY CardsMayShow, TurnStutter DEF ResumeTurnDraw, Rests, Ends, Owes, Shows, turn
<1> QED
  BY <1>1, SameTurn
  DEF Dispatch, ResumeCombatTarget, ResumeDamageAssignment, ResumeFlow, ResumePlacement, KeepLatched,
      ReenterResolution, Rests, cards, turn

LEMMA PregameShows == Clock /\ Pregame => Shows
<1> SUFFICES ASSUME Clock, Pregame PROVE Shows
  OBVIOUS
<1>1. CASE Mulligans \/ PregameCheck
  BY <1>1, SameTurn DEF Mulligans, PregameCheck, Rests, cards, turn
<1>2. CASE FiatSetup
  <2>1. UNCHANGED <<extra_turns, ended>>
    BY <1>2, CardsMayKeep DEF FiatSetup
  <2> QED
    BY <1>2, <2>1, SameTurn DEF FiatSetup, Rests, turn
<1>3. CASE OpeningActions
  <2>1. UNCHANGED <<extra_turns, ended>>
    BY <1>3, CardsMayKeep DEF OpeningActions
  <2>2. CASE UNCHANGED turn_state
    BY <2>1, <2>2, SameTurn DEF Rests
  <2>3. CASE SeatFirstTurn
    <3>1. stage # "DONE" /\ turn_state.turn = 0 /\ turn_state.step = "UNTAP"
      BY <1>3 DEF OpeningActions, Clock, StageClock
    <3>2. first \in Players /\ turn_state \in TurnStates
      BY DEF Clock, Control, TypeInv, TypeOK
    <3> QED
      BY <2>1, <2>3, <3>1, <3>2
      DEF SeatFirstTurn, TurnStates, Players, Shows, Turns!Next, Turns!vars, Turns!FirstTurn, Turns!Seats
  <2> QED
    BY <1>3, <2>2, <2>3 DEF OpeningActions
<1> QED
  BY <1>1, <1>2, <1>3 DEF Pregame

LEMMA TurnBasedShows == Clock /\ TurnBased => Shows
<1> SUFFICES ASSUME Clock, TurnBased PROVE Shows
  OBVIOUS
<1>1. CASE GameOver \/ NeedsDivision
  BY <1>1, SameTurn DEF GameOver, NeedsDivision, Rests, cards, turn
<1>2. CASE DealDamage
  <2>1. UNCHANGED <<extra_turns, ended>>
    BY <1>2, CardsMayKeep DEF DealDamage
  <2> QED
    BY <1>2, <2>1, SameTurn DEF DealDamage, Rests
<1>3. CASE TurnBasedActions
  <2>1. UNCHANGED <<extra_turns, ended>>
    BY <1>3, CardsMayKeep DEF TurnBasedActions
  <2>2. turn_state \in TurnStates
    BY DEF Clock, Control, TypeInv, TypeOK
  <2> QED
    BY <1>3, <2>1, <2>2, SameTurn DEF TurnBasedActions, TurnStates, TurnVars
<1> QED
  BY <1>1, <1>2, <1>3 DEF TurnBased

LEMMA MandatoryShows == Clock /\ Mandatory => Shows
<1>1. Clock /\ DeclareAttackers => Shows
  <2> SUFFICES ASSUME DeclareAttackers PROVE Shows
    OBVIOUS
  <2>1. UNCHANGED <<extra_turns, ended>>
    BY CardsMayKeep DEF DeclareAttackers
  <2> QED
    BY <2>1, SameTurn DEF DeclareAttackers, Rests
<1> QED
  BY <1>1, SameTurn
  DEF Mandatory, RevealMiracle, DeclareBlockers, AssignCombatDamage, CleanupDiscard, PostMandatory,
      Rests, cards, turn

LEMMA StateBasedShows == Clock /\ StateBased => Shows
<1> SUFFICES ASSUME Clock, StateBased PROVE Shows
  OBVIOUS
<1>0. turn_state \in TurnStates /\ first \in Players
  BY DEF Clock, Control, TypeInv, TypeOK
<1>1. CASE PerformSbas
  BY <1>0, <1>1, SameTurn DEF PerformSbas, SbaMark, TurnStates, TurnVars
<1>2. CASE SbeReturned
  <2>1. CASE UNCHANGED turn_state
    BY <1>2, <2>1, SameTurn DEF SbeReturned, Rests, cards
  <2>2. CASE site = "opening" /\ SeatFirstTurn
    <3>1. turn_state.turn = 0 /\ turn_state.step = "UNTAP"
      BY <2>2 DEF Clock, SiteStage, StageClock
    <3> QED
      BY <1>0, <1>2, <2>2, <3>1
      DEF SbeReturned, SeatFirstTurn, TurnStates, Players, cards, Shows, Turns!Next, Turns!vars,
          Turns!FirstTurn, Turns!Seats
  <2> QED
    BY <1>2, <2>1, <2>2 DEF SbeReturned
<1>3. CASE \/ SbeGameOver \/ AskEntering \/ CompleteEntering \/ PlayersLose \/ AskLegend \/ Settle
  BY <1>3, SameTurn
  DEF SbeGameOver, AskEntering, CompleteEntering, PlayersLose, AskLegend, Settle, Rests, Ends, cards,
      turn
<1> QED
  BY <1>1, <1>2, <1>3 DEF StateBased

LEMMA PlacementShows == Clock /\ Placement => Shows
BY SameTurn
DEF Placement, AskPlacement, TakePlacementAnswer, PutTriggerOnStack, RemoveTrigger, PlacementDone,
    Rests, cards, turn

LEMMA AdvanceStepShows == Clock /\ AdvanceStep => Shows
<1> SUFFICES ASSUME Clock, AdvanceStep PROVE Shows
  OBVIOUS
<1>0. /\ turn_state \in TurnStates /\ ended \in BOOLEAN /\ extra_turns \in Seq(Players)
      /\ Active \in Players
  BY DEF Clock, Control, TypeInv, TypeOK, Active, TurnStates
<1>1. StepEnds => ~ended
  BY DEF StepEnds, Clock, StillOn, Control, ResolutionHolds
<1>2. CASE SomeoneHasPriority \/ EnterFrame \/ ResumeFrame
  BY <1>2, SameTurn DEF SomeoneHasPriority, EnterFrame, ResumeFrame, Rests, cards, turn
<1>3. CASE OpenCleanupRound
  BY <1>0, <1>3, SameTurn DEF OpenCleanupRound, TurnStates, TurnVars, cards
<1>4. CASE ResolvePermanent
  <2>1. UNCHANGED <<extra_turns, ended>>
    BY <1>4, CardsMayKeep DEF ResolvePermanent
  <2> QED
    BY <1>4, <2>1, SameTurn DEF ResolvePermanent, Rests, turn
<1>5. CASE ChangeStep
  <2>1. UNCHANGED <<extra_turns, ended>>
    BY <1>5, CardsMayKeep DEF ChangeStep
  <2>2. PICK s \in StepsAfter(turn_state.step) : turn_state' = [turn_state EXCEPT !.step = s]
    BY <1>5 DEF ChangeStep
  <2>3. <<turn_state.step, s>> \in Turns!Follows
    <3>1. turn_state.step \in Steps
      BY <1>0 DEF TurnStates
    <3> QED
      BY <2>2, <3>1 DEF StepsAfter, Steps, Turns!Follows
  <2>4. /\ turn_state'.step = s /\ turn_state'.turn = turn_state.turn
        /\ turn_state'.active = turn_state.active
    BY <1>0, <2>2 DEF TurnStates
  <2> QED
    BY <1>0, <1>1, <1>5, <2>1, <2>3, <2>4 DEF ChangeStep, Shows, Turns!Next, Turns!NextStep
<1>6. CASE EnterDraw \/ SuspendDraw
  <2>1. UNCHANGED extra_turns /\ ended' \in BOOLEAN
    <3>1. EnterDraw => UNCHANGED extra_turns /\ ended' \in BOOLEAN
      <4>1. ASSUME NEW kinds, kinds \cap {"extra_turn"} = {}, CardsMay(kinds)
            PROVE  UNCHANGED extra_turns /\ ended' \in BOOLEAN
        <5>1. "extra_turn" \notin kinds
          BY <4>1
        <5> QED
          BY <1>0, <4>1, <5>1, CardsMayShow
      <4>2. \/ ~EnterDraw
            \/ UNCHANGED <<extra_turns, ended>>
            \/ CardsMay({"trigger"})
            \/ CardsMay({"trigger", "excess", "miracle", "win"})
        BY DEF EnterDraw
      <4> QED
        BY <1>0, <4>1, <4>2
    <3> QED
      BY <1>0, <1>6, <3>1 DEF SuspendDraw, cards
  <2>2. StepEnds /\ turn_state.step = "UPKEEP" /\ turn_state' = [turn_state EXCEPT !.step = "DRAW"]
    BY <1>6 DEF EnterDraw, SuspendDraw
  <2>3. /\ turn_state'.step = "DRAW" /\ turn_state'.turn = turn_state.turn
        /\ turn_state'.active = turn_state.active
    BY <1>0, <2>2 DEF TurnStates
  <2> QED
    BY <1>1, <2>1, <2>2, <2>3 DEF Shows, Turns!Next, Turns!NextStep, Turns!Follows
<1>7. CASE BeginCleanup
  <2>1. UNCHANGED <<extra_turns, ended>>
    BY <1>7, CardsMayKeep DEF BeginCleanup
  <2>2. /\ turn_state'.step = "CLEANUP" /\ turn_state'.turn = turn_state.turn
        /\ turn_state'.active = turn_state.active
    BY <1>0, <1>7 DEF BeginCleanup, CleanupBegun, TurnStates
  <2>3. CASE turn_state.step = "END_STEP"
    BY <1>0, <1>1, <1>7, <2>1, <2>2, <2>3
    DEF BeginCleanup, Shows, Turns!Next, Turns!NextStep, Turns!Follows
  <2>4. CASE turn_state.step = "CLEANUP"
    BY <2>1, <2>2, <2>4, SameTurn DEF TurnVars
  <2> QED
    BY <1>7, <2>3, <2>4 DEF BeginCleanup
<1>8. CASE NextTurn
  <2>1. /\ ~ended /\ turn_state.step = "CLEANUP" /\ UNCHANGED ended
        /\ turn_state'.step = "UNTAP" /\ turn_state'.turn = turn_state.turn + 1
        /\ turn_state'.active = NextActive
    BY <1>0, <1>1, <1>8 DEF NextTurn, TurnStates
  <2>2. CASE extra_turns = <<>>
    <3>1. NextActive = Turns!Other(turn_state.active) /\ UNCHANGED extra_turns
      BY <1>8, <2>2 DEF NextTurn, NextActive, Opponent, Turns!Other, Active
    <3> QED
      BY <2>1, <2>2, <3>1 DEF Shows, Turns!Next, Turns!NextTurn
  <2>3. CASE extra_turns # <<>>
    <3>1. extra_turns' = Without(extra_turns, Len(extra_turns))
          /\ NextActive = extra_turns[Len(extra_turns)]
      BY <1>8, <2>3 DEF NextTurn, NextActive
    <3>2. extra_turns = Append(extra_turns', NextActive)
      BY <1>0, <2>3, <3>1 DEF Without
    <3> QED
      BY <2>1, <2>3, <3>2 DEF Shows, Turns!Next, Turns!NextTurn
  <2> QED
    BY <2>2, <2>3
<1> QED
  BY <1>2, <1>3, <1>4, <1>5, <1>6, <1>7, <1>8 DEF AdvanceStep

LEMMA ResolutionShows == Clock /\ Resolution => Shows
<1>1. Ask => Shows
  BY CardsMayShow, TurnStutter DEF Ask, Rests, Ends, Owes, Shows, turn
<1>2. FinishResolution => Shows
  BY CardsMayShow, TurnStutter DEF FinishResolution, Rests, Ends, Owes, Shows, turn
<1> QED
  BY <1>1, <1>2, SameTurn
  DEF Resolution, TakeAnswer, CastDuringResolution, InnerCastDone, Rests, cards, turn

LEMMA PriorityShows == Clock /\ Priority => Shows
<1>1. SpecialAction => Shows
  <2> SUFFICES ASSUME SpecialAction PROVE Shows
    OBVIOUS
  <2>1. UNCHANGED <<extra_turns, ended>>
    BY CardsMayKeep DEF SpecialAction, cards
  <2> QED
    BY <2>1, SameTurn DEF SpecialAction, Rests, turn
<1> QED
  BY <1>1, SameTurn DEF Priority, Pass, BeginFlow, Rests, cards, turn

LEMMA FlowShows == Clock /\ Flow => Shows
<1>1. FlowPay \/ FlowDone => UNCHANGED <<extra_turns, ended>>
  <2>1. FlowEffects \cap {"extra_turn", "win"} = {}
    BY DEF FlowEffects, Costs
  <2> QED
    BY <2>1, CardsMayKeep DEF FlowPay, FlowDone
<1> QED
  BY <1>1, SameTurn DEF Flow, FlowAsk, FlowPay, FlowRewind, FlowDone, Rests, cards, turn

LEMMA StepShows == Clock /\ [Next]_vars => Shows
<1>1. LoopLeft \/ Finished \/ UNCHANGED vars => Shows
  BY SameTurn DEF LoopLeft, Finished, Rests, cards, turn, vars
<1> QED
  BY <1>1, TopShows, DispatchShows, PregameShows, TurnBasedShows, MandatoryShows, StateBasedShows,
     PlacementShows, AdvanceStepShows, ResolutionShows, PriorityShows, FlowShows
  DEF Next

(* The turns the decision loop plays are those of TurnStructure, for every set of happenings and
   all bounds: steps in their order, a turn ended only in its cleanup step, extra turns last in
   first out, nothing begun in a game that is over. *)
THEOREM ImplementsTurns == Spec => FollowsTurnStructure
BY InitClock, NextKeepsClock, InitRefines, StepShows, PTL
DEF Spec, FollowsTurnStructure, Turns!Spec, Shows

(***************************************************************************)
(* Parking.  The combat action a step begins with: it comes before          *)
(* anything else in the step.                                               *)
(***************************************************************************)
DueAttackers == turn_state.step = "DECLARE_ATTACKERS" /\ ~combat.attackers_declared
DueBlockers == turn_state.step = "DECLARE_BLOCKERS" /\ ~combat.blockers_declared
DueCombat == DueAttackers \/ DueBlockers \/ DamageStep
CombatTags == {"ATTACK_TARGET", "BLOCK_TARGET", "DAMAGE_ASSIGN"}

DueFirst ==
  DueCombat =>
    /\ stage = "DONE" /\ priority.passed = {}
    /\ pc \in {"top", "gate", "mandatory", "leaving", "exited"}
    /\ query.tag \in CombatTags \cup {"NONE"}
    /\ DueAttackers => priority.holder = Active

(* A question of combat belongs to the action that is due. *)
CombatHome ==
  /\ query.tag \in {"ATTACK_TARGET", "BLOCK_TARGET"} => DueCombat
  /\ query.tag = "DAMAGE_ASSIGN" => DamageStep /\ query.chooser = Active

(* A mandatory choice is made before the next state-based check, and is the one that is due. *)
ChoiceHome ==
  choice # "NONE" =>
    /\ stage = "DONE"
    /\ pc \in {"top", "gate", "mandatory", "leaving", "exited"}
    /\ query.tag \in CombatTags \cup {"NONE", "SBE_LATCHED"}
ChoiceDue ==
  pc = "mandatory" =>
    /\ miracle # "none" \/ choice # "NONE"
    /\ choice = "DECLARE_ATTACKERS" => DueAttackers
    /\ choice = "DECLARE_BLOCKERS" => DueBlockers
    /\ choice = "ASSIGN_COMBAT_DAMAGE" => DamageStep
    /\ choice = "CLEANUP_DISCARD" => turn_state.step = "CLEANUP"

(* Away from the loop top only an answer can be latched, on its way to its reader. *)
QueryHome ==
  Suspended =>
    \/ pc = "top"
    \/ query.answered /\ \/ query.tag = "SBE_LATCHED" /\ pc \in {"gate", "mandatory", "sbe"}
                         \/ query.tag = "RESOLUTION" /\ pc \in {"advance", "resolving"}
                         \/ query.tag = "TRIGGER_PLACE" /\ pc = "placing"
QuerySeat == Suspended /\ ~query.answered => priority.holder = query.chooser

(* A question has the suspended procedure its tag names; a cast or an activation runs with its
   player in the seat. *)
QueryOwner ==
  /\ query.tag = "CAST" => flow.kind = "cast"
  /\ query.tag = "ACTIVATION" => flow.kind \in {"activation", "mana"}
  /\ query.tag = "DAMAGE_ASSIGN" => damage
  /\ query.tag = "TURN_DRAW" => draw
  /\ query.tag = "TRIGGER_PLACE" => placement.active /\ Count(placement.queue) > 0
FlowSeat ==
  /\ pc = "flow" => flow.kind # "none"
  /\ flow.kind # "none" => priority.holder = flow.actor

(* A check knows its call site, a placement in progress is recorded, the loop is left after the
   pregame. *)
SiteKnown ==
  /\ pc \in {"sbe", "returned"} \/ (pc = "placing" /\ ~placement.resumed) => site # "none"
  /\ pc = "placing" => placement.active
LoopEnds == pc = "leaving" => stage = "DONE"

(* Until the check reads its latched answer, its question is the one it would ask again. *)
LatchedHome ==
  query.tag = "SBE_LATCHED" =>
    /\ stage \in {"FIAT_SBE", "OPENING_SBE", "DONE"}
    /\ SbeQuestion = <<query.key, query.chooser>>
    /\ ended => unwind /\ pc \in {"top", "mandatory"}

Parking ==
  /\ DueFirst /\ CombatHome /\ ChoiceHome /\ ChoiceDue /\ QueryHome /\ QuerySeat /\ QueryOwner
  /\ FlowSeat /\ SiteKnown /\ LoopEnds /\ LatchedHome

LEMMA InitParking == Init => Parking
BY DEF Init, Parking, DueFirst, DueCombat, DueAttackers, DueBlockers, DamageStep, CombatHome,
   ChoiceHome, ChoiceDue, QueryHome, QuerySeat, QueryOwner, FlowSeat, SiteKnown, LoopEnds,
   LatchedHome, Suspended, NoQuery, NoFlow

LEMMA AtTheTopKeepsParking == Clock /\ Parking /\ AtTheTop => Parking'
<1> SUFFICES ASSUME Clock, Parking, AtTheTop PROVE Parking'
  OBVIOUS
<1>0. /\ FlowHome /\ DrawHome /\ DamageHome /\ PlacementHome /\ ResolutionHome /\ ResolutionHolds
      /\ site \in Sites /\ SiteStage /\ StageClock /\ FrameKnown /\ StillOn
      /\ query \in Queries /\ priority \in Priorities /\ turn_state \in TurnStates
      /\ combat \in Combats /\ flow \in Flows /\ placement \in Placements /\ stage \in Stages
      /\ choice \in Choices /\ miracle \in Seat /\ world \in Worlds
  BY DEF Clock, Control, TypeInv, TypeOK
<1> USE DEF Parking, DueFirst, DueCombat, DueAttackers, DueBlockers, DamageStep, CombatTags,
            CombatHome, ChoiceHome, ChoiceDue, QueryHome, QuerySeat, QueryOwner, FlowSeat,
            FlowHome, NoFlow, SiteKnown, LoopEnds, LatchedHome, SbeQuestion, LegendOwner, Suspended,
            Active, cards, pregame, turn, flows
<1>1. CASE LeaveLoop
  BY <1>0, <1>1 DEF LeaveLoop, LoopLive
<1>2. CASE DiscardConceded
  BY <1>0, <1>2 DEF DiscardConceded, NoFrame, NoQuery, NoPlacement
<1>3. CASE AnswerQuery
  BY <1>0, <1>3 DEF AnswerQuery, Queries
<1>4. CASE NothingParked
  BY <1>0, <1>4 DEF NothingParked
<1>5. CASE Concede
  BY <1>0, <1>5 DEF Concede, Reading
<1> QED
  BY <1>1, <1>2, <1>3, <1>4, <1>5 DEF AtTheTop

LEMMA DispatchKeepsParking == Clock /\ Parking /\ Dispatch => Parking'
<1> SUFFICES ASSUME Clock, Parking, Dispatch PROVE Parking'
  OBVIOUS
<1>0. /\ FlowHome /\ DrawHome /\ DamageHome /\ PlacementHome /\ ResolutionHome /\ ResolutionHolds
      /\ site \in Sites /\ SiteStage /\ StageClock /\ FrameKnown /\ StillOn
      /\ query \in Queries /\ priority \in Priorities /\ turn_state \in TurnStates
      /\ combat \in Combats /\ flow \in Flows /\ placement \in Placements /\ stage \in Stages
      /\ choice \in Choices /\ miracle \in Seat /\ world \in Worlds
  BY DEF Clock, Control, TypeInv, TypeOK
<1> USE DEF Parking, DueFirst, DueCombat, DueAttackers, DueBlockers, DamageStep, CombatTags,
            CombatHome, ChoiceHome, ChoiceDue, QueryHome, QuerySeat, QueryOwner, FlowSeat,
            FlowHome, NoFlow, SiteKnown, LoopEnds, LatchedHome, SbeQuestion, LegendOwner, Suspended,
            Active, cards, pregame, turn, flows
<1>1. CASE ResumeCombatTarget
  BY <1>0, <1>1 DEF ResumeCombatTarget, AtTop, NoQuery
<1>2. CASE ResumeDamageAssignment
  <2>1. damage /\ query.tag = "DAMAGE_ASSIGN"
    BY <1>0, <1>2 DEF ResumeDamageAssignment, AtTop, QueryOwner
  <2>2. \/ query' = [query EXCEPT !.answered = FALSE] /\ damage' = damage
        \/ query' = NoQuery
    BY <1>0, <1>2, Zenon DEF ResumeDamageAssignment
  <2>3. query'.tag = "DAMAGE_ASSIGN" => damage'
    <3>1. NoQuery.tag # "DAMAGE_ASSIGN"
      BY DEF NoQuery
    <3> QED
      BY <2>1, <2>2, <3>1, Zenon
  <2>4. QueryOwner'
    <3>1. query'.tag \in {"NONE", "DAMAGE_ASSIGN"}
      <4>1. query' = [query EXCEPT !.answered = FALSE] \/ query' = NoQuery
        BY <2>2
      <4>2. query.tag = "DAMAGE_ASSIGN"
        BY <2>1
      <4> QED
        BY <1>0, <4>1, <4>2 DEF NoQuery, Queries
    <3> QED
      BY <2>3, <3>1 DEF QueryOwner
  <2> HIDE DEF QueryOwner
  <2> QED
    BY <1>0, <1>2, <2>4 DEF ResumeDamageAssignment, AtTop, NoQuery, Seated, Priorities, Queries,
       Combats
<1>3. CASE ResumeFlow
  BY <1>0, <1>3 DEF ResumeFlow, AtTop, NoQuery, Flows
<1>4. CASE ResumePlacement
  BY <1>0, <1>4 DEF ResumePlacement, AtTop, Placements
<1>5. CASE ResumeTurnDraw
  BY <1>0, <1>5 DEF ResumeTurnDraw, AtTop, NoQuery, GivePriority, CardsMay
<1>6. CASE KeepLatched
  BY <1>0, <1>6 DEF KeepLatched, AtTop, Conceded
<1>7. CASE ReenterResolution
  BY <1>0, <1>7 DEF ReenterResolution, AtTop
<1> QED
  BY <1>1, <1>2, <1>3, <1>4, <1>5, <1>6, <1>7 DEF Dispatch

LEMMA PregameKeepsParking == Clock /\ Parking /\ Pregame => Parking'
<1> SUFFICES ASSUME Clock, Parking, Pregame PROVE Parking'
  OBVIOUS
<1>0. /\ FlowHome /\ DrawHome /\ DamageHome /\ PlacementHome /\ ResolutionHome /\ ResolutionHolds
      /\ site \in Sites /\ SiteStage /\ StageClock /\ FrameKnown /\ StillOn
      /\ query \in Queries /\ priority \in Priorities /\ turn_state \in TurnStates
      /\ combat \in Combats /\ flow \in Flows /\ placement \in Placements /\ stage \in Stages
      /\ choice \in Choices /\ miracle \in Seat /\ world \in Worlds
  BY DEF Clock, Control, TypeInv, TypeOK
<1> USE DEF Parking, DueFirst, DueCombat, DueAttackers, DueBlockers, DamageStep, CombatTags,
            CombatHome, ChoiceHome, ChoiceDue, QueryHome, QuerySeat, QueryOwner, FlowSeat,
            FlowHome, NoFlow, SiteKnown, LoopEnds, LatchedHome, SbeQuestion, LegendOwner, Suspended,
            Active, cards, pregame, turn, flows
<1>1. CASE Mulligans
  BY <1>0, <1>1 DEF Mulligans, Seated, Priorities
<1>2. CASE FiatSetup
  BY <1>0, <1>2 DEF FiatSetup
<1>3. CASE OpeningActions
  BY <1>0, <1>3 DEF OpeningActions, SeatFirstTurn, Seated, TurnStates, StageClock, SiteStage
<1>4. CASE PregameCheck
  BY <1>0, <1>4 DEF PregameCheck
<1> QED
  BY <1>1, <1>2, <1>3, <1>4 DEF Pregame

LEMMA TurnBasedKeepsParking == Clock /\ Parking /\ TurnBased => Parking'
<1> SUFFICES ASSUME Clock, Parking, TurnBased PROVE Parking'
  OBVIOUS
<1>0. /\ FlowHome /\ DrawHome /\ DamageHome /\ PlacementHome /\ ResolutionHome /\ ResolutionHolds
      /\ site \in Sites /\ SiteStage /\ StageClock /\ FrameKnown /\ StillOn
      /\ query \in Queries /\ priority \in Priorities /\ turn_state \in TurnStates
      /\ combat \in Combats /\ flow \in Flows /\ placement \in Placements /\ stage \in Stages
      /\ choice \in Choices /\ miracle \in Seat /\ world \in Worlds
  BY DEF Clock, Control, TypeInv, TypeOK
<1> USE DEF Parking, DueFirst, DueCombat, DueAttackers, DueBlockers, DamageStep, CombatTags,
            CombatHome, ChoiceHome, ChoiceDue, QueryHome, QuerySeat, QueryOwner, FlowSeat,
            FlowHome, NoFlow, SiteKnown, LoopEnds, LatchedHome, SbeQuestion, LegendOwner, Suspended,
            Active, cards, pregame, turn, flows
<1>1. CASE GameOver
  BY <1>0, <1>1 DEF GameOver, AtGate
<1>2. CASE NeedsDivision
  BY <1>0, <1>2 DEF NeedsDivision, AtGate, MayNeedDivision
<1>3. CASE DealDamage
  BY <1>0, <1>3 DEF DealDamage, AtGate, CheckUnless, CardsMay, Caused
<1>4. CASE TurnBasedActions
  <2>1. TurnBasedActions => \/ UNCHANGED <<world, miracle, ended>>
                            \/ /\ \E n \in 1..MaxDue - Due : world' = [world EXCEPT !.sba = @ + n]
                               /\ UNCHANGED <<miracle, ended>>
    BY DEF TurnBasedActions, CardsMay, Caused
  <2>2. UNCHANGED <<miracle, ended, SbeQuestion>> /\ world'.excess = world.excess
    BY <1>0, <1>4, <2>1 DEF Worlds, TurnBasedActions, EndsEffects, TurnStates
  <2> QED
    BY <1>0, <1>4, <2>2 DEF TurnBasedActions, AtGate, CheckUnless, EndsEffects, DueChoice,
       TurnStates
<1> QED
  BY <1>1, <1>2, <1>3, <1>4 DEF TurnBased

LEMMA MandatoryKeepsParking == Clock /\ Parking /\ Mandatory => Parking'
<1> SUFFICES ASSUME Clock, Parking, Mandatory PROVE Parking'
  OBVIOUS
<1>0. /\ FlowHome /\ DrawHome /\ DamageHome /\ PlacementHome /\ ResolutionHome /\ ResolutionHolds
      /\ site \in Sites /\ SiteStage /\ StageClock /\ FrameKnown /\ StillOn
      /\ query \in Queries /\ priority \in Priorities /\ turn_state \in TurnStates
      /\ combat \in Combats /\ flow \in Flows /\ placement \in Placements /\ stage \in Stages
      /\ choice \in Choices /\ miracle \in Seat /\ world \in Worlds
  BY DEF Clock, Control, TypeInv, TypeOK
<1> USE DEF Parking, DueFirst, DueCombat, DueAttackers, DueBlockers, DamageStep, CombatTags,
            CombatHome, ChoiceHome, ChoiceDue, QueryHome, QuerySeat, QueryOwner, FlowSeat,
            FlowHome, NoFlow, SiteKnown, LoopEnds, LatchedHome, SbeQuestion, LegendOwner, Suspended,
            Active, cards, pregame, turn, flows
<1>1. CASE RevealMiracle
  BY <1>0, <1>1 DEF RevealMiracle
<1>2. CASE DeclareAttackers
  BY <1>0, <1>2 DEF DeclareAttackers, AtChoice, Parked, Combats, Queries, CardsMay
<1>3. CASE DeclareBlockers
  BY <1>0, <1>3 DEF DeclareBlockers, AtChoice, Parked, Seated, Priorities, Queries, Combats
<1>4. CASE AssignCombatDamage
  BY <1>0, <1>4 DEF AssignCombatDamage, AtChoice, Parked, Seated, Priorities, Queries, Combats
<1>5. CASE CleanupDiscard
  BY <1>0, <1>5 DEF CleanupDiscard, AtChoice
<1>6. CASE PostMandatory
  BY <1>0, <1>6 DEF PostMandatory, CheckUnless
<1> QED
  BY <1>1, <1>2, <1>3, <1>4, <1>5, <1>6 DEF Mandatory

LEMMA StateBasedKeepsParking == Clock /\ Parking /\ StateBased => Parking'
<1> SUFFICES ASSUME Clock, Parking, StateBased PROVE Parking'
  OBVIOUS
<1>0. /\ FlowHome /\ DrawHome /\ DamageHome /\ PlacementHome /\ ResolutionHome /\ ResolutionHolds
      /\ site \in Sites /\ SiteStage /\ StageClock /\ FrameKnown /\ StillOn
      /\ query \in Queries /\ priority \in Priorities /\ turn_state \in TurnStates
      /\ combat \in Combats /\ flow \in Flows /\ placement \in Placements /\ stage \in Stages
      /\ choice \in Choices /\ miracle \in Seat /\ world \in Worlds
  BY DEF Clock, Control, TypeInv, TypeOK
<1> USE DEF Parking, DueFirst, DueCombat, DueAttackers, DueBlockers, DamageStep, CombatTags,
            CombatHome, ChoiceHome, ChoiceDue, QueryHome, QuerySeat, QueryOwner, FlowSeat,
            FlowHome, NoFlow, SiteKnown, LoopEnds, LatchedHome, SbeQuestion, LegendOwner, Suspended,
            Active, cards, pregame, turn, flows
<1>1. CASE SbeGameOver
  BY <1>0, <1>1 DEF SbeGameOver
<1>2. CASE AskEntering
  BY <1>0, <1>2 DEF AskEntering, InSbe, ArmSbe, Parked, Seated, SiteStage, Sites
<1>3. CASE CompleteEntering
  BY <1>0, <1>3 DEF CompleteEntering, InSbe, TakeLatched, NoQuery, Seated
<1>4. CASE PlayersLose
  BY <1>0, <1>4 DEF PlayersLose, InSbe, Queries, Players
<1>5. CASE AskLegend
  BY <1>0, <1>5 DEF AskLegend, InSbe, ArmSbe, Parked, Seated, SiteStage, Sites
<1>6. CASE PerformSbas
  BY <1>0, <1>6 DEF PerformSbas, InSbe, TakeLatched, NoQuery, Seated, SbaMark, Queries, Players
<1>7. CASE Settle
  BY <1>0, <1>7 DEF Settle, InSbe, Settled, NoPlacement, NoTriggers, Queries, Players
<1>8. CASE SbeReturned
  BY <1>0, <1>8 DEF SbeReturned, SeatFirstTurn, Seated, TurnStates, StageClock, SiteStage
<1> QED
  BY <1>1, <1>2, <1>3, <1>4, <1>5, <1>6, <1>7, <1>8 DEF StateBased

LEMMA PlacementKeepsParking == Clock /\ Parking /\ Placement => Parking'
<1> SUFFICES ASSUME Clock, Parking, Placement PROVE Parking'
  OBVIOUS
<1>0. /\ FlowHome /\ DrawHome /\ DamageHome /\ PlacementHome /\ ResolutionHome /\ ResolutionHolds
      /\ site \in Sites /\ SiteStage /\ StageClock /\ FrameKnown /\ StillOn
      /\ query \in Queries /\ priority \in Priorities /\ turn_state \in TurnStates
      /\ combat \in Combats /\ flow \in Flows /\ placement \in Placements /\ stage \in Stages
      /\ choice \in Choices /\ miracle \in Seat /\ world \in Worlds
  BY DEF Clock, Control, TypeInv, TypeOK
<1> USE DEF Parking, DueFirst, DueCombat, DueAttackers, DueBlockers, DamageStep, CombatTags,
            CombatHome, ChoiceHome, ChoiceDue, QueryHome, QuerySeat, QueryOwner, FlowSeat,
            FlowHome, NoFlow, SiteKnown, LoopEnds, LatchedHome, SbeQuestion, LegendOwner, Suspended,
            Active, cards, pregame, turn, flows
<1>1. CASE AskPlacement
  BY <1>0, <1>1 DEF AskPlacement, Placing, Parked, Seated
<1>2. CASE TakePlacementAnswer
  BY <1>0, <1>2 DEF TakePlacementAnswer, Placing, NoQuery, Seated, Placements
<1>3. CASE PutTriggerOnStack
  BY <1>0, <1>3 DEF PutTriggerOnStack, Placing, PlacedOne, Seated, Placements
<1>4. CASE RemoveTrigger
  BY <1>0, <1>4 DEF RemoveTrigger, Placing, PlacedOne, Seated, Placements
<1>5. CASE PlacementDone
  BY <1>0, <1>5 DEF PlacementDone, NoPlacement, CheckAgain, SavedSeat, Seated
<1> QED
  BY <1>1, <1>2, <1>3, <1>4, <1>5 DEF Placement

LEMMA AdvanceStepKeepsParking == Clock /\ Parking /\ AdvanceStep => Parking'
<1> SUFFICES ASSUME Clock, Parking, AdvanceStep PROVE Parking'
  OBVIOUS
<1>0. /\ FlowHome /\ DrawHome /\ DamageHome /\ PlacementHome /\ ResolutionHome /\ ResolutionHolds
      /\ site \in Sites /\ SiteStage /\ StageClock /\ FrameKnown /\ StillOn
      /\ query \in Queries /\ priority \in Priorities /\ turn_state \in TurnStates
      /\ combat \in Combats /\ flow \in Flows /\ placement \in Placements /\ stage \in Stages
      /\ choice \in Choices /\ miracle \in Seat /\ world \in Worlds
  BY DEF Clock, Control, TypeInv, TypeOK
<1> USE DEF Parking, DueFirst, DueCombat, DueAttackers, DueBlockers, DamageStep, CombatTags,
            CombatHome, ChoiceHome, ChoiceDue, QueryHome, QuerySeat, QueryOwner, FlowSeat,
            FlowHome, NoFlow, SiteKnown, LoopEnds, LatchedHome, SbeQuestion, LegendOwner, Suspended,
            Active, cards, pregame, turn, flows
<1>1. CASE SomeoneHasPriority
  BY <1>0, <1>1 DEF SomeoneHasPriority, FrameKnown, ResolutionHolds, BothPassed
<1>2. CASE OpenCleanupRound
  BY <1>0, <1>2 DEF OpenCleanupRound, CleanupRoundDue, GivePriority, FrameKnown, ResolutionHolds,
     BothPassed
<1>3. CASE ResolvePermanent
  BY <1>0, <1>3 DEF ResolvePermanent, Resolves, FrameKnown, ResolutionHolds, BothPassed
<1>4. CASE EnterFrame
  BY <1>0, <1>4 DEF EnterFrame, Resolves, NoFrame, Seated
<1>5. CASE ResumeFrame
  BY <1>0, <1>5 DEF ResumeFrame, Resolves
<1>6. CASE ChangeStep
  BY <1>0, <1>6 DEF ChangeStep, StepEnds, StepsAfter, CombatAfter, PriorityIn, GivePriority,
     TurnStates, Combats, StageClock, FrameKnown, ResolutionHolds, BothPassed
<1>7. CASE EnterDraw
  BY <1>0, <1>7 DEF EnterDraw, StepEnds, GivePriority
<1>8. CASE SuspendDraw
  BY <1>0, <1>8 DEF SuspendDraw, StepEnds, Parked, Seated
<1>9. CASE BeginCleanup
  BY <1>0, <1>9 DEF BeginCleanup, StepEnds, CleanupBegun
<1>10. CASE NextTurn
  BY <1>0, <1>10 DEF NextTurn, StepEnds
<1> QED
  BY <1>1, <1>2, <1>3, <1>4, <1>5, <1>6, <1>7, <1>8, <1>9, <1>10 DEF AdvanceStep

LEMMA ResolutionKeepsParking == Clock /\ Parking /\ Resolution => Parking'
<1> SUFFICES ASSUME Clock, Parking, Resolution PROVE Parking'
  OBVIOUS
<1>0. /\ FlowHome /\ DrawHome /\ DamageHome /\ PlacementHome /\ ResolutionHome /\ ResolutionHolds
      /\ site \in Sites /\ SiteStage /\ StageClock /\ FrameKnown /\ StillOn
      /\ query \in Queries /\ priority \in Priorities /\ turn_state \in TurnStates
      /\ combat \in Combats /\ flow \in Flows /\ placement \in Placements /\ stage \in Stages
      /\ choice \in Choices /\ miracle \in Seat /\ world \in Worlds
  BY DEF Clock, Control, TypeInv, TypeOK
<1> USE DEF Parking, DueFirst, DueCombat, DueAttackers, DueBlockers, DamageStep, CombatTags,
            CombatHome, ChoiceHome, ChoiceDue, QueryHome, QuerySeat, QueryOwner, FlowSeat,
            FlowHome, NoFlow, SiteKnown, LoopEnds, LatchedHome, SbeQuestion, LegendOwner, Suspended,
            Active, cards, pregame, turn, flows
<1>1. CASE Ask
  BY <1>0, <1>1 DEF Ask, Handler, Parked, Seated
<1>2. CASE TakeAnswer
  BY <1>0, <1>2 DEF TakeAnswer, AnswerRead, NoQuery, Seated
<1>3. CASE CastDuringResolution
  BY <1>0, <1>3 DEF CastDuringResolution, Handler, Seated
<1>4. CASE InnerCastDone
  BY <1>0, <1>4 DEF InnerCastDone, Seated
<1>5. CASE FinishResolution
  BY <1>0, <1>5 DEF FinishResolution, Handler, NoFrame, GivePriority
<1> QED
  BY <1>1, <1>2, <1>3, <1>4, <1>5 DEF Resolution

LEMMA PriorityKeepsParking == Clock /\ Parking /\ Priority => Parking'
<1> SUFFICES ASSUME Clock, Parking, Priority PROVE Parking'
  OBVIOUS
<1>0. /\ FlowHome /\ DrawHome /\ DamageHome /\ PlacementHome /\ ResolutionHome /\ ResolutionHolds
      /\ site \in Sites /\ SiteStage /\ StageClock /\ FrameKnown /\ StillOn
      /\ query \in Queries /\ priority \in Priorities /\ turn_state \in TurnStates
      /\ combat \in Combats /\ flow \in Flows /\ placement \in Placements /\ stage \in Stages
      /\ choice \in Choices /\ miracle \in Seat /\ world \in Worlds
  BY DEF Clock, Control, TypeInv, TypeOK
<1> USE DEF Parking, DueFirst, DueCombat, DueAttackers, DueBlockers, DamageStep, CombatTags,
            CombatHome, ChoiceHome, ChoiceDue, QueryHome, QuerySeat, QueryOwner, FlowSeat,
            FlowHome, NoFlow, SiteKnown, LoopEnds, LatchedHome, SbeQuestion, LegendOwner, Suspended,
            Active, cards, pregame, turn, flows
<1>1. CASE Pass
  BY <1>0, <1>1 DEF Pass
<1>2. CASE SpecialAction
  BY <1>0, <1>2 DEF SpecialAction, ActionTaken
<1>3. CASE BeginFlow
  BY <1>0, <1>3 DEF BeginFlow
<1> QED
  BY <1>1, <1>2, <1>3 DEF Priority

LEMMA FlowKeepsParking == Clock /\ Parking /\ Flow => Parking'
<1> SUFFICES ASSUME Clock, Parking, Flow PROVE Parking'
  OBVIOUS
<1>0. /\ FlowHome /\ DrawHome /\ DamageHome /\ PlacementHome /\ ResolutionHome /\ ResolutionHolds
      /\ site \in Sites /\ SiteStage /\ StageClock /\ FrameKnown /\ StillOn
      /\ query \in Queries /\ priority \in Priorities /\ turn_state \in TurnStates
      /\ combat \in Combats /\ flow \in Flows /\ placement \in Placements /\ stage \in Stages
      /\ choice \in Choices /\ miracle \in Seat /\ world \in Worlds
  BY DEF Clock, Control, TypeInv, TypeOK
<1> USE DEF Parking, DueFirst, DueCombat, DueAttackers, DueBlockers, DamageStep, CombatTags,
            CombatHome, ChoiceHome, ChoiceDue, QueryHome, QuerySeat, QueryOwner, FlowSeat,
            FlowHome, NoFlow, SiteKnown, LoopEnds, LatchedHome, SbeQuestion, LegendOwner, Suspended,
            Active, cards, pregame, turn, flows
<1>1. CASE FlowAsk
  BY <1>0, <1>1 DEF FlowAsk, Parked, Flows
<1>2. CASE FlowPay
  BY <1>0, <1>2 DEF FlowPay
<1>3. CASE FlowRewind
  BY <1>0, <1>3 DEF FlowRewind, FlowReturns
<1>4. CASE FlowDone
  BY <1>0, <1>4 DEF FlowDone, FlowReturns, ActionTaken
<1> QED
  BY <1>1, <1>2, <1>3, <1>4 DEF Flow

LEMMA NextKeepsParking == Clock /\ Parking /\ [Next]_vars => Parking'
<1> SUFFICES ASSUME Clock, Parking, [Next]_vars PROVE Parking'
  OBVIOUS
<1>0. FlowHome /\ SiteHome
  BY DEF Clock, Control
<1>1. CASE LoopLeft
  BY <1>0, <1>1 DEF LoopLeft, Parking, DueFirst, DueCombat, DueAttackers, DueBlockers,
     DamageStep, CombatHome, ChoiceHome, ChoiceDue, QueryHome, QuerySeat, QueryOwner, FlowSeat,
     SiteKnown, LoopEnds, LatchedHome, SbeQuestion, LegendOwner, Suspended, Active, cards, pregame,
     turn, flows
<1>2. CASE UNCHANGED vars
  BY <1>2 DEF Parking, DueFirst, DueCombat, DueAttackers, DueBlockers, DamageStep, CombatHome,
     ChoiceHome, ChoiceDue, QueryHome, QuerySeat, QueryOwner, FlowSeat, SiteKnown, LoopEnds,
     LatchedHome, SbeQuestion, LegendOwner, Suspended, Active, vars
<1>3. CASE Finished
  BY <1>2, <1>3 DEF Finished
<1> QED
  BY <1>1, <1>2, <1>3, AtTheTopKeepsParking, DispatchKeepsParking, PregameKeepsParking,
     TurnBasedKeepsParking, MandatoryKeepsParking, StateBasedKeepsParking, PlacementKeepsParking,
     AdvanceStepKeepsParking, ResolutionKeepsParking, PriorityKeepsParking, FlowKeepsParking
  DEF Next

LEMMA ParkingInvariant == Spec => [](Clock /\ Parking)
BY InitClock, InitParking, NextKeepsClock, NextKeepsParking, PTL DEF Spec

(* Every fatal_error of the loop about suspended decisions is out of reach: a menu is shown to the
   player who holds priority, a latched answer reaches the check, resolution or placement that
   asked for it with the question unchanged, a dispatched answer finds the procedure it belongs
   to, and the loop is not left with one under way. *)
THEOREM NoFatal == Spec => []NoFatalError
<1>1. Clock /\ Parking => NoFatalError
  <2> SUFFICES ASSUME Clock, Parking PROVE NoFatalError
    OBVIOUS
  <2>0. FlowHome /\ DrawHome /\ ResolutionHome /\ FrameKnown
    BY DEF Clock, Control
  <2>1. pc = "top" /\ Suspended /\ ~query.answered /\ ~Conceded => priority.holder = query.chooser
    BY DEF Parking, QuerySeat
  <2>2. pc = "input" => ~Suspended /\ flow = NoFlow /\ ~draw
    BY <2>0 DEF Parking, QueryHome, FlowHome, DrawHome
  <2>3. pc = "leaving" => ~Suspended /\ ~resolution.active /\ flow = NoFlow /\ ~draw /\ stage =
    "DONE"
    BY <2>0 DEF Parking, QueryHome, LoopEnds, FlowHome, DrawHome, ResolutionHome
  <2>4. InSbe /\ Suspended => /\ query.tag = "SBE_LATCHED" /\ query.answered
                             /\ SbeQuestion = <<query.key, query.chooser>>
    BY DEF Parking, QueryHome, LatchedHome, InSbe
  <2>5. /\ pc = "resolving" /\ Suspended => query.tag = "RESOLUTION" /\ query.answered
        /\ pc = "resolving" => flow = NoFlow
        /\ pc = "placing" /\ Suspended => query.tag = "TRIGGER_PLACE" /\ query.answered
    BY <2>0 DEF Parking, QueryHome, FlowHome
  <2>6. /\ AtTop("CAST") => flow.kind = "cast"
        /\ AtTop("ACTIVATION") => flow.kind \in {"activation", "mana"}
        /\ AtTop("DAMAGE_ASSIGN") => damage
        /\ AtTop("TURN_DRAW") => draw
        /\ AtTop("TRIGGER_PLACE") => placement.active
    BY DEF Parking, QueryOwner, AtTop
  <2>7. pc = "mandatory" /\ miracle = "none" /\ choice # "CLEANUP_DISCARD" => ~Suspended
    <3> SUFFICES ASSUME pc = "mandatory", miracle = "none", choice # "CLEANUP_DISCARD", Suspended
                 PROVE  FALSE
      OBVIOUS
    <3>1. choice \in Choices
      BY DEF Clock, Control, TypeInv, TypeOK
    <3>2. DueCombat
      BY <3>1 DEF Parking, ChoiceDue, DueCombat, Choices
    <3> QED
      BY <3>2 DEF Parking, QueryHome, DueFirst, CombatTags, Suspended
  <2> QED
    BY <2>1, <2>2, <2>3, <2>4, <2>5, <2>6, <2>7 DEF NoFatalError
<1> QED
  BY <1>1, ParkingInvariant, PTL

(***************************************************************************)
(* Swept.  The check that runs before the step machine and the one before  *)
(* the priority decision end with nothing for them to do; the first also    *)
(* follows the cleanup actions.                                             *)
(***************************************************************************)
CheckClean ==
  /\ pc = "placing" /\ ~placement.resumed => Settled
  /\ pc = "returned" /\ ~ended => ~Leftover
  /\ pc = "advance" /\ ~resolution.active => ~Leftover
  /\ pc = "input" => ~Leftover
CleanupSwept ==
  turn_state.step = "CLEANUP" /\ (site = "pre" \/ (pc = "advance" /\ ~resolution.active))
    => world.excess = 0 /\ turn_state.cleanup_effects_ended

Swept == CheckClean /\ CleanupSwept

LEMMA InitSwept == Init => Swept
BY DEF Init, Swept, CheckClean, CleanupSwept

LEMMA AtTheTopKeepsSwept == Clock /\ Parking /\ Swept /\ AtTheTop => Swept'
<1> SUFFICES ASSUME Clock, Parking, Swept, AtTheTop PROVE Swept'
  OBVIOUS
<1>0. /\ PlacementHome /\ ResolutionHome /\ SiteHome /\ FrameKnown /\ StillOn
      /\ turn_state \in TurnStates /\ placement \in Placements /\ world \in Worlds
  BY DEF Clock, Control, TypeInv, TypeOK
<1> USE DEF Swept, CheckClean, CleanupSwept, PlacementHome, SiteHome, Leftover, Settled, cards,
            pregame, turn, flows
<1>1. CASE LeaveLoop
  BY <1>0, <1>1 DEF LeaveLoop, LoopLive
<1>2. CASE DiscardConceded
  BY <1>0, <1>2 DEF DiscardConceded, NoFlow, NoFrame, NoQuery, NoPlacement
<1>3. CASE AnswerQuery
  BY <1>0, <1>3 DEF AnswerQuery, Queries
<1>4. CASE NothingParked
  BY <1>0, <1>4 DEF NothingParked
<1>5. CASE Concede
  BY <1>0, <1>5 DEF Concede, Reading
<1> QED
  BY <1>1, <1>2, <1>3, <1>4, <1>5 DEF AtTheTop

LEMMA DispatchKeepsSwept == Clock /\ Parking /\ Swept /\ Dispatch => Swept'
<1> SUFFICES ASSUME Clock, Parking, Swept, Dispatch PROVE Swept'
  OBVIOUS
<1>0. /\ PlacementHome /\ ResolutionHome /\ SiteHome /\ FrameKnown /\ StillOn
      /\ turn_state \in TurnStates /\ placement \in Placements /\ world \in Worlds
  BY DEF Clock, Control, TypeInv, TypeOK
<1> USE DEF Swept, CheckClean, CleanupSwept, PlacementHome, SiteHome, Leftover, Settled, cards,
            pregame, turn, flows
<1>1. CASE ResumeCombatTarget
  BY <1>0, <1>1 DEF ResumeCombatTarget, AtTop, NoQuery
<1>2. CASE ResumeDamageAssignment
  BY <1>0, <1>2 DEF ResumeDamageAssignment, AtTop, NoQuery, Seated, Active, Priorities, Queries,
     Combats
<1>3. CASE ResumeFlow
  BY <1>0, <1>3 DEF ResumeFlow, AtTop, NoQuery
<1>4. CASE ResumePlacement
  BY <1>0, <1>4 DEF ResumePlacement, AtTop
<1>5. CASE ResumeTurnDraw
  BY <1>0, <1>5 DEF ResumeTurnDraw, AtTop, NoQuery, GivePriority, CardsMay
<1>6. CASE KeepLatched
  BY <1>0, <1>6 DEF KeepLatched, AtTop, Conceded
<1>7. CASE ReenterResolution
  BY <1>0, <1>7 DEF ReenterResolution, AtTop, FrameKnown
<1> QED
  BY <1>1, <1>2, <1>3, <1>4, <1>5, <1>6, <1>7 DEF Dispatch

LEMMA PregameKeepsSwept == Clock /\ Parking /\ Swept /\ Pregame => Swept'
<1> SUFFICES ASSUME Clock, Parking, Swept, Pregame PROVE Swept'
  OBVIOUS
<1>0. /\ PlacementHome /\ ResolutionHome /\ SiteHome /\ FrameKnown /\ StillOn
      /\ turn_state \in TurnStates /\ placement \in Placements /\ world \in Worlds
  BY DEF Clock, Control, TypeInv, TypeOK
<1> USE DEF Swept, CheckClean, CleanupSwept, PlacementHome, SiteHome, Leftover, Settled, cards,
            pregame, turn, flows
<1>1. CASE Mulligans
  BY <1>0, <1>1 DEF Mulligans, Seated, Priorities
<1>2. CASE FiatSetup
  BY <1>0, <1>2 DEF FiatSetup
<1>3. CASE OpeningActions
  BY <1>0, <1>3 DEF OpeningActions, SeatFirstTurn, Seated
<1>4. CASE PregameCheck
  BY <1>0, <1>4 DEF PregameCheck
<1> QED
  BY <1>1, <1>2, <1>3, <1>4 DEF Pregame

LEMMA TurnBasedKeepsSwept == Clock /\ Parking /\ Swept /\ TurnBased => Swept'
<1> SUFFICES ASSUME Clock, Parking, Swept, TurnBased PROVE Swept'
  OBVIOUS
<1>0. /\ PlacementHome /\ ResolutionHome /\ SiteHome /\ FrameKnown /\ StillOn
      /\ turn_state \in TurnStates /\ placement \in Placements /\ world \in Worlds
  BY DEF Clock, Control, TypeInv, TypeOK
<1> USE DEF Swept, CheckClean, CleanupSwept, PlacementHome, SiteHome, Leftover, Settled, cards,
            pregame, turn, flows
<1>1. CASE GameOver
  BY <1>0, <1>1 DEF GameOver, AtGate
<1>2. CASE NeedsDivision
  BY <1>0, <1>2 DEF NeedsDivision, AtGate, MayNeedDivision
<1>3. CASE DealDamage
  BY <1>0, <1>3 DEF DealDamage, AtGate, CheckUnless, DamageStep, CardsMay
<1>4. CASE TurnBasedActions
  BY <1>0, <1>4, MaxExcessAssumption DEF TurnBasedActions, AtGate, CheckUnless, EndsEffects,
     DueChoice, CardsMay, Caused, Worlds, TurnStates
<1> QED
  BY <1>1, <1>2, <1>3, <1>4 DEF TurnBased

LEMMA MandatoryKeepsSwept == Clock /\ Parking /\ Swept /\ Mandatory => Swept'
<1> SUFFICES ASSUME Clock, Parking, Swept, Mandatory PROVE Swept'
  OBVIOUS
<1>0. /\ PlacementHome /\ ResolutionHome /\ SiteHome /\ FrameKnown /\ StillOn
      /\ turn_state \in TurnStates /\ placement \in Placements /\ world \in Worlds
  BY DEF Clock, Control, TypeInv, TypeOK
<1> USE DEF Swept, CheckClean, CleanupSwept, PlacementHome, SiteHome, Leftover, Settled, cards,
            pregame, turn, flows
<1>1. CASE RevealMiracle
  BY <1>0, <1>1 DEF RevealMiracle
<1>2. CASE DeclareAttackers
  BY <1>0, <1>2 DEF DeclareAttackers, AtChoice, Parked, Active
<1>3. CASE DeclareBlockers
  BY <1>0, <1>3 DEF DeclareBlockers, AtChoice, Parked, Seated, Active, Priorities, Queries,
     Combats
<1>4. CASE AssignCombatDamage
  BY <1>0, <1>4 DEF AssignCombatDamage, AtChoice, Parked, Seated, Active, Priorities, Queries,
     Combats
<1>5. CASE CleanupDiscard
  BY <1>0, <1>5 DEF CleanupDiscard, AtChoice
<1>6. CASE PostMandatory
  BY <1>0, <1>6 DEF PostMandatory, CheckUnless
<1> QED
  BY <1>1, <1>2, <1>3, <1>4, <1>5, <1>6 DEF Mandatory

LEMMA StateBasedKeepsSwept == Clock /\ Parking /\ Swept /\ StateBased => Swept'
<1> SUFFICES ASSUME Clock, Parking, Swept, StateBased PROVE Swept'
  OBVIOUS
<1>0. /\ PlacementHome /\ ResolutionHome /\ SiteHome /\ FrameKnown /\ StillOn
      /\ turn_state \in TurnStates /\ placement \in Placements /\ world \in Worlds
  BY DEF Clock, Control, TypeInv, TypeOK
<1> USE DEF Swept, CheckClean, CleanupSwept, PlacementHome, SiteHome, Leftover, Settled, cards,
            pregame, turn, flows
<1>1. CASE SbeGameOver
  BY <1>0, <1>1 DEF SbeGameOver
<1>2. CASE AskEntering
  BY <1>0, <1>2 DEF AskEntering, InSbe, ArmSbe, Parked, Seated
<1>3. CASE CompleteEntering
  BY <1>0, <1>3 DEF CompleteEntering, InSbe, TakeLatched, NoQuery, Seated, Worlds
<1>4. CASE PlayersLose
  BY <1>0, <1>4 DEF PlayersLose, InSbe
<1>5. CASE AskLegend
  BY <1>0, <1>5 DEF AskLegend, InSbe, ArmSbe, Parked, Seated
<1>6. CASE PerformSbas
  BY <1>0, <1>6 DEF PerformSbas, InSbe, TakeLatched, NoQuery, Seated, SbaMark, Worlds,
     TurnStates, Performed
<1>7. CASE Settle
  BY <1>0, <1>7 DEF Settle, InSbe, NoPlacement
<1>8. CASE SbeReturned
  BY <1>0, <1>8 DEF SbeReturned, SeatFirstTurn, Seated
<1> QED
  BY <1>1, <1>2, <1>3, <1>4, <1>5, <1>6, <1>7, <1>8 DEF StateBased

LEMMA PlacementKeepsSwept == Clock /\ Parking /\ Swept /\ Placement => Swept'
<1> SUFFICES ASSUME Clock, Parking, Swept, Placement PROVE Swept'
  OBVIOUS
<1>0. /\ PlacementHome /\ ResolutionHome /\ SiteHome /\ FrameKnown /\ StillOn
      /\ turn_state \in TurnStates /\ placement \in Placements /\ world \in Worlds
  BY DEF Clock, Control, TypeInv, TypeOK
<1> USE DEF Swept, CheckClean, CleanupSwept, PlacementHome, SiteHome, Leftover, Settled, cards,
            pregame, turn, flows
<1>1. CASE AskPlacement
  BY <1>0, <1>1 DEF AskPlacement, Placing, Parked, Seated
<1>2. CASE TakePlacementAnswer
  BY <1>0, <1>2 DEF TakePlacementAnswer, Placing, NoQuery, Seated, Placements
<1>3. CASE PutTriggerOnStack
  BY <1>0, <1>3 DEF PutTriggerOnStack, Placing, PlacedOne, Seated, Placements
<1>4. CASE RemoveTrigger
  BY <1>0, <1>4 DEF RemoveTrigger, Placing, PlacedOne, Seated, Placements
<1>5. CASE PlacementDone
  BY <1>0, <1>5 DEF PlacementDone, NoPlacement, CheckAgain, SavedSeat, Seated, SiteKnown, Parking
<1> QED
  BY <1>1, <1>2, <1>3, <1>4, <1>5 DEF Placement

LEMMA AdvanceStepKeepsSwept == Clock /\ Parking /\ Swept /\ AdvanceStep => Swept'
<1> SUFFICES ASSUME Clock, Parking, Swept, AdvanceStep PROVE Swept'
  OBVIOUS
<1>0. /\ PlacementHome /\ ResolutionHome /\ SiteHome /\ FrameKnown /\ StillOn
      /\ turn_state \in TurnStates /\ placement \in Placements /\ world \in Worlds
  BY DEF Clock, Control, TypeInv, TypeOK
<1> USE DEF Swept, CheckClean, CleanupSwept, PlacementHome, SiteHome, Leftover, Settled, cards,
            pregame, turn, flows
<1>1. CASE SomeoneHasPriority
  BY <1>0, <1>1 DEF SomeoneHasPriority
<1>2. CASE OpenCleanupRound
  BY <1>0, <1>2 DEF OpenCleanupRound, CleanupRoundDue, GivePriority
<1>3. CASE ResolvePermanent
  BY <1>0, <1>3 DEF ResolvePermanent, Resolves
<1>4. CASE EnterFrame
  BY <1>0, <1>4 DEF EnterFrame, Resolves, NoFrame, Seated
<1>5. CASE ResumeFrame
  BY <1>0, <1>5 DEF ResumeFrame, Resolves
<1>6. CASE ChangeStep
  BY <1>0, <1>6 DEF ChangeStep, StepEnds, StepsAfter, CombatAfter, PriorityIn, GivePriority,
     Active
<1>7. CASE EnterDraw
  BY <1>0, <1>7 DEF EnterDraw, StepEnds, GivePriority
<1>8. CASE SuspendDraw
  BY <1>0, <1>8 DEF SuspendDraw, StepEnds, Parked, Seated
<1>9. CASE BeginCleanup
  BY <1>0, <1>9 DEF BeginCleanup, StepEnds, CleanupBegun
<1>10. CASE NextTurn
  BY <1>0, <1>10 DEF NextTurn, StepEnds
<1> QED
  BY <1>1, <1>2, <1>3, <1>4, <1>5, <1>6, <1>7, <1>8, <1>9, <1>10 DEF AdvanceStep

LEMMA ResolutionKeepsSwept == Clock /\ Parking /\ Swept /\ Resolution => Swept'
<1> SUFFICES ASSUME Clock, Parking, Swept, Resolution PROVE Swept'
  OBVIOUS
<1>0. /\ PlacementHome /\ ResolutionHome /\ SiteHome /\ FrameKnown /\ StillOn
      /\ turn_state \in TurnStates /\ placement \in Placements /\ world \in Worlds
  BY DEF Clock, Control, TypeInv, TypeOK
<1> USE DEF Swept, CheckClean, CleanupSwept, PlacementHome, SiteHome, Leftover, Settled, cards,
            pregame, turn, flows
<1>1. CASE Ask
  BY <1>0, <1>1 DEF Ask, Handler, Parked, Seated
<1>2. CASE TakeAnswer
  BY <1>0, <1>2 DEF TakeAnswer, AnswerRead, NoQuery, Seated
<1>3. CASE CastDuringResolution
  BY <1>0, <1>3 DEF CastDuringResolution, Handler, Seated
<1>4. CASE InnerCastDone
  BY <1>0, <1>4 DEF InnerCastDone, Seated
<1>5. CASE FinishResolution
  BY <1>0, <1>5 DEF FinishResolution, Handler, NoFrame, GivePriority
<1> QED
  BY <1>1, <1>2, <1>3, <1>4, <1>5 DEF Resolution

LEMMA PriorityKeepsSwept == Clock /\ Parking /\ Swept /\ Priority => Swept'
<1> SUFFICES ASSUME Clock, Parking, Swept, Priority PROVE Swept'
  OBVIOUS
<1>0. /\ PlacementHome /\ ResolutionHome /\ SiteHome /\ FrameKnown /\ StillOn
      /\ turn_state \in TurnStates /\ placement \in Placements /\ world \in Worlds
  BY DEF Clock, Control, TypeInv, TypeOK
<1> USE DEF Swept, CheckClean, CleanupSwept, PlacementHome, SiteHome, Leftover, Settled, cards,
            pregame, turn, flows
<1>1. CASE Pass
  BY <1>0, <1>1 DEF Pass
<1>2. CASE SpecialAction
  BY <1>0, <1>2 DEF SpecialAction, ActionTaken
<1>3. CASE BeginFlow
  BY <1>0, <1>3 DEF BeginFlow
<1> QED
  BY <1>1, <1>2, <1>3 DEF Priority

LEMMA FlowKeepsSwept == Clock /\ Parking /\ Swept /\ Flow => Swept'
<1> SUFFICES ASSUME Clock, Parking, Swept, Flow PROVE Swept'
  OBVIOUS
<1>0. /\ PlacementHome /\ ResolutionHome /\ SiteHome /\ FrameKnown /\ StillOn
      /\ turn_state \in TurnStates /\ placement \in Placements /\ world \in Worlds
  BY DEF Clock, Control, TypeInv, TypeOK
<1> USE DEF Swept, CheckClean, CleanupSwept, PlacementHome, SiteHome, Leftover, Settled, cards,
            pregame, turn, flows
<1>1. CASE FlowAsk
  BY <1>0, <1>1 DEF FlowAsk, Parked
<1>2. CASE FlowPay
  BY <1>0, <1>2 DEF FlowPay
<1>3. CASE FlowRewind
  BY <1>0, <1>3 DEF FlowRewind, FlowReturns, NoFlow
<1>4. CASE FlowDone
  BY <1>0, <1>4 DEF FlowDone, FlowReturns, NoFlow, ActionTaken
<1> QED
  BY <1>1, <1>2, <1>3, <1>4 DEF Flow

LEMMA NextKeepsSwept == Clock /\ Parking /\ Swept /\ [Next]_vars => Swept'
<1> SUFFICES ASSUME Clock, Parking, Swept, [Next]_vars PROVE Swept'
  OBVIOUS
<1>0. SiteHome
  BY DEF Clock
<1>1. CASE LoopLeft
  BY <1>0, <1>1 DEF LoopLeft, Swept, CheckClean, CleanupSwept, Leftover, Settled, cards, pregame,
     turn, flows
<1>2. CASE UNCHANGED vars
  BY <1>2 DEF Swept, CheckClean, CleanupSwept, Leftover, Settled, vars
<1>3. CASE Finished
  BY <1>2, <1>3 DEF Finished
<1> QED
  BY <1>1, <1>2, <1>3, AtTheTopKeepsSwept, DispatchKeepsSwept, PregameKeepsSwept,
     TurnBasedKeepsSwept, MandatoryKeepsSwept, StateBasedKeepsSwept, PlacementKeepsSwept,
     AdvanceStepKeepsSwept, ResolutionKeepsSwept, PriorityKeepsSwept, FlowKeepsSwept
  DEF Next

LEMMA SweptInvariant == Spec => [](Clock /\ Parking /\ Swept)
BY InitClock, InitParking, InitSwept, NextKeepsClock, NextKeepsParking, NextKeepsSwept, PTL
   DEF Spec

(* turn_state.step and turn_state.turn change in advance_step alone. *)
LEMMA StepChanges ==
  ASSUME Clock, [Next]_vars, turn_state'.step # turn_state.step \/ turn_state'.turn #
    turn_state.turn
  PROVE  StepEnds /\ (ChangeStep \/ EnterDraw \/ SuspendDraw \/ BeginCleanup \/ NextTurn)
<1>0. turn_state \in TurnStates
  BY DEF Clock, Control, TypeInv, TypeOK
<1> USE DEF cards, pregame, turn, flows
<1>1. turn_state' = turn_state => FALSE
  OBVIOUS
<1>2. ~AtTheTop
  BY <1>1 DEF AtTheTop, LeaveLoop, DiscardConceded, AnswerQuery, NothingParked, Concede
<1>3. ~Dispatch
  BY <1>1 DEF Dispatch, ResumeCombatTarget, ResumeDamageAssignment, ResumeFlow, ResumePlacement,
     ResumeTurnDraw, KeepLatched, ReenterResolution
<1>4. ~Pregame
  BY <1>0 DEF Pregame, Mulligans, FiatSetup, OpeningActions, PregameCheck, SeatFirstTurn,
     TurnStates
<1>5. ~TurnBased
  BY <1>0 DEF TurnBased, GameOver, NeedsDivision, DealDamage, TurnBasedActions, TurnStates
<1>6. ~Mandatory
  BY <1>1 DEF Mandatory, RevealMiracle, DeclareAttackers, DeclareBlockers, AssignCombatDamage,
     CleanupDiscard, PostMandatory
<1>7. ~StateBased
  BY <1>0 DEF StateBased, SbeGameOver, AskEntering, CompleteEntering, PlayersLose, AskLegend,
     PerformSbas, Settle, SbeReturned, SbaMark, SeatFirstTurn, TurnStates
<1>8. ~Placement
  BY <1>1 DEF Placement, AskPlacement, TakePlacementAnswer, PutTriggerOnStack, RemoveTrigger,
     PlacementDone
<1>9. ~SomeoneHasPriority /\ ~OpenCleanupRound /\ ~ResolvePermanent /\ ~EnterFrame /\ ~ResumeFrame
  BY <1>0 DEF SomeoneHasPriority, OpenCleanupRound, ResolvePermanent, EnterFrame, ResumeFrame,
     TurnStates
<1>10. ~Resolution
  BY <1>1 DEF Resolution, Ask, TakeAnswer, CastDuringResolution, InnerCastDone, FinishResolution
<1>11. ~Priority
  BY <1>1 DEF Priority, Pass, SpecialAction, BeginFlow
<1>12. ~Flow
  BY <1>1 DEF Flow, FlowAsk, FlowPay, FlowRewind, FlowDone
<1>13. ~LoopLeft /\ ~Finished /\ ~UNCHANGED vars
  BY <1>1 DEF LoopLeft, Finished, vars
<1>14. ChangeStep \/ EnterDraw \/ SuspendDraw \/ BeginCleanup \/ NextTurn
  BY <1>2, <1>3, <1>4, <1>5, <1>6, <1>7, <1>8, <1>9, <1>10, <1>11, <1>12, <1>13
     DEF Next, AdvanceStep
<1> QED
  BY <1>14 DEF ChangeStep, EnterDraw, SuspendDraw, BeginCleanup, NextTurn

(* A step ends only when the checks and the triggers of what happened in it are done and no
   procedure is under way. *)
THEOREM StepsEndClean == Spec => StepEndsClean
<1>1. ASSUME Clock, Parking, Swept, [Next]_vars, turn_state'.step # turn_state.step
      PROVE  ~Leftover /\ ~resolution.active /\ flow = NoFlow /\ ~placement.active
  <2>1. StepEnds
    BY <1>1, StepChanges
  <2>2. pc = "advance" /\ ~resolution.active
    BY <1>1, <2>1 DEF StepEnds, Clock, Control, ResolutionHolds
  <2> QED
    BY <1>1, <2>2 DEF Clock, Control, FlowHome, PlacementHome, Swept, CheckClean
<1>2. Clock /\ Parking /\ Swept /\ [Next]_vars
        => [turn_state'.step # turn_state.step
              => ~Leftover /\ ~resolution.active /\ flow = NoFlow /\ ~placement.active]_vars
  BY <1>1
<1> QED
  BY <1>2, SweptInvariant, PTL DEF Spec, StepEndsClean

(* The turn passes on an empty stack and a small enough hand, from a cleanup step whose actions
   are done and in which nobody had priority and no state-based action was performed. *)
THEOREM TurnsEndClean == Spec => TurnEndsClean
<1>1. ASSUME Clock, Parking, Swept, [Next]_vars, turn_state'.turn # turn_state.turn
      PROVE  /\ stack = <<>> /\ world.excess = 0 /\ turn_state.cleanup_effects_ended
             /\ ~turn_state.cleanup_priority_round /\ ~turn_state.cleanup_sba_performed
  <2>1. turn_state \in TurnStates
    BY <1>1 DEF Clock, Control, TypeInv, TypeOK
  <2>2. NextTurn
    BY <1>1, <2>1, StepChanges DEF ChangeStep, EnterDraw, SuspendDraw, BeginCleanup,
       CleanupBegun, TurnStates
  <2>3. /\ pc = "advance" /\ turn_state.step = "CLEANUP" /\ ~turn_state.cleanup_priority_round
        /\ stack = <<>> /\ ~CleanupRoundDue
    BY <2>2 DEF NextTurn, StepEnds
  <2>4. ~resolution.active
    BY <1>1, <2>3 DEF Clock, Control, ResolutionHolds
  <2> QED
    BY <1>1, <2>3, <2>4 DEF Swept, CleanupSwept, CleanupRoundDue
<1>2. Clock /\ Parking /\ Swept /\ [Next]_vars
        => [turn_state'.turn # turn_state.turn
              => /\ stack = <<>> /\ world.excess = 0 /\ turn_state.cleanup_effects_ended
                 /\ ~turn_state.cleanup_priority_round /\ ~turn_state.cleanup_sba_performed]_vars
  BY <1>1
<1> QED
  BY <1>2, SweptInvariant, PTL DEF Spec, TurnEndsClean

(***************************************************************************)
(* Passing.  A question moves priority to the player it is for; Home is    *)
(* the seat that is given back.                                             *)
(***************************************************************************)
Home == IF placement.active THEN placement.saved
        ELSE IF query.tag = "SBE_LATCHED" THEN query.prev ELSE priority.holder
SeatOpen == pc \notin {"leaving", "exited"} /\ ~BothPassed => Home \notin priority.passed
PregameOpen == stage # "DONE" => priority.passed = {} /\ pc # "input"
RoundOpen == pc \in {"post_mandatory", "input"} \/ site = "post" => ~BothPassed

Passing == SeatOpen /\ PregameOpen /\ RoundOpen

LEMMA InitPassing == Init => Passing
BY DEF Init, Passing, SeatOpen, PregameOpen, RoundOpen, Home, BothPassed, GivePriority,
   NoPlacement, NoQuery

LEMMA AtTheTopKeepsPassing == Clock /\ Parking /\ Passing /\ AtTheTop => Passing'
<1> SUFFICES ASSUME Clock, Parking, Passing, AtTheTop PROVE Passing'
  OBVIOUS
<1>0. /\ PlacementHome /\ ResolutionHome /\ ResolutionHolds /\ SiteHome /\ SiteStage /\ StageClock
      /\ FrameKnown /\ LatchedHome /\ DueFirst /\ CombatHome /\ ChoiceDue /\ QueryHome /\
        QueryOwner /\ SiteKnown
      /\ query \in Queries /\ priority \in Priorities /\ turn_state \in TurnStates
      /\ placement \in Placements
  BY DEF Clock, Control, Parking, TypeInv, TypeOK
<1> USE DEF Passing, SeatOpen, PregameOpen, RoundOpen, Home, BothPassed, PlacementHome, SiteHome,
            QueryHome, Suspended, cards, pregame, turn, flows
<1>1. CASE LeaveLoop
  BY <1>0, <1>1 DEF LeaveLoop, LoopLive, Priorities
<1>2. CASE DiscardConceded
  BY <1>0, <1>2 DEF DiscardConceded, NoFlow, NoFrame, NoQuery, NoPlacement, Priorities
<1>3. CASE AnswerQuery
  BY <1>0, <1>3 DEF AnswerQuery, Queries, Priorities
<1>4. CASE NothingParked
  BY <1>0, <1>4 DEF NothingParked, Priorities
<1>5. CASE Concede
  BY <1>0, <1>5 DEF Concede, Reading, Priorities
<1> QED
  BY <1>1, <1>2, <1>3, <1>4, <1>5 DEF AtTheTop

LEMMA DispatchKeepsPassing == Clock /\ Parking /\ Passing /\ Dispatch => Passing'
<1> SUFFICES ASSUME Clock, Parking, Passing, Dispatch PROVE Passing'
  OBVIOUS
<1>0. /\ PlacementHome /\ ResolutionHome /\ ResolutionHolds /\ SiteHome /\ SiteStage /\ StageClock
      /\ FrameKnown /\ LatchedHome /\ DueFirst /\ CombatHome /\ ChoiceDue /\ QueryHome /\
        QueryOwner /\ SiteKnown
      /\ query \in Queries /\ priority \in Priorities /\ turn_state \in TurnStates
      /\ placement \in Placements
  BY DEF Clock, Control, Parking, TypeInv, TypeOK
<1> USE DEF Passing, SeatOpen, PregameOpen, RoundOpen, Home, BothPassed, PlacementHome, SiteHome,
            QueryHome, Suspended, cards, pregame, turn, flows
<1>1. CASE ResumeCombatTarget
  BY <1>0, <1>1 DEF ResumeCombatTarget, AtTop, NoQuery, Priorities
<1>2. CASE ResumeDamageAssignment
  BY <1>0, <1>2 DEF ResumeDamageAssignment, AtTop, NoQuery, Seated, Active, Priorities, Queries,
     Combats, DueFirst, DueCombat, DueAttackers, DueBlockers, DamageStep, CombatHome, QueryOwner
<1>3. CASE ResumeFlow
  BY <1>0, <1>3 DEF ResumeFlow, AtTop, NoQuery, Priorities
<1>4. CASE ResumePlacement
  BY <1>0, <1>4 DEF ResumePlacement, AtTop, Priorities, Placements, SiteKnown, Front, Opponent,
     Players
<1>5. CASE ResumeTurnDraw
  BY <1>0, <1>5 DEF ResumeTurnDraw, AtTop, NoQuery, GivePriority, CardsMay, Priorities
<1>6. CASE KeepLatched
  BY <1>0, <1>6 DEF KeepLatched, AtTop, Conceded, Priorities
<1>7. CASE ReenterResolution
  BY <1>0, <1>7 DEF ReenterResolution, AtTop, Priorities
<1> QED
  BY <1>1, <1>2, <1>3, <1>4, <1>5, <1>6, <1>7 DEF Dispatch

LEMMA PregameKeepsPassing == Clock /\ Parking /\ Passing /\ Pregame => Passing'
<1> SUFFICES ASSUME Clock, Parking, Passing, Pregame PROVE Passing'
  OBVIOUS
<1>0. /\ PlacementHome /\ ResolutionHome /\ ResolutionHolds /\ SiteHome /\ SiteStage /\ StageClock
      /\ FrameKnown /\ LatchedHome /\ DueFirst /\ CombatHome /\ ChoiceDue /\ QueryHome /\
        QueryOwner /\ SiteKnown
      /\ query \in Queries /\ priority \in Priorities /\ turn_state \in TurnStates
      /\ placement \in Placements
  BY DEF Clock, Control, Parking, TypeInv, TypeOK
<1> USE DEF Passing, SeatOpen, PregameOpen, RoundOpen, Home, BothPassed, PlacementHome, SiteHome,
            QueryHome, Suspended, cards, pregame, turn, flows
<1>1. CASE Mulligans
  BY <1>0, <1>1 DEF Mulligans, Seated, Priorities
<1>2. CASE FiatSetup
  BY <1>0, <1>2 DEF FiatSetup, Priorities
<1>3. CASE OpeningActions
  BY <1>0, <1>3 DEF OpeningActions, SeatFirstTurn, Seated, Priorities, SiteStage, TurnStates
<1>4. CASE PregameCheck
  BY <1>0, <1>4 DEF PregameCheck, Priorities
<1> QED
  BY <1>1, <1>2, <1>3, <1>4 DEF Pregame

LEMMA TurnBasedKeepsPassing == Clock /\ Parking /\ Passing /\ TurnBased => Passing'
<1> SUFFICES ASSUME Clock, Parking, Passing, TurnBased PROVE Passing'
  OBVIOUS
<1>0. /\ PlacementHome /\ ResolutionHome /\ ResolutionHolds /\ SiteHome /\ SiteStage /\ StageClock
      /\ FrameKnown /\ LatchedHome /\ DueFirst /\ CombatHome /\ ChoiceDue /\ QueryHome /\
        QueryOwner /\ SiteKnown
      /\ query \in Queries /\ priority \in Priorities /\ turn_state \in TurnStates
      /\ placement \in Placements
  BY DEF Clock, Control, Parking, TypeInv, TypeOK
<1> USE DEF Passing, SeatOpen, PregameOpen, RoundOpen, Home, BothPassed, PlacementHome, SiteHome,
            QueryHome, Suspended, cards, pregame, turn, flows
<1>1. CASE GameOver
  BY <1>0, <1>1 DEF GameOver, AtGate, Priorities
<1>2. CASE NeedsDivision
  BY <1>0, <1>2 DEF NeedsDivision, AtGate, MayNeedDivision, Priorities
<1>3. CASE DealDamage
  BY <1>0, <1>3 DEF DealDamage, AtGate, CheckUnless, Priorities
<1>4. CASE TurnBasedActions
  BY <1>0, <1>4 DEF TurnBasedActions, AtGate, CheckUnless, EndsEffects, DueChoice, Priorities
<1> QED
  BY <1>1, <1>2, <1>3, <1>4 DEF TurnBased

LEMMA MandatoryKeepsPassing == Clock /\ Parking /\ Passing /\ Mandatory => Passing'
<1> SUFFICES ASSUME Clock, Parking, Passing, Mandatory PROVE Passing'
  OBVIOUS
<1>0. /\ PlacementHome /\ ResolutionHome /\ ResolutionHolds /\ SiteHome /\ SiteStage /\ StageClock
      /\ FrameKnown /\ LatchedHome /\ DueFirst /\ CombatHome /\ ChoiceDue /\ QueryHome /\
        QueryOwner /\ SiteKnown
      /\ query \in Queries /\ priority \in Priorities /\ turn_state \in TurnStates
      /\ placement \in Placements
  BY DEF Clock, Control, Parking, TypeInv, TypeOK
<1> USE DEF Passing, SeatOpen, PregameOpen, RoundOpen, Home, BothPassed, PlacementHome, SiteHome,
            QueryHome, Suspended, cards, pregame, turn, flows
<1>1. CASE RevealMiracle
  BY <1>0, <1>1 DEF RevealMiracle, Priorities
<1>2. CASE DeclareAttackers
  BY <1>0, <1>2 DEF DeclareAttackers, AtChoice, Parked, Active, Priorities, DueFirst, DueCombat,
     DueAttackers, DueBlockers, DamageStep, ChoiceDue
<1>3. CASE DeclareBlockers
  BY <1>0, <1>3 DEF DeclareBlockers, AtChoice, Parked, Seated, Active, Priorities, Queries,
     Combats, DueFirst, DueCombat, DueAttackers, DueBlockers, DamageStep, ChoiceDue
<1>4. CASE AssignCombatDamage
  BY <1>0, <1>4 DEF AssignCombatDamage, AtChoice, Parked, Seated, Active, Priorities, Queries,
     Combats, DueFirst, DueCombat, DueAttackers, DueBlockers, DamageStep, ChoiceDue
<1>5. CASE CleanupDiscard
  BY <1>0, <1>5 DEF CleanupDiscard, AtChoice, Priorities
<1>6. CASE PostMandatory
  BY <1>0, <1>6 DEF PostMandatory, CheckUnless, Priorities
<1> QED
  BY <1>1, <1>2, <1>3, <1>4, <1>5, <1>6 DEF Mandatory

LEMMA StateBasedKeepsPassing == Clock /\ Parking /\ Passing /\ StateBased => Passing'
<1> SUFFICES ASSUME Clock, Parking, Passing, StateBased PROVE Passing'
  OBVIOUS
<1>0. /\ PlacementHome /\ ResolutionHome /\ ResolutionHolds /\ SiteHome /\ SiteStage /\ StageClock
      /\ FrameKnown /\ LatchedHome /\ DueFirst /\ CombatHome /\ ChoiceDue /\ QueryHome /\
        QueryOwner /\ SiteKnown
      /\ query \in Queries /\ priority \in Priorities /\ turn_state \in TurnStates
      /\ placement \in Placements
  BY DEF Clock, Control, Parking, TypeInv, TypeOK
<1> USE DEF Passing, SeatOpen, PregameOpen, RoundOpen, Home, BothPassed, PlacementHome, SiteHome,
            QueryHome, Suspended, cards, pregame, turn, flows
<1>1. CASE SbeGameOver
  BY <1>0, <1>1 DEF SbeGameOver, Priorities
<1>2. CASE AskEntering
  BY <1>0, <1>2 DEF AskEntering, InSbe, ArmSbe, Parked, Seated, Priorities, Players
<1>3. CASE CompleteEntering
  BY <1>0, <1>3 DEF CompleteEntering, InSbe, TakeLatched, NoQuery, Seated, Priorities, Queries
<1>4. CASE PlayersLose
  BY <1>0, <1>4 DEF PlayersLose, InSbe, Priorities
<1>5. CASE AskLegend
  BY <1>0, <1>5 DEF AskLegend, InSbe, ArmSbe, Parked, Seated, Priorities, Players
<1>6. CASE PerformSbas
  BY <1>0, <1>6 DEF PerformSbas, InSbe, TakeLatched, NoQuery, Seated, SbaMark, Priorities, Queries
<1>7. CASE Settle
  BY <1>0, <1>7 DEF Settle, InSbe, Settled, NoPlacement, NoTriggers, Priorities, LatchedHome,
     SbeQuestion, Queries, Players
<1>8. CASE SbeReturned
  BY <1>0, <1>8 DEF SbeReturned, SeatFirstTurn, Seated, Priorities, SiteStage, TurnStates
<1> QED
  BY <1>1, <1>2, <1>3, <1>4, <1>5, <1>6, <1>7, <1>8 DEF StateBased

LEMMA PlacementKeepsPassing == Clock /\ Parking /\ Passing /\ Placement => Passing'
<1> SUFFICES ASSUME Clock, Parking, Passing, Placement PROVE Passing'
  OBVIOUS
<1>0. /\ PlacementHome /\ ResolutionHome /\ ResolutionHolds /\ SiteHome /\ SiteStage /\ StageClock
      /\ FrameKnown /\ LatchedHome /\ DueFirst /\ CombatHome /\ ChoiceDue /\ QueryHome /\
        QueryOwner /\ SiteKnown
      /\ query \in Queries /\ priority \in Priorities /\ turn_state \in TurnStates
      /\ placement \in Placements
  BY DEF Clock, Control, Parking, TypeInv, TypeOK
<1> USE DEF Passing, SeatOpen, PregameOpen, RoundOpen, Home, BothPassed, PlacementHome, SiteHome,
            QueryHome, Suspended, cards, pregame, turn, flows
<1>1. CASE AskPlacement
  BY <1>0, <1>1 DEF AskPlacement, Placing, Parked, Seated, Priorities, Placements, SiteKnown,
     Front, Opponent, Players
<1>2. CASE TakePlacementAnswer
  BY <1>0, <1>2 DEF TakePlacementAnswer, Placing, NoQuery, Seated, Priorities, Placements,
     SiteKnown, Front, Opponent, Players
<1>3. CASE PutTriggerOnStack
  BY <1>0, <1>3 DEF PutTriggerOnStack, Placing, PlacedOne, Seated, Priorities, Placements,
     SiteKnown, Front, Opponent, Players
<1>4. CASE RemoveTrigger
  BY <1>0, <1>4 DEF RemoveTrigger, Placing, PlacedOne, Seated, Priorities, Placements, SiteKnown,
     Front, Opponent, Players
<1>5. CASE PlacementDone
  BY <1>0, <1>5 DEF PlacementDone, NoPlacement, CheckAgain, SavedSeat, Seated, Priorities,
     Placements, SiteKnown, QueryOwner
<1> QED
  BY <1>1, <1>2, <1>3, <1>4, <1>5 DEF Placement

LEMMA AdvanceStepKeepsPassing == Clock /\ Parking /\ Passing /\ AdvanceStep => Passing'
<1> SUFFICES ASSUME Clock, Parking, Passing, AdvanceStep PROVE Passing'
  OBVIOUS
<1>0. /\ PlacementHome /\ ResolutionHome /\ ResolutionHolds /\ SiteHome /\ SiteStage /\ StageClock
      /\ FrameKnown /\ LatchedHome /\ DueFirst /\ CombatHome /\ ChoiceDue /\ QueryHome /\
        QueryOwner /\ SiteKnown
      /\ query \in Queries /\ priority \in Priorities /\ turn_state \in TurnStates
      /\ placement \in Placements
  BY DEF Clock, Control, Parking, TypeInv, TypeOK
<1> USE DEF Passing, SeatOpen, PregameOpen, RoundOpen, Home, BothPassed, PlacementHome, SiteHome,
            QueryHome, Suspended, cards, pregame, turn, flows
<1>1. CASE SomeoneHasPriority
  BY <1>0, <1>1 DEF SomeoneHasPriority, Priorities
<1>2. CASE OpenCleanupRound
  BY <1>0, <1>2 DEF OpenCleanupRound, CleanupRoundDue, GivePriority, Priorities
<1>3. CASE ResolvePermanent
  BY <1>0, <1>3 DEF ResolvePermanent, Resolves, Priorities
<1>4. CASE EnterFrame
  BY <1>0, <1>4 DEF EnterFrame, Resolves, NoFrame, Seated, Priorities, ResolutionHome,
     ResolutionHolds, FrameKnown, Queries
<1>5. CASE ResumeFrame
  BY <1>0, <1>5 DEF ResumeFrame, Resolves, Priorities
<1>6. CASE ChangeStep
  BY <1>0, <1>6 DEF ChangeStep, StepEnds, StepsAfter, CombatAfter, PriorityIn, GivePriority,
     Active, Priorities, ResolutionHolds, FrameKnown, StageClock
<1>7. CASE EnterDraw
  BY <1>0, <1>7 DEF EnterDraw, StepEnds, GivePriority, Priorities, PriorityIn, ResolutionHolds,
     FrameKnown, StageClock
<1>8. CASE SuspendDraw
  BY <1>0, <1>8 DEF SuspendDraw, StepEnds, Parked, Seated, Priorities, PriorityIn, GivePriority,
     ResolutionHolds, FrameKnown, StageClock
<1>9. CASE BeginCleanup
  BY <1>0, <1>9 DEF BeginCleanup, StepEnds, CleanupBegun, Priorities, PriorityIn, GivePriority,
     ResolutionHolds, FrameKnown, StageClock
<1>10. CASE NextTurn
  BY <1>0, <1>10 DEF NextTurn, StepEnds, Priorities, PriorityIn, GivePriority, ResolutionHolds,
     FrameKnown, StageClock
<1> QED
  BY <1>1, <1>2, <1>3, <1>4, <1>5, <1>6, <1>7, <1>8, <1>9, <1>10 DEF AdvanceStep

LEMMA ResolutionKeepsPassing == Clock /\ Parking /\ Passing /\ Resolution => Passing'
<1> SUFFICES ASSUME Clock, Parking, Passing, Resolution PROVE Passing'
  OBVIOUS
<1>0. /\ PlacementHome /\ ResolutionHome /\ ResolutionHolds /\ SiteHome /\ SiteStage /\ StageClock
      /\ FrameKnown /\ LatchedHome /\ DueFirst /\ CombatHome /\ ChoiceDue /\ QueryHome /\
        QueryOwner /\ SiteKnown
      /\ query \in Queries /\ priority \in Priorities /\ turn_state \in TurnStates
      /\ placement \in Placements
  BY DEF Clock, Control, Parking, TypeInv, TypeOK
<1> USE DEF Passing, SeatOpen, PregameOpen, RoundOpen, Home, BothPassed, PlacementHome, SiteHome,
            QueryHome, Suspended, cards, pregame, turn, flows
<1>1. CASE Ask
  BY <1>0, <1>1 DEF Ask, Handler, Parked, Seated, Priorities, ResolutionHome, ResolutionHolds,
     FrameKnown, Queries
<1>2. CASE TakeAnswer
  BY <1>0, <1>2 DEF TakeAnswer, AnswerRead, NoQuery, Seated, Priorities, ResolutionHome,
     ResolutionHolds, FrameKnown, Queries
<1>3. CASE CastDuringResolution
  BY <1>0, <1>3 DEF CastDuringResolution, Handler, Seated, Priorities, ResolutionHome,
     ResolutionHolds, FrameKnown, Queries
<1>4. CASE InnerCastDone
  BY <1>0, <1>4 DEF InnerCastDone, Seated, Priorities, ResolutionHome, ResolutionHolds,
     FrameKnown, Queries
<1>5. CASE FinishResolution
  BY <1>0, <1>5 DEF FinishResolution, Handler, NoFrame, GivePriority, Priorities, ResolutionHome,
     ResolutionHolds, FrameKnown, Queries
<1> QED
  BY <1>1, <1>2, <1>3, <1>4, <1>5 DEF Resolution

LEMMA PriorityKeepsPassing == Clock /\ Parking /\ Passing /\ Priority => Passing'
<1> SUFFICES ASSUME Clock, Parking, Passing, Priority PROVE Passing'
  OBVIOUS
<1>0. /\ PlacementHome /\ ResolutionHome /\ ResolutionHolds /\ SiteHome /\ SiteStage /\ StageClock
      /\ FrameKnown /\ LatchedHome /\ DueFirst /\ CombatHome /\ ChoiceDue /\ QueryHome /\
        QueryOwner /\ SiteKnown
      /\ query \in Queries /\ priority \in Priorities /\ turn_state \in TurnStates
      /\ placement \in Placements
  BY DEF Clock, Control, Parking, TypeInv, TypeOK
<1> USE DEF Passing, SeatOpen, PregameOpen, RoundOpen, Home, BothPassed, PlacementHome, SiteHome,
            QueryHome, Suspended, cards, pregame, turn, flows
<1>1. CASE Pass
  <2>1. ~placement.active /\ ~Suspended
    BY <1>0, <1>1 DEF Pass
  <2>2. priority.holder \notin priority.passed
    BY <1>0, <1>1, <2>1 DEF Pass
  <2>3. priority.holder \in Players /\ priority.passed \subseteq Players
    BY <1>0 DEF Priorities
  <2>4. Opponent(priority.holder) \in priority.passed
           => priority.passed \cup {priority.holder} = Players
    BY <2>3 DEF Opponent, Players
  <2>5. Opponent(priority.holder) # priority.holder
    BY <2>3 DEF Opponent, Players
  <2>6. /\ priority'.holder = Opponent(priority.holder)
        /\ priority'.passed = priority.passed \cup {priority.holder}
    BY <1>1 DEF Pass
  <2> QED
    BY <1>0, <1>1, <2>1, <2>2, <2>4, <2>5, <2>6 DEF Pass
<1>2. CASE SpecialAction
  BY <1>0, <1>2 DEF SpecialAction, ActionTaken, Priorities
<1>3. CASE BeginFlow
  BY <1>0, <1>3 DEF BeginFlow, Priorities
<1> QED
  BY <1>1, <1>2, <1>3 DEF Priority

LEMMA FlowKeepsPassing == Clock /\ Parking /\ Passing /\ Flow => Passing'
<1> SUFFICES ASSUME Clock, Parking, Passing, Flow PROVE Passing'
  OBVIOUS
<1>0. /\ PlacementHome /\ ResolutionHome /\ ResolutionHolds /\ SiteHome /\ SiteStage /\ StageClock
      /\ FrameKnown /\ LatchedHome /\ DueFirst /\ CombatHome /\ ChoiceDue /\ QueryHome /\
        QueryOwner /\ SiteKnown
      /\ query \in Queries /\ priority \in Priorities /\ turn_state \in TurnStates
      /\ placement \in Placements
  BY DEF Clock, Control, Parking, TypeInv, TypeOK
<1> USE DEF Passing, SeatOpen, PregameOpen, RoundOpen, Home, BothPassed, PlacementHome, SiteHome,
            QueryHome, Suspended, cards, pregame, turn, flows
<1>1. CASE FlowAsk
  BY <1>0, <1>1 DEF FlowAsk, Parked, Priorities
<1>2. CASE FlowPay
  BY <1>0, <1>2 DEF FlowPay, Priorities
<1>3. CASE FlowRewind
  BY <1>0, <1>3 DEF FlowRewind, FlowReturns, NoFlow, Priorities
<1>4. CASE FlowDone
  BY <1>0, <1>4 DEF FlowDone, FlowReturns, NoFlow, ActionTaken, Priorities
<1> QED
  BY <1>1, <1>2, <1>3, <1>4 DEF Flow

LEMMA NextKeepsPassing == Clock /\ Parking /\ Passing /\ [Next]_vars => Passing'
<1> SUFFICES ASSUME Clock, Parking, Passing, [Next]_vars PROVE Passing'
  OBVIOUS
<1>0. SiteHome
  BY DEF Clock
<1>1. CASE LoopLeft
  BY <1>0, <1>1 DEF LoopLeft, Passing, SeatOpen, PregameOpen, RoundOpen, Home, BothPassed, cards,
     pregame, turn, flows
<1>2. CASE UNCHANGED vars
  BY <1>2 DEF Passing, SeatOpen, PregameOpen, RoundOpen, Home, BothPassed, vars
<1>3. CASE Finished
  BY <1>2, <1>3 DEF Finished
<1> QED
  BY <1>1, <1>2, <1>3, AtTheTopKeepsPassing, DispatchKeepsPassing, PregameKeepsPassing,
     TurnBasedKeepsPassing, MandatoryKeepsPassing, StateBasedKeepsPassing, PlacementKeepsPassing,
     AdvanceStepKeepsPassing, ResolutionKeepsPassing, PriorityKeepsPassing, FlowKeepsPassing
  DEF Next

(* The player asked for a priority decision has not passed since somebody last acted, whatever
   seats the questions and placements in between moved priority to. *)
THEOREM AskedInTurn == Spec => []AskedPlayerHasNotPassed
<1>1. Clock /\ Parking /\ Passing => AskedPlayerHasNotPassed
  <2> SUFFICES ASSUME Clock, Parking, Passing, pc = "input" PROVE priority.holder \notin
    priority.passed
    BY DEF AskedPlayerHasNotPassed
  <2>1. ~placement.active /\ ~Suspended
    BY DEF Clock, Control, PlacementHome, Parking, QueryHome
  <2> QED
    BY <2>1 DEF Passing, SeatOpen, RoundOpen, Home, Suspended
<1> QED
  BY <1>1, InitClock, InitParking, InitPassing, NextKeepsClock, NextKeepsParking,
     NextKeepsPassing, PTL
     DEF Spec

(***************************************************************************)
(* SeenByAll.  Whatever will put an object on the stack, or may trigger,    *)
(* finds that nobody has passed; a spell or ability still being proposed    *)
(* ends its proposal by starting the passes over.  A mana ability does not, *)
(* so what it triggers would meet the pass made before it: the invariant    *)
(* is about games in which paying for mana triggers nothing.                *)
(***************************************************************************)
RoundStep == turn_state.step \notin {"UNTAP", "CLEANUP"} /\ pc \notin {"leaving", "exited"}
             /\ ~resolution.active
Proposing == flow.kind \in {"cast", "activation"}
Pending == Count(waiting) > 0 \/ world.etb # "none" \/ world.legend # NoConflict
           \/ world.sba > 0 \/ miracle # "none" \/ placement.active
PendingFresh ==
  RoundStep /\ Pending /\ (Proposing => ~flow.paid) => priority.passed = {}
StackSeen ==
  RoundStep =>
    \A i \in 1..Len(stack) :
       priority.passed \cap stack[i].needs = {} \/ (Proposing /\ i = Len(stack))
ProposedThere == Proposing => stack # <<>>
InputPlain == pc = "input" \/ site = "post" => miracle = "none"

SeenByAll == PendingFresh /\ StackSeen /\ ProposedThere /\ InputPlain

NoManaTriggers == "mana_trigger" \notin Happenings

LEMMA InitSeenByAll == Init => SeenByAll
BY DEF Init, SeenByAll, PendingFresh, StackSeen, ProposedThere, InputPlain, RoundStep, Proposing,
   NoFlow

LEMMA CountType ==
  ASSUME NEW t \in Triggers
  PROVE  Count(t) \in Nat
BY DEF Triggers, Count, Players

LEMMA LosesOnly ==
  ASSUME TypeOK, CardsMay({"lose"})
  PROVE  UNCHANGED <<world.etb, world.legend, world.sba, waiting, miracle>>
BY DEF TypeOK, Worlds, CardsMay, Caused, cards

LEMMA AtTheTopKeepsSeenByAll ==
  Clock /\ Parking /\ Swept /\ NoManaTriggers /\ SeenByAll /\ AtTheTop => SeenByAll'
<1> SUFFICES ASSUME Clock, Parking, Swept, NoManaTriggers, SeenByAll, AtTheTop PROVE SeenByAll'
  OBVIOUS
<1>0. /\ FlowHome /\ PlacementHome /\ ResolutionHome /\ ResolutionHolds /\ SiteHome /\ StageClock
      /\ FrameKnown /\ LatchedHome /\ DueFirst /\ ChoiceDue /\ QueryHome /\ FlowSeat /\ SiteKnown
      /\ TypeOK /\ CheckClean /\ Count(waiting) \in Nat
      /\ query \in Queries /\ priority \in Priorities /\ turn_state \in TurnStates
      /\ placement \in Placements /\ flow \in Flows /\ resolution \in Frames /\ stack \in
        Seq(Objects)
  BY CountType DEF Clock, Control, Parking, Swept, TypeInv, TypeOK
<1> USE DEF SeenByAll, PendingFresh, StackSeen, InputPlain, ProposedThere, RoundStep, Proposing,
            Pending, FlowHome, NoFlow, PlacementHome, SiteHome, cards, pregame, turn, flows
<1>1. CASE LeaveLoop
  BY <1>0, <1>1 DEF LeaveLoop, LoopLive, Priorities
<1>2. CASE DiscardConceded
  BY <1>0, <1>2 DEF DiscardConceded, NoFrame, NoQuery, NoPlacement, Priorities
<1>3. CASE AnswerQuery
  BY <1>0, <1>3 DEF AnswerQuery, Queries, Priorities
<1>4. CASE NothingParked
  BY <1>0, <1>4 DEF NothingParked, Priorities
<1>5. CASE Concede
  BY <1>0, <1>5 DEF Concede, Reading, Priorities
<1> QED
  BY <1>1, <1>2, <1>3, <1>4, <1>5 DEF AtTheTop

LEMMA DispatchKeepsSeenByAll ==
  Clock /\ Parking /\ Swept /\ NoManaTriggers /\ SeenByAll /\ Dispatch => SeenByAll'
<1> SUFFICES ASSUME Clock, Parking, Swept, NoManaTriggers, SeenByAll, Dispatch PROVE SeenByAll'
  OBVIOUS
<1>0. /\ FlowHome /\ PlacementHome /\ ResolutionHome /\ ResolutionHolds /\ SiteHome /\ StageClock
      /\ FrameKnown /\ LatchedHome /\ DueFirst /\ ChoiceDue /\ QueryHome /\ FlowSeat /\ SiteKnown
      /\ TypeOK /\ CheckClean /\ Count(waiting) \in Nat
      /\ query \in Queries /\ priority \in Priorities /\ turn_state \in TurnStates
      /\ placement \in Placements /\ flow \in Flows /\ resolution \in Frames /\ stack \in
        Seq(Objects)
  BY CountType DEF Clock, Control, Parking, Swept, TypeInv, TypeOK
<1> USE DEF SeenByAll, PendingFresh, StackSeen, InputPlain, ProposedThere, RoundStep, Proposing,
            Pending, FlowHome, NoFlow, PlacementHome, SiteHome, cards, pregame, turn, flows
<1>1. CASE ResumeCombatTarget
  BY <1>0, <1>1 DEF ResumeCombatTarget, AtTop, NoQuery, Priorities
<1>2. CASE ResumeDamageAssignment
  BY <1>0, <1>2 DEF ResumeDamageAssignment, AtTop, NoQuery, Seated, Active, Priorities, Queries,
     Combats
<1>3. CASE ResumeFlow
  BY <1>0, <1>3 DEF ResumeFlow, AtTop, NoQuery, Priorities, Flows
<1>4. CASE ResumePlacement
  BY <1>0, <1>4 DEF ResumePlacement, AtTop, Priorities, Placements, SiteKnown
<1>5. CASE ResumeTurnDraw
  BY <1>0, <1>5 DEF ResumeTurnDraw, AtTop, NoQuery, GivePriority, CardsMay, Priorities
<1>6. CASE KeepLatched
  BY <1>0, <1>6 DEF KeepLatched, AtTop, Conceded, Priorities
<1>7. CASE ReenterResolution
  BY <1>0, <1>7 DEF ReenterResolution, AtTop, Priorities
<1> QED
  BY <1>1, <1>2, <1>3, <1>4, <1>5, <1>6, <1>7 DEF Dispatch

LEMMA PregameKeepsSeenByAll ==
  Clock /\ Parking /\ Swept /\ NoManaTriggers /\ SeenByAll /\ Pregame => SeenByAll'
<1> SUFFICES ASSUME Clock, Parking, Swept, NoManaTriggers, SeenByAll, Pregame PROVE SeenByAll'
  OBVIOUS
<1>0. /\ FlowHome /\ PlacementHome /\ ResolutionHome /\ ResolutionHolds /\ SiteHome /\ StageClock
      /\ FrameKnown /\ LatchedHome /\ DueFirst /\ ChoiceDue /\ QueryHome /\ FlowSeat /\ SiteKnown
      /\ TypeOK /\ CheckClean /\ Count(waiting) \in Nat
      /\ query \in Queries /\ priority \in Priorities /\ turn_state \in TurnStates
      /\ placement \in Placements /\ flow \in Flows /\ resolution \in Frames /\ stack \in
        Seq(Objects)
  BY CountType DEF Clock, Control, Parking, Swept, TypeInv, TypeOK
<1> USE DEF SeenByAll, PendingFresh, StackSeen, InputPlain, ProposedThere, RoundStep, Proposing,
            Pending, FlowHome, NoFlow, PlacementHome, SiteHome, cards, pregame, turn, flows
<1>1. CASE Mulligans
  BY <1>0, <1>1 DEF Mulligans, Seated, Priorities, StageClock, TurnStates
<1>2. CASE FiatSetup
  BY <1>0, <1>2 DEF FiatSetup, Priorities, StageClock, TurnStates
<1>3. CASE OpeningActions
  BY <1>0, <1>3 DEF OpeningActions, SeatFirstTurn, Seated, Priorities, StageClock, TurnStates
<1>4. CASE PregameCheck
  BY <1>0, <1>4 DEF PregameCheck, Priorities, StageClock, TurnStates
<1> QED
  BY <1>1, <1>2, <1>3, <1>4 DEF Pregame

LEMMA TurnBasedKeepsSeenByAll ==
  Clock /\ Parking /\ Swept /\ NoManaTriggers /\ SeenByAll /\ TurnBased => SeenByAll'
<1> SUFFICES ASSUME Clock, Parking, Swept, NoManaTriggers, SeenByAll, TurnBased PROVE SeenByAll'
  OBVIOUS
<1>0. /\ FlowHome /\ PlacementHome /\ ResolutionHome /\ ResolutionHolds /\ SiteHome /\ StageClock
      /\ FrameKnown /\ LatchedHome /\ DueFirst /\ ChoiceDue /\ QueryHome /\ FlowSeat /\ SiteKnown
      /\ TypeOK /\ CheckClean /\ Count(waiting) \in Nat
      /\ query \in Queries /\ priority \in Priorities /\ turn_state \in TurnStates
      /\ placement \in Placements /\ flow \in Flows /\ resolution \in Frames /\ stack \in
        Seq(Objects)
  BY CountType DEF Clock, Control, Parking, Swept, TypeInv, TypeOK
<1> USE DEF SeenByAll, PendingFresh, StackSeen, InputPlain, ProposedThere, RoundStep, Proposing,
            Pending, FlowHome, NoFlow, PlacementHome, SiteHome, cards, pregame, turn, flows
<1>1. CASE GameOver
  BY <1>0, <1>1 DEF GameOver, AtGate, Priorities
<1>2. CASE NeedsDivision
  BY <1>0, <1>2 DEF NeedsDivision, AtGate, MayNeedDivision, Priorities
<1>3. CASE DealDamage
  BY <1>0, <1>3 DEF DealDamage, AtGate, CheckUnless, Priorities, DueFirst, DueCombat,
     DueAttackers, DueBlockers, DamageStep, ChoiceDue, CardsMay
<1>4. CASE TurnBasedActions
  BY <1>0, <1>4 DEF TurnBasedActions, AtGate, CheckUnless, EndsEffects, DueChoice, Priorities,
     TurnStates, CardsMay
<1> QED
  BY <1>1, <1>2, <1>3, <1>4 DEF TurnBased

LEMMA MandatoryKeepsSeenByAll ==
  Clock /\ Parking /\ Swept /\ NoManaTriggers /\ SeenByAll /\ Mandatory => SeenByAll'
<1> SUFFICES ASSUME Clock, Parking, Swept, NoManaTriggers, SeenByAll, Mandatory PROVE SeenByAll'
  OBVIOUS
<1>0. /\ FlowHome /\ PlacementHome /\ ResolutionHome /\ ResolutionHolds /\ SiteHome /\ StageClock
      /\ FrameKnown /\ LatchedHome /\ DueFirst /\ ChoiceDue /\ QueryHome /\ FlowSeat /\ SiteKnown
      /\ TypeOK /\ CheckClean /\ Count(waiting) \in Nat
      /\ query \in Queries /\ priority \in Priorities /\ turn_state \in TurnStates
      /\ placement \in Placements /\ flow \in Flows /\ resolution \in Frames /\ stack \in
        Seq(Objects)
  BY CountType DEF Clock, Control, Parking, Swept, TypeInv, TypeOK
<1> USE DEF SeenByAll, PendingFresh, StackSeen, InputPlain, ProposedThere, RoundStep, Proposing,
            Pending, FlowHome, NoFlow, PlacementHome, SiteHome, cards, pregame, turn, flows
<1>1. CASE RevealMiracle
  BY <1>0, <1>1 DEF RevealMiracle, Priorities
<1>2. CASE DeclareAttackers
  BY <1>0, <1>2 DEF DeclareAttackers, AtChoice, Parked, Active, Priorities, DueFirst, DueCombat,
     DueAttackers, DueBlockers, DamageStep, ChoiceDue, CardsMay
<1>3. CASE DeclareBlockers
  BY <1>0, <1>3 DEF DeclareBlockers, AtChoice, Parked, Seated, Active, Priorities, Queries,
     Combats
<1>4. CASE AssignCombatDamage
  BY <1>0, <1>4 DEF AssignCombatDamage, AtChoice, Parked, Seated, Active, Priorities, Queries,
     Combats
<1>5. CASE CleanupDiscard
  BY <1>0, <1>5 DEF CleanupDiscard, AtChoice, Priorities, ChoiceDue
<1>6. CASE PostMandatory
  BY <1>0, <1>6 DEF PostMandatory, CheckUnless, Priorities
<1> QED
  BY <1>1, <1>2, <1>3, <1>4, <1>5, <1>6 DEF Mandatory

LEMMA StateBasedKeepsSeenByAll ==
  Clock /\ Parking /\ Swept /\ NoManaTriggers /\ SeenByAll /\ StateBased => SeenByAll'
<1> SUFFICES ASSUME Clock, Parking, Swept, NoManaTriggers, SeenByAll, StateBased PROVE SeenByAll'
  OBVIOUS
<1>0. /\ FlowHome /\ PlacementHome /\ ResolutionHome /\ ResolutionHolds /\ SiteHome /\ StageClock
      /\ FrameKnown /\ LatchedHome /\ DueFirst /\ ChoiceDue /\ QueryHome /\ FlowSeat /\ SiteKnown
      /\ TypeOK /\ CheckClean /\ Count(waiting) \in Nat
      /\ query \in Queries /\ priority \in Priorities /\ turn_state \in TurnStates
      /\ placement \in Placements /\ flow \in Flows /\ resolution \in Frames /\ stack \in
        Seq(Objects)
  BY CountType DEF Clock, Control, Parking, Swept, TypeInv, TypeOK
<1> USE DEF SeenByAll, PendingFresh, StackSeen, InputPlain, ProposedThere, RoundStep, Proposing,
            Pending, FlowHome, NoFlow, PlacementHome, SiteHome, cards, pregame, turn, flows
<1>1. CASE SbeGameOver
  BY <1>0, <1>1 DEF SbeGameOver, Priorities
<1>2. CASE AskEntering
  BY <1>0, <1>2 DEF AskEntering, InSbe, ArmSbe, Parked, Seated, Priorities
<1>3. CASE CompleteEntering
  BY <1>0, <1>3 DEF CompleteEntering, InSbe, TakeLatched, NoQuery, Seated, Priorities
<1>4. CASE PlayersLose
  BY <1>0, <1>4 DEF PlayersLose, InSbe, Priorities
<1>5. CASE AskLegend
  BY <1>0, <1>5 DEF AskLegend, InSbe, ArmSbe, Parked, Seated, Priorities
<1>6. CASE PerformSbas
  BY <1>0, <1>6 DEF PerformSbas, InSbe, TakeLatched, NoQuery, Seated, SbaMark, Priorities,
     TurnStates
<1>7. CASE Settle
  BY <1>0, <1>7 DEF Settle, InSbe, NoPlacement, NoTriggers, Priorities, SiteKnown
<1>8. CASE SbeReturned
  BY <1>0, <1>8 DEF SbeReturned, SeatFirstTurn, Seated, Priorities, SiteStage, TurnStates,
     StageClock
<1> QED
  BY <1>1, <1>2, <1>3, <1>4, <1>5, <1>6, <1>7, <1>8 DEF StateBased

LEMMA PlacementKeepsSeenByAll ==
  Clock /\ Parking /\ Swept /\ NoManaTriggers /\ SeenByAll /\ Placement => SeenByAll'
<1> SUFFICES ASSUME Clock, Parking, Swept, NoManaTriggers, SeenByAll, Placement PROVE SeenByAll'
  OBVIOUS
<1>0. /\ FlowHome /\ PlacementHome /\ ResolutionHome /\ ResolutionHolds /\ SiteHome /\ StageClock
      /\ FrameKnown /\ LatchedHome /\ DueFirst /\ ChoiceDue /\ QueryHome /\ FlowSeat /\ SiteKnown
      /\ TypeOK /\ CheckClean /\ Count(waiting) \in Nat
      /\ query \in Queries /\ priority \in Priorities /\ turn_state \in TurnStates
      /\ placement \in Placements /\ flow \in Flows /\ resolution \in Frames /\ stack \in
        Seq(Objects)
  BY CountType DEF Clock, Control, Parking, Swept, TypeInv, TypeOK
<1> USE DEF SeenByAll, PendingFresh, StackSeen, InputPlain, ProposedThere, RoundStep, Proposing,
            Pending, FlowHome, NoFlow, PlacementHome, SiteHome, cards, pregame, turn, flows
<1>1. CASE AskPlacement
  BY <1>0, <1>1 DEF AskPlacement, Placing, Parked, Seated, Priorities, Placements, SiteKnown
<1>2. CASE TakePlacementAnswer
  BY <1>0, <1>2 DEF TakePlacementAnswer, Placing, NoQuery, Seated, Priorities, Placements,
     SiteKnown
<1>3. CASE PutTriggerOnStack
  BY <1>0, <1>3 DEF PutTriggerOnStack, Placing, PlacedOne, Seated, Priorities, Placements,
     SiteKnown
<1>4. CASE RemoveTrigger
  BY <1>0, <1>4 DEF RemoveTrigger, Placing, PlacedOne, Seated, Priorities, Placements, SiteKnown
<1>5. CASE PlacementDone
  BY <1>0, <1>5 DEF PlacementDone, NoPlacement, CheckAgain, SavedSeat, Seated, Priorities,
     Placements, SiteKnown
<1> QED
  BY <1>1, <1>2, <1>3, <1>4, <1>5 DEF Placement

LEMMA AdvanceStepKeepsSeenByAll ==
  Clock /\ Parking /\ Swept /\ NoManaTriggers /\ SeenByAll /\ AdvanceStep => SeenByAll'
<1> SUFFICES ASSUME Clock, Parking, Swept, NoManaTriggers, SeenByAll, AdvanceStep PROVE SeenByAll'
  OBVIOUS
<1>0. /\ FlowHome /\ PlacementHome /\ ResolutionHome /\ ResolutionHolds /\ SiteHome /\ StageClock
      /\ FrameKnown /\ LatchedHome /\ DueFirst /\ ChoiceDue /\ QueryHome /\ FlowSeat /\ SiteKnown
      /\ TypeOK /\ CheckClean /\ Count(waiting) \in Nat
      /\ query \in Queries /\ priority \in Priorities /\ turn_state \in TurnStates
      /\ placement \in Placements /\ flow \in Flows /\ resolution \in Frames /\ stack \in
        Seq(Objects)
  BY CountType DEF Clock, Control, Parking, Swept, TypeInv, TypeOK
<1> USE DEF SeenByAll, PendingFresh, StackSeen, InputPlain, ProposedThere, RoundStep, Proposing,
            Pending, FlowHome, NoFlow, PlacementHome, SiteHome, cards, pregame, turn, flows
<1>1. CASE SomeoneHasPriority
  BY <1>0, <1>1 DEF SomeoneHasPriority, Priorities
<1>2. CASE OpenCleanupRound
  BY <1>0, <1>2 DEF OpenCleanupRound, CleanupRoundDue, GivePriority, Priorities, PriorityIn,
     ResolutionHolds, FrameKnown, BothPassed, TurnStates, Players, StepsAfter
<1>3. CASE ResolvePermanent
  BY <1>0, <1>3 DEF ResolvePermanent, Resolves, Priorities
<1>4. CASE EnterFrame
  BY <1>0, <1>4 DEF EnterFrame, Resolves, NoFrame, Seated, Priorities, ResolutionHome,
     ResolutionHolds, FrameKnown, Frames
<1>5. CASE ResumeFrame
  BY <1>0, <1>5 DEF ResumeFrame, Resolves, Priorities
<1>6. CASE ChangeStep
  BY <1>0, <1>6 DEF ChangeStep, StepEnds, StepsAfter, CombatAfter, PriorityIn, GivePriority,
     Active, Priorities, ResolutionHolds, FrameKnown, BothPassed, TurnStates, Players
<1>7. CASE EnterDraw
  BY <1>0, <1>7 DEF EnterDraw, StepEnds, GivePriority, Priorities, PriorityIn, ResolutionHolds,
     FrameKnown, BothPassed, TurnStates, Players, StepsAfter
<1>8. CASE SuspendDraw
  BY <1>0, <1>8 DEF SuspendDraw, StepEnds, Parked, Seated, Priorities, PriorityIn, GivePriority,
     ResolutionHolds, FrameKnown, BothPassed, TurnStates, Players, StepsAfter
<1>9. CASE BeginCleanup
  BY <1>0, <1>9 DEF BeginCleanup, StepEnds, CleanupBegun, Priorities, PriorityIn, GivePriority,
     ResolutionHolds, FrameKnown, BothPassed, TurnStates, Players, StepsAfter
<1>10. CASE NextTurn
  BY <1>0, <1>10 DEF NextTurn, StepEnds, Priorities, PriorityIn, GivePriority, ResolutionHolds,
     FrameKnown, BothPassed, TurnStates, Players, StepsAfter
<1> QED
  BY <1>1, <1>2, <1>3, <1>4, <1>5, <1>6, <1>7, <1>8, <1>9, <1>10 DEF AdvanceStep

LEMMA ResolutionKeepsSeenByAll ==
  Clock /\ Parking /\ Swept /\ NoManaTriggers /\ SeenByAll /\ Resolution => SeenByAll'
<1> SUFFICES ASSUME Clock, Parking, Swept, NoManaTriggers, SeenByAll, Resolution PROVE SeenByAll'
  OBVIOUS
<1>0. /\ FlowHome /\ PlacementHome /\ ResolutionHome /\ ResolutionHolds /\ SiteHome /\ StageClock
      /\ FrameKnown /\ LatchedHome /\ DueFirst /\ ChoiceDue /\ QueryHome /\ FlowSeat /\ SiteKnown
      /\ TypeOK /\ CheckClean /\ Count(waiting) \in Nat
      /\ query \in Queries /\ priority \in Priorities /\ turn_state \in TurnStates
      /\ placement \in Placements /\ flow \in Flows /\ resolution \in Frames /\ stack \in
        Seq(Objects)
  BY CountType DEF Clock, Control, Parking, Swept, TypeInv, TypeOK
<1> USE DEF SeenByAll, PendingFresh, StackSeen, InputPlain, ProposedThere, RoundStep, Proposing,
            Pending, FlowHome, NoFlow, PlacementHome, SiteHome, cards, pregame, turn, flows
<1>1. CASE Ask
  BY <1>0, <1>1 DEF Ask, Handler, Parked, Seated, Priorities, ResolutionHome, ResolutionHolds,
     FrameKnown, Frames
<1>2. CASE TakeAnswer
  BY <1>0, <1>2 DEF TakeAnswer, AnswerRead, NoQuery, Seated, Priorities, ResolutionHome,
     ResolutionHolds, FrameKnown, Frames
<1>3. CASE CastDuringResolution
  BY <1>0, <1>3 DEF CastDuringResolution, Handler, Seated, Priorities, ResolutionHome,
     ResolutionHolds, FrameKnown, Frames
<1>4. CASE InnerCastDone
  BY <1>0, <1>4 DEF InnerCastDone, Seated, Priorities, ResolutionHome, ResolutionHolds,
     FrameKnown, Frames
<1>5. CASE FinishResolution
  BY <1>0, <1>5 DEF FinishResolution, Handler, NoFrame, GivePriority, Priorities, ResolutionHome,
     ResolutionHolds, FrameKnown, Frames
<1> QED
  BY <1>1, <1>2, <1>3, <1>4, <1>5 DEF Resolution

LEMMA PriorityKeepsSeenByAll ==
  Clock /\ Parking /\ Swept /\ NoManaTriggers /\ SeenByAll /\ Priority => SeenByAll'
<1> SUFFICES ASSUME Clock, Parking, Swept, NoManaTriggers, SeenByAll, Priority PROVE SeenByAll'
  OBVIOUS
<1>0. /\ FlowHome /\ PlacementHome /\ ResolutionHome /\ ResolutionHolds /\ SiteHome /\ StageClock
      /\ FrameKnown /\ LatchedHome /\ DueFirst /\ ChoiceDue /\ QueryHome /\ FlowSeat /\ SiteKnown
      /\ TypeOK /\ CheckClean /\ Count(waiting) \in Nat
      /\ query \in Queries /\ priority \in Priorities /\ turn_state \in TurnStates
      /\ placement \in Placements /\ flow \in Flows /\ resolution \in Frames /\ stack \in
        Seq(Objects)
  BY CountType DEF Clock, Control, Parking, Swept, TypeInv, TypeOK
<1> USE DEF SeenByAll, PendingFresh, StackSeen, InputPlain, ProposedThere, RoundStep, Proposing,
            Pending, FlowHome, NoFlow, PlacementHome, SiteHome, cards, pregame, turn, flows
<1>1. CASE Pass
  BY <1>0, <1>1 DEF Pass, Priorities, CheckClean, Leftover, Settled
<1>2. CASE SpecialAction
  BY <1>0, <1>2 DEF SpecialAction, ActionTaken, Priorities
<1>3. CASE BeginFlow
  <2>1. /\ flow' \in Flows /\ flow'.kind \in {"cast", "activation", "mana"} /\ ~flow'.paid
        /\ (stack' = stack /\ ~Proposing') \/ stack' = Append(stack, Object(priority.holder))
        /\ flow = NoFlow /\ Pending' = Pending /\ RoundStep' = RoundStep /\ priority' = priority
        /\ Proposing' <=> flow'.kind # "mana"
    BY <1>0, <1>3 DEF BeginFlow, Flows, Priorities
  <2> QED
    BY <1>0, <1>3, <2>1 DEF BeginFlow, Priorities, Object
<1> QED
  BY <1>1, <1>2, <1>3 DEF Priority

LEMMA FlowKeepsSeenByAll ==
  Clock /\ Parking /\ Swept /\ NoManaTriggers /\ SeenByAll /\ Flow => SeenByAll'
<1> SUFFICES ASSUME Clock, Parking, Swept, NoManaTriggers, SeenByAll, Flow PROVE SeenByAll'
  OBVIOUS
<1>0. /\ FlowHome /\ PlacementHome /\ ResolutionHome /\ ResolutionHolds /\ SiteHome /\ StageClock
      /\ FrameKnown /\ LatchedHome /\ DueFirst /\ ChoiceDue /\ QueryHome /\ FlowSeat /\ SiteKnown
      /\ TypeOK /\ CheckClean /\ Count(waiting) \in Nat
      /\ query \in Queries /\ priority \in Priorities /\ turn_state \in TurnStates
      /\ placement \in Placements /\ flow \in Flows /\ resolution \in Frames /\ stack \in
        Seq(Objects)
  BY CountType DEF Clock, Control, Parking, Swept, TypeInv, TypeOK
<1> USE DEF SeenByAll, PendingFresh, StackSeen, InputPlain, ProposedThere, RoundStep, Proposing,
            Pending, FlowHome, NoFlow, PlacementHome, SiteHome, cards, pregame, turn, flows
<1>1. CASE FlowAsk
  BY <1>0, <1>1 DEF FlowAsk, Parked, Priorities
<1>2. CASE FlowPay
  <2>1. CASE flow.kind = "mana"
    <3>1. FlowEffects = {"lose"}
      BY <2>1 DEF FlowEffects, NoManaTriggers
    <3>2. UNCHANGED <<world.etb, world.legend, world.sba, waiting, miracle>>
      BY <1>0, <1>2, <3>1, LosesOnly DEF FlowPay
    <3>3. flow'.kind = flow.kind /\ UNCHANGED <<pc, site, turn_state, resolution, stack, placement,
      priority>>
      BY <1>0, <1>2 DEF FlowPay, Flows
    <3> QED
      BY <2>1, <3>2, <3>3
  <2>2. CASE flow.kind # "mana"
    <3>1. Proposing /\ Proposing' /\ flow'.paid
      BY <1>0, <1>2, <2>2 DEF FlowPay, Flows, FlowSeat
    <3> QED
      BY <1>0, <1>2, <3>1 DEF FlowPay
  <2> QED
    BY <2>1, <2>2
<1>3. CASE FlowRewind
  <2>1. CASE Proposing
    <3>1. Len(stack) \in Nat /\ Len(stack) > 0 /\ stack' = Without(stack, Len(stack))
      BY <1>0, <1>3, <2>1 DEF FlowRewind
    <3>2. /\ Len(stack') = Len(stack) - 1
          /\ \A i \in 1..Len(stack') : i < Len(stack) /\ stack'[i] = stack[i]
      BY <3>1 DEF Without
    <3>3. /\ ~flow.paid /\ ~Proposing' /\ priority' = priority
          /\ Pending' = Pending /\ (RoundStep' => RoundStep)
      BY <1>0, <1>3 DEF FlowRewind, FlowReturns
    <3>4. PendingFresh' /\ ProposedThere' /\ InputPlain'
      BY <1>0, <1>3, <2>1, <3>3 DEF FlowRewind, FlowReturns
    <3>5. RoundStep => \A i \in 1..Len(stack') : priority.passed \cap stack[i].needs = {}
      BY <3>1, <3>2
    <3>6. StackSeen'
      BY <3>2, <3>3, <3>5
    <3> QED
      BY <3>4, <3>6
  <2>2. CASE ~Proposing
    <3>1. flow.kind = "mana"
      BY <1>0, <1>3, <2>2 DEF FlowRewind, FlowSeat, Flows
    <3> QED
      BY <1>0, <1>3, <3>1 DEF FlowRewind, FlowReturns
  <2> QED
    BY <2>1, <2>2
<1>4. CASE FlowDone
  <2>1. CASE flow.kind = "mana"
    <3>1. FlowEffects = {"lose"}
      BY <2>1 DEF FlowEffects, NoManaTriggers
    <3>2. UNCHANGED <<world.etb, world.legend, world.sba, waiting, miracle>>
      BY <1>0, <1>4, <3>1, LosesOnly DEF FlowDone
    <3>3. ~Proposing' /\ UNCHANGED <<site, turn_state, resolution, stack, placement, priority>>
      BY <1>4, <2>1 DEF FlowDone, KeepsPasses
    <3>4. pc' # "input" /\ (RoundStep' => RoundStep)
      BY <1>4, <3>3 DEF FlowDone, FlowReturns
    <3> QED
      BY <1>0, <1>4, <2>1, <3>2, <3>3, <3>4 DEF FlowDone
  <2>2. CASE flow.kind # "mana" /\ ~resolution.active
    <3>1. priority'.passed = {}
      BY <1>0, <1>4, <2>2 DEF FlowDone, KeepsPasses, ActionTaken, Priorities
    <3>2. ~Proposing' /\ pc' # "input" /\ site' = site /\ site # "post"
      BY <1>0, <1>4 DEF FlowDone, FlowReturns
    <3> QED
      BY <3>1, <3>2
  <2>3. CASE resolution.active
    <3>1. ~RoundStep' /\ ~Proposing' /\ pc' # "input" /\ site' = site /\ site # "post"
      BY <1>0, <1>4, <2>3 DEF FlowDone, FlowReturns
    <3> QED
      BY <3>1
  <2> QED
    BY <2>1, <2>2, <2>3
<1> QED
  BY <1>1, <1>2, <1>3, <1>4 DEF Flow

LEMMA NextKeepsSeenByAll ==
  Clock /\ Parking /\ Swept /\ NoManaTriggers /\ SeenByAll /\ [Next]_vars => SeenByAll'
<1> SUFFICES ASSUME Clock, Parking, Swept, NoManaTriggers, SeenByAll, [Next]_vars PROVE SeenByAll'
  OBVIOUS
<1>0. SiteHome
  BY DEF Clock
<1>1. CASE LoopLeft
  BY <1>0, <1>1 DEF LoopLeft, SeenByAll, PendingFresh, StackSeen, InputPlain, ProposedThere,
     RoundStep, Proposing, Pending, cards, pregame, turn, flows
<1>2. CASE UNCHANGED vars
  BY <1>2 DEF SeenByAll, PendingFresh, StackSeen, InputPlain, ProposedThere, RoundStep,
     Proposing, Pending, vars
<1>3. CASE Finished
  BY <1>2, <1>3 DEF Finished
<1> QED
  BY <1>1, <1>2, <1>3, AtTheTopKeepsSeenByAll, DispatchKeepsSeenByAll, PregameKeepsSeenByAll,
     TurnBasedKeepsSeenByAll, MandatoryKeepsSeenByAll, StateBasedKeepsSeenByAll,
     PlacementKeepsSeenByAll, AdvanceStepKeepsSeenByAll, ResolutionKeepsSeenByAll,
     PriorityKeepsSeenByAll, FlowKeepsSeenByAll
  DEF Next

(* In a game in which mana abilities trigger nothing, an object resolves only after each player
   has passed with it on the stack, but in the priority rounds of a cleanup step. *)
THEOREM ResolvedSeen == NoManaTriggers => (Spec => []NoObjectResolvesUnseen)
<1> SUFFICES ASSUME NoManaTriggers PROVE Spec => []NoObjectResolvesUnseen
  OBVIOUS
<1>1. Clock /\ Parking /\ Swept /\ SeenByAll => NoObjectResolvesUnseen
  <2> SUFFICES ASSUME Clock, Parking, SeenByAll, Resolves, ~resolution.active,
                      ~turn_state.cleanup_priority_round
               PROVE  stack[Len(stack)].needs = {}
    BY DEF NoObjectResolvesUnseen
  <2>1. RoundStep /\ priority.passed = Players
    BY DEF Resolves, CleanupRoundDue, RoundStep, BothPassed
  <2>2. ~Proposing
    BY DEF Clock, Control, FlowHome, NoFlow, Proposing, Resolves
  <2>3. stack \in Seq(Objects) /\ stack # <<>>
    BY DEF Clock, Control, TypeInv, TypeOK, Resolves
  <2>4. Len(stack) \in 1..Len(stack) /\ stack[Len(stack)] \in Objects
    BY <2>3
  <2>5. priority.passed \cap stack[Len(stack)].needs = {}
    BY <2>1, <2>2, <2>4 DEF SeenByAll, StackSeen
  <2> QED
    BY <2>1, <2>4, <2>5 DEF Objects
<1>2. Clock /\ Parking /\ Swept /\ SeenByAll /\ [Next]_vars => SeenByAll'
  BY NextKeepsSeenByAll
<1> QED
  BY <1>1, <1>2, SweptInvariant, InitSeenByAll, PTL DEF Spec
=============================================================================
