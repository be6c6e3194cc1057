----------------------------- MODULE MCGameLoop -----------------------------
(***************************************************************************)
(* The instances of GameLoop that TLC checks.  Each scenario is the set of  *)
(* things cards may cause in it; a scenario leaves out what its question    *)
(* does not turn on, so that the rest can be explored exhaustively.         *)
(***************************************************************************)
EXTENDS GameLoop

(* Questions of the state-based check, before and during the game, miracles, and every way a game
   ends; in the pregame and in the steps where combat, priority and cleanup differ. *)
CheckScenario == {"etb", "legend", "sba", "lose", "win", "miracle", "preset", "concede"}
CheckSteps == {"UNTAP", "FIRST_MAIN", "DECLARE_ATTACKERS", "COMBAT_DAMAGE", "CLEANUP"}

(* Who passes and who acts over whole turns: triggers, full hands, suspended draws and extra
   turns. *)
TurnScenario == {"trigger", "excess", "dredge", "extra_turn"}

(* Everything that starts a check over, asks, or keeps a turn from ending: legend conflicts and
   rounds of state-based actions, triggers (of mana abilities too) and their order, full hands,
   concession; in a main phase and in the cleanup step. *)
AnswerScenario == {"legend", "sba", "trigger", "mana_trigger", "excess", "concede"}
AnswerSteps == {"FIRST_MAIN", "CLEANUP"}

OneSeat == {"A"}
=============================================================================
