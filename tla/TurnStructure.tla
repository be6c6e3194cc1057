--------------------------- MODULE TurnStructure ---------------------------
(***************************************************************************)
(* What a turn promises its players (CR 500-514): the steps come in their  *)
(* order, each at most once a turn, the combat steps that nobody attacks   *)
(* in are skipped, a turn ends only in its cleanup step, extra turns are   *)
(* taken last created first, and once the game is over no step begins.     *)
(***************************************************************************)
EXTENDS Naturals, Sequences

VARIABLES step, turn, active, owed, over
vars == <<step, turn, active, owed, over>>

Seats == {"A", "B"}
Other(p) == IF p = "A" THEN "B" ELSE "A"

Follows ==
    {<<"UNTAP", "UPKEEP">>, <<"UPKEEP", "DRAW">>, <<"DRAW", "FIRST_MAIN">>,
     <<"FIRST_MAIN", "BEGIN_COMBAT">>, <<"BEGIN_COMBAT", "DECLARE_ATTACKERS">>,
     <<"DECLARE_ATTACKERS", "DECLARE_BLOCKERS">>, <<"DECLARE_ATTACKERS", "END_OF_COMBAT">>,
     <<"DECLARE_BLOCKERS", "FIRST_STRIKE_DAMAGE">>, <<"DECLARE_BLOCKERS", "COMBAT_DAMAGE">>,
     <<"FIRST_STRIKE_DAMAGE", "COMBAT_DAMAGE">>, <<"COMBAT_DAMAGE", "END_OF_COMBAT">>,
     <<"END_OF_COMBAT", "SECOND_MAIN">>, <<"SECOND_MAIN", "END_STEP">>,
     <<"END_STEP", "CLEANUP">>}

Init ==
    /\ step = "UNTAP" /\ turn = 0 /\ owed = <<>> /\ over = FALSE
    /\ active \in Seats

(* Before the first step begins the first turn is given to a player. *)
FirstTurn ==
    /\ turn = 0 /\ step = "UNTAP"
    /\ active' \in Seats
    /\ UNCHANGED <<step, turn, owed, over>>

(* A step ends and the next begins; what happens as it begins may end the game. *)
NextStep ==
    /\ ~over /\ over' \in BOOLEAN
    /\ <<step, step'>> \in Follows
    /\ UNCHANGED <<turn, active, owed>>

(* A player is given an extra turn after this one (CR 500.7). *)
TurnOwed ==
    /\ \E p \in Seats : owed' = Append(owed, p)
    /\ UNCHANGED <<step, turn, active, over>>

(* The extra turn created last is taken first; with none owed the opponent is next. *)
NextTurn ==
    /\ ~over /\ step = "CLEANUP"
    /\ step' = "UNTAP" /\ turn' = turn + 1
    /\ IF owed = <<>>
       THEN active' = Other(active) /\ UNCHANGED owed
       ELSE owed = Append(owed', active')
    /\ UNCHANGED over

GameEnds ==
    /\ over' = TRUE
    /\ UNCHANGED <<step, turn, active, owed>>

Next == FirstTurn \/ NextStep \/ TurnOwed \/ NextTurn \/ GameEnds
Spec == Init /\ [][Next]_vars
=============================================================================
