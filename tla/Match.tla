-------------------------------- MODULE Match -------------------------------
(***************************************************************************)
(* A match of one or of up to three decided games (play_bo3_match and      *)
(* run_sideboard_phase of src/game_driver.cpp), as an actor plays it       *)
(* (run_match of src/agents/actor.cpp): the score, who goes first, the     *)
(* sideboarding between games one card at a time, concessions and the      *)
(* decision cap, the decklists the players are shown (classes/deck_state)  *)
(* and the lines of the actor's results file.                              *)
(*                                                                         *)
(* A game is its outcome here (GameLoop has its inside).  A deck section   *)
(* is the number of copies of each card.                                   *)
(***************************************************************************)
EXTENDS Integers, Sequences, FiniteSets

CONSTANTS
    Cards,
    Deals,         \* the decks of a match: [A, B -> [main, side]]
    Formats,       \* subset of {"bo1", "bo3"}
    SwapCap,       \* SIDEBOARD_SWAP_CAP, 15
    MaxGames,      \* MAX_MATCH_GAMES, 10
    MaxIgnored     \* bound: concessions ignored in one phase, or in one decided game

Players == {"A", "B"}
Opponent(p) == IF p = "A" THEN "B" ELSE "A"
None == "none"

(* deck_state's two sections, as copies of each card. *)
Lists == [main : [Cards -> Nat], side : [Cards -> Nat]]

ASSUME MatchAssumption == SwapCap \in Nat /\ MaxGames \in Nat /\ MaxIgnored \in Nat
ASSUME DealsAssumption == IsFiniteSet(Cards) /\ Deals \subseteq [Players -> Lists]

VARIABLES
    dealt,      \* the decks the match was given, and its format
    ctx,        \* g_match_ctx, but for its sb
    sb,         \* ctx.sb
    game,       \* the game being played
    conceder,   \* g_match_conceder
    capped,     \* g_match_capped
    store,      \* the registered and live decklists
    tally,      \* actor->game
    rows,       \* the actor's results file
    result,     \* of the match: a player, "unknown" or "fatal"; none while it is played
    played      \* history: the decks of the last game begun

vars == <<dealt, ctx, sb, game, conceder, capped, store, tally, rows, result, played>>

NoGame == [status |-> "none", winner |-> None, unwinding |-> FALSE, ignored |-> 0]
NoMoves == [c \in Cards |-> 0]
FreshTally ==
    [game |-> 1, first |-> "A", wins |-> [p \in Players |-> 0], conceded |-> FALSE,
     in |-> [p \in Players |-> NoMoves], out |-> [p \in Players |-> NoMoves]]
(* SideboardPhaseState *)
Phase(p) ==
    [player |-> p, swaps |-> 0, out |-> {}, in |-> {}, delta |-> 0, unpaired |-> None,
     force_done |-> FALSE, ignored |-> 0]

Init ==
    /\ dealt \in [deck : Deals, format : Formats]
    /\ ctx = [stage |-> "PLAY_GAME", game_num |-> 0, wins |-> [p \in Players |-> 0],
              first |-> "A", deck |-> dealt.deck]
    /\ sb = Phase(None) /\ game = NoGame /\ conceder = None /\ capped = FALSE
    /\ store = [registered |-> None, live |-> None]
    /\ tally = FreshTally /\ rows = <<>> /\ result = "none" /\ played = dealt.deck

-----------------------------------------------------------------------------
(* A game.                                                                  *)

(* The guard of play_single_game(): the registered lists are those of the first game. *)
Registers(g) == g = 0

(* before_game and the beginning of play_single_game() *)
StartGame ==
    /\ result = "none" /\ ctx.stage = "PLAY_GAME" /\ game = NoGame
    /\ ctx.game_num < MaxGames
    /\ store' = [registered |-> IF Registers(ctx.game_num) THEN ctx.deck ELSE store.registered,
                 live |-> ctx.deck]
    /\ tally' = [tally EXCEPT !.game = ctx.game_num + 1, !.first = ctx.first, !.wins = ctx.wins]
    /\ game' = [NoGame EXCEPT !.status = "live"]
    /\ played' = ctx.deck
    /\ UNCHANGED <<dealt, ctx, sb, conceder, capped, rows, result>>
TooManyGames ==
    /\ result = "none" /\ ctx.stage = "PLAY_GAME" /\ game = NoGame
    /\ ctx.game_num = MaxGames /\ result' = "fatal"
    /\ UNCHANGED <<dealt, ctx, sb, game, conceder, capped, store, tally, rows, played>>

Ended(w, unwinding) == game' = [game EXCEPT !.status = "ended", !.winner = w, !.unwinding = unwinding]
GameDecided ==
    /\ game.status = "live" /\ \E w \in Players \union {None} : Ended(w, FALSE)
    /\ UNCHANGED <<dealt, ctx, sb, conceder, capped, store, tally, rows, result, played>>

(* concede_current_game(), read at a decision of p: of a live game, or of one already decided whose
   last questions are still asked. *)
Concede(p, whole) ==
    /\ ~game.unwinding
    /\ \/ game.status = "live" /\ Ended(Opponent(p), TRUE)
       \/ game.status = "ended" /\ game.ignored < MaxIgnored /\ game' = [game EXCEPT !.ignored = @ + 1]
    /\ conceder' = IF whole THEN p ELSE conceder
    /\ tally' = [tally EXCEPT !.conceded = TRUE]
    /\ UNCHANGED <<dealt, ctx, sb, capped, store, rows, result, played>>

(* cap_current_game() *)
CapGame ==
    /\ game.status = "live" /\ Ended(None, TRUE) /\ capped' = TRUE
    /\ UNCHANGED <<dealt, ctx, sb, conceder, store, tally, rows, result, played>>

-----------------------------------------------------------------------------
(* The end of a game: the score, its results line, and what follows.        *)

Reason ==
    IF capped THEN "cap" ELSE IF tally.conceded THEN "concession"
    ELSE IF game.winner = None THEN "draw" ELSE "win"
(* write_results_line() *)
Line ==
    [game |-> tally.game, first |-> tally.first, wins |-> tally.wins, winner |-> game.winner,
     reason |-> Reason, in |-> tally.in, out |-> tally.out]

Score == [p \in Players |-> ctx.wins[p] + IF game.winner = p THEN 1 ELSE 0]
ScoreFirst(wins) ==                          \* mutant: a second win counts before a concession
    IF capped THEN "unknown"
    ELSE IF wins["A"] = 2 THEN "A" ELSE IF wins["B"] = 2 THEN "B"
    ELSE IF conceder # None THEN Opponent(conceder) ELSE "none"
(* What play_bo3_match() returns, checked in its order. *)
Outcome(wins) ==
    IF capped THEN "unknown"
    ELSE IF conceder # None THEN Opponent(conceder)
    ELSE IF wins["A"] = 2 THEN "A" ELSE IF wins["B"] = 2 THEN "B" ELSE "none"
SingleOutcome == IF game.winner = None THEN "unknown" ELSE game.winner
(* The loser goes first; after a draw, who went first before. *)
GoesFirst == IF game.winner = None THEN ctx.first ELSE Opponent(game.winner)

EndGame ==
    /\ game.status = "ended"
    /\ rows' = Append(rows, Line) /\ tally' = FreshTally /\ game' = NoGame
    /\ result' = IF dealt.format = "bo1" THEN SingleOutcome ELSE Outcome(Score)
    /\ IF result' = "none"
       THEN /\ ctx' = [ctx EXCEPT !.wins = Score, !.first = GoesFirst, !.stage = "SIDEBOARD"]
            /\ sb' = Phase("A")
       ELSE ctx' = [ctx EXCEPT !.wins = Score] /\ UNCHANGED sb
    /\ UNCHANGED <<dealt, conceder, capped, store, played>>

-----------------------------------------------------------------------------
(* run_sideboard_phase(): at a balanced deck "Done" and every card to bring *)
(* in; with one brought in, every card to cut.                              *)

Deck == ctx.deck[sb.player]
Sideboarding == result = "none" /\ ctx.stage = "SIDEBOARD"
Balanced == sb.delta = 0
BackAgain == {c \in Cards : Deck.side[c] > 0} \* mutant: what was sided out may come back
Unlocked == {c \in Cards : Deck.side[c] > 0 /\ c \notin sb.out}
Ins == IF sb.force_done THEN {} ELSE Unlocked
Cuttable == {c \in Cards : Deck.main[c] > 0 /\ c \notin sb.in}
(* The forced cut, of the main deck's first card whatever it is, when no card may be cut. *)
NoForcedCut == Cuttable                      \* mutant
Outs == IF Cuttable = {} THEN {c \in Cards : Deck.main[c] > 0} ELSE Cuttable
(* A menu of one row is taken without asking. *)
Asked == IF Balanced THEN Ins # {} ELSE Cardinality(Cuttable) > 1

(* deck_move_one_copy() *)
AllCopies(d, c, from, to) ==                 \* mutant: the source's entry goes, copies and all
    IF from = "side" THEN [d EXCEPT !.side[c] = 0, !.main[c] = @ + 1]
    ELSE [d EXCEPT !.main[c] = 0, !.side[c] = @ + 1]
MoveOne(d, c, from, to) ==
    IF from = "side" THEN [d EXCEPT !.side[c] = @ - 1, !.main[c] = @ + 1]
    ELSE [d EXCEPT !.main[c] = @ - 1, !.side[c] = @ + 1]
Moves(c, from, to) ==
    /\ ctx' = [ctx EXCEPT !.deck[sb.player] = MoveOne(@, c, from, to)]
    /\ store' = [store EXCEPT !.live[sb.player] = ctx'.deck[sb.player]]

BringIn(c) ==
    /\ Sideboarding /\ Balanced /\ sb.swaps < SwapCap /\ c \in Ins
    /\ Moves(c, "side", "main")
    /\ sb' = [sb EXCEPT !.in = @ \union {c}, !.delta = 1, !.unpaired = c]
    /\ tally' = [tally EXCEPT !.in[sb.player][c] = @ + 1]
    /\ UNCHANGED <<dealt, game, conceder, capped, rows, result, played>>

Cut(c) ==
    /\ Sideboarding /\ ~Balanced /\ c \in Outs
    /\ Moves(c, "main", "side")
    /\ sb' = [sb EXCEPT !.out = @ \union {c}, !.delta = 0, !.unpaired = None, !.swaps = @ + 1,
                        !.force_done = @ \/ Cuttable = {}]
    /\ tally' = [tally EXCEPT !.out[sb.player][c] = @ + 1]
    /\ UNCHANGED <<dealt, game, conceder, capped, rows, result, played>>

(* The other player's phase, or the next game; nothing follows the concession of the match. *)
PhaseOver(c) ==
    IF c # None THEN result' = Opponent(c) /\ UNCHANGED <<ctx, sb>>
    ELSE IF sb.player = "A" THEN sb' = Phase("B") /\ UNCHANGED <<ctx, result>>
    ELSE /\ ctx' = [ctx EXCEPT !.stage = "PLAY_GAME", !.game_num = @ + 1]
         /\ UNCHANGED <<sb, result>>

(* The Done row, or the cap on swaps. *)
Done ==
    /\ Sideboarding /\ Balanced /\ PhaseOver(conceder)
    /\ UNCHANGED <<dealt, game, conceder, capped, store, tally, rows, played>>

AsFirstRow ==                                \* mutant: an ignored concession is noted as the first row
    /\ Sideboarding /\ Asked
    /\ \/ Balanced /\ sb.swaps < SwapCap /\ PhaseOver(conceder) /\ UNCHANGED tally
       \/ ~Balanced /\ sb.ignored < MaxIgnored /\ sb' = [sb EXCEPT !.ignored = @ + 1]
          /\ tally' = [tally EXCEPT !.out[sb.player][CHOOSE c \in Cuttable : TRUE] = @ + 1]
          /\ UNCHANGED <<ctx, result>>
    /\ UNCHANGED <<dealt, game, conceder, capped, store, rows, played>>
(* A concession read here is answered with choice 0: Done at a balanced deck, nothing otherwise;
   that of the match ends the phase where it is. *)
ConcedeBetween ==
    /\ Sideboarding /\ Asked
    /\ \/ Balanced /\ sb.swaps < SwapCap /\ PhaseOver(conceder)
       \/ ~Balanced /\ sb.ignored < MaxIgnored /\ sb' = [sb EXCEPT !.ignored = @ + 1]
          /\ UNCHANGED <<ctx, result>>
    /\ UNCHANGED <<dealt, game, conceder, capped, store, tally, rows, played>>
ConcedeMatchBetween ==
    /\ Sideboarding /\ Asked /\ (Balanced => sb.swaps < SwapCap)
    /\ conceder' = sb.player /\ PhaseOver(conceder')
    /\ tally' = [tally EXCEPT !.conceded = TRUE]
    /\ UNCHANGED <<dealt, game, capped, store, rows, played>>

-----------------------------------------------------------------------------

Next ==
    \/ StartGame \/ TooManyGames \/ GameDecided \/ CapGame \/ EndGame \/ Done
    \/ \E p \in Players, whole \in BOOLEAN : Concede(p, whole)
    \/ \E c \in Cards : BringIn(c) \/ Cut(c)
    \/ ConcedeBetween \/ ConcedeMatchBetween

Spec == Init /\ [][Next]_vars
(* The match is one loop in one thread, and every question is answered. *)
FairSpec == Spec /\ WF_vars(Next)

-----------------------------------------------------------------------------
(* Properties.                                                              *)

(* What a function of numbers adds up to: one token for each unit, counted. *)
Tokens(f) == UNION {{x} \X (1..f[x]) : x \in DOMAIN f}
Total(f) == Cardinality(Tokens(f))
Copies(deck) == [c \in Cards |-> deck.main[c] + deck.side[c]]

(* No section ever runs short of a card, and every game is played with decks of the size they were
   registered with, made of exactly the registered cards, whatever was swapped, conceded or stranded
   on the way (run_sideboard_phase). *)
PlayedDecksAreLegal ==
    /\ ctx.deck \in [Players -> Lists]
    /\ game # NoGame => \A p \in Players :
           /\ Total(ctx.deck[p].main) = Total(dealt.deck[p].main)
           /\ Copies(ctx.deck[p]) = Copies(dealt.deck[p])

Excess(new, old) == [c \in Cards |-> IF new[c] > old[c] THEN new[c] - old[c] ELSE 0]
BroughtIn(p) == Total(Excess(ctx.deck[p].main, played[p].main))
(* No swap undoes an earlier one: a deck differs from the one last played in as many cards as were
   swapped, so that no decision of a phase is wasted (the direction locks of SideboardPhaseState). *)
NoSwapIsUndone ==
    Sideboarding /\ ~sb.force_done => BroughtIn(sb.player) = sb.swaps + sb.delta

WinsOf(p, n) == Cardinality({i \in 1..n : rows[i].winner = p})
LoserOf(row) == IF row.winner = None THEN row.first ELSE Opponent(row.winner)
(* A match is won by the first to win two games, or by the opponent of the player who conceded it;
   it has no winner when a game was capped. *)
ResultIsEarned ==
    /\ result \in Players /\ dealt.format = "bo3" =>
        IF conceder = None THEN WinsOf(result, Len(rows)) = 2 ELSE conceder # result
    /\ capped /\ result # "none" => result = "unknown"

(* The results file tells the match: one line a game, in order, with the score before it, who went
   first (the loser of the game before), and nothing after a game that decided the match; and its
   result is the one the lines, the concessions and the cap make. *)
RowsTellTheMatch ==
    /\ ResultIsEarned
    /\ \A i \in DOMAIN rows :
        /\ rows[i].game = i
        /\ \A p \in Players : rows[i].wins[p] = WinsOf(p, i - 1)
        /\ rows[i].first = IF i = 1 THEN "A" ELSE LoserOf(rows[i - 1])
        /\ i < Len(rows) => \A p \in Players : WinsOf(p, i) < 2 /\ rows[i].reason # "cap"

(* The decks of the game being played, or of the last one. *)
Reported(p, section, n) == [c \in Cards |-> Total([i \in 1..n |-> rows[i][section][p][c]])]
(* The moves in the results lines are the ones that were made: added up, they turn the registered
   deck into the one that was played (note_sideboard_move, also for rows nobody was asked about). *)
RowsRebuildTheDecks ==
    rows # <<>> /\ game = NoGame /\ tally = FreshTally =>
        \A p \in Players :
            LET in == Reported(p, "in", Len(rows)) out == Reported(p, "out", Len(rows))
            IN  \A c \in Cards : played[p].main[c] = dealt.deck[p].main[c] + in[c] - out[c]

(* Every match ends, whatever the players swap: a phase never asks for a cut with nothing to cut,
   and swaps run out. *)
EveryMatchEnds == <>(result # "none")
=============================================================================
