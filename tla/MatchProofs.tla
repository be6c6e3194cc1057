----------------------------- MODULE MatchProofs ----------------------------
(***************************************************************************)
(* Proofs about Match, for decks of any cards and for every cap: decks     *)
(* played are legal, no swap is undone, the results file tells the match,  *)
(* and its moves rebuild the decks.  Each of the four invariants is a part *)
(* of one inductive invariant, IInv; three groups of it are about what     *)
(* the code keeps in step without saying so: the score of the context and  *)
(* that of the results lines, the moves counted and the decks they made,   *)
(* the locks of a phase and what was swapped in it.                        *)
(***************************************************************************)
EXTENDS Match, FiniteSetTheorems, TLAPS

-----------------------------------------------------------------------------
(* The inductive invariant.                                                 *)

Moved == [Players -> [Cards -> Nat]]
Lines ==
    [game : Nat, first : Players, wins : [Players -> Nat], winner : Players \union {None},
     reason : {"cap", "concession", "draw", "win"}, in : Moved, out : Moved]

Contexts ==
    [stage : {"PLAY_GAME", "SIDEBOARD"}, game_num : Nat, wins : [Players -> Nat],
     first : Players, deck : [Players -> Lists]]
Phases ==
    [player : Players \union {None}, swaps : Nat, out : SUBSET Cards, in : SUBSET Cards,
     delta : {0, 1}, unpaired : Cards \union {None}, force_done : BOOLEAN, ignored : Nat]
Games ==
    [status : {"none", "live", "ended"}, winner : Players \union {None}, unwinding : BOOLEAN,
     ignored : Nat]
Tallies ==
    [game : Nat, first : Players, wins : [Players -> Nat], conceded : BOOLEAN,
     in : Moved, out : Moved]

TypeOK ==
    /\ dealt \in [deck : Deals, format : Formats]
    /\ ctx \in Contexts /\ sb \in Phases /\ game \in Games /\ tally \in Tallies
    /\ conceder \in Players \union {None} /\ capped \in BOOLEAN
    /\ rows \in Seq(Lines)
    /\ result \in Players \union {"unknown", "fatal", "none"}
    /\ played \in [Players -> Lists]

(* Where the match is: a game is played before the result and outside the sideboarding, with the
   decks and the score of the context; a cap is followed by the end of the match. *)
Flow ==
    /\ game # NoGame =>
        /\ result = "none" /\ ctx.stage = "PLAY_GAME" /\ game.status # "none"
        /\ tally.game = ctx.game_num + 1 /\ tally.first = ctx.first /\ tally.wins = ctx.wins
        /\ played = ctx.deck
    /\ game.status = "live" => game.winner = None
    /\ capped => \/ game.status = "ended" /\ game.winner = None /\ game.unwinding
                 \/ result = "unknown"
    /\ result = "none" =>
        Len(rows) = IF ctx.stage = "SIDEBOARD" THEN ctx.game_num + 1 ELSE ctx.game_num
    /\ Sideboarding => sb.player \in Players

(* A deck is the registered one with cards moved: no copy is made or lost, and the main deck is one
   card too large exactly between a card brought in and the one cut for it. *)
Decks ==
    \A p \in Players :
        /\ Copies(ctx.deck[p]) = Copies(dealt.deck[p])
        /\ result = "none" =>
            Total(ctx.deck[p].main) =
                Total(dealt.deck[p].main) + IF Sideboarding /\ p = sb.player THEN sb.delta ELSE 0

(* What the direction locks of a phase mean: a card not brought in has not gained copies, a card
   not cut has not lost any; and the second player's deck waits for its phase as it was played. *)
Locks ==
    Sideboarding =>
        /\ sb.player = "A" => ctx.deck["B"] = played["B"]
        /\ ~sb.force_done =>
            /\ \A c \in Cards \ sb.in : Deck.main[c] <= played[sb.player].main[c]
            /\ \A c \in Cards \ sb.out : Deck.main[c] >= played[sb.player].main[c]
            /\ BroughtIn(sb.player) = sb.swaps + sb.delta

(* The moves counted since the last results line make up the difference of the deck to the one
   last played, and with the reported ones that to the deck registered. *)
Accounts ==
    \A p \in Players, c \in Cards :
        /\ ctx.deck[p].main[c] =
            dealt.deck[p].main[c] + Reported(p, "in", Len(rows))[c] + tally.in[p][c]
                - Reported(p, "out", Len(rows))[c] - tally.out[p][c]
        /\ game = NoGame =>
            ctx.deck[p].main[c] = played[p].main[c] + tally.in[p][c] - tally.out[p][c]

(* The results lines are in order, and while the match is played the context's score is theirs and
   decides nothing. *)
Scores ==
    /\ \A i \in DOMAIN rows :
        /\ rows[i].game = i
        /\ \A p \in Players : rows[i].wins[p] = WinsOf(p, i - 1)
        /\ rows[i].first = IF i = 1 THEN "A" ELSE LoserOf(rows[i - 1])
        /\ i < Len(rows) \/ result = "none" =>
            /\ \A p \in Players : WinsOf(p, i) < 2
            /\ rows[i].reason # "cap"
    /\ result = "none" =>
        /\ \A p \in Players : ctx.wins[p] = WinsOf(p, Len(rows))
        /\ ctx.first = IF rows = <<>> THEN "A" ELSE LoserOf(rows[Len(rows)])
    /\ ResultIsEarned

IInv == TypeOK /\ Flow /\ Decks /\ Locks /\ Accounts /\ Scores

-----------------------------------------------------------------------------
(* Totals.  A sum over a finite set is a number of tokens, so what the library knows of finite sets
   says what one more unit does to it. *)

(* A function of numbers on a finite set has a total. *)
LEMMA TotalType ==
    ASSUME NEW S, IsFiniteSet(S), NEW f \in [S -> Nat]
    PROVE  IsFiniteSet(Tokens(f)) /\ Total(f) \in Nat
<1> DEFINE Part == [x \in S |-> {x} \X (1..f[x])]
           Parts == {{x} \X (1..f[x]) : x \in S}
<1>1. IsFiniteSet(Parts)
  <2>1. Part \in Surjection(S, Parts)
    BY DEF Surjection
  <2> QED
    BY <2>1, FS_Surjection DEF ExistsSurjection
<1>2. ASSUME NEW x \in S PROVE IsFiniteSet({x} \X (1..f[x]))
  <2>1. f[x] \in Int /\ IsFiniteSet({x})
    BY FS_Singleton
  <2>2. IsFiniteSet(1..f[x])
    BY <2>1, FS_Interval
  <2> QED
    BY <2>1, <2>2, FS_Product
<1>3. \A T \in Parts : IsFiniteSet(T)
  BY <1>2
<1>4. IsFiniteSet(UNION Parts)
  BY <1>1, <1>3, FS_UNION
<1>5. Tokens(f) = UNION Parts
  BY DEF Tokens
<1> QED
  BY <1>4, <1>5, FS_CardinalityType DEF Total

(* One unit more, at one place, is one more in all. *)
LEMMA TotalAdd ==
    ASSUME NEW S, IsFiniteSet(S), NEW f \in [S -> Nat], NEW x \in S, NEW g \in [S -> Nat],
           g[x] = f[x] + 1, \A y \in S \ {x} : g[y] = f[y]
    PROVE  Total(g) = Total(f) + 1
<1> DEFINE new == <<x, f[x] + 1>>
<1>1. Tokens(g) = Tokens(f) \union {new}
  <2>1. ASSUME NEW t \in Tokens(g) PROVE t \in Tokens(f) \union {new}
    <3>1. PICK y \in S : t \in {y} \X (1..g[y])
      BY DEF Tokens
    <3>2. PICK n \in 1..g[y] : t = <<y, n>>
      BY <3>1
    <3>3. CASE n <= f[y]
      BY <3>2, <3>3 DEF Tokens
    <3>4. CASE n > f[y]
      BY <3>2, <3>4
    <3> QED
      BY <3>2, <3>3, <3>4
  <2>2. ASSUME NEW t \in Tokens(f) PROVE t \in Tokens(g)
    <3>1. PICK y \in S : t \in {y} \X (1..f[y])
      BY DEF Tokens
    <3>2. PICK n \in 1..f[y] : t = <<y, n>>
      BY <3>1
    <3>3. n \in 1..g[y]
      BY <3>2
    <3> QED
      BY <3>2, <3>3 DEF Tokens
  <2>3. new \in Tokens(g)
    <3>1. f[x] + 1 \in 1..g[x]
      OBVIOUS
    <3> QED
      BY <3>1 DEF Tokens
  <2> QED
    BY <2>1, <2>2, <2>3
<1>2. new \notin Tokens(f)
  <2> SUFFICES ASSUME new \in Tokens(f) PROVE FALSE
    OBVIOUS
  <2>1. PICK y \in S : new \in {y} \X (1..f[y])
    BY DEF Tokens
  <2> QED
    BY <2>1
<1>3. IsFiniteSet(Tokens(f))
  BY TotalType
<1> HIDE DEF new
<1> QED
  BY <1>1, <1>2, <1>3, FS_AddElement DEF Total

(* The total of a sequence of numbers is that of all but the last, and the last. *)
LEMMA TotalAppend ==
    ASSUME NEW n \in Nat, NEW f \in [1..n -> Nat], NEW g \in [1..(n + 1) -> Nat],
           \A i \in 1..n : g[i] = f[i]
    PROVE  Total(g) = Total(f) + g[n + 1]
<1> DEFINE last == {n + 1} \X (1..g[n + 1])
<1>0. n + 1 \in 1..(n + 1) /\ 1..n \subseteq 1..(n + 1) /\ n + 1 \notin 1..n
      /\ 1..(n + 1) = (1..n) \union {n + 1} /\ g[n + 1] \in Nat
  OBVIOUS
<1>1. Tokens(g) = Tokens(f) \union last
  <2>1. Tokens(g) = UNION {{i} \X (1..g[i]) : i \in 1..(n + 1)}
    BY DEF Tokens
  <2>2. Tokens(f) = UNION {{i} \X (1..f[i]) : i \in 1..n}
    BY DEF Tokens
  <2>3. ASSUME NEW t \in Tokens(g) PROVE t \in Tokens(f) \union last
    BY <2>1, <2>2, <2>3, <1>0
  <2>4. ASSUME NEW t \in Tokens(f) PROVE t \in Tokens(g)
    BY <2>1, <2>2, <2>4, <1>0
  <2>5. last \subseteq Tokens(g)
    BY <2>1, <1>0
  <2> QED
    BY <2>3, <2>4, <2>5
<1>2. Tokens(f) \intersect last = {}
  <2> SUFFICES ASSUME NEW t \in Tokens(f), t \in last PROVE FALSE
    OBVIOUS
  <2>1. PICK i \in 1..n : t \in {i} \X (1..f[i])
    BY DEF Tokens
  <2> QED
    BY <2>1, <1>0
<1>3. IsFiniteSet(Tokens(f))
  <2>1. n \in Int /\ 1 \in Int
    OBVIOUS
  <2>2. IsFiniteSet(1..n)
    BY <2>1, FS_Interval
  <2> QED
    BY <2>2, TotalType
<1>4. IsFiniteSet(last) /\ Cardinality(last) = g[n + 1]
  <2>1. IsFiniteSet(1..g[n + 1]) /\ Cardinality(1..g[n + 1]) = g[n + 1]
    BY <1>0, FS_Interval
  <2>2. IsFiniteSet({n + 1}) /\ Cardinality({n + 1}) = 1
    BY FS_Singleton
  <2>3. IsFiniteSet(last)
        /\ Cardinality(last) = Cardinality({n + 1}) * Cardinality(1..g[n + 1])
    BY <2>1, <2>2, FS_Product
  <2> QED
    BY <2>1, <2>2, <2>3, <1>0
<1>5. Cardinality(Tokens(f) \intersect last) = 0
  BY <1>2, FS_EmptySet
<1>6. Total(f) \in Nat
  BY <1>3, FS_CardinalityType DEF Total
<1> HIDE DEF last
<1>7. Cardinality(Tokens(f) \union last) =
        Cardinality(Tokens(f)) + Cardinality(last) - Cardinality(Tokens(f) \intersect last)
  BY <1>3, <1>4, FS_Union
<1> QED
  BY <1>0, <1>1, <1>4, <1>5, <1>6, <1>7 DEF Total

(* Nothing adds up to nothing. *)
LEMMA TotalZero ==
    ASSUME NEW S, NEW f \in [S -> Nat], \A x \in S : f[x] = 0
    PROVE  Total(f) = 0
<1>1. Tokens(f) = {}
  BY DEF Tokens
<1> QED
  BY <1>1, FS_EmptySet DEF Total

(* The wins of p in the first n of any lines. *)
WinsIn(r, p, n) == Cardinality({i \in 1..n : r[i].winner = p})

(* The wins counted in the first lines do not change with a line after them, and that line counts
   one win more for its winner. *)
LEMMA WinsAppend ==
    ASSUME NEW r \in Seq(Lines), NEW line \in Lines, NEW p, NEW n \in 0..Len(r)
    PROVE  /\ WinsIn(Append(r, line), p, n) = WinsIn(r, p, n) /\ WinsIn(r, p, n) \in Nat
           /\ n = Len(r) => WinsIn(Append(r, line), p, n + 1) =
                              WinsIn(r, p, n) + IF line.winner = p THEN 1 ELSE 0
<1> DEFINE s == Append(r, line)
           W == {i \in 1..n : r[i].winner = p}
           V == {i \in 1..(n + 1) : s[i].winner = p}
<1>1. /\ \A i \in 1..Len(r) : s[i] = r[i]
      /\ s[Len(r) + 1] = line
      /\ Len(r) \in Nat /\ n \in Nat
  OBVIOUS
<1>2. {i \in 1..n : s[i].winner = p} = W
  BY <1>1
<1>3. IsFiniteSet(W) /\ Cardinality(W) \in Nat
  <2>0. 1 \in Int /\ n \in Int
    BY <1>1
  <2>1. IsFiniteSet(1..n)
    BY <2>0, FS_Interval
  <2>2. W \subseteq 1..n
    OBVIOUS
  <2>3. IsFiniteSet(W)
    BY <2>1, <2>2, FS_Subset
  <2> QED
    BY <2>3, FS_CardinalityType
<1>4. n = Len(r) => V = IF line.winner = p THEN W \union {n + 1} ELSE W
  BY <1>1
<1>5. n + 1 \notin W
  BY <1>1
<1>6. n = Len(r) => Cardinality(V) = Cardinality(W) + IF line.winner = p THEN 1 ELSE 0
  <2> HIDE DEF W, V
  <2>1. Cardinality(W \union {n + 1}) = Cardinality(W) + 1
    BY <1>3, <1>5, FS_AddElement
  <2>2. CASE line.winner = p
    BY <1>4, <2>1, <2>2
  <2>3. CASE line.winner # p
    BY <1>3, <1>4, <2>3
  <2> QED
    BY <2>2, <2>3
<1> QED
  BY <1>2, <1>3, <1>6 DEF WinsIn

(* Nobody has won before the first line. *)
LEMMA NoWinsYet == \A r, p : WinsIn(r, p, 0) = 0
<1> SUFFICES ASSUME NEW r, NEW p PROVE WinsIn(r, p, 0) = 0
  OBVIOUS
<1>1. {i \in 1..0 : r[i].winner = p} = {}
  OBVIOUS
<1> QED
  BY <1>1, FS_EmptySet DEF WinsIn

-----------------------------------------------------------------------------
(* Types, and where the match is.                                           *)

LEMMA DealtDecks == TypeOK => dealt.deck \in [Players -> Lists]
BY DealsAssumption DEF TypeOK

(* What the records are made of when they are made anew. *)
LEMMA FreshRecords ==
    /\ FreshTally \in Tallies /\ NoGame \in Games
    /\ \A p \in Players \union {None} : Phase(p) \in Phases
<1>1. NoMoves \in [Cards -> Nat] /\ "A" \in Players
  BY DEF NoMoves, Players
<1>2. FreshTally \in Tallies
  BY <1>1 DEF FreshTally, Moved, Tallies
<1>3. NoGame \in Games
  BY DEF NoGame, Games
<1>4. \A p \in Players \union {None} : Phase(p) \in Phases
  BY DEF Phase, Phases
<1> QED
  BY <1>2, <1>3, <1>4

(* The two sections of a deck after a move. *)
LEMMA MoveOneIs ==
    ASSUME NEW d \in Lists, NEW c \in Cards
    PROVE  /\ MoveOne(d, c, "side", "main") =
                [main |-> [d.main EXCEPT ![c] = @ + 1], side |-> [d.side EXCEPT ![c] = @ - 1]]
           /\ MoveOne(d, c, "main", "side") =
                [main |-> [d.main EXCEPT ![c] = @ - 1], side |-> [d.side EXCEPT ![c] = @ + 1]]
<1>1. d = [main |-> d.main, side |-> d.side]
  BY DEF Lists
<1> QED
  BY <1>1 DEF MoveOne

LEMMA InitTypeOK == Init => TypeOK
<1> SUFFICES ASSUME Init PROVE TypeOK
  OBVIOUS
<1>1. dealt.deck \in [Players -> Lists] /\ dealt \in [deck : Deals, format : Formats]
  BY DealsAssumption DEF Init
<1>2. ctx \in Contexts
  BY <1>1 DEF Init, Contexts, Players
<1>3. sb \in Phases /\ game \in Games /\ tally \in Tallies
  BY FreshRecords DEF Init
<1>4. rows \in Seq(Lines)
  BY DEF Init
<1> QED
  BY <1>1, <1>2, <1>3, <1>4 DEF Init, TypeOK

(* Every step keeps the types: a copy is moved only from where there is one. *)
LEMMA NextTypeOK == TypeOK /\ Flow /\ Next => TypeOK'
<1> SUFFICES ASSUME TypeOK, Flow, Next PROVE TypeOK'
  OBVIOUS
<1>0. "A" \in Players /\ "B" \in Players /\ \A p \in Players : Opponent(p) \in Players
  BY DEF Players, Opponent
<1>1. /\ dealt \in [deck : Deals, format : Formats]
      /\ ctx \in Contexts /\ sb \in Phases /\ game \in Games /\ tally \in Tallies
      /\ conceder \in Players \union {None} /\ capped \in BOOLEAN
      /\ rows \in Seq(Lines) /\ result \in Players \union {"unknown", "fatal", "none"}
      /\ played \in [Players -> Lists]
  BY DEF TypeOK
<1>x. ctx \in Contexts
  BY DEF TypeOK
<1>b. sb \in Phases
  BY DEF TypeOK
<1>t. tally \in Tallies
  BY DEF TypeOK
<1>2. FreshTally \in Tallies /\ NoGame \in Games /\ Phase("A") \in Phases /\ Phase("B") \in Phases
  BY <1>0, FreshRecords
<1>3. ASSUME NEW c \in Players \union {None}, PhaseOver(c)
      PROVE  /\ ctx' \in Contexts /\ sb' \in Phases
             /\ result' \in Players \union {"unknown", "fatal", "none"}
  <2>1. CASE c # None
    BY <1>0, <1>1, <1>3, <2>1 DEF PhaseOver
  <2>2. CASE c = None /\ sb.player = "A"
    BY <1>1, <1>2, <1>3, <2>2 DEF PhaseOver
  <2>3. CASE c = None /\ sb.player # "A"
    <3>1. ctx' = [ctx EXCEPT !.stage = "PLAY_GAME", !.game_num = @ + 1]
          /\ UNCHANGED <<sb, result>>
      BY <1>3, <2>3 DEF PhaseOver
    <3>2. [ctx EXCEPT !.stage = "PLAY_GAME", !.game_num = @ + 1] \in Contexts
      <4>1. ctx.game_num + 1 \in Nat
        BY <1>x DEF Contexts
      <4>2. \A n \in Nat : [ctx EXCEPT !.stage = "PLAY_GAME", !.game_num = n] \in Contexts
        BY <1>x DEF Contexts
      <4> QED
        BY <4>1, <4>2
    <3> QED
      BY <1>1, <3>1, <3>2
  <2> QED
    BY <2>1, <2>2, <2>3
<1>4. CASE StartGame
  <2>1. ctx.deck \in [Players -> Lists]
    BY <1>1 DEF Contexts
  <2>2. tally' \in Tallies
    <3>1. ctx.game_num + 1 \in Nat /\ ctx.first \in Players /\ ctx.wins \in [Players -> Nat]
      BY <1>x DEF Contexts
    <3>2. tally' = [tally EXCEPT !.game = ctx.game_num + 1, !.first = ctx.first,
                                 !.wins = ctx.wins]
      BY <1>4 DEF StartGame
    <3> QED
      BY <1>t, <3>1, <3>2 DEF Tallies
  <2>3. game' \in Games
    BY <1>4 DEF StartGame, Games, NoGame
  <2> QED
    BY <1>1, <1>4, <2>1, <2>2, <2>3 DEF StartGame, TypeOK
<1>5. CASE TooManyGames
  BY <1>1, <1>5 DEF TooManyGames, TypeOK
<1>6. ASSUME NEW w \in Players \union {None}, NEW unwinding \in BOOLEAN, Ended(w, unwinding)
      PROVE  game' \in Games
  BY <1>1, <1>6 DEF Ended, Games
<1>7. CASE GameDecided
  BY <1>1, <1>6, <1>7 DEF GameDecided, TypeOK
<1>8. CASE CapGame
  BY <1>1, <1>6, <1>8 DEF CapGame, TypeOK
<1>9. ASSUME NEW p \in Players, NEW whole \in BOOLEAN, Concede(p, whole) PROVE TypeOK'
  <2>1. game' \in Games
    <3>1. CASE Ended(Opponent(p), TRUE)
      BY <1>0, <1>6, <3>1
    <3>2. CASE game' = [game EXCEPT !.ignored = @ + 1]
      BY <1>1, <3>2 DEF Games
    <3> QED
      BY <1>9, <3>1, <3>2 DEF Concede
  <2>2. tally' \in Tallies
    BY <1>1, <1>9 DEF Concede, Tallies
  <2> QED
    BY <1>1, <1>9, <2>1, <2>2 DEF Concede, TypeOK
<1>10. CASE EndGame
  <2>1. Line \in Lines
    BY <1>1 DEF Line, Reason, Lines, Tallies, Games
  <2>2. rows' \in Seq(Lines)
    BY <1>1, <1>10, <2>1 DEF EndGame
  <2>3. Score \in [Players -> Nat] /\ GoesFirst \in Players
    BY <1>0, <1>1 DEF Score, GoesFirst, Contexts, Games
  <2>4. result' \in Players \union {"unknown", "fatal", "none"}
    <3>1. SingleOutcome \in Players \union {"unknown"}
      BY <1>1 DEF SingleOutcome, Games
    <3>2. Outcome(Score) \in Players \union {"unknown", "none"}
      BY <1>0, <1>1 DEF Outcome
    <3> QED
      BY <1>10, <3>1, <3>2 DEF EndGame
  <2>5. ctx' \in Contexts
    <3>1. [ctx EXCEPT !.wins = Score, !.first = GoesFirst, !.stage = "SIDEBOARD"] \in Contexts
      BY <1>1, <2>3 DEF Contexts
    <3>2. [ctx EXCEPT !.wins = Score] \in Contexts
      BY <1>1, <2>3 DEF Contexts
    <3> QED
      BY <1>10, <3>1, <3>2 DEF EndGame
  <2>6. sb' \in Phases
    BY <1>1, <1>2, <1>10 DEF EndGame
  <2> QED
    BY <1>1, <1>2, <1>10, <2>2, <2>4, <2>5, <2>6 DEF EndGame, TypeOK
<1>12. ASSUME NEW c \in Cards, BringIn(c) PROVE TypeOK'
  <2>1. sb.player \in Players
    BY <1>12 DEF BringIn, Flow
  <2>2. Deck \in Lists /\ Deck.side[c] > 0
    BY <1>1, <1>12, <2>1 DEF BringIn, Ins, Unlocked, Deck, Contexts
  <2>3. MoveOne(Deck, c, "side", "main") \in Lists
    <3>1. Deck.main \in [Cards -> Nat] /\ Deck.side \in [Cards -> Nat]
      BY <2>2 DEF Lists
    <3>2. [Deck.side EXCEPT ![c] = @ - 1] \in [Cards -> Nat]
      <4>1. Deck.side[c] - 1 \in Nat
        BY <2>2, <3>1
      <4> QED
        BY <3>1, <4>1
    <3>3. [Deck.main EXCEPT ![c] = @ + 1] \in [Cards -> Nat]
      BY <3>1
    <3>4. MoveOne(Deck, c, "side", "main") =
            [main |-> [Deck.main EXCEPT ![c] = @ + 1],
             side |-> [Deck.side EXCEPT ![c] = @ - 1]]
      BY <2>2, MoveOneIs
    <3> QED
      BY <3>2, <3>3, <3>4 DEF Lists
  <2>4. ctx' \in Contexts
    BY <1>1, <1>12, <2>3 DEF BringIn, Moves, Deck, Contexts
  <2>5. tally' \in Tallies
    <3>1. tally' = [tally EXCEPT !.in[sb.player][c] = @ + 1]
      BY <1>12 DEF BringIn
    <3>2. tally.in \in Moved
      BY <1>t DEF Tallies
    <3>3. [tally.in EXCEPT ![sb.player][c] = @ + 1] \in Moved
      BY <2>1, <3>2 DEF Moved
    <3> QED
      BY <1>t, <3>1, <3>3 DEF Tallies
  <2>6. sb' \in Phases
    BY <1>1, <1>12 DEF BringIn, Phases
  <2> QED
    BY <1>1, <1>12, <2>4, <2>5, <2>6 DEF BringIn, TypeOK
<1>13. ASSUME NEW c \in Cards, Cut(c) PROVE TypeOK'
  <2>1. sb.player \in Players
    BY <1>13 DEF Cut, Flow
  <2>2. Deck \in Lists /\ Deck.main[c] > 0
    BY <1>1, <1>13, <2>1 DEF Cut, Outs, Cuttable, Deck, Contexts
  <2>3. MoveOne(Deck, c, "main", "side") \in Lists
    <3>1. Deck.main \in [Cards -> Nat] /\ Deck.side \in [Cards -> Nat]
      BY <2>2 DEF Lists
    <3>2. [Deck.main EXCEPT ![c] = @ - 1] \in [Cards -> Nat]
      <4>1. Deck.main[c] - 1 \in Nat
        BY <2>2, <3>1
      <4> QED
        BY <3>1, <4>1
    <3>3. [Deck.side EXCEPT ![c] = @ + 1] \in [Cards -> Nat]
      BY <3>1
    <3>4. MoveOne(Deck, c, "main", "side") =
            [main |-> [Deck.main EXCEPT ![c] = @ - 1],
             side |-> [Deck.side EXCEPT ![c] = @ + 1]]
      BY <2>2, MoveOneIs
    <3> QED
      BY <3>2, <3>3, <3>4 DEF Lists
  <2>4. ctx' \in Contexts
    BY <1>1, <1>13, <2>3 DEF Cut, Moves, Deck, Contexts
  <2>5. tally' \in Tallies
    <3>1. tally' = [tally EXCEPT !.out[sb.player][c] = @ + 1]
      BY <1>13 DEF Cut
    <3>2. tally.out \in Moved
      BY <1>t DEF Tallies
    <3>3. [tally.out EXCEPT ![sb.player][c] = @ + 1] \in Moved
      BY <2>1, <3>2 DEF Moved
    <3> QED
      BY <1>t, <3>1, <3>3 DEF Tallies
  <2>6. sb' \in Phases
    <3>1. sb.swaps + 1 \in Nat /\ sb.out \union {c} \in SUBSET Cards
          /\ (sb.force_done \/ Cuttable = {}) \in BOOLEAN
      BY <1>b DEF Phases
    <3>2. sb' = [sb EXCEPT !.out = sb.out \union {c}, !.delta = 0, !.unpaired = None,
                           !.swaps = sb.swaps + 1, !.force_done = sb.force_done \/ Cuttable = {}]
      BY <1>13, <1>b DEF Cut, Phases
    <3> QED
      BY <1>b, <3>1, <3>2 DEF Phases
  <2> QED
    BY <1>1, <1>13, <2>4, <2>5, <2>6 DEF Cut, TypeOK
<1>14. CASE Done
  BY <1>1, <1>3, <1>14 DEF Done, TypeOK
<1>15. CASE ConcedeBetween
  <2>1. CASE PhaseOver(conceder)
    BY <1>1, <1>3, <1>15, <2>1 DEF ConcedeBetween, TypeOK
  <2>2. CASE sb' = [sb EXCEPT !.ignored = @ + 1] /\ UNCHANGED <<ctx, result>>
    <3>1. sb' \in Phases
      BY <1>b, <2>2 DEF Phases
    <3> QED
      BY <1>1, <1>15, <2>2, <3>1 DEF ConcedeBetween, TypeOK
  <2> QED
    BY <1>15, <2>1, <2>2 DEF ConcedeBetween
<1>16. CASE ConcedeMatchBetween
  <2>1. conceder' \in Players
    BY <1>16 DEF ConcedeMatchBetween, Flow
  <2>2. ctx' \in Contexts /\ sb' \in Phases /\ result' \in Players \union {"unknown", "fatal", "none"}
    BY <1>3, <1>16, <2>1 DEF ConcedeMatchBetween
  <2>3. tally' \in Tallies
    BY <1>1, <1>16 DEF ConcedeMatchBetween, Tallies
  <2> QED
    BY <1>1, <1>16, <2>1, <2>2, <2>3 DEF ConcedeMatchBetween, TypeOK
<1> QED
  BY <1>4, <1>5, <1>7, <1>8, <1>9, <1>10, <1>12, <1>13, <1>14, <1>15, <1>16 DEF Next

(* A game is played in the middle of the match, never during the sideboarding or after the result,
   and its end or its cap is where the match goes on. *)
LEMMA NextFlow == TypeOK /\ Flow /\ Next => Flow'
<1> SUFFICES ASSUME TypeOK, Flow, Next PROVE Flow'
  OBVIOUS
<1>0. \A p \in Players : p # None /\ p # "none" /\ p # "unknown" /\ Opponent(p) \in Players
  BY DEF Players, Opponent, None
<1>c. ctx \in Contexts
  BY DEF TypeOK
<1>g. game \in Games
  BY DEF TypeOK
<1>t. tally \in Tallies
  BY DEF TypeOK
<1>r. rows \in Seq(Lines)
  BY DEF TypeOK
<1>f. /\ game # NoGame =>
           /\ result = "none" /\ ctx.stage = "PLAY_GAME" /\ game.status # "none"
           /\ tally.game = ctx.game_num + 1 /\ tally.first = ctx.first /\ tally.wins = ctx.wins
           /\ played = ctx.deck
      /\ game.status = "live" => game.winner = None
      /\ capped => \/ game.status = "ended" /\ game.winner = None /\ game.unwinding
                   \/ result = "unknown"
      /\ result = "none" =>
           Len(rows) = IF ctx.stage = "SIDEBOARD" THEN ctx.game_num + 1 ELSE ctx.game_num
      /\ Sideboarding => sb.player \in Players
  BY DEF Flow
<1>n. game.status # "none" => game # NoGame
  BY DEF NoGame
<1>m. game.status = "live" \/ game.status = "ended" => game # NoGame
  BY DEF NoGame
<1>1. ASSUME NEW c \in Players \union {None}, PhaseOver(c), Sideboarding,
             UNCHANGED <<game, capped, rows, played>>
      PROVE  Flow'
  <2>0. game = NoGame /\ NoGame.status = "none" /\ ~capped /\ result = "none"
        /\ ctx.stage = "SIDEBOARD" /\ Len(rows) = ctx.game_num + 1
    BY <1>1, <1>f DEF Sideboarding, NoGame
  <2>1. CASE c # None
    BY <1>0, <1>1, <2>0, <2>1 DEF PhaseOver, Flow, Sideboarding
  <2>2. CASE c = None /\ sb.player = "A"
    BY <1>1, <2>0, <2>2 DEF PhaseOver, Flow, Sideboarding, Phase, Players
  <2>3. CASE c = None /\ sb.player # "A"
    <3>1. ctx'.stage = "PLAY_GAME" /\ ctx'.game_num = ctx.game_num + 1 /\ result' = result
      BY <1>1, <1>c, <2>3 DEF PhaseOver, Contexts
    <3> QED
      BY <1>1, <2>0, <3>1 DEF Flow, Sideboarding
  <2> QED
    BY <2>1, <2>2, <2>3
<1>4. CASE StartGame
  <2>1. /\ tally'.game = ctx.game_num + 1 /\ tally'.first = ctx.first /\ tally'.wins = ctx.wins
    BY <1>4, <1>t DEF StartGame, Tallies
  <2>2. game'.status = "live" /\ game'.winner = None /\ NoGame.status = "none"
    BY <1>4 DEF StartGame, NoGame
  <2> QED
    BY <1>4, <1>f, <2>1, <2>2 DEF StartGame, Flow, Sideboarding
<1>5. CASE TooManyGames
  BY <1>5, <1>f DEF TooManyGames, Flow, Sideboarding, NoGame
<1>6. ASSUME NEW w, NEW u, Ended(w, u)
      PROVE  game'.status = "ended" /\ game'.winner = w /\ game'.unwinding = u
  BY <1>6, <1>g DEF Ended, Games
<1>7. CASE GameDecided
  <2>1. game'.status = "ended"
    BY <1>6, <1>7 DEF GameDecided
  <2> QED
    BY <1>7, <1>f, <1>m, <2>1 DEF GameDecided, Flow, Sideboarding
<1>8. CASE CapGame
  <2>1. game'.status = "ended" /\ game'.winner = None /\ game'.unwinding = TRUE
    BY <1>6, <1>8 DEF CapGame
  <2> QED
    BY <1>8, <1>f, <1>m, <2>1 DEF CapGame, Flow, Sideboarding
<1>9. ASSUME NEW p \in Players, NEW whole \in BOOLEAN, Concede(p, whole) PROVE Flow'
  <2>1. game # NoGame /\ ~capped /\ game'.status = "ended"
    <3>1. CASE game.status = "live" /\ Ended(Opponent(p), TRUE)
      BY <1>6, <1>9, <1>f, <1>m, <3>1 DEF Concede
    <3>2. CASE game.status = "ended" /\ game' = [game EXCEPT !.ignored = @ + 1]
      BY <1>9, <1>f, <1>g, <1>m, <3>2 DEF Concede, Games
    <3> QED
      BY <1>9, <3>1, <3>2 DEF Concede
  <2>2. /\ tally'.game = tally.game /\ tally'.first = tally.first /\ tally'.wins = tally.wins
        /\ UNCHANGED <<ctx, sb, capped, rows, result, played>>
    BY <1>9, <1>t DEF Concede, Tallies
  <2> QED
    BY <1>f, <2>1, <2>2 DEF Flow, Sideboarding
<1>10. CASE EndGame
  <2>0. /\ game.status = "ended" /\ game' = NoGame /\ Len(rows') = Len(rows) + 1
        /\ UNCHANGED <<capped, played>>
        /\ game # NoGame /\ NoGame.status = "none"
        /\ Len(rows) = ctx.game_num /\ ctx.stage = "PLAY_GAME"
    BY <1>10, <1>f, <1>m, <1>r DEF EndGame, NoGame
  <2>1. capped' => result' = "unknown"
    <3>1. capped => game.winner = None
      BY <1>f, <2>0
    <3>2. result' = SingleOutcome \/ result' = Outcome(Score)
      BY <1>10 DEF EndGame
    <3> QED
      BY <2>0, <3>1, <3>2 DEF SingleOutcome, Outcome
  <2>2. result' = "none" =>
          ctx'.stage = "SIDEBOARD" /\ ctx'.game_num = ctx.game_num /\ sb'.player \in Players
    <3> SUFFICES ASSUME result' = "none"
                 PROVE  /\ ctx'.stage = "SIDEBOARD" /\ ctx'.game_num = ctx.game_num
                        /\ sb'.player \in Players
      OBVIOUS
    <3>1. ctx' = [ctx EXCEPT !.wins = Score, !.first = GoesFirst, !.stage = "SIDEBOARD"]
          /\ sb' = Phase("A")
      BY <1>10 DEF EndGame
    <3>2. ctx'.stage = "SIDEBOARD" /\ ctx'.game_num = ctx.game_num
      BY <1>c, <3>1 DEF Contexts
    <3> QED
      BY <3>1, <3>2 DEF Phase, Players
  <2> QED
    BY <2>0, <2>1, <2>2 DEF Flow, Sideboarding
<1>11. ASSUME NEW c, NEW from, NEW to, Moves(c, from, to)
       PROVE  ctx'.stage = ctx.stage /\ ctx'.game_num = ctx.game_num
  BY <1>11, <1>c DEF Moves, Contexts
<1>12. ASSUME NEW c \in Cards, BringIn(c) \/ Cut(c) PROVE Flow'
  <2>1. /\ Sideboarding /\ ctx'.stage = ctx.stage /\ ctx'.game_num = ctx.game_num
        /\ UNCHANGED <<game, capped, rows, result, played>>
    BY <1>11, <1>12 DEF BringIn, Cut
  <2>2. sb'.player = sb.player
    <3>1. sb \in Phases
      BY DEF TypeOK
    <3>2. CASE BringIn(c)
      BY <3>1, <3>2 DEF BringIn, Phases
    <3>3. CASE Cut(c)
      BY <3>1, <3>3 DEF Cut, Phases
    <3> QED
      BY <1>12, <3>2, <3>3
  <2> QED
    BY <1>f, <2>1, <2>2 DEF Flow, Sideboarding
<1>13. CASE Done
  BY <1>1, <1>13 DEF Done, TypeOK
<1>14. CASE ConcedeBetween
  <2>1. CASE PhaseOver(conceder)
    BY <1>1, <1>14, <2>1 DEF ConcedeBetween, TypeOK
  <2>2. CASE sb' = [sb EXCEPT !.ignored = @ + 1] /\ UNCHANGED <<ctx, result>>
    <3>1. sb'.player = sb.player
      BY <2>2 DEF TypeOK, Phases
    <3> QED
      BY <1>14, <1>f, <2>2, <3>1 DEF ConcedeBetween, Flow, Sideboarding
  <2> QED
    BY <1>14, <2>1, <2>2 DEF ConcedeBetween
<1>15. CASE ConcedeMatchBetween
  <2>1. conceder' \in Players
    BY <1>15, <1>f DEF ConcedeMatchBetween
  <2> QED
    BY <1>1, <1>15, <2>1 DEF ConcedeMatchBetween
<1> QED
  BY <1>4, <1>5, <1>7, <1>8, <1>9, <1>10, <1>12, <1>13, <1>14, <1>15 DEF Next

-----------------------------------------------------------------------------
(* The decks.                                                               *)

(* What bringing a card in changes. *)
LEMMA BringInMoves ==
    ASSUME TypeOK, Flow, NEW c \in Cards, BringIn(c)
    PROVE  /\ sb.player \in Players /\ Sideboarding /\ Sideboarding'
           /\ UNCHANGED <<dealt, game, rows, result, played>>
           /\ \A p \in Players \ {sb.player} : ctx'.deck[p] = ctx.deck[p]
           /\ ctx'.deck[sb.player] = [main |-> [Deck.main EXCEPT ![c] = @ + 1],
                                      side |-> [Deck.side EXCEPT ![c] = @ - 1]]
           /\ Deck \in Lists /\ c \notin sb.out /\ sb.delta = 0
           /\ sb' = [sb EXCEPT !.in = @ \union {c}, !.delta = 1, !.unpaired = c]
           /\ tally' = [tally EXCEPT !.in[sb.player][c] = @ + 1]
<1>1. /\ sb.player \in Players /\ Sideboarding /\ Balanced /\ c \in Ins
      /\ UNCHANGED <<dealt, game, rows, result, played>>
      /\ ctx' = [ctx EXCEPT !.deck[sb.player] = MoveOne(@, c, "side", "main")]
  BY DEF BringIn, Moves, Flow
<1>2. ctx \in Contexts /\ ctx.deck \in [Players -> Lists]
  BY DEF TypeOK, Contexts
<1>3. Deck \in Lists
  BY <1>1, <1>2 DEF Deck
<1>4. /\ \A p \in Players \ {sb.player} : ctx'.deck[p] = ctx.deck[p]
      /\ ctx'.deck[sb.player] = MoveOne(Deck, c, "side", "main")
      /\ ctx'.stage = ctx.stage
  BY <1>1, <1>2 DEF Deck, Contexts
<1>5. MoveOne(Deck, c, "side", "main") = [main |-> [Deck.main EXCEPT ![c] = @ + 1],
                                          side |-> [Deck.side EXCEPT ![c] = @ - 1]]
  BY <1>3, MoveOneIs
<1>6. c \notin sb.out
  BY <1>1 DEF Ins, Unlocked
<1>7. Sideboarding'
  BY <1>1, <1>4 DEF Sideboarding
<1> QED
  BY <1>1, <1>3, <1>4, <1>5, <1>6, <1>7 DEF BringIn, Balanced

(* What a cut changes. *)
LEMMA CutMoves ==
    ASSUME TypeOK, Flow, NEW c \in Cards, Cut(c)
    PROVE  /\ sb.player \in Players /\ Sideboarding /\ Sideboarding'
           /\ UNCHANGED <<dealt, game, rows, result, played>>
           /\ \A p \in Players \ {sb.player} : ctx'.deck[p] = ctx.deck[p]
           /\ ctx'.deck[sb.player] = [main |-> [Deck.main EXCEPT ![c] = @ - 1],
                                      side |-> [Deck.side EXCEPT ![c] = @ + 1]]
           /\ Deck \in Lists /\ sb.delta = 1 /\ Deck.main[c] > 0
           /\ c \in sb.in => Cuttable = {}
           /\ sb' = [sb EXCEPT !.out = @ \union {c}, !.delta = 0, !.unpaired = None,
                               !.swaps = @ + 1, !.force_done = @ \/ Cuttable = {}]
           /\ tally' = [tally EXCEPT !.out[sb.player][c] = @ + 1]
<1>1. /\ sb.player \in Players /\ Sideboarding /\ sb.delta # 0 /\ c \in Outs
      /\ UNCHANGED <<dealt, game, rows, result, played>>
      /\ ctx' = [ctx EXCEPT !.deck[sb.player] = MoveOne(@, c, "main", "side")]
  BY DEF Cut, Moves, Flow, Balanced
<1>2. ctx \in Contexts /\ ctx.deck \in [Players -> Lists] /\ sb.delta \in {0, 1}
  BY DEF TypeOK, Contexts, Phases
<1>3. Deck \in Lists
  BY <1>1, <1>2 DEF Deck
<1>4. /\ \A p \in Players \ {sb.player} : ctx'.deck[p] = ctx.deck[p]
      /\ ctx'.deck[sb.player] = MoveOne(Deck, c, "main", "side")
      /\ ctx'.stage = ctx.stage
  BY <1>1, <1>2 DEF Deck, Contexts
<1>5. MoveOne(Deck, c, "main", "side") = [main |-> [Deck.main EXCEPT ![c] = @ - 1],
                                          side |-> [Deck.side EXCEPT ![c] = @ + 1]]
  BY <1>3, MoveOneIs
<1>6. Deck.main[c] > 0 /\ (c \in sb.in => Cuttable = {})
  BY <1>1 DEF Outs, Cuttable
<1>7. Sideboarding'
  BY <1>1, <1>4 DEF Sideboarding
<1> QED
  BY <1>1, <1>2, <1>3, <1>4, <1>5, <1>6, <1>7 DEF Cut

(* Every other step leaves the decks as they are. *)
LEMMA OtherStepsKeepDecks ==
    ASSUME TypeOK, Next, ~ \E c \in Cards : BringIn(c) \/ Cut(c)
    PROVE  UNCHANGED dealt /\ ctx'.deck = ctx.deck
<1>1. ctx \in Contexts
  BY DEF TypeOK
<1>2. \A c : PhaseOver(c) => ctx'.deck = ctx.deck
  BY <1>1 DEF PhaseOver, Contexts
<1>3. CASE EndGame
  BY <1>1, <1>3 DEF EndGame, Contexts
<1>4. CASE Done \/ ConcedeBetween \/ ConcedeMatchBetween
  BY <1>2, <1>4 DEF Done, ConcedeBetween, ConcedeMatchBetween
<1>5. CASE StartGame \/ TooManyGames \/ GameDecided \/ CapGame
           \/ \E p \in Players, whole \in BOOLEAN : Concede(p, whole)
  BY <1>5 DEF StartGame, TooManyGames, GameDecided, CapGame, Concede
<1> QED
  BY <1>3, <1>4, <1>5 DEF Next

(* The step from a phase to the next, or to a game, is taken with the deck balanced. *)
LEMMA PhasesAreBalanced ==
    ASSUME TypeOK, Flow, Next, ~ \E c \in Cards : BringIn(c) \/ Cut(c), result' = "none"
    PROVE  /\ result = "none"
           /\ \/ Sideboarding' /\ sb'.delta = 0 /\ (Sideboarding => sb.delta = 0)
              \/ Sideboarding' /\ Sideboarding /\ sb'.delta = sb.delta /\ sb'.player = sb.player
              \/ ~Sideboarding' /\ (Sideboarding => sb.delta = 0)
<1>1. ctx \in Contexts /\ sb \in Phases
  BY DEF TypeOK
<1>0. \A p \in Players : Opponent(p) # "none"
  BY DEF Players, Opponent
<1>2. ASSUME NEW c \in Players \union {None}, PhaseOver(c), sb.delta = 0, Sideboarding,
             result' = "none"
      PROVE  \/ Sideboarding' /\ sb'.delta = 0
             \/ ~Sideboarding'
  BY <1>0, <1>1, <1>2 DEF PhaseOver, Sideboarding, Phase, Contexts
<1>3. CASE EndGame
  <2>1. result = "none" /\ ~Sideboarding
    BY <1>3 DEF EndGame, Flow, Sideboarding, NoGame
  <2>2. sb' = Phase("A")
    BY <1>3 DEF EndGame
  <2> QED
    BY <2>1, <2>2 DEF Phase
<1>4. CASE Done
  BY <1>2, <1>4 DEF Done, Sideboarding, Balanced, TypeOK
<1>5. CASE ConcedeBetween
  <2>1. CASE Balanced /\ PhaseOver(conceder)
    BY <1>2, <1>5, <2>1 DEF ConcedeBetween, Sideboarding, Balanced, TypeOK
  <2>2. CASE sb' = [sb EXCEPT !.ignored = @ + 1] /\ UNCHANGED <<ctx, result>>
    BY <1>1, <1>5, <2>2 DEF ConcedeBetween, Sideboarding, Phases
  <2> QED
    BY <1>5, <2>1, <2>2 DEF ConcedeBetween
<1>6. CASE ConcedeMatchBetween
  <2>1. sb.player \in Players /\ sb.player # None
    BY <1>6 DEF ConcedeMatchBetween, Flow, Players, None
  <2> QED
    BY <1>0, <1>6, <2>1 DEF ConcedeMatchBetween, PhaseOver
<1>7. CASE TooManyGames
  BY <1>7 DEF TooManyGames
<1>8. CASE StartGame \/ GameDecided \/ CapGame
           \/ \E p \in Players, whole \in BOOLEAN : Concede(p, whole)
  <2>1. UNCHANGED <<ctx, sb, result>>
    BY <1>8 DEF StartGame, GameDecided, CapGame, Concede
  <2>2. ~Sideboarding
    <3>1. StartGame => ctx.stage = "PLAY_GAME"
      BY DEF StartGame
    <3>2. GameDecided \/ CapGame \/ (\E p \in Players, whole \in BOOLEAN : Concede(p, whole))
             => game.status # "none"
      BY DEF GameDecided, CapGame, Concede
    <3> QED
      BY <1>8, <3>1, <3>2 DEF Flow, Sideboarding, NoGame
  <2> QED
    BY <2>1, <2>2 DEF Sideboarding
<1> QED
  BY <1>3, <1>4, <1>5, <1>6, <1>7, <1>8 DEF Next

LEMMA NextDecks == TypeOK /\ TypeOK' /\ Flow /\ Decks /\ Next => Decks'
<1> SUFFICES ASSUME TypeOK, TypeOK', Flow, Decks, Next, NEW p \in Players
             PROVE  /\ Copies(ctx'.deck[p]) = Copies(dealt'.deck[p])
                    /\ result' = "none" =>
                         Total(ctx'.deck[p].main) = Total(dealt'.deck[p].main)
                             + IF Sideboarding' /\ p = sb'.player THEN sb'.delta ELSE 0
  BY DEF Decks, Copies, Total, Tokens
<1>0. /\ Copies(ctx.deck[p]) = Copies(dealt.deck[p])
      /\ result = "none" =>
           Total(ctx.deck[p].main) =
               Total(dealt.deck[p].main) + IF Sideboarding /\ p = sb.player THEN sb.delta ELSE 0
  BY DEF Decks
<1>f. IsFiniteSet(Cards)
  BY DealsAssumption
<1>n. Total(dealt.deck[p].main) \in Nat /\ Total(ctx.deck[p].main) \in Nat
  <2>1. dealt.deck[p].main \in [Cards -> Nat] /\ ctx.deck[p].main \in [Cards -> Nat]
    BY DealtDecks DEF TypeOK, Contexts, Lists
  <2> QED
    BY <2>1, <1>f, TotalType
<1>s. sb.delta \in {0, 1} /\ sb \in Phases
  BY DEF TypeOK, Phases
<1>1. ASSUME NEW c \in Cards, BringIn(c)
      PROVE  /\ Copies(ctx'.deck[p]) = Copies(dealt'.deck[p])
             /\ result' = "none" =>
                  Total(ctx'.deck[p].main) = Total(dealt'.deck[p].main)
                      + IF Sideboarding' /\ p = sb'.player THEN sb'.delta ELSE 0
  <2>1. /\ sb.player \in Players /\ Sideboarding /\ Sideboarding'
        /\ dealt' = dealt /\ result = "none"
        /\ p # sb.player => ctx'.deck[p] = ctx.deck[p]
        /\ Deck \in Lists /\ sb.delta = 0
    BY <1>1, BringInMoves DEF Sideboarding
  <2>2. ctx'.deck[sb.player] = [main |-> [Deck.main EXCEPT ![c] = @ + 1],
                                side |-> [Deck.side EXCEPT ![c] = @ - 1]]
    BY <1>1, BringInMoves
  <2>3. sb'.player = sb.player /\ sb'.delta = 1
    <3>1. sb' = [sb EXCEPT !.in = @ \union {c}, !.delta = 1, !.unpaired = c]
      BY <1>1, BringInMoves
    <3> QED
      BY <3>1, <1>s DEF Phases
  <2>4. CASE p # sb.player
    BY <1>0, <2>1, <2>3, <2>4
  <2>5. CASE p = sb.player
    <3>1. Deck.main \in [Cards -> Nat] /\ Deck.side \in [Cards -> Nat] /\ Deck = ctx.deck[p]
      BY <2>1, <2>5 DEF Lists, Deck
    <3>2. ctx'.deck[p].main = [Deck.main EXCEPT ![c] = @ + 1]
          /\ ctx'.deck[p].side = [Deck.side EXCEPT ![c] = @ - 1]
      BY <2>2, <2>5
    <3>3. \A d \in Cards : ctx'.deck[p].main[d] + ctx'.deck[p].side[d]
                             = Deck.main[d] + Deck.side[d]
      BY <3>1, <3>2
    <3>4. Copies(ctx'.deck[p]) = Copies(ctx.deck[p])
      BY <3>1, <3>3 DEF Copies
    <3>5. Total(ctx'.deck[p].main) = Total(ctx.deck[p].main) + 1
      <4>1. /\ ctx'.deck[p].main \in [Cards -> Nat]
            /\ ctx'.deck[p].main[c] = Deck.main[c] + 1
            /\ \A d \in Cards \ {c} : ctx'.deck[p].main[d] = Deck.main[d]
        BY <3>1, <3>2
      <4> QED
        BY <4>1, <3>1, <1>f, TotalAdd
    <3> QED
      BY <1>0, <1>n, <2>1, <2>3, <2>5, <3>4, <3>5
  <2> QED
    BY <2>4, <2>5
<1>2. ASSUME NEW c \in Cards, Cut(c)
      PROVE  /\ Copies(ctx'.deck[p]) = Copies(dealt'.deck[p])
             /\ result' = "none" =>
                  Total(ctx'.deck[p].main) = Total(dealt'.deck[p].main)
                      + IF Sideboarding' /\ p = sb'.player THEN sb'.delta ELSE 0
  <2>1. /\ sb.player \in Players /\ Sideboarding /\ Sideboarding'
        /\ dealt' = dealt /\ result = "none"
        /\ p # sb.player => ctx'.deck[p] = ctx.deck[p]
        /\ Deck \in Lists /\ sb.delta = 1 /\ Deck.main[c] > 0
    BY <1>2, CutMoves DEF Sideboarding
  <2>2. ctx'.deck[sb.player] = [main |-> [Deck.main EXCEPT ![c] = @ - 1],
                                side |-> [Deck.side EXCEPT ![c] = @ + 1]]
    BY <1>2, CutMoves
  <2>3. sb'.player = sb.player /\ sb'.delta = 0
    <3>1. sb' = [sb EXCEPT !.out = @ \union {c}, !.delta = 0, !.unpaired = None,
                           !.swaps = @ + 1, !.force_done = @ \/ Cuttable = {}]
      BY <1>2, CutMoves
    <3> QED
      BY <3>1, <1>s DEF Phases
  <2>4. CASE p # sb.player
    BY <1>0, <2>1, <2>3, <2>4
  <2>5. CASE p = sb.player
    <3>1. Deck.main \in [Cards -> Nat] /\ Deck.side \in [Cards -> Nat] /\ Deck = ctx.deck[p]
      BY <2>1, <2>5 DEF Lists, Deck
    <3>2. ctx'.deck[p].main = [Deck.main EXCEPT ![c] = @ - 1]
          /\ ctx'.deck[p].side = [Deck.side EXCEPT ![c] = @ + 1]
      BY <2>2, <2>5
    <3>3. \A d \in Cards : ctx'.deck[p].main[d] + ctx'.deck[p].side[d]
                             = Deck.main[d] + Deck.side[d]
      BY <3>1, <3>2
    <3>4. Copies(ctx'.deck[p]) = Copies(ctx.deck[p])
      BY <3>1, <3>3 DEF Copies
    <3>5. Total(ctx.deck[p].main) = Total(ctx'.deck[p].main) + 1 /\ Total(ctx'.deck[p].main) \in Nat
      <4>1. Deck.main[c] - 1 \in Nat
        BY <2>1, <3>1
      <4>2. /\ ctx'.deck[p].main \in [Cards -> Nat]
            /\ Deck.main[c] = ctx'.deck[p].main[c] + 1
            /\ \A d \in Cards \ {c} : Deck.main[d] = ctx'.deck[p].main[d]
        BY <3>1, <3>2, <4>1
      <4> QED
        BY <4>2, <3>1, <1>f, TotalAdd, TotalType
    <3> QED
      BY <1>0, <1>n, <2>1, <2>3, <2>5, <3>4, <3>5
  <2> QED
    BY <2>4, <2>5
<1>3. CASE ~ \E c \in Cards : BringIn(c) \/ Cut(c)
  <2>1. dealt' = dealt /\ ctx'.deck = ctx.deck
    BY <1>3, OtherStepsKeepDecks
  <2>2. result' = "none" =>
          /\ result = "none"
          /\ \/ Sideboarding' /\ sb'.delta = 0 /\ (Sideboarding => sb.delta = 0)
             \/ Sideboarding' /\ Sideboarding /\ sb'.delta = sb.delta /\ sb'.player = sb.player
             \/ ~Sideboarding' /\ (Sideboarding => sb.delta = 0)
    BY <1>3, PhasesAreBalanced
  <2> QED
    BY <1>0, <2>1, <2>2
<1> QED
  BY <1>1, <1>2, <1>3

-----------------------------------------------------------------------------
(* The locks of a phase.                                                    *)

(* A phase begins with its player's deck as it was last played, or goes on as it was. *)
LEMMA PhasesBeginFresh ==
    ASSUME TypeOK, Flow, Locks, Next, ~ \E c \in Cards : BringIn(c) \/ Cut(c), Sideboarding'
    PROVE  \/ /\ sb' = Phase("A") /\ ctx'.deck = played'
           \/ /\ sb' = Phase("B") /\ ctx'.deck["B"] = played'["B"]
           \/ /\ Sideboarding /\ sb' = [sb EXCEPT !.ignored = @ + 1]
              /\ UNCHANGED <<ctx, played>>
<1>1. ctx \in Contexts
  BY DEF TypeOK
<1>0. \A p \in Players : Opponent(p) # "none"
  BY DEF Players, Opponent
<1>2. ASSUME NEW c \in Players \union {None}, PhaseOver(c), Sideboarding, UNCHANGED played
      PROVE  sb' = Phase("B") /\ ctx'.deck["B"] = played'["B"]
  <2>1. c = None
    BY <1>0, <1>2 DEF PhaseOver, Sideboarding
  <2>2. sb.player = "A"
    BY <1>1, <1>2, <2>1 DEF PhaseOver, Sideboarding, Contexts
  <2> QED
    BY <1>2, <2>1, <2>2 DEF PhaseOver, Locks
<1>3. CASE EndGame
  <2>1. result' = "none"
    BY DEF Sideboarding
  <2>2. game # NoGame /\ played = ctx.deck
    BY <1>3 DEF EndGame, Flow, NoGame
  <2>3. ctx'.deck = ctx.deck
    BY <1>3, OtherStepsKeepDecks
  <2> QED
    BY <1>3, <2>1, <2>2, <2>3 DEF EndGame
<1>4. CASE Done
  BY <1>2, <1>4 DEF Done, TypeOK
<1>5. CASE ConcedeBetween
  BY <1>2, <1>5 DEF ConcedeBetween, TypeOK
<1>6. CASE ConcedeMatchBetween
  <2>1. sb.player \in Players /\ sb.player # None
    BY <1>6 DEF ConcedeMatchBetween, Flow, Players, None
  <2> QED
    BY <1>2, <1>6, <2>1 DEF ConcedeMatchBetween
<1>7. CASE TooManyGames
  BY <1>7 DEF TooManyGames, Sideboarding
<1>8. CASE StartGame
  BY <1>8 DEF StartGame, Sideboarding
<1>9. CASE GameDecided \/ CapGame \/ \E p \in Players, whole \in BOOLEAN : Concede(p, whole)
  <2>1. game.status # "none" /\ UNCHANGED ctx
    BY <1>9 DEF GameDecided, CapGame, Concede
  <2> QED
    BY <2>1 DEF Flow, Sideboarding, NoGame
<1> QED
  BY <1>3, <1>4, <1>5, <1>6, <1>7, <1>8, <1>9 DEF Next

(* A deck as it was played has no excess. *)
LEMMA NoExcess ==
    ASSUME NEW f \in [Cards -> Nat]
    PROVE  Total(Excess(f, f)) = 0
<1>1. Excess(f, f) \in [Cards -> Nat] /\ \A c \in Cards : Excess(f, f)[c] = 0
  BY DEF Excess
<1> QED
  BY <1>1, TotalZero

LEMMA NextLocks == TypeOK /\ TypeOK' /\ Flow /\ Locks /\ Next => Locks'
<1> SUFFICES ASSUME TypeOK, TypeOK', Flow, Locks, Next, Sideboarding'
             PROVE  /\ sb'.player = "A" => ctx'.deck["B"] = played'["B"]
                    /\ ~sb'.force_done =>
                        /\ \A c \in Cards \ sb'.in :
                             ctx'.deck[sb'.player].main[c] <= played'[sb'.player].main[c]
                        /\ \A c \in Cards \ sb'.out :
                             ctx'.deck[sb'.player].main[c] >= played'[sb'.player].main[c]
                        /\ Total(Excess(ctx'.deck[sb'.player].main, played'[sb'.player].main))
                             = sb'.swaps + sb'.delta
  BY DEF Locks, Deck, BroughtIn, Sideboarding, Excess, Total, Tokens
<1>0. "A" \in Players /\ "B" \in Players
  BY DEF Players
<1>f. IsFiniteSet(Cards)
  BY DealsAssumption
<1>s. sb \in Phases
  BY DEF TypeOK
<1>d. \A p \in Players : ctx.deck[p].main \in [Cards -> Nat] /\ played[p].main \in [Cards -> Nat]
                         /\ ctx'.deck[p].main \in [Cards -> Nat]
  BY DEF TypeOK, Contexts, Lists
<1>1. ASSUME Sideboarding
      PROVE  /\ sb.player = "A" => ctx.deck["B"] = played["B"]
             /\ ~sb.force_done =>
                /\ \A c \in Cards \ sb.in : Deck.main[c] <= played[sb.player].main[c]
                /\ \A c \in Cards \ sb.out : Deck.main[c] >= played[sb.player].main[c]
                /\ Total(Excess(Deck.main, played[sb.player].main)) = sb.swaps + sb.delta
  BY <1>1 DEF Locks, BroughtIn, Deck
<1>2. ASSUME NEW c \in Cards, BringIn(c)
      PROVE  /\ sb'.player = "A" => ctx'.deck["B"] = played'["B"]
             /\ ~sb'.force_done =>
                /\ \A d \in Cards \ sb'.in :
                     ctx'.deck[sb'.player].main[d] <= played'[sb'.player].main[d]
                /\ \A d \in Cards \ sb'.out :
                     ctx'.deck[sb'.player].main[d] >= played'[sb'.player].main[d]
                /\ Total(Excess(ctx'.deck[sb'.player].main, played'[sb'.player].main))
                     = sb'.swaps + sb'.delta
  <2> DEFINE p == sb.player
             new == [Deck.main EXCEPT ![c] = @ + 1]
             old == played[sb.player].main
  <2>1. /\ p \in Players /\ Sideboarding /\ played' = played
        /\ \A q \in Players \ {p} : ctx'.deck[q] = ctx.deck[q]
        /\ c \notin sb.out /\ sb.delta = 0
    BY <1>2, BringInMoves
  <2>2. ctx'.deck[p].main = new
    <3>1. ctx'.deck[sb.player] = [main |-> [Deck.main EXCEPT ![c] = @ + 1],
                                  side |-> [Deck.side EXCEPT ![c] = @ - 1]]
      BY <1>2, BringInMoves
    <3> QED
      BY <3>1
  <2>3. /\ sb'.player = p /\ sb'.delta = 1 /\ sb'.swaps = sb.swaps /\ sb'.out = sb.out
        /\ sb'.in = sb.in \union {c} /\ sb'.force_done = sb.force_done
    <3>1. sb' = [sb EXCEPT !.in = @ \union {c}, !.delta = 1, !.unpaired = c]
      BY <1>2, BringInMoves
    <3> QED
      BY <3>1, <1>s DEF Phases
  <2>4. p = "A" => ctx'.deck["B"] = played'["B"]
    BY <1>0, <1>1, <2>1
  <2>5. ASSUME ~sb.force_done
        PROVE  /\ \A d \in Cards \ (sb.in \union {c}) : new[d] <= old[d]
               /\ \A d \in Cards \ sb.out : new[d] >= old[d]
               /\ Total(Excess(new, old)) = sb.swaps + 1
    <3>1. Deck.main \in [Cards -> Nat] /\ old \in [Cards -> Nat] /\ new \in [Cards -> Nat]
      BY <1>d, <2>1 DEF Deck
    <3>2. /\ \A d \in Cards \ sb.in : Deck.main[d] <= old[d]
          /\ \A d \in Cards \ sb.out : Deck.main[d] >= old[d]
          /\ Total(Excess(Deck.main, old)) = sb.swaps
      BY <1>1, <1>s, <2>1, <2>5 DEF Phases
    <3> HIDE DEF old
    <3>3. new[c] = Deck.main[c] + 1 /\ \A d \in Cards \ {c} : new[d] = Deck.main[d]
      BY <3>1
    <3> HIDE DEF new
    <3>4. \A d \in Cards \ (sb.in \union {c}) : new[d] <= old[d]
      BY <3>2, <3>3
    <3>5. \A d \in Cards \ sb.out : new[d] >= old[d]
      BY <3>1, <3>2, <3>3
    <3>6. /\ Excess(new, old) \in [Cards -> Nat] /\ Excess(Deck.main, old) \in [Cards -> Nat]
      BY <3>1 DEF Excess
    <3>7. /\ Excess(new, old)[c] = Excess(Deck.main, old)[c] + 1
          /\ \A d \in Cards \ {c} : Excess(new, old)[d] = Excess(Deck.main, old)[d]
      BY <2>1, <3>1, <3>2, <3>3 DEF Excess
    <3>8. Total(Excess(new, old)) = Total(Excess(Deck.main, old)) + 1
      BY <1>f, <3>6, <3>7, TotalAdd
    <3> QED
      BY <3>2, <3>4, <3>5, <3>8
  <2> HIDE DEF p, new
  <2>6. sb'.swaps + sb'.delta = sb.swaps + 1
    BY <2>3
  <2> QED
    BY <2>1, <2>2, <2>3, <2>4, <2>5, <2>6 DEF p
<1>3. ASSUME NEW c \in Cards, Cut(c)
      PROVE  /\ sb'.player = "A" => ctx'.deck["B"] = played'["B"]
             /\ ~sb'.force_done =>
                /\ \A d \in Cards \ sb'.in :
                     ctx'.deck[sb'.player].main[d] <= played'[sb'.player].main[d]
                /\ \A d \in Cards \ sb'.out :
                     ctx'.deck[sb'.player].main[d] >= played'[sb'.player].main[d]
                /\ Total(Excess(ctx'.deck[sb'.player].main, played'[sb'.player].main))
                     = sb'.swaps + sb'.delta
  <2> DEFINE p == sb.player
             new == [Deck.main EXCEPT ![c] = @ - 1]
             old == played[sb.player].main
  <2>1. /\ p \in Players /\ Sideboarding /\ played' = played
        /\ \A q \in Players \ {p} : ctx'.deck[q] = ctx.deck[q]
        /\ sb.delta = 1 /\ Deck.main[c] > 0 /\ (c \in sb.in => Cuttable = {})
    BY <1>3, CutMoves
  <2>2. ctx'.deck[p].main = new
    <3>1. ctx'.deck[sb.player] = [main |-> [Deck.main EXCEPT ![c] = @ - 1],
                                  side |-> [Deck.side EXCEPT ![c] = @ + 1]]
      BY <1>3, CutMoves
    <3> QED
      BY <3>1
  <2>3. /\ sb'.player = p /\ sb'.delta = 0 /\ sb'.swaps = sb.swaps + 1 /\ sb'.in = sb.in
        /\ sb'.out = sb.out \union {c} /\ sb'.force_done = (sb.force_done \/ Cuttable = {})
    <3>1. sb' = [sb EXCEPT !.out = @ \union {c}, !.delta = 0, !.unpaired = None,
                           !.swaps = @ + 1, !.force_done = @ \/ Cuttable = {}]
      BY <1>3, CutMoves
    <3> QED
      BY <3>1, <1>s DEF Phases
  <2>4. p = "A" => ctx'.deck["B"] = played'["B"]
    BY <1>0, <1>1, <2>1
  <2>5. ASSUME ~sb.force_done, Cuttable # {}
        PROVE  /\ \A d \in Cards \ sb.in : new[d] <= old[d]
               /\ \A d \in Cards \ (sb.out \union {c}) : new[d] >= old[d]
               /\ Total(Excess(new, old)) = sb.swaps + 1
    <3>0. Deck.main[c] - 1 \in Nat
      BY <1>d, <2>1 DEF Deck
    <3>1. Deck.main \in [Cards -> Nat] /\ old \in [Cards -> Nat] /\ new \in [Cards -> Nat]
      BY <1>d, <2>1, <3>0 DEF Deck
    <3>2. /\ \A d \in Cards \ sb.in : Deck.main[d] <= old[d]
          /\ \A d \in Cards \ sb.out : Deck.main[d] >= old[d]
          /\ Total(Excess(Deck.main, old)) = sb.swaps + 1
      BY <1>1, <1>s, <2>1, <2>5 DEF Phases
    <3> HIDE DEF old
    <3>3. new[c] = Deck.main[c] - 1 /\ \A d \in Cards \ {c} : new[d] = Deck.main[d]
      BY <3>1
    <3> HIDE DEF new
    <3>4. \A d \in Cards \ sb.in : new[d] <= old[d]
      BY <3>1, <3>2, <3>3
    <3>5. \A d \in Cards \ (sb.out \union {c}) : new[d] >= old[d]
      BY <3>2, <3>3
    <3>6. Excess(new, old) = Excess(Deck.main, old)
      <4>1. ASSUME NEW d \in Cards
            PROVE  (IF new[d] > old[d] THEN new[d] - old[d] ELSE 0)
                     = (IF Deck.main[d] > old[d] THEN Deck.main[d] - old[d] ELSE 0)
        BY <2>1, <2>5, <3>1, <3>2, <3>3
      <4> QED
        BY <4>1 DEF Excess
    <3> QED
      BY <3>2, <3>4, <3>5, <3>6
  <2> HIDE DEF p, new
  <2>6. sb'.swaps + sb'.delta = sb.swaps + 1
    BY <2>3, <1>s DEF Phases
  <2> QED
    BY <2>1, <2>2, <2>3, <2>4, <2>5, <2>6 DEF p
<1>4. CASE ~ \E c \in Cards : BringIn(c) \/ Cut(c)
  <2>1. ASSUME NEW p \in Players, sb' = Phase(p), ctx'.deck[p] = played'[p],
               p = "A" => ctx'.deck["B"] = played'["B"]
        PROVE  /\ sb'.player = "A" => ctx'.deck["B"] = played'["B"]
               /\ ~sb'.force_done =>
                  /\ \A d \in Cards \ sb'.in :
                       ctx'.deck[sb'.player].main[d] <= played'[sb'.player].main[d]
                  /\ \A d \in Cards \ sb'.out :
                       ctx'.deck[sb'.player].main[d] >= played'[sb'.player].main[d]
                  /\ Total(Excess(ctx'.deck[sb'.player].main, played'[sb'.player].main))
                       = sb'.swaps + sb'.delta
    <3>1. sb'.player = p /\ sb'.swaps = 0 /\ sb'.delta = 0
      BY <2>1 DEF Phase
    <3>2. ctx'.deck[p].main \in [Cards -> Nat]
      BY <1>d
    <3> QED
      BY <2>1, <3>1, <3>2, NoExcess
  <2>2. CASE sb' = Phase("A") /\ ctx'.deck = played'
    BY <1>0, <2>1, <2>2
  <2>3. CASE sb' = Phase("B") /\ ctx'.deck["B"] = played'["B"]
    BY <1>0, <2>1, <2>3
  <2>4. CASE Sideboarding /\ sb' = [sb EXCEPT !.ignored = @ + 1] /\ UNCHANGED <<ctx, played>>
    <3>1. /\ sb'.player = sb.player /\ sb'.swaps = sb.swaps /\ sb'.delta = sb.delta
          /\ sb'.in = sb.in /\ sb'.out = sb.out /\ sb'.force_done = sb.force_done
      BY <1>s, <2>4 DEF Phases
    <3> QED
      BY <1>1, <2>4, <3>1 DEF Deck
  <2> QED
    BY <1>4, <2>2, <2>3, <2>4, PhasesBeginFresh
<1> QED
  BY <1>2, <1>3, <1>4

-----------------------------------------------------------------------------
(* The moves counted.                                                       *)

(* The moves reported so far, and with one more line. *)
LEMMA ReportedAppend ==
    ASSUME rows \in Seq(Lines), NEW line \in Lines, rows' = Append(rows, line),
           NEW p \in Players, NEW c \in Cards, NEW section \in {"in", "out"}
    PROVE  /\ Reported(p, section, Len(rows))[c] \in Nat
           /\ Reported(p, section, Len(rows))'[c] =
                Reported(p, section, Len(rows))[c] + line[section][p][c]
<1> DEFINE n == Len(rows)
           f == [i \in 1..n |-> rows[i][section][p][c]]
           g == [i \in 1..(n + 1) |-> rows'[i][section][p][c]]
<1>1. \A l \in Lines : l[section] \in Moved
  BY DEF Lines
<1>2. \A l \in Lines : l[section][p][c] \in Nat
  BY <1>1 DEF Moved
<1>3. /\ n \in Nat /\ Len(rows') = n + 1 /\ rows' \in Seq(Lines)
      /\ \A i \in 1..n : rows'[i] = rows[i] /\ rows[i] \in Lines
      /\ rows'[n + 1] = line
  OBVIOUS
<1>4. f \in [1..n -> Nat] /\ IsFiniteSet(1..n)
  <2>1. IsFiniteSet(1..n)
    <3>1. n \in Int /\ 1 \in Int
      BY <1>3
    <3> QED
      BY <3>1, FS_Interval
  <2> QED
    BY <1>2, <1>3, <2>1
<1>5. \A i \in 1..(n + 1) : rows'[i] \in Lines
  BY <1>3
<1>6. g \in [1..(n + 1) -> Nat] /\ n + 1 \in 1..(n + 1)
  BY <1>2, <1>3, <1>5
<1>7. \A i \in 1..n : g[i] = f[i]
  BY <1>3
<1>8. g[n + 1] = line[section][p][c]
  BY <1>3, <1>6
<1>9. Reported(p, section, Len(rows))[c] = Total(f)
  BY DEF Reported
<1>10. Reported(p, section, Len(rows))'[c] = Total(g)
  BY <1>3 DEF Reported, Total, Tokens
<1> HIDE DEF n, f, g
<1>11. Total(g) = Total(f) + g[n + 1] /\ Total(f) \in Nat
  BY <1>3, <1>4, <1>6, <1>7, TotalAppend, TotalType
<1> QED
  BY <1>8, <1>9, <1>10, <1>11

LEMMA ReportedNat ==
    ASSUME rows \in Seq(Lines), NEW p \in Players, NEW c \in Cards, NEW section \in {"in", "out"}
    PROVE  Reported(p, section, Len(rows))[c] \in Nat
<1> DEFINE n == Len(rows)
           f == [i \in 1..n |-> rows[i][section][p][c]]
<1>1. \A l \in Lines : l[section] \in Moved
  BY DEF Lines
<1>2. \A l \in Lines : l[section][p][c] \in Nat
  BY <1>1 DEF Moved
<1>3. f \in [1..n -> Nat]
  BY <1>2
<1>4. IsFiniteSet(1..n)
  <2>1. n \in Int /\ 1 \in Int
    OBVIOUS
  <2> QED
    BY <2>1, FS_Interval
<1>5. Reported(p, section, Len(rows))[c] = Total(f)
  BY DEF Reported
<1> HIDE DEF n, f
<1> QED
  BY <1>3, <1>4, <1>5, TotalType

(* Only a move, and the end of a game, touch the account of the moves. *)
LEMMA QuietSteps ==
    ASSUME TypeOK, Next, ~EndGame, ~ \E c \in Cards : BringIn(c) \/ Cut(c)
    PROVE  /\ rows' = rows /\ tally'.in = tally.in /\ tally'.out = tally.out
           /\ game' = NoGame => game = NoGame /\ played' = played
<1>1. tally \in Tallies /\ game \in Games
  BY DEF TypeOK
<1>2. CASE StartGame
  <2>1. tally'.in = tally.in /\ tally'.out = tally.out
    BY <1>1, <1>2 DEF StartGame, Tallies
  <2>2. game'.status = "live"
    BY <1>2 DEF StartGame, NoGame
  <2> QED
    BY <1>2, <2>1, <2>2 DEF StartGame, NoGame
<1>3. ASSUME NEW p \in Players, NEW whole \in BOOLEAN, Concede(p, whole)
      PROVE  /\ rows' = rows /\ tally'.in = tally.in /\ tally'.out = tally.out
             /\ game' = NoGame => game = NoGame /\ played' = played
  <2>1. tally'.in = tally.in /\ tally'.out = tally.out
    BY <1>1, <1>3 DEF Concede, Tallies
  <2>2. game'.status = "ended"
    BY <1>1, <1>3 DEF Concede, Ended, Games
  <2> QED
    BY <1>3, <2>1, <2>2 DEF Concede, NoGame
<1>4. CASE GameDecided \/ CapGame
  <2>1. game'.status = "ended"
    BY <1>1, <1>4 DEF GameDecided, CapGame, Ended, Games
  <2>2. game' # NoGame
    BY <2>1 DEF NoGame
  <2>3. rows' = rows /\ tally' = tally
    BY <1>4 DEF GameDecided, CapGame
  <2> QED
    BY <2>2, <2>3
<1>5. CASE ConcedeMatchBetween
  BY <1>1, <1>5 DEF ConcedeMatchBetween, Tallies
<1>6. CASE TooManyGames \/ Done \/ ConcedeBetween
  BY <1>6 DEF TooManyGames, Done, ConcedeBetween
<1> QED
  BY <1>2, <1>3, <1>4, <1>5, <1>6 DEF Next

LEMMA NextAccounts == TypeOK /\ TypeOK' /\ Flow /\ Accounts /\ Next => Accounts'
<1> SUFFICES ASSUME TypeOK, TypeOK', Flow, Accounts, Next, NEW p \in Players, NEW c \in Cards
             PROVE  /\ ctx'.deck[p].main[c] =
                         dealt'.deck[p].main[c] + Reported(p, "in", Len(rows))'[c]
                           + tally'.in[p][c] - Reported(p, "out", Len(rows))'[c]
                           - tally'.out[p][c]
                    /\ game' = NoGame =>
                         ctx'.deck[p].main[c] =
                            played'[p].main[c] + tally'.in[p][c] - tally'.out[p][c]
  BY DEF Accounts, NoGame
<1>0. /\ ctx.deck[p].main[c] =
            dealt.deck[p].main[c] + Reported(p, "in", Len(rows))[c] + tally.in[p][c]
                - Reported(p, "out", Len(rows))[c] - tally.out[p][c]
      /\ game = NoGame =>
            ctx.deck[p].main[c] = played[p].main[c] + tally.in[p][c] - tally.out[p][c]
  BY DEF Accounts
<1>r. Reported(p, "in", Len(rows))[c] \in Nat /\ Reported(p, "out", Len(rows))[c] \in Nat
  BY ReportedNat DEF TypeOK
<1>t. tally \in Tallies /\ tally.in \in Moved /\ tally.out \in Moved
  BY DEF TypeOK, Tallies
<1>n. tally.in[p][c] \in Nat /\ tally.out[p][c] \in Nat
  BY <1>t DEF Moved
<1>d. /\ ctx.deck[p].main \in [Cards -> Nat] /\ played[p].main[c] \in Nat
      /\ dealt.deck[p].main[c] \in Nat
  <2>1. ctx.deck[p] \in Lists /\ played[p] \in Lists /\ dealt.deck[p] \in Lists
    BY DealtDecks DEF TypeOK, Contexts
  <2> QED
    BY <2>1 DEF Lists
<1>1. ASSUME NEW e \in Cards, BringIn(e)
      PROVE  /\ ctx'.deck[p].main[c] = ctx.deck[p].main[c]
                                         + IF p = sb.player /\ c = e THEN 1 ELSE 0
             /\ tally'.in[p][c] = tally.in[p][c] + IF p = sb.player /\ c = e THEN 1 ELSE 0
             /\ tally'.out[p][c] = tally.out[p][c]
             /\ rows' = rows /\ dealt' = dealt /\ game' = game /\ played' = played
  <2>1. /\ rows' = rows /\ dealt' = dealt /\ game' = game /\ played' = played
        /\ sb.player \in Players
        /\ p # sb.player => ctx'.deck[p] = ctx.deck[p]
    BY <1>1, BringInMoves
  <2>2. ctx'.deck[sb.player] = [main |-> [Deck.main EXCEPT ![e] = @ + 1],
                                side |-> [Deck.side EXCEPT ![e] = @ - 1]]
    BY <1>1, BringInMoves
  <2>3. tally' = [tally EXCEPT !.in[sb.player][e] = @ + 1]
    BY <1>1, BringInMoves
  <2>4. tally'.in = [tally.in EXCEPT ![sb.player][e] = @ + 1] /\ tally'.out = tally.out
    BY <2>3, <1>t DEF Tallies
  <2>5. tally'.in[p][c] = tally.in[p][c] + IF p = sb.player /\ c = e THEN 1 ELSE 0
    BY <2>1, <2>4, <1>t, <1>n DEF Moved
  <2>6. p = sb.player => ctx'.deck[p].main = [ctx.deck[p].main EXCEPT ![e] = @ + 1]
    BY <2>2 DEF Deck
  <2>7. ctx'.deck[p].main[c] = ctx.deck[p].main[c] + IF p = sb.player /\ c = e THEN 1 ELSE 0
    BY <1>d, <2>1, <2>6
  <2> QED
    BY <2>1, <2>4, <2>5, <2>7
<1>2. ASSUME NEW e \in Cards, Cut(e)
      PROVE  /\ ctx'.deck[p].main[c] = ctx.deck[p].main[c]
                                         - IF p = sb.player /\ c = e THEN 1 ELSE 0
             /\ tally'.out[p][c] = tally.out[p][c] + IF p = sb.player /\ c = e THEN 1 ELSE 0
             /\ tally'.in[p][c] = tally.in[p][c]
             /\ rows' = rows /\ dealt' = dealt /\ game' = game /\ played' = played
  <2>1. /\ rows' = rows /\ dealt' = dealt /\ game' = game /\ played' = played
        /\ sb.player \in Players
        /\ p # sb.player => ctx'.deck[p] = ctx.deck[p]
    BY <1>2, CutMoves
  <2>2. ctx'.deck[sb.player] = [main |-> [Deck.main EXCEPT ![e] = @ - 1],
                                side |-> [Deck.side EXCEPT ![e] = @ + 1]]
    BY <1>2, CutMoves
  <2>3. tally' = [tally EXCEPT !.out[sb.player][e] = @ + 1]
    BY <1>2, CutMoves
  <2>4. tally'.out = [tally.out EXCEPT ![sb.player][e] = @ + 1] /\ tally'.in = tally.in
    BY <2>3, <1>t DEF Tallies
  <2>5. tally'.out[p][c] = tally.out[p][c] + IF p = sb.player /\ c = e THEN 1 ELSE 0
    BY <2>1, <2>4, <1>t, <1>n DEF Moved
  <2>6. p = sb.player => ctx'.deck[p].main = [ctx.deck[p].main EXCEPT ![e] = @ - 1]
    BY <2>2 DEF Deck
  <2>7. ctx'.deck[p].main[c] = ctx.deck[p].main[c] - IF p = sb.player /\ c = e THEN 1 ELSE 0
    BY <1>d, <2>1, <2>6
  <2> QED
    BY <2>1, <2>4, <2>5, <2>7
<1>3. CASE \E e \in Cards : BringIn(e) \/ Cut(e)
  <2>1. PICK e \in Cards : BringIn(e) \/ Cut(e)
    BY <1>3
  <2>2. rows' = rows
    BY <1>1, <1>2, <2>1
  <2>3. /\ Reported(p, "in", Len(rows))'[c] = Reported(p, "in", Len(rows))[c]
        /\ Reported(p, "out", Len(rows))'[c] = Reported(p, "out", Len(rows))[c]
    BY <2>2 DEF Reported, Total, Tokens
  <2> HIDE DEF Reported
  <2>4. ctx.deck[p].main[c] \in Nat
    BY <1>d
  <2>5. CASE BringIn(e)
    <3>1. /\ ctx'.deck[p].main[c] = ctx.deck[p].main[c]
                                       + IF p = sb.player /\ c = e THEN 1 ELSE 0
          /\ tally'.in[p][c] = tally.in[p][c] + IF p = sb.player /\ c = e THEN 1 ELSE 0
          /\ tally'.out[p][c] = tally.out[p][c]
          /\ dealt' = dealt /\ game' = game /\ played' = played
      BY <1>1, <2>5
    <3>2. CASE p = sb.player /\ c = e
      <4>1. /\ ctx'.deck[p].main[c] = ctx.deck[p].main[c] + 1
            /\ tally'.in[p][c] = tally.in[p][c] + 1 /\ tally'.out[p][c] = tally.out[p][c]
        BY <3>1, <3>2
      <4>2. /\ ctx.deck[p].main[c] + 1 =
                 dealt.deck[p].main[c] + Reported(p, "in", Len(rows))[c] + (tally.in[p][c] + 1)
                   - Reported(p, "out", Len(rows))[c] - tally.out[p][c]
            /\ game = NoGame =>
                 ctx.deck[p].main[c] + 1 =
                    played[p].main[c] + (tally.in[p][c] + 1) - tally.out[p][c]
        <5> DEFINE ri == Reported(p, "in", Len(rows))[c]
                   ro == Reported(p, "out", Len(rows))[c]
                   i == tally.in[p][c]
                   o == tally.out[p][c]
                   a == ctx.deck[p].main[c]
                   d == dealt.deck[p].main[c]
                   l == played[p].main[c]
        <5>1. a = d + ri + i - ro - o /\ (game = NoGame => a = l + i - o)
          BY <1>0
        <5>2. a \in Int /\ d \in Int /\ l \in Int
          BY <1>d, <2>4
        <5>3. ri \in Int /\ ro \in Int /\ i \in Int /\ o \in Int
          BY <1>r, <1>n
        <5> HIDE DEF ri, ro, i, o, a, d, l
        <5>4. a + 1 = d + ri + (i + 1) - ro - o /\ (game = NoGame => a + 1 = l + (i + 1) - o)
          BY <5>1, <5>2, <5>3
        <5> QED
          BY <5>4 DEF ri, ro, i, o, a, d, l
      <4> QED
        BY <2>3, <3>1, <4>1, <4>2
    <3>3. CASE ~(p = sb.player /\ c = e)
      <4>1. /\ ctx'.deck[p].main[c] = ctx.deck[p].main[c]
            /\ tally'.in[p][c] = tally.in[p][c] /\ tally'.out[p][c] = tally.out[p][c]
        BY <1>n, <2>4, <3>1, <3>3
      <4> QED
        BY <1>0, <2>3, <3>1, <4>1
    <3> QED
      BY <3>2, <3>3
  <2>6. CASE Cut(e)
    <3>1. /\ ctx'.deck[p].main[c] = ctx.deck[p].main[c]
                                       - IF p = sb.player /\ c = e THEN 1 ELSE 0
          /\ tally'.out[p][c] = tally.out[p][c] + IF p = sb.player /\ c = e THEN 1 ELSE 0
          /\ tally'.in[p][c] = tally.in[p][c]
          /\ dealt' = dealt /\ game' = game /\ played' = played
      BY <1>2, <2>6
    <3>2. CASE p = sb.player /\ c = e
      <4>1. /\ ctx'.deck[p].main[c] = ctx.deck[p].main[c] - 1
            /\ tally'.out[p][c] = tally.out[p][c] + 1 /\ tally'.in[p][c] = tally.in[p][c]
        BY <3>1, <3>2
      <4>2. /\ ctx.deck[p].main[c] - 1 =
                 dealt.deck[p].main[c] + Reported(p, "in", Len(rows))[c] + tally.in[p][c]
                   - Reported(p, "out", Len(rows))[c] - (tally.out[p][c] + 1)
            /\ game = NoGame =>
                 ctx.deck[p].main[c] - 1 =
                    played[p].main[c] + tally.in[p][c] - (tally.out[p][c] + 1)
        <5> DEFINE ri == Reported(p, "in", Len(rows))[c]
                   ro == Reported(p, "out", Len(rows))[c]
                   i == tally.in[p][c]
                   o == tally.out[p][c]
                   a == ctx.deck[p].main[c]
                   d == dealt.deck[p].main[c]
                   l == played[p].main[c]
        <5>1. a = d + ri + i - ro - o /\ (game = NoGame => a = l + i - o)
          BY <1>0
        <5>2. a \in Int /\ d \in Int /\ l \in Int
          BY <1>d, <2>4
        <5>3. ri \in Int /\ ro \in Int /\ i \in Int /\ o \in Int
          BY <1>r, <1>n
        <5> HIDE DEF ri, ro, i, o, a, d, l
        <5>4. a - 1 = d + ri + i - ro - (o + 1) /\ (game = NoGame => a - 1 = l + i - (o + 1))
          BY <5>1, <5>2, <5>3
        <5> QED
          BY <5>4 DEF ri, ro, i, o, a, d, l
      <4> QED
        BY <2>3, <3>1, <4>1, <4>2
    <3>3. CASE ~(p = sb.player /\ c = e)
      <4>1. /\ ctx'.deck[p].main[c] = ctx.deck[p].main[c]
            /\ tally'.out[p][c] = tally.out[p][c] /\ tally'.in[p][c] = tally.in[p][c]
        BY <1>n, <2>4, <3>1, <3>3
      <4> QED
        BY <1>0, <2>3, <3>1, <4>1
    <3> QED
      BY <3>2, <3>3
  <2> QED
    BY <2>1, <2>5, <2>6
<1>4. CASE EndGame
  <2>1. rows' = Append(rows, Line) /\ tally' = FreshTally /\ played' = played
        /\ game # NoGame
    BY <1>4 DEF EndGame, NoGame
  <2>2. dealt' = dealt /\ ctx'.deck = ctx.deck
    <3>1. ~ \E e \in Cards : BringIn(e) \/ Cut(e)
      BY <2>1 DEF BringIn, Cut, Sideboarding, Flow
    <3> QED
      BY <3>1, OtherStepsKeepDecks
  <2>3. tally'.in[p][c] = 0 /\ tally'.out[p][c] = 0
    BY <2>1 DEF FreshTally, NoMoves
  <2>4. Line \in Lines /\ Line.in = tally.in /\ Line.out = tally.out
    BY <1>t DEF Line, Reason, Lines, Tallies, Games, TypeOK
  <2>5. /\ Reported(p, "in", Len(rows))'[c] =
             Reported(p, "in", Len(rows))[c] + Line["in"][p][c]
        /\ Reported(p, "out", Len(rows))'[c] =
             Reported(p, "out", Len(rows))[c] + Line["out"][p][c]
    BY <2>1, <2>4, ReportedAppend DEF TypeOK
  <2>6. ctx.deck = played
    BY <2>1 DEF Flow
  <2> QED
    <3>1. /\ ctx'.deck[p].main[c] = ctx.deck[p].main[c]
          /\ ctx.deck[p].main[c] = played'[p].main[c]
          /\ dealt'.deck[p].main[c] = dealt.deck[p].main[c]
      BY <2>1, <2>2, <2>6
    <3>2. /\ Reported(p, "in", Len(rows))'[c] =
               Reported(p, "in", Len(rows))[c] + tally.in[p][c]
          /\ Reported(p, "out", Len(rows))'[c] =
               Reported(p, "out", Len(rows))[c] + tally.out[p][c]
      BY <2>4, <2>5
    <3>3. ctx.deck[p].main[c] \in Nat
      BY <1>d
    <3>4. /\ ctx.deck[p].main[c] =
               dealt.deck[p].main[c] + (Reported(p, "in", Len(rows))[c] + tally.in[p][c]) + 0
                 - (Reported(p, "out", Len(rows))[c] + tally.out[p][c]) - 0
          /\ ctx.deck[p].main[c] = ctx.deck[p].main[c] + 0 - 0
      <4> DEFINE ri == Reported(p, "in", Len(rows))[c]
                 ro == Reported(p, "out", Len(rows))[c]
                 i == tally.in[p][c]
                 o == tally.out[p][c]
                 a == ctx.deck[p].main[c]
                 d == dealt.deck[p].main[c]
                 l == played[p].main[c]
      <4>1. a = d + ri + i - ro - o /\ (game = NoGame => a = l + i - o)
        BY <1>0
      <4>2. a \in Int /\ d \in Int /\ l \in Int
        BY <1>d, <3>3
      <4>3. ri \in Int /\ ro \in Int /\ i \in Int /\ o \in Int
        BY <1>r, <1>n
      <4> HIDE DEF ri, ro, i, o, a, d, l
      <4>4. a = d + (ri + i) + 0 - (ro + o) - 0 /\ a = a + 0 - 0
        BY <4>1, <4>2, <4>3
      <4> QED
        BY <4>4 DEF ri, ro, i, o, a, d, l
    <3> QED
      BY <2>3, <3>1, <3>2, <3>4
<1>5. CASE ~EndGame /\ ~ \E e \in Cards : BringIn(e) \/ Cut(e)
  <2>1. /\ rows' = rows /\ tally'.in = tally.in /\ tally'.out = tally.out
        /\ game' = NoGame => game = NoGame /\ played' = played
    BY <1>5, QuietSteps
  <2>2. dealt' = dealt /\ ctx'.deck = ctx.deck
    BY <1>5, OtherStepsKeepDecks
  <2>3. /\ Reported(p, "in", Len(rows))'[c] = Reported(p, "in", Len(rows))[c]
        /\ Reported(p, "out", Len(rows))'[c] = Reported(p, "out", Len(rows))[c]
    BY <2>1 DEF Reported, Total, Tokens
  <2> QED
    BY <1>0, <2>1, <2>2, <2>3
<1> QED
  BY <1>3, <1>4, <1>5

-----------------------------------------------------------------------------
(* The score.                                                               *)

(* Only the end of a game writes a line or changes the score; what else ends the match is the
   concession of the whole of it, or a match of too many games. *)
LEMMA NoLineNoScore ==
    ASSUME TypeOK, Flow, Next, ~EndGame
    PROVE  /\ rows' = rows /\ dealt' = dealt
           /\ ctx'.wins = ctx.wins /\ ctx'.first = ctx.first
           /\ result' # result => /\ result = "none"
                                  /\ ~capped'
                                  /\ \/ result' = "fatal"
                                     \/ conceder' \in Players /\ result' = Opponent(conceder')
           /\ result # "none" => conceder' = conceder /\ capped' = capped
<1>c. ctx \in Contexts
  BY DEF TypeOK
<1>1. ASSUME NEW c \in Players \union {None}, PhaseOver(c), Sideboarding
      PROVE  /\ ctx'.wins = ctx.wins /\ ctx'.first = ctx.first
             /\ ~capped
             /\ result = "none"
             /\ result' # result => c \in Players /\ result' = Opponent(c)
  <2>1. ctx'.wins = ctx.wins /\ ctx'.first = ctx.first
    BY <1>c, <1>1 DEF PhaseOver, Contexts
  <2>2. ~capped /\ result = "none"
    BY <1>1 DEF Flow, Sideboarding, NoGame
  <2> QED
    BY <1>1, <2>1, <2>2 DEF PhaseOver
<1>2. CASE StartGame
  BY <1>2 DEF StartGame
<1>3. CASE TooManyGames
  BY <1>3 DEF TooManyGames, Flow, NoGame
<1>4. CASE GameDecided \/ CapGame \/ \E p \in Players, whole \in BOOLEAN : Concede(p, whole)
  <2>1. game.status # "none" /\ UNCHANGED <<rows, dealt, ctx, result>>
    BY <1>4 DEF GameDecided, CapGame, Concede
  <2>2. result = "none"
    BY <2>1 DEF Flow, NoGame
  <2> QED
    BY <2>1, <2>2
<1>5. ASSUME NEW c \in Cards, BringIn(c) \/ Cut(c)
      PROVE  /\ rows' = rows /\ dealt' = dealt /\ result' = result
             /\ ctx'.wins = ctx.wins /\ ctx'.first = ctx.first
             /\ conceder' = conceder /\ capped' = capped
  BY <1>c, <1>5 DEF BringIn, Cut, Moves, Contexts
<1>6. CASE Done
  BY <1>1, <1>6 DEF Done, TypeOK
<1>7. CASE ConcedeBetween
  BY <1>1, <1>7 DEF ConcedeBetween, TypeOK
<1>8. CASE ConcedeMatchBetween
  <2>1. conceder' \in Players
    BY <1>8 DEF ConcedeMatchBetween, Flow
  <2> QED
    BY <1>1, <1>8, <2>1 DEF ConcedeMatchBetween
<1> QED
  BY <1>2, <1>3, <1>4, <1>5, <1>6, <1>7, <1>8 DEF Next

(* Scores, said of any lines. *)
ScoresOf(r, res, wins, first) ==
    /\ \A i \in 1..Len(r) :
        /\ r[i].game = i
        /\ \A p \in Players : r[i].wins[p] = WinsIn(r, p, i - 1)
        /\ r[i].first = IF i = 1 THEN "A" ELSE LoserOf(r[i - 1])
        /\ i < Len(r) \/ res = "none" =>
            /\ \A p \in Players : WinsIn(r, p, i) < 2
            /\ r[i].reason # "cap"
    /\ res = "none" =>
        /\ \A p \in Players : wins[p] = WinsIn(r, p, Len(r))
        /\ first = IF r = <<>> THEN "A" ELSE LoserOf(r[Len(r)])
Earned(r, res, con, cap) ==
    /\ res \in Players /\ dealt.format = "bo3" =>
        IF con = None THEN WinsIn(r, res, Len(r)) = 2 ELSE con # res
    /\ cap /\ res # "none" => res = "unknown"

LEMMA ScoresAre ==
    ASSUME TypeOK
    PROVE  Scores <=> /\ ScoresOf(rows, result, ctx.wins, ctx.first)
                      /\ Earned(rows, result, conceder, capped)
<1>1. DOMAIN rows = 1..Len(rows)
  BY DEF TypeOK
<1> QED
  BY <1>1 DEF Scores, ScoresOf, Earned, ResultIsEarned, WinsOf, WinsIn

LEMMA NextScores == TypeOK /\ TypeOK' /\ Flow /\ Scores /\ Next => Scores'
<1> SUFFICES ASSUME TypeOK, TypeOK', Flow, Scores, Next PROVE Scores'
  OBVIOUS
<1>0. /\ ScoresOf(rows, result, ctx.wins, ctx.first)
      /\ Earned(rows, result, conceder, capped)
  BY ScoresAre
<1>g. /\ ScoresOf(rows', result', ctx'.wins, ctx'.first)
      /\ dealt' = dealt
      /\ Earned(rows', result', conceder', capped')
  <2>1. CASE ~EndGame
    <3>1. /\ rows' = rows /\ dealt' = dealt
          /\ ctx'.wins = ctx.wins /\ ctx'.first = ctx.first
          /\ result' # result => /\ result = "none"
                                 /\ ~capped'
                                 /\ \/ result' = "fatal"
                                    \/ conceder' \in Players /\ result' = Opponent(conceder')
          /\ result # "none" => conceder' = conceder /\ capped' = capped
      BY <2>1, NoLineNoScore
    <3>2. ScoresOf(rows', result', ctx'.wins, ctx'.first)
      BY <1>0, <3>1 DEF ScoresOf
    <3>3. Earned(rows', result', conceder', capped')
      <4>1. CASE result' = result /\ result # "none"
        BY <1>0, <3>1, <4>1
      <4>2. CASE result' = "none"
        BY <4>2 DEF Earned, Players
      <4>3. CASE result' # result
        BY <3>1, <4>3 DEF Earned, Players, Opponent, None
      <4> QED
        BY <4>1, <4>2, <4>3
    <3> QED
      BY <3>1, <3>2, <3>3
  <2>2. CASE EndGame
    <3> DEFINE n == Len(rows)
    <3>1. /\ rows' = Append(rows, Line) /\ rows \in Seq(Lines) /\ n \in Nat
          /\ dealt' = dealt /\ conceder' = conceder /\ capped' = capped
          /\ result' = IF dealt.format = "bo1" THEN SingleOutcome ELSE Outcome(Score)
      BY <2>2 DEF EndGame, TypeOK
    <3>2. /\ result = "none" /\ game # NoGame /\ ctx.stage = "PLAY_GAME"
          /\ tally.game = n + 1 /\ tally.first = ctx.first /\ tally.wins = ctx.wins
          /\ capped => game.winner = None
      BY <2>2 DEF EndGame, Flow, NoGame
    <3>3. /\ Line \in Lines /\ Line.game = n + 1 /\ Line.first = ctx.first /\ Line.wins = ctx.wins
          /\ Line.winner = game.winner /\ (Line.reason = "cap" => capped)
      <4>1. Line \in Lines
        BY DEF Line, Reason, Lines, Tallies, Games, TypeOK
      <4> QED
        BY <3>2, <4>1 DEF Line, Reason
    <3>4. /\ Len(rows') = n + 1 /\ rows'[n + 1] = Line /\ \A i \in 1..n : rows'[i] = rows[i]
      BY <3>1, <3>3
    <3>5. ASSUME NEW p \in Players
          PROVE  /\ \A i \in 0..n : WinsIn(rows', p, i) = WinsIn(rows, p, i)
                                    /\ WinsIn(rows, p, i) \in Nat
                 /\ WinsIn(rows', p, n + 1) =
                      WinsIn(rows, p, n) + IF game.winner = p THEN 1 ELSE 0
                 /\ ctx.wins[p] = WinsIn(rows, p, n) /\ WinsIn(rows, p, n) < 2
                 /\ Score[p] = WinsIn(rows', p, n + 1)
      <4>1. \A i \in 0..n : WinsIn(rows', p, i) = WinsIn(rows, p, i) /\ WinsIn(rows, p, i) \in Nat
        BY <3>1, <3>3, WinsAppend
      <4>2. n \in 0..n /\ (n # 0 => n \in 1..n)
        BY <3>1
      <4>3. WinsIn(rows', p, n + 1) = WinsIn(rows, p, n) + IF game.winner = p THEN 1 ELSE 0
        BY <3>1, <3>3, <4>2, WinsAppend
      <4>4. ctx.wins[p] = WinsIn(rows, p, n)
        BY <1>0, <3>2 DEF ScoresOf
      <4>5. WinsIn(rows, p, n) < 2
        <5>1. CASE n = 0
          BY <5>1, NoWinsYet
        <5>2. CASE n # 0
          BY <1>0, <3>2, <4>2, <5>2 DEF ScoresOf
        <5> QED
          BY <5>1, <5>2
      <4>6. Score[p] = ctx.wins[p] + IF game.winner = p THEN 1 ELSE 0
        BY DEF Score
      <4> QED
        BY <4>1, <4>3, <4>4, <4>5, <4>6
    <3>6. result' = "none" =>
            /\ ~capped /\ \A p \in Players : Score[p] # 2
            /\ ctx'.wins = Score /\ ctx'.first = GoesFirst
      <4>1. SingleOutcome # "none"
        BY DEF SingleOutcome, TypeOK, Games, Players, None
      <4>2. Outcome(Score) = "none" => ~capped /\ \A p \in Players : Score[p] # 2
        BY DEF Outcome, Players, Opponent
      <4>3. ctx \in Contexts
        BY DEF TypeOK
      <4>4. result' = "none" => ctx'.wins = Score /\ ctx'.first = GoesFirst
        BY <2>2, <4>3 DEF EndGame, Contexts
      <4> QED
        BY <3>1, <4>1, <4>2, <4>4
    <3>7. ASSUME NEW i \in 1..(n + 1)
          PROVE  /\ rows'[i].game = i
                 /\ \A p \in Players : rows'[i].wins[p] = WinsIn(rows', p, i - 1)
                 /\ rows'[i].first = IF i = 1 THEN "A" ELSE LoserOf(rows'[i - 1])
                 /\ i < n + 1 \/ result' = "none" =>
                     /\ \A p \in Players : WinsIn(rows', p, i) < 2
                     /\ rows'[i].reason # "cap"
      <4>1. CASE i \in 1..n
        <5>1. i \in 0..n /\ i - 1 \in 0..n /\ (i # 1 => i - 1 \in 1..n)
          BY <3>1, <4>1
        <5>2. /\ rows[i].game = i
              /\ \A p \in Players : rows[i].wins[p] = WinsIn(rows, p, i - 1)
              /\ rows[i].first = IF i = 1 THEN "A" ELSE LoserOf(rows[i - 1])
              /\ \A p \in Players : WinsIn(rows, p, i) < 2
              /\ rows[i].reason # "cap"
          BY <1>0, <3>2, <4>1 DEF ScoresOf
        <5> QED
          BY <3>4, <3>5, <4>1, <5>1, <5>2
      <4>2. CASE i = n + 1
        <5>1. i - 1 = n /\ n \in 0..n /\ (i # 1 => n \in 1..n) /\ (i = 1 => n = 0)
          BY <3>1, <4>2
        <5>2. rows'[i] = Line
          BY <3>4, <4>2
        <5>3. \A p \in Players : rows'[i].wins[p] = WinsIn(rows', p, i - 1)
          BY <3>3, <3>5, <5>1, <5>2
        <5>4. ctx.first = IF i = 1 THEN "A" ELSE LoserOf(rows'[i - 1])
          <6>1. ctx.first = IF rows = <<>> THEN "A" ELSE LoserOf(rows[n])
            BY <1>0, <3>2 DEF ScoresOf
          <6>2. rows = <<>> <=> n = 0
            BY <3>1
          <6> QED
            BY <3>4, <5>1, <6>1, <6>2
        <5>5. result' = "none" => \A p \in Players : WinsIn(rows', p, i) < 2
          BY <3>5, <3>6, <4>2
        <5>6. result' = "none" => rows'[i].reason # "cap"
          BY <3>3, <3>6, <5>2
        <5> QED
          BY <3>3, <4>2, <5>2, <5>3, <5>4, <5>5, <5>6
      <4> QED
        BY <3>1, <4>1, <4>2
    <3>8. result' = "none" =>
            /\ \A p \in Players : ctx'.wins[p] = WinsIn(rows', p, n + 1)
            /\ ctx'.first = LoserOf(rows'[n + 1])
      <4>1. GoesFirst = LoserOf(Line)
        BY <3>3 DEF GoesFirst, LoserOf
      <4> QED
        BY <3>4, <3>5, <3>6, <4>1
    <3>9. rows' # <<>>
      BY <3>1, <3>4
    <3>10. ScoresOf(rows', result', ctx'.wins, ctx'.first)
      BY <3>4, <3>7, <3>8, <3>9 DEF ScoresOf
    <3>11. Earned(rows', result', conceder', capped')
      <4>1. capped => result' = "unknown"
        BY <3>1, <3>2 DEF SingleOutcome, Outcome
      <4>2. ASSUME result' \in Players, dealt.format = "bo3"
            PROVE  IF conceder = None THEN WinsIn(rows', result', n + 1) = 2
                                      ELSE conceder # result'
        <5>1. ~capped /\ result' = Outcome(Score)
          BY <3>1, <4>1, <4>2 DEF Players
        <5>2. CASE conceder = None
          <6>1. Score[result'] = 2
            BY <4>2, <5>1, <5>2 DEF Outcome, Players
          <6> QED
            BY <3>5, <4>2, <5>2, <6>1
        <5>3. CASE conceder # None
          BY <5>1, <5>3 DEF Outcome, Opponent, TypeOK, Players
        <5> QED
          BY <5>2, <5>3
      <4> QED
        BY <3>1, <3>4, <4>1, <4>2 DEF Earned
    <3> QED
      BY <3>1, <3>10, <3>11
  <2> QED
    BY <2>1, <2>2
<1>1. DOMAIN rows' = 1..Len(rows')
  BY DEF TypeOK
<1> QED
  BY <1>1, <1>g DEF Scores, ScoresOf, Earned, ResultIsEarned, WinsOf, WinsIn

-----------------------------------------------------------------------------
(* The theorems.                                                            *)

LEMMA InitIInv == Init => IInv
<1> SUFFICES ASSUME Init PROVE IInv
  OBVIOUS
<1>1. TypeOK
  BY InitTypeOK
<1>2. /\ game = NoGame /\ NoGame.status = "none" /\ ~capped /\ ~Sideboarding /\ result = "none"
      /\ ctx.stage = "PLAY_GAME" /\ ctx.game_num = 0 /\ ctx.first = "A"
      /\ ctx.wins = [p \in Players |-> 0] /\ ctx.deck = dealt.deck /\ played = dealt.deck
      /\ rows = <<>> /\ Len(rows) = 0
  BY DEF Init, NoGame, Sideboarding
<1>3. Flow
  BY <1>2 DEF Flow
<1>4. Decks
  <2>1. ASSUME NEW p \in Players PROVE Total(dealt.deck[p].main) \in Nat
    <3>1. dealt.deck[p].main \in [Cards -> Nat]
      BY <1>1, DealtDecks DEF Lists
    <3> QED
      BY <3>1, DealsAssumption, TotalType
  <2> QED
    BY <1>2, <2>1 DEF Decks
<1>5. Locks
  BY <1>2 DEF Locks
<1>6. Accounts
  <2>1. ASSUME NEW p \in Players, NEW c \in Cards
        PROVE  /\ Reported(p, "in", Len(rows))[c] = 0 /\ Reported(p, "out", Len(rows))[c] = 0
               /\ tally.in[p][c] = 0 /\ tally.out[p][c] = 0
               /\ dealt.deck[p].main[c] \in Nat
    <3>1. ASSUME NEW f \in [1..0 -> Nat] PROVE Total(f) = 0
      <4>1. \A x \in 1..0 : f[x] = 0
        OBVIOUS
      <4> QED
        BY <4>1, TotalZero
    <3>2. /\ [i \in 1..0 |-> rows[i]["in"][p][c]] \in [1..0 -> Nat]
          /\ [i \in 1..0 |-> rows[i]["out"][p][c]] \in [1..0 -> Nat]
      OBVIOUS
    <3>3. /\ Reported(p, "in", Len(rows))[c] = Total([i \in 1..0 |-> rows[i]["in"][p][c]])
          /\ Reported(p, "out", Len(rows))[c] = Total([i \in 1..0 |-> rows[i]["out"][p][c]])
      BY <1>2 DEF Reported
    <3>4. tally.in[p][c] = 0 /\ tally.out[p][c] = 0
      BY DEF Init, FreshTally, NoMoves
    <3>5. dealt.deck[p] \in Lists
      BY <1>1, DealtDecks
    <3>6. dealt.deck[p].main[c] \in Nat
      BY <3>5 DEF Lists
    <3> QED
      BY <3>1, <3>2, <3>3, <3>4, <3>6
  <2> QED
    BY <1>2, <2>1 DEF Accounts
<1>7. Scores
  <2>1. ScoresOf(rows, result, ctx.wins, ctx.first)
    BY <1>2, NoWinsYet DEF ScoresOf
  <2>2. Earned(rows, result, conceder, capped)
    BY <1>2 DEF Earned, Players
  <2> QED
    BY <1>1, <2>1, <2>2, ScoresAre
<1> QED
  BY <1>1, <1>3, <1>4, <1>5, <1>6, <1>7 DEF IInv

LEMMA NextIInv == IInv /\ [Next]_vars => IInv'
<1> SUFFICES ASSUME IInv, [Next]_vars PROVE IInv'
  OBVIOUS
<1>1. CASE Next
  <2>1. TypeOK' /\ Flow'
    BY <1>1, NextTypeOK, NextFlow DEF IInv
  <2> QED
    BY <1>1, <2>1, NextDecks, NextLocks, NextAccounts, NextScores DEF IInv
<1>2. CASE UNCHANGED vars
  <2>1. /\ UNCHANGED <<dealt, ctx, sb, game, conceder>>
        /\ UNCHANGED <<capped, store, tally, rows, result, played>>
    BY <1>2 DEF vars
  <2>2. TypeOK' /\ Flow'
    BY <2>1 DEF IInv, TypeOK, Flow, Sideboarding
  <2>3. Decks'
    BY <2>1 DEF IInv, Decks, Sideboarding
  <2>6. Locks'
    BY <2>1 DEF IInv, Locks, Sideboarding, Deck, BroughtIn
  <2>4. Accounts'
    BY <2>1 DEF IInv, Accounts, Reported, Total, Tokens
  <2>5. Scores'
    BY <2>1 DEF IInv, Scores, ResultIsEarned, WinsOf
  <2> QED
    BY <2>2, <2>3, <2>4, <2>5, <2>6 DEF IInv
<1> QED
  BY <1>1, <1>2

(* The inductive invariant holds throughout a match. *)
THEOREM MatchInvariant == Spec => []IInv
<1> QED
  BY InitIInv, NextIInv, PTL DEF Spec

(* Every game is played with decks of the registered size made of exactly the registered cards, and
   no section ever runs short of a card (run_sideboard_phase, deck_move_one_copy). *)
THEOREM DecksStayLegal == Spec => []PlayedDecksAreLegal
<1>1. IInv => PlayedDecksAreLegal
  <2> SUFFICES ASSUME IInv PROVE PlayedDecksAreLegal
    OBVIOUS
  <2>1. ctx.deck \in [Players -> Lists]
    BY DEF IInv, TypeOK, Contexts
  <2>2. ASSUME game # NoGame, NEW p \in Players
        PROVE  /\ Total(ctx.deck[p].main) = Total(dealt.deck[p].main)
               /\ Copies(ctx.deck[p]) = Copies(dealt.deck[p])
    <3>1. result = "none" /\ ~Sideboarding
      BY <2>2 DEF IInv, Flow, Sideboarding
    <3>2. Total(dealt.deck[p].main) \in Nat
      <4>1. dealt.deck[p].main \in [Cards -> Nat]
        BY DealtDecks DEF IInv, Lists
      <4> QED
        BY <4>1, DealsAssumption, TotalType
    <3> QED
      BY <3>1, <3>2 DEF IInv, Decks
  <2> QED
    BY <2>1, <2>2 DEF PlayedDecksAreLegal
<1> QED
  BY <1>1, MatchInvariant, PTL

(* A deck differs from the one last played in as many cards as were swapped: the direction locks of
   a phase keep a swap from being taken back (SideboardPhaseState). *)
THEOREM SwapsStand == Spec => []NoSwapIsUndone
<1>1. IInv => NoSwapIsUndone
  BY DEF IInv, Locks, NoSwapIsUndone
<1> QED
  BY <1>1, MatchInvariant, PTL

(* The results file has a line a game, in order, each with the score before it and who went first,
   none after the game that decided the match, and the match's result is the one they make
   (play_bo3_match, write_results_line). *)
THEOREM LinesTellTheMatch == Spec => []RowsTellTheMatch
<1>1. IInv => RowsTellTheMatch
  BY DEF IInv, Scores, RowsTellTheMatch
<1> QED
  BY <1>1, MatchInvariant, PTL

(* The moves of the results lines, added up, turn the registered deck into the one last played
   (note_sideboard_move). *)
THEOREM LinesRebuildTheDecks == Spec => []RowsRebuildTheDecks
<1>1. IInv => RowsRebuildTheDecks
  <2> SUFFICES ASSUME IInv, game = NoGame, tally = FreshTally, NEW p \in Players, NEW c \in Cards
               PROVE  played[p].main[c] = dealt.deck[p].main[c] + Reported(p, "in", Len(rows))[c]
                                             - Reported(p, "out", Len(rows))[c]
    BY DEF RowsRebuildTheDecks
  <2>1. tally.in[p][c] = 0 /\ tally.out[p][c] = 0
    BY DEF FreshTally, NoMoves
  <2>2. Reported(p, "in", Len(rows))[c] \in Nat /\ Reported(p, "out", Len(rows))[c] \in Nat
    BY ReportedNat DEF IInv, TypeOK
  <2>3. dealt.deck[p] \in Lists /\ played[p] \in Lists
    BY DealtDecks DEF IInv, TypeOK
  <2>4. dealt.deck[p].main[c] \in Nat /\ played[p].main[c] \in Nat
    BY <2>3 DEF Lists
  <2>5. /\ ctx.deck[p].main[c] =
             dealt.deck[p].main[c] + Reported(p, "in", Len(rows))[c] + 0
                - Reported(p, "out", Len(rows))[c] - 0
        /\ ctx.deck[p].main[c] = played[p].main[c] + 0 - 0
    BY <2>1 DEF IInv, Accounts
  <2> DEFINE ri == Reported(p, "in", Len(rows))[c]
             ro == Reported(p, "out", Len(rows))[c]
             d == dealt.deck[p].main[c]
             l == played[p].main[c]
  <2>6. d + ri + 0 - ro - 0 = l + 0 - 0 /\ ri \in Nat /\ ro \in Nat /\ d \in Nat /\ l \in Nat
    BY <2>2, <2>4, <2>5
  <2> HIDE DEF ri, ro, d, l
  <2>7. l = d + ri - ro
    BY <2>6
  <2> QED
    BY <2>7 DEF ri, ro, d, l
<1> QED
  BY <1>1, MatchInvariant, PTL
=============================================================================
