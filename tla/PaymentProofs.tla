--------------------------- MODULE PaymentProofs ---------------------------
(***************************************************************************)
(* A proposal that comes to its end has paid what it announced, in full,    *)
(* for every set of cards, ways to cast, abilities and positions.           *)
(*                                                                          *)
(* PayInv is the invariant.  Beside CastInv (what has changed) it says      *)
(*                                                                          *)
(*   Planned   what each step of a casting or an activation has announced   *)
(*             and chosen by then (CastPlan, ActivationPlan);               *)
(*   Balanced  that what was made for mana is a set of means, at most one   *)
(*             for each permanent, whose yields and losses account for the  *)
(*             pool and the life (Ledgers).                                 *)
(*                                                                          *)
(* A sum over a set of means is the number of its tokens, pairs of a member *)
(* and a number up to its weight: sums are then counted with what is known  *)
(* of finite sets, whatever the order the fold took them in.                *)
(***************************************************************************)
EXTENDS CastFlowProofs

(***************************************************************************)
(* Sums over finite sets: w[x] of each member, counted as tokens.          *)
(***************************************************************************)
TokensOf(w, x) == {<<x, i>> : i \in 1..w[x]}
Tokens(w, S) == UNION {TokensOf(w, x) : x \in S}
Picked(S) == CHOOSE x \in S : TRUE
Sums(it, w, S) ==
  it = [T \in SUBSET S |-> IF T = {} THEN 0 ELSE w[Picked(T)] + it[T \ {Picked(T)}]]

(* A member has as many tokens as its weight. *)
LEMMA TokensOfOne ==
  ASSUME NEW w, NEW x, w[x] \in Nat
  PROVE  IsFiniteSet(TokensOf(w, x)) /\ Cardinality(TokensOf(w, x)) = w[x]
<1> DEFINE n == w[x]
           S == {<<x, i>> : i \in 1..n}
           f == [i \in 1..n |-> <<x, i>>]
<1>0. n \in Nat
  OBVIOUS
<1>1. f \in [1..n -> S] /\ \A i \in 1..n : f[i] = <<x, i>>
  OBVIOUS
<1>2. \A i, j \in 1..n : f[i] = f[j] => i = j
  BY <1>1
<1>3. \A t \in S : \E i \in 1..n : f[i] = t
  BY <1>1
<1> HIDE DEF f, S, n
<1>4. f \in Bijection(1..n, S)
  BY <1>1, <1>2, <1>3 DEF Bijection, Injection, Surjection, IsInjective
<1>5. IsFiniteSet(1..n) /\ Cardinality(1..n) = n
  BY <1>0, FS_Interval
<1>6. IsFiniteSet(S) /\ Cardinality(S) = n
  BY <1>4, <1>5, FS_Bijection DEF ExistsBijection
<1> QED
  BY <1>6 DEF S, n, TokensOf

(* The tokens of a finite set are finitely many, and removing a member removes its own. *)
LEMMA TokensCount ==
  ASSUME NEW S, IsFiniteSet(S), NEW w, \A x \in S : w[x] \in Nat
  PROVE  /\ IsFiniteSet(Tokens(w, S)) /\ Cardinality(Tokens(w, S)) \in Nat
         /\ \A x \in S : Cardinality(Tokens(w, S)) = w[x] + Cardinality(Tokens(w, S \ {x}))
<1>1. ASSUME NEW T \in SUBSET S
      PROVE  IsFiniteSet(Tokens(w, T)) /\ Cardinality(Tokens(w, T)) \in Nat
  <2> DEFINE A == {TokensOf(w, x) : x \in T}
             f == [x \in T |-> TokensOf(w, x)]
  <2>1. IsFiniteSet(T)
    BY FS_Subset
  <2>2. f \in Surjection(T, A)
    BY DEF Surjection
  <2>4. ASSUME NEW B \in A PROVE IsFiniteSet(B)
    <3>1. PICK x \in T : B = TokensOf(w, x)
      OBVIOUS
    <3> QED
      BY <3>1, TokensOfOne
  <2> HIDE DEF A, f
  <2>3. IsFiniteSet(A)
    BY <2>1, <2>2, FS_Surjection
  <2>5. IsFiniteSet(UNION A)
    BY <2>3, <2>4, FS_UNION
  <2> QED
    BY <2>5, FS_CardinalityType DEF A, Tokens
<1>2. ASSUME NEW x \in S
      PROVE  Cardinality(Tokens(w, S)) = w[x] + Cardinality(Tokens(w, S \ {x}))
  <2> DEFINE A == TokensOf(w, x)
             B == Tokens(w, S \ {x})
  <2>1. Tokens(w, S) = A \union B
    BY DEF Tokens
  <2>2. A \intersect B = {}
    <3>1. \A t \in A : t[1] = x
      BY DEF TokensOf
    <3>2. \A t \in B : t[1] # x
      BY DEF Tokens, TokensOf
    <3> QED
      BY <3>1, <3>2
  <2>3. IsFiniteSet(A) /\ Cardinality(A) = w[x]
    BY TokensOfOne
  <2>4. IsFiniteSet(B) /\ Cardinality(B) \in Nat
    BY <1>1
  <2> HIDE DEF A, B
  <2>5. Cardinality(A \union B) = Cardinality(A) + Cardinality(B) - Cardinality({})
    BY <2>2, <2>3, <2>4, FS_Union
  <2>6. Cardinality({}) = 0
    BY FS_EmptySet
  <2>7. w[x] \in Nat
    OBVIOUS
  <2> QED
    BY <2>1, <2>3, <2>4, <2>5, <2>6, <2>7 DEF B
<1>3. S \in SUBSET S
  OBVIOUS
<1> QED
  BY <1>1, <1>2, <1>3

(* The sum of the weights is the number of tokens. *)
LEMMA SumIsCount ==
  ASSUME NEW S, IsFiniteSet(S), NEW w, \A x \in S : w[x] \in Nat
  PROVE  (CHOOSE it : Sums(it, w, S))[S] = Cardinality(Tokens(w, S))
<1> DEFINE C(T) == Cardinality(Tokens(w, T))
           count == [T \in SUBSET S |-> C(T)]
<1>1. ASSUME NEW T \in SUBSET S, T # {}
      PROVE  Picked(T) \in T /\ C(T) = w[Picked(T)] + C(T \ {Picked(T)})
  <2>1. Picked(T) \in T
    BY <1>1 DEF Picked
  <2>2. IsFiniteSet(T) /\ \A x \in T : w[x] \in Nat
    BY FS_Subset
  <2> QED
    BY <2>1, <2>2, TokensCount
<1>2. C({}) = 0
  <2>1. Tokens(w, {}) = {}
    BY DEF Tokens
  <2> QED
    BY <2>1, FS_EmptySet
<1> HIDE DEF C
<1>3. Sums(count, w, S)
  <2>1. ASSUME NEW T \in SUBSET S
        PROVE  C(T) = IF T = {} THEN 0 ELSE w[Picked(T)] + count[T \ {Picked(T)}]
    <3>1. T \ {Picked(T)} \in SUBSET S
      OBVIOUS
    <3> QED
      BY <1>1, <1>2, <3>1
  <2> QED
    BY <2>1 DEF Sums
<1> DEFINE it == CHOOSE it : Sums(it, w, S)
<1>4. Sums(it, w, S)
  BY <1>3
<1> HIDE DEF it
<1> DEFINE N == {n \in Nat : \A T \in SUBSET S : Cardinality(T) = n => it[T] = C(T)}
<1>5. ASSUME NEW T \in SUBSET S
      PROVE  IsFiniteSet(T) /\ Cardinality(T) \in Nat /\ (Cardinality(T) = 0 <=> T = {})
  <2>1. IsFiniteSet(T)
    BY FS_Subset
  <2> QED
    BY <2>1, FS_CardinalityType, FS_EmptySet
<1>6. 0 \in N
  BY <1>2, <1>4, <1>5 DEF Sums
<1>7. ASSUME NEW n \in Nat, n \in N
      PROVE  n + 1 \in N
  <2>1. ASSUME NEW T \in SUBSET S, Cardinality(T) = n + 1
        PROVE  it[T] = C(T)
    <3>1. IsFiniteSet(T) /\ T # {}
      BY <1>5, <2>1
    <3> DEFINE x == Picked(T)
               R == T \ {x}
    <3>2. x \in T /\ C(T) = w[x] + C(R)
      BY <1>1, <3>1
    <3>3. it[T] = w[x] + it[R]
      BY <1>4, <3>1 DEF Sums
    <3>4. R \in SUBSET S /\ Cardinality(R) = n
      <4>1. Cardinality(R) = Cardinality(T) - 1
        BY <3>1, <3>2, FS_RemoveElement
      <4> QED
        BY <2>1, <4>1
    <3> HIDE DEF x, R
    <3>5. it[R] = C(R)
      BY <1>7, <3>4
    <3> QED
      BY <3>2, <3>3, <3>5
  <2> QED
    BY <2>1
<1> HIDE DEF N
<1>8. \A n \in Nat : n \in N
  BY <1>6, <1>7, Induction
<1>9. S \in SUBSET S /\ Cardinality(S) \in Nat
  BY <1>5
<1>10. it[S] = C(S)
  BY <1>8, <1>9 DEF N
<1> QED
  BY <1>10 DEF it, C

(* What every source yields and what it takes. *)
Yields == [m \in Tappers |-> m.yield]
Losses == [m \in Tappers |-> Loss(m)]
(* What a source makes and what it costs are numbers. *)
LEMMA WeightsTyped == \A m \in Tappers : /\ Yields[m] = m.yield /\ Yields[m] \in Nat
                                         /\ Losses[m] = Loss(m) /\ Losses[m] \in Nat
BY DEF Yields, Losses, Tappers, Loss

(* The two sums of the payment are such sums. *)
LEMMA YieldUnfolds ==
  ASSUME NEW S \in SUBSET Tappers
  PROVE  YieldOf(S) = (CHOOSE it : Sums(it, Yields, S))[S]
<1> DEFINE Y(it) == it = [T \in SUBSET S |-> IF T = {} THEN 0
                          ELSE Picked(T).yield + it[T \ {Picked(T)}]]
<1>1. YieldOf(S) = (CHOOSE it : Y(it))[S]
  BY DEF YieldOf, MapThenSumSet, MapThenFoldSet, Picked
<1>2. ASSUME NEW it
      PROVE  Y(it) <=> Sums(it, Yields, S)
  <2>1. \A T \in SUBSET S : T # {} => Yields[Picked(T)] = Picked(T).yield
    BY WeightsTyped DEF Picked
  <2>2. [T \in SUBSET S |-> IF T = {} THEN 0 ELSE Picked(T).yield + it[T \ {Picked(T)}]]
              = [T \in SUBSET S |-> IF T = {} THEN 0 ELSE Yields[Picked(T)] + it[T \ {Picked(T)}]]
    BY <2>1
  <2> QED
    BY <2>2 DEF Sums
<1> HIDE DEF Y
<1> QED
  BY <1>1, <1>2

(* And the life the sources cost. *)
LEMMA LossUnfolds ==
  ASSUME NEW S \in SUBSET Tappers
  PROVE  LossOf(S) = (CHOOSE it : Sums(it, Losses, S))[S]
<1> DEFINE Y(it) == it = [T \in SUBSET S |-> IF T = {} THEN 0
                          ELSE Loss(Picked(T)) + it[T \ {Picked(T)}]]
<1>1. LossOf(S) = (CHOOSE it : Y(it))[S]
  BY DEF LossOf, MapThenSumSet, MapThenFoldSet, Picked
<1>2. ASSUME NEW it
      PROVE  Y(it) <=> Sums(it, Losses, S)
  <2>1. \A T \in SUBSET S : T # {} => Losses[Picked(T)] = Loss(Picked(T))
    BY WeightsTyped DEF Picked
  <2>2. [T \in SUBSET S |-> IF T = {} THEN 0 ELSE Loss(Picked(T)) + it[T \ {Picked(T)}]]
              = [T \in SUBSET S |-> IF T = {} THEN 0 ELSE Losses[Picked(T)] + it[T \ {Picked(T)}]]
    BY <2>1
  <2> QED
    BY <2>2 DEF Sums
<1> HIDE DEF Y
<1> QED
  BY <1>1, <1>2

(* One source more yields and takes its own more. *)
LEMMA SumsGrow ==
  ASSUME NEW S \in SUBSET Tappers, IsFiniteSet(S)
  PROVE  /\ YieldOf(S) \in Nat /\ LossOf(S) \in Nat
         /\ \A m \in Tappers \ S : /\ YieldOf(S \union {m}) = YieldOf(S) + m.yield
                                   /\ LossOf(S \union {m}) = LossOf(S) + Loss(m)
<1>1. ASSUME NEW T \in SUBSET Tappers, IsFiniteSet(T)
      PROVE  /\ YieldOf(T) = Cardinality(Tokens(Yields, T)) /\ LossOf(T) = Cardinality(Tokens(Losses, T))
             /\ \A x \in T : Yields[x] \in Nat /\ Losses[x] \in Nat
  <2>1. \A x \in T : Yields[x] \in Nat /\ Losses[x] \in Nat
    BY WeightsTyped
  <2> QED
    BY <1>1, <2>1, YieldUnfolds, LossUnfolds, SumIsCount
<1>2. YieldOf(S) \in Nat /\ LossOf(S) \in Nat
  BY <1>1, TokensCount
<1>3. ASSUME NEW m \in Tappers \ S
      PROVE  /\ YieldOf(S \union {m}) = YieldOf(S) + m.yield
             /\ LossOf(S \union {m}) = LossOf(S) + Loss(m)
  <2> DEFINE T == S \union {m}
  <2>1. T \in SUBSET Tappers /\ IsFiniteSet(T) /\ m \in T /\ T \ {m} = S
    BY FS_AddElement
  <2> HIDE DEF T
  <2>2. /\ Cardinality(Tokens(Yields, T)) = Yields[m] + Cardinality(Tokens(Yields, S))
        /\ Cardinality(Tokens(Losses, T)) = Losses[m] + Cardinality(Tokens(Losses, S))
    BY <1>1, <2>1, TokensCount
  <2>3. YieldOf(T) = Yields[m] + YieldOf(S) /\ LossOf(T) = Losses[m] + LossOf(S)
    BY <1>1, <2>1, <2>2
  <2>4. Yields[m] = m.yield /\ Losses[m] = Loss(m) /\ m.yield \in Nat /\ Loss(m) \in Nat
    BY WeightsTyped
  <2> QED
    BY <1>2, <2>3, <2>4 DEF T
<1> QED
  BY <1>2, <1>3

(* No source makes nothing and costs nothing. *)
LEMMA NoSource == YieldOf({}) = 0 /\ LossOf({}) = 0
<1>1. IsFiniteSet({}) /\ Tokens(Yields, {}) = {} /\ Tokens(Losses, {}) = {} /\ Cardinality({}) = 0
  BY FS_EmptySet DEF Tokens
<1>2. YieldOf({}) = Cardinality(Tokens(Yields, {})) /\ LossOf({}) = Cardinality(Tokens(Losses, {}))
  BY <1>1, YieldUnfolds, LossUnfolds, SumIsCount
<1> QED
  BY <1>1, <1>2

(***************************************************************************)
(* What a proposal owes and has chosen, up to its payment.                 *)
(***************************************************************************)
(* The place of a step in its proposal. *)
Rank ==
  [s \in AllSteps |->
    CASE s \in {"COST", "X_LADDER"} -> 0 [] s \in {"KICKER", "TARGET", "ZONE_TARGET"} -> 1
      [] s = "REPLICATE" -> 2 [] s = "CHOOSE_X" -> 3 [] s = "PHYREXIAN_PIP" -> 4 [] s = "LIFE_X" -> 5
      [] s = "GIFT" -> 6 [] s = "MODES_TARGETS" -> 7 [] s = "ALT_PITCH" -> 8
      [] s = "ALT_RETURN" -> 9 [] s = "ALT_SAC" -> 10 [] s = "SPELL_SAC" -> 11
      [] s = "DELVE_COUNT" -> 12 [] s = "DELVE_PICK" -> 13 [] s = "DEF_SAC" -> 14
      [] s = "DEF_EXILE_TYPES" -> 15 [] s = "DEF_EXILE_COUNT" -> 16 [] s = "MANA_PAY" -> 17
      [] s = "COST_SAC" -> 8 [] s = "COST_RETURN" -> 9 [] s = "PAY" -> 17
      [] s = "PAYING" -> 18 [] s = "PAY_APPLY" -> 19 [] OTHER -> 20]

Chose(f, s) == {i \in DOMAIN f.chosen : f.chosen[i].at = s}
Number(f, s) == Cardinality(Chose(f, s))
ItemsAt(f, s) == {f.chosen[i].item : i \in Chose(f, s)}
On(b, S) == {o \in S : OnField(b, o)}
Buried(b, w) == Yard(b) \ {w.card}
TypesIn(S) == UNION {TypesOf[o] : o \in S}

(* The mana a cast owes, of what it announced so far: without the pips paid with life. *)
Announced(f) ==
  f.kicked + f.replicated * f.way.replicate + f.x * f.way.x + f.pip - Number(f, "DELVE_PICK")
Tallied(f) ==
  LET w == f.way
  IN  /\ f.pip \in Nat
      /\ \E k \in 0..f.pip :
            /\ f.life_paid = 2 * k
            /\ f.cost = (IF Rank[f.step] = 0 THEN 0 ELSE w.generic) + Announced(f) - k
      /\ Rank[f.step] <= 3 => f.x = 0
      /\ Rank[f.step] = 0 => f.kicked = 0 /\ f.replicated = 0 /\ f.pip = 0
      /\ Rank[f.step] \in 1..5 => w.kind \in {"regular", "permitted"}
      /\ Rank[f.step] > 4 => f.pip = OwnPips(w)

(* What is chosen at a step of a cast: where it was and where it will go. *)
Fits(w, c, z) ==
  \/ c.at = "ALT_PITCH" /\ c.item \in w.pitch.of /\ z = "hand" /\ c.dest = "exile"
  \/ c.at = "ALT_RETURN" /\ c.item \in w.return.of /\ z = "field" /\ c.dest = "hand"
  \/ c.at = "ALT_SAC" /\ c.item \in w.alt_sac.of /\ z = "field" /\ c.dest = "yard"
  \/ c.at = "SPELL_SAC" /\ c.item \in w.sac /\ z = "field" /\ c.dest = "yard"
  \/ c.at = "DELVE_PICK" /\ w.delve /\ z = "yard" /\ c.dest = "exile"
  \/ c.at = "DEF_SAC" /\ c.item \in w.flash_sac /\ z = "field" /\ c.dest = "yard"
  \/ c.at = "DEF_EXILE_TYPES" /\ w.types > 0 /\ z = "yard" /\ c.dest = "exile"
  \/ c.at = "DEF_EXILE_COUNT" /\ z = "yard" /\ c.dest = "exile"
Matches(a, c, z) ==
  \/ c.at = "COST_SAC" /\ c.item \in a.sac /\ z = "field" /\ c.dest = "yard"
  \/ c.at = "COST_RETURN" /\ c.item \in a.return /\ z = "field" /\ c.dest = "hand"

(* No item twice, and none at a step still to come. *)
InOrder(f) ==
  /\ \A i, j \in DOMAIN f.chosen : f.chosen[i].item = f.chosen[j].item => i = j
  /\ \A i \in DOMAIN f.chosen : Rank[f.chosen[i].at] <= Rank[f.step]

(* How many at each step. *)
Limited(f) ==
  LET w == f.way
  IN  /\ Number(f, "ALT_PITCH") <= w.pitch.n /\ Number(f, "ALT_RETURN") <= w.return.n
      /\ Number(f, "ALT_SAC") <= w.alt_sac.n /\ Number(f, "SPELL_SAC") <= 1
      /\ Number(f, "DELVE_PICK") <= f.delving /\ Number(f, "DEF_SAC") <= 1
      /\ Number(f, "DEF_EXILE_COUNT") <= w.exile
Complete(f) ==
  LET w == f.way
  IN  /\ Rank[f.step] > 8 => Number(f, "ALT_PITCH") = w.pitch.n
      /\ Rank[f.step] > 9 => Number(f, "ALT_RETURN") = w.return.n
      /\ Rank[f.step] > 10 => Number(f, "ALT_SAC") = w.alt_sac.n
      /\ Rank[f.step] > 11 /\ w.kind = "regular" /\ w.sac # {} => Number(f, "SPELL_SAC") = 1
      /\ Rank[f.step] > 13 => Number(f, "DELVE_PICK") = f.delving
      /\ Rank[f.step] > 14 /\ w.flash_sac # {} => Number(f, "DEF_SAC") = 1
      /\ Rank[f.step] > 15 =>
            Cardinality(TypesIn(ItemsAt(f, "DEF_EXILE_TYPES"))) >= w.types
      /\ Rank[f.step] > 16 => Number(f, "DEF_EXILE_COUNT") = w.exile

(* What a cast was offered on: the items for its costs were there. *)
Gated(w, b) ==
  /\ w.kind = "regular" /\ w.sac # {} => On(b, w.sac) # {}
  /\ w.kind = "alt" => Cardinality(On(b, w.alt_sac.of)) >= w.alt_sac.n
  /\ w.kind = "flashback" /\ w.flash_sac # {} => On(b, w.flash_sac) # {}
  /\ w.kind = "escape" => /\ Cardinality(TypesIn(Buried(b, w))) >= w.types
                          /\ Cardinality(Buried(b, w)) >= w.exile

Delvable(f, b) ==
  /\ f.delving \in 0..Cardinality(Buried(b, f.way))
  /\ Rank[f.step] <= 12 => f.delving = 0
  /\ Rank[f.step] = 13 => f.way.delve

CastPlan(f, b) ==
  /\ Tallied(f) /\ InOrder(f) /\ Limited(f) /\ Complete(f) /\ Delvable(f, b) /\ Gated(f.way, b)
  /\ \A i \in DOMAIN f.chosen : Fits(f.way, f.chosen[i], b.zone[f.chosen[i].item])

ActivationPlan(f, b) ==
  LET a == f.way
  IN  /\ InOrder(f)
      /\ \A i \in DOMAIN f.chosen : Matches(a, f.chosen[i], b.zone[f.chosen[i].item])
      /\ a.sac # {} => On(b, a.sac) # {}
      /\ a.return # {} => On(b, a.return) # {}
      /\ Number(f, "COST_SAC") = IF Rank[f.step] > 8 THEN One(a.sac # {}) ELSE 0
      /\ Number(f, "COST_RETURN") = IF Rank[f.step] > 9 THEN One(a.return # {}) ELSE 0
      /\ Rank[f.step] > 17 => f.cost = a.mana + f.x * a.x

Planned ==
  Reversible => IF Casting THEN CastPlan(flow, before) ELSE ActivationPlan(flow, before)

(***************************************************************************)
(* What was tapped for mana, and what it made and took.                    *)
(***************************************************************************)
Ledger(g, h, U) ==
  /\ {m.on : m \in U} = h.tapped \ g.tapped /\ g.tapped \subseteq h.tapped
  /\ \A m, n \in U : m.on = n.on => m = n
  /\ \A m \in U : OnField(g, m.on)
  /\ h.pool = g.pool + YieldOf(U) /\ h.life = g.life - LossOf(U)
  /\ \A o \in Objects : h.zone[o] = IF o \in SacrificedFor(U) THEN "yard" ELSE g.zone[o]
Ledgers(g) == {h \in Alike(g) : \E U \in SUBSET Means : Ledger(g, h, U)}

(* The game the payment begins with, and its balance before the cost is taken out of the pool. *)
Opening == IF Activating THEN Tapped(Start) ELSE Start
Balance == IF flow.step = "PAY_APPLY" THEN [game EXCEPT !.pool = @ + flow.cost] ELSE game
Balanced == flow # Idle /\ flow.step \in PaySteps => Balance \in Ledgers(Opening)

PayInv == CastInv /\ Planned /\ Balanced /\ PaidInFull

(* What is tapped for mana is a source. *)
LEMMA MeansFinite == Means \subseteq Tappers /\ IsFiniteSet(Means)
<1> DEFINE I == {Improvised(a) : a \in Artifacts}
           f == [a \in Artifacts |-> Improvised(a)]
<1>1. ManaAbilities \subseteq Tappers
  BY ManaAbilitiesAssumption DEF Tappers
<1>2. I \subseteq Tappers
  <2> SUFFICES ASSUME NEW a \in Artifacts
               PROVE  Improvised(a) \in Tappers
    OBVIOUS
  <2> QED
    BY ArtifactsAssumption DEF Improvised, Tappers
<1>3. f \in Surjection(Artifacts, I)
  BY DEF Surjection
<1>4. IsFiniteSet(Artifacts)
  BY ArtifactsAssumption, ObjectsAssumption, FS_Subset
<1> HIDE DEF f, I
<1>5. IsFiniteSet(I)
  BY <1>3, <1>4, FS_Surjection
<1>6. IsFiniteSet(ManaAbilities \union I)
  BY <1>5, ManaAbilitiesFinite, FS_Union
<1> QED
  BY <1>1, <1>2, <1>6, ManaAbilitiesFinite DEF Means, I

(* Nothing is owed to a game for what nobody tapped. *)
LEMMA LedgerBegins ==
  ASSUME NEW g, g \in Alike(g)
  PROVE  g \in Ledgers(g)
<1>1. Ledger(g, g, {})
  <2>1. YieldOf({}) = 0 /\ LossOf({}) = 0 /\ SacrificedFor({}) = {}
    BY NoSource DEF SacrificedFor
  <2>2. g.pool \in Int /\ g.life \in Int
    BY DEF Alike
  <2> QED
    BY <2>1, <2>2 DEF Ledger
<1> QED
  BY <1>1 DEF Ledgers

(* Tapping one more untapped source enters it. *)
LEMMA LedgerGrows ==
  ASSUME NEW g, g \in Alike(g), NEW h \in Ledgers(g), NEW m \in Means,
         m.on \notin h.tapped, OnField(h, m.on)
  PROVE  Activated(h, m) \in Ledgers(g)
<1> DEFINE k == Activated(h, m)
<1>1. PICK U \in SUBSET Means : Ledger(g, h, U)
  BY DEF Ledgers
<1> DEFINE W == U \union {m}
<1>2. h \in Alike(g) /\ m \in Tappers /\ m.on \in Objects
  BY MeansFinite DEF Ledgers, Tappers
<1>3. /\ k \in Alike(g) /\ k.pool = h.pool + m.yield /\ k.life = h.life - Loss(m)
      /\ k.tapped = h.tapped \union {m.on}
      /\ \A o \in Objects : k.zone[o] = IF o = m.on /\ m.sac THEN "yard" ELSE h.zone[o]
  BY <1>2, TapFacts
<1>4. /\ {x.on : x \in U} = h.tapped \ g.tapped /\ g.tapped \subseteq h.tapped
      /\ \A x, n \in U : x.on = n.on => x = n
      /\ \A x \in U : OnField(g, x.on)
      /\ h.pool = g.pool + YieldOf(U) /\ h.life = g.life - LossOf(U)
      /\ \A o \in Objects : h.zone[o] = IF o \in SacrificedFor(U) THEN "yard" ELSE g.zone[o]
  BY <1>1 DEF Ledger
<1>5. \A x \in U : x.on # m.on
  BY <1>4
<1>6. U \in SUBSET Tappers /\ IsFiniteSet(U) /\ m \in Tappers \ U
  BY <1>2, <1>5, MeansFinite, FS_Subset
<1>7. /\ YieldOf(U) \in Nat /\ LossOf(U) \in Nat
      /\ YieldOf(W) = YieldOf(U) + m.yield /\ LossOf(W) = LossOf(U) + Loss(m)
  BY <1>6, SumsGrow
<1>8. SacrificedFor(W) = SacrificedFor(U) \union (IF m.sac THEN {m.on} ELSE {})
  BY DEF SacrificedFor
<1>9. OnField(g, m.on)
  BY <1>2, <1>4 DEF OnField
<1> HIDE DEF k
<1>10. Ledger(g, k, W)
  <2>1. {x.on : x \in W} = k.tapped \ g.tapped /\ g.tapped \subseteq k.tapped
    BY <1>3, <1>4
  <2>2. \A x, n \in W : x.on = n.on => x = n
    BY <1>4, <1>5
  <2>3. \A x \in W : OnField(g, x.on)
    BY <1>4, <1>9
  <2>4. k.pool = g.pool + YieldOf(W) /\ k.life = g.life - LossOf(W)
    <3>1. /\ g.pool \in Int /\ g.life \in Int /\ h.pool \in Int /\ h.life \in Int
          /\ m.yield \in Nat /\ Loss(m) \in Nat
      BY <1>2, WeightsTyped DEF Alike, Tappers
    <3> QED
      BY <1>3, <1>4, <1>7, <3>1
  <2>5. \A o \in Objects : k.zone[o] = IF o \in SacrificedFor(W) THEN "yard" ELSE g.zone[o]
    BY <1>2, <1>3, <1>4, <1>8
  <2> HIDE DEF W
  <2> QED
    BY <2>1, <2>2, <2>3, <2>4, <2>5 DEF Ledger
<1>11. W \in SUBSET Means
  BY <1>1
<1>12. k \in Ledgers(g)
  BY <1>3, <1>10, <1>11 DEF Ledgers
<1> QED
  BY <1>12 DEF k

(* Tapping a permanent that is about to leave for a cost is entered, too. *)
LEMMA FloatedIsEntered ==
  ASSUME NEW g, g \in Alike(g), NEW h \in Ledgers(g), NEW owed, NEW leaving, NEW reserve
  PROVE  Floated(h, owed, leaving, reserve) \in Ledgers(g)
<1> DEFINE A == {m \in Sources(h, "none", reserve) : m.on = leaving /\ ~m.sac}
           chosen == CHOOSE m \in A : Loss(m) > 0 => \A n \in A : Loss(n) > 0
<1>1. CASE Floated(h, owed, leaving, reserve) = h
  BY <1>1
<1>2. CASE A # {} /\ Floated(h, owed, leaving, reserve) = Activated(h, chosen)
  <2>1. \E m \in A : Loss(m) > 0 => \A n \in A : Loss(n) > 0
    BY <1>2
  <2>2. chosen \in A
    BY <2>1
  <2>3. chosen \in Means /\ chosen.on \notin h.tapped /\ OnField(h, chosen.on)
    BY <2>2 DEF Sources, Means
  <2> QED
    BY <1>2, <2>3, LedgerGrows
<1> QED
  BY <1>1, <1>2 DEF Floated

(* And so is what the automatic payer taps. *)
LEMMA AttemptIsEntered ==
  ASSUME NEW g, g \in Alike(g), NEW h \in Ledgers(g), NEW owed, NEW A \in SUBSET Means,
         \A m \in A : OnField(h, m.on), NEW reserve
  PROVE  Attempt(h, owed, A, reserve, TRUE) \in Ledgers(g)
<1> DEFINE V == {k \in Ledgers(g) : \A m \in A : m.on \notin k.tapped => OnField(k, m.on)}
<1>1. h \in V /\ h.order \in Seq(AllMeans)
  BY DEF Ledgers, Alike
<1>2. ASSUME NEW k \in V, NEW m \in A, m.on \notin k.tapped
      PROVE  Activated(k, m) \in V
  <2>1. k \in Ledgers(g) /\ OnField(k, m.on) /\ m \in Means
    BY <1>2
  <2>2. Activated(k, m) \in Ledgers(g)
    BY <1>2, <2>1, LedgerGrows
  <2>3. k \in Alike(g) /\ m \in Tappers /\ \A n \in A : n.on \in Objects
    BY <2>1, MeansFinite DEF Ledgers, Tappers
  <2>4. ASSUME NEW n \in A, n.on \notin Activated(k, m).tapped
        PROVE  OnField(Activated(k, m), n.on)
    <3>1. n.on # m.on /\ n.on \notin k.tapped
      BY <2>3, <2>4, TapFacts
    <3>2. Activated(k, m).zone[n.on] = k.zone[n.on]
      BY <2>3, <3>1, TapFacts
    <3> QED
      BY <3>1, <3>2 DEF OnField
  <2> QED
    BY <2>2, <2>4
<1> HIDE DEF V
<1>3. Attempt(h, owed, A, reserve, TRUE) \in V
  BY <1>1, <1>2, AttemptStays
<1> QED
  BY <1>3 DEF V

(* What the payer finds is untapped, on the battlefield and of the kinds it may tap. *)
LEMMA UsableAreMeans ==
  \A m \in Usable : m \in Means /\ m.on \notin game.tapped /\ OnField(game, m.on)
BY DEF Usable, Payable, Sources, Tappable, Means, Improvised

(***************************************************************************)
(* The choices of a cast, up to its payment.                               *)
(***************************************************************************)
(* The order of the steps of a cast, and of an activation. *)
LEMMA Ranks ==
  /\ Rank["COST"] = 0 /\ Rank["KICKER"] = 1 /\ Rank["REPLICATE"] = 2 /\ Rank["CHOOSE_X"] = 3
  /\ Rank["PHYREXIAN_PIP"] = 4 /\ Rank["LIFE_X"] = 5 /\ Rank["GIFT"] = 6
  /\ Rank["MODES_TARGETS"] = 7 /\ Rank["ALT_PITCH"] = 8 /\ Rank["ALT_RETURN"] = 9
  /\ Rank["ALT_SAC"] = 10 /\ Rank["SPELL_SAC"] = 11 /\ Rank["DELVE_COUNT"] = 12
  /\ Rank["DELVE_PICK"] = 13 /\ Rank["DEF_SAC"] = 14 /\ Rank["DEF_EXILE_TYPES"] = 15
  /\ Rank["DEF_EXILE_COUNT"] = 16 /\ Rank["MANA_PAY"] = 17
  /\ Rank["X_LADDER"] = 0 /\ Rank["TARGET"] = 1 /\ Rank["ZONE_TARGET"] = 1
  /\ Rank["COST_SAC"] = 8 /\ Rank["COST_RETURN"] = 9 /\ Rank["PAY"] = 17
  /\ Rank["PAYING"] = 18 /\ Rank["PAY_APPLY"] = 19
BY DEF Rank, AllSteps, CastSteps, ActivationSteps, PaySteps

(* Every step has a place. *)
LEMMA RankTyped == \A s \in AllSteps : Rank[s] \in Nat
BY DEF Rank

(* How many were chosen at a step is a number. *)
LEMMA NumberTyped ==
  ASSUME NEW f, f.chosen \in Seq(ChosenItems), NEW s
  PROVE  IsFiniteSet(Chose(f, s)) /\ Number(f, s) \in Nat
<1>1. IsFiniteSet(DOMAIN f.chosen)
  <2>1. Len(f.chosen) \in Nat /\ DOMAIN f.chosen = 1..Len(f.chosen)
    OBVIOUS
  <2> QED
    BY <2>1, FS_Interval
<1>2. Chose(f, s) \subseteq DOMAIN f.chosen
  BY DEF Chose
<1> QED
  BY <1>1, <1>2, FS_Subset, FS_CardinalityType DEF Number

(* One more item: one more at its step. *)
Longer(f, g, c, n) ==
  /\ DOMAIN g.chosen = DOMAIN f.chosen \union {n} /\ n \notin DOMAIN f.chosen
  /\ g.chosen[n] = c /\ \A i \in DOMAIN f.chosen : g.chosen[i] = f.chosen[i]
  /\ \A s : Chose(g, s) = Chose(f, s) \union (IF s = c.at THEN {n} ELSE {})
  /\ \A s : Number(g, s) = Number(f, s) + (IF s = c.at THEN 1 ELSE 0)
(* A choice added to the others is one more at its step. *)
LEMMA OneMore ==
  ASSUME NEW f, f.chosen \in Seq(ChosenItems), NEW g, NEW c \in ChosenItems,
         g.chosen = Append(f.chosen, c)
  PROVE  \E n \in Nat : Longer(f, g, c, n)
<1> DEFINE n == Len(f.chosen) + 1
<1>1. /\ n \in Nat /\ DOMAIN g.chosen = DOMAIN f.chosen \union {n} /\ n \notin DOMAIN f.chosen
      /\ g.chosen[n] = c /\ \A i \in DOMAIN f.chosen : g.chosen[i] = f.chosen[i]
  OBVIOUS
<1> HIDE DEF n
<1>2. \A s : Chose(g, s) = Chose(f, s) \union (IF s = c.at THEN {n} ELSE {})
  BY <1>1 DEF Chose
<1>3. ASSUME NEW s
      PROVE  Number(g, s) = Number(f, s) + (IF s = c.at THEN 1 ELSE 0)
  <2>1. IsFiniteSet(Chose(f, s)) /\ Number(f, s) \in Nat
    BY NumberTyped
  <2>2. n \notin Chose(f, s)
    BY <1>1 DEF Chose
  <2>3. CASE s = c.at
    <3>1. Chose(g, s) = Chose(f, s) \union {n}
      BY <1>2, <2>3
    <3>2. Cardinality(Chose(f, s) \union {n}) = Cardinality(Chose(f, s)) + 1
      BY <2>1, <2>2, FS_AddElement
    <3> QED
      BY <2>3, <3>1, <3>2 DEF Number
  <2>4. CASE s # c.at
    <3>1. Chose(g, s) = Chose(f, s)
      BY <1>2, <2>4
    <3> QED
      BY <2>1, <2>4, <3>1 DEF Number
  <2> QED
    BY <2>3, <2>4
<1>4. Longer(f, g, c, n)
  BY <1>1, <1>2, <1>3 DEF Longer
<1> QED
  BY <1>1, <1>4

(* What is chosen at a step is at least as much as what can only have been chosen there. *)
LEMMA AllChosen ==
  ASSUME NEW f, f.chosen \in Seq(ChosenItems), NEW s, NEW M \in SUBSET Objects,
         \A o \in M : \E i \in Chose(f, s) : f.chosen[i].item = o
  PROVE  Number(f, s) >= Cardinality(M) /\ Cardinality(M) \in Nat
<1> DEFINE D == {i \in Chose(f, s) : f.chosen[i].item \in M}
           it == [i \in D |-> f.chosen[i].item]
<1>1. IsFiniteSet(Chose(f, s)) /\ D \subseteq Chose(f, s) /\ Number(f, s) \in Nat
  BY NumberTyped
<1>2. IsFiniteSet(D) /\ Cardinality(D) <= Cardinality(Chose(f, s)) /\ Cardinality(D) \in Nat
  BY <1>1, FS_Subset, FS_CardinalityType
<1>3. it \in Surjection(D, M)
  BY DEF Surjection
<1> HIDE DEF it, D
<1>4. IsFiniteSet(M) /\ Cardinality(M) <= Cardinality(D)
  BY <1>2, <1>3, FS_Surjection
<1>5. Cardinality(M) \in Nat
  BY <1>4, FS_CardinalityType
<1> QED
  BY <1>1, <1>2, <1>4, <1>5 DEF Number

(* The numbers in a way to cast. *)
LEMMA WayNumbers ==
  \A c \in Casts :
     /\ c.pitch.n \in Nat /\ c.return.n \in Nat /\ c.alt_sac.n \in Nat /\ c.types \in Nat
     /\ c.exile \in Nat /\ c.pips \in Nat /\ c.energy \in Nat /\ c.delve \in BOOLEAN
     /\ c.generic \in Nat /\ c.replicate \in Nat /\ c.x \in Nat /\ c.life \in Nat
     /\ c.card \in Objects /\ OwnPips(c) \in Nat
<1>1. \A c \in Casts :
     /\ c.pitch \in Items /\ c.return \in Items /\ c.alt_sac \in Items /\ c.types \in Nat
     /\ c.exile \in Nat /\ c.pips \in Nat /\ c.energy \in Nat /\ c.delve \in BOOLEAN
     /\ c.generic \in Nat /\ c.replicate \in Nat /\ c.x \in Nat /\ c.life \in Nat
     /\ c.card \in Objects
  BY CastsAssumption
<1>2. \A i \in Items : i.n \in Nat
  BY DEF Items
<1> QED
  BY <1>1, <1>2 DEF OwnPips

(* Going on with the same choices: nothing is asked of them but that the steps left behind are
   complete, and of the mana but that it is tallied. *)
LEMMA PlanGoesOn ==
  ASSUME NEW f, NEW g, NEW b, CastPlan(f, b), f.step \in AllSteps, g.step \in AllSteps,
         g.chosen = f.chosen, g.way = f.way, g.delving = f.delving, f.chosen \in Seq(ChosenItems),
         Rank[f.step] <= Rank[g.step], Tallied(g), Complete(g), Rank[g.step] = 13 => f.way.delve
  PROVE  CastPlan(g, b)
<1>1. \A s : Number(g, s) = Number(f, s)
  BY DEF Chose, Number
<1>2. Rank[f.step] \in Nat /\ Rank[g.step] \in Nat
  BY RankTyped
<1>3. InOrder(g)
  <2>1. ASSUME NEW i \in DOMAIN g.chosen
        PROVE  Rank[g.chosen[i].at] <= Rank[g.step]
    <3>1. f.chosen[i] \in ChosenItems
      BY <2>1
    <3>2. Rank[f.chosen[i].at] \in Nat /\ Rank[f.chosen[i].at] <= Rank[f.step]
      BY <2>1, <3>1, RankTyped DEF CastPlan, InOrder, ChosenItems
    <3> QED
      BY <1>2, <3>2
  <2> QED
    BY <2>1 DEF CastPlan, InOrder
<1>4. Limited(g)
  BY <1>1 DEF CastPlan, Limited
<1>5. Delvable(g, b)
  BY <1>2 DEF CastPlan, Delvable
<1> QED
  BY <1>3, <1>4, <1>5 DEF CastPlan

(* Nothing is complete that early. *)
LEMMA NothingComplete ==
  ASSUME NEW f, Rank[f.step] \in 0..8
  PROVE  Complete(f)
BY DEF Complete

(* What was tallied stays so once the mana of a cast is announced. *)
AsAnnounced(f, g) ==
  /\ g.way = f.way /\ g.chosen = f.chosen /\ g.cost = f.cost /\ g.kicked = f.kicked
  /\ g.replicated = f.replicated /\ g.x = f.x /\ g.pip = f.pip /\ g.life_paid = f.life_paid
(* So a step that announces nothing more leaves the mana tallied. *)
LEMMA TalliedStays ==
  ASSUME NEW f, NEW g, Tallied(f), AsAnnounced(f, g), f.step \in AllSteps, g.step \in AllSteps,
         Rank[f.step] > 4, Rank[g.step] > 5
  PROVE  Tallied(g)
<1>1. Rank[f.step] \in Nat /\ Rank[g.step] \in Nat
  BY RankTyped
<1>2. \A s : Number(g, s) = Number(f, s)
  BY DEF AsAnnounced, Number, Chose
<1>3. Announced(g) = Announced(f)
  BY <1>2 DEF AsAnnounced, Announced
<1>4. /\ ~(Rank[f.step] = 0) /\ ~(Rank[g.step] = 0) /\ ~(Rank[g.step] <= 3) /\ ~(Rank[g.step] \in 1..5)
      /\ Rank[f.step] > 4
  BY <1>1
<1> HIDE DEF Announced
<1> QED
  BY <1>3, <1>4 DEF Tallied, AsAnnounced

(* What is announced is a number, and what delve takes off it apart from the rest. *)
LEMMA AnnouncedApart ==
  ASSUME NEW f, f \in CastFlows(f.snap), NEW g, g.kicked = f.kicked, g.replicated = f.replicated,
         g.x = f.x, g.pip = f.pip, g.way = f.way, g.chosen \in Seq(ChosenItems)
  PROVE  \E a \in Int : /\ Announced(f) = a - Number(f, "DELVE_PICK")
                        /\ Announced(g) = a - Number(g, "DELVE_PICK")
<1>1. /\ f.kicked \in Int /\ f.replicated \in Int /\ f.x \in Int /\ f.pip \in Int /\ f.way \in Casts
  BY DEF CastFlows
<1>2. /\ f.way.replicate \in Nat /\ f.way.x \in Nat
  BY <1>1, WayNumbers
<1> DEFINE r == f.replicated * f.way.replicate
           x == f.x * f.way.x
<1>3. r \in Int /\ x \in Int
  BY <1>1, <1>2
<1>4. /\ Announced(f) = f.kicked + r + x + f.pip - Number(f, "DELVE_PICK")
      /\ Announced(g) = f.kicked + r + x + f.pip - Number(g, "DELVE_PICK")
  BY DEF Announced
<1> HIDE DEF r, x
<1>5. Number(f, "DELVE_PICK") \in Nat /\ Number(g, "DELVE_PICK") \in Nat
  BY NumberTyped DEF CastFlows
<1> DEFINE a == f.kicked + r + x + f.pip
<1>a. \A p, q, u, v, n \in Int : p + q + u + v - n = (p + q + u + v) - n /\ p + q + u + v \in Int
  OBVIOUS
<1>6. a \in Int /\ Announced(f) = a - Number(f, "DELVE_PICK") /\ Announced(g) = a - Number(g, "DELVE_PICK")
  <2>1. f.kicked \in Int /\ f.pip \in Int /\ Number(f, "DELVE_PICK") \in Int /\ Number(g, "DELVE_PICK") \in Int
    BY <1>1, <1>5
  <2> QED
    BY <1>3, <1>4, <1>a, <2>1
<1> QED
  BY <1>6

(* What is announced is a number. *)
LEMMA AnnouncedTyped ==
  ASSUME NEW f, f \in CastFlows(f.snap)
  PROVE  Announced(f) \in Int
<1>1. PICK a \in Int : Announced(f) = a - Number(f, "DELVE_PICK")
  BY AnnouncedApart DEF CastFlows
<1>2. Number(f, "DELVE_PICK") \in Nat
  BY NumberTyped DEF CastFlows
<1> QED
  BY <1>1, <1>2

(* The room left at a step. *)
Room(f) ==
  LET w == f.way
  IN  /\ f.step = "ALT_PITCH" => Number(f, "ALT_PITCH") < w.pitch.n
      /\ f.step = "ALT_RETURN" => Number(f, "ALT_RETURN") < w.return.n
      /\ f.step = "ALT_SAC" => Number(f, "ALT_SAC") < w.alt_sac.n
      /\ f.step = "SPELL_SAC" => Number(f, "SPELL_SAC") < 1
      /\ f.step = "DELVE_PICK" => Number(f, "DELVE_PICK") < f.delving
      /\ f.step = "DEF_SAC" => Number(f, "DEF_SAC") < 1
      /\ f.step = "DEF_EXILE_COUNT" => Number(f, "DEF_EXILE_COUNT") < w.exile
Cheaper(f) == IF f.step = "DELVE_PICK" THEN f.cost - 1 ELSE f.cost
(* One more item, where there is room for it. *)
LEMMA ItemAdded ==
  ASSUME NEW f, NEW g, NEW b, f \in CastFlows(f.snap), CastPlan(f, b), NEW c \in ChosenItems,
         g = [f EXCEPT !.chosen = Append(f.chosen, c), !.cost = Cheaper(f)],
         c.at = f.step, Rank[f.step] > 7, Room(f), Fits(f.way, c, b.zone[c.item]),
         \A i \in DOMAIN f.chosen : f.chosen[i].item # c.item
  PROVE  CastPlan(g, b)
<1>1. /\ f.chosen \in Seq(ChosenItems) /\ f.step \in AllSteps /\ f.way \in Casts /\ f.cost \in Int
      /\ f.delving \in Int
  BY DEF CastFlows, AllSteps
<1>2. /\ g.chosen = Append(f.chosen, c) /\ g.cost = Cheaper(f) /\ g.step = f.step /\ g.way = f.way
      /\ g.delving = f.delving /\ g.kicked = f.kicked /\ g.replicated = f.replicated /\ g.x = f.x
      /\ g.pip = f.pip /\ g.life_paid = f.life_paid
  BY DEF CastFlows
<1>a. PICK n \in Nat : Longer(f, g, c, n)
  BY <1>1, <1>2, OneMore
<1>3. /\ DOMAIN g.chosen = DOMAIN f.chosen \union {n} /\ n \notin DOMAIN f.chosen
      /\ g.chosen[n] = c /\ \A i \in DOMAIN f.chosen : g.chosen[i] = f.chosen[i]
      /\ \A s : Chose(g, s) = Chose(f, s) \union (IF s = f.step THEN {n} ELSE {})
      /\ \A s : Number(g, s) = Number(f, s) + (IF s = f.step THEN 1 ELSE 0)
  BY <1>a DEF Longer
<1>4. Rank[f.step] \in Nat
  BY <1>1, RankTyped
<1>5. \A s : Number(f, s) \in Nat
  BY <1>1, NumberTyped
<1>6. /\ f.way.pitch.n \in Nat /\ f.way.return.n \in Nat /\ f.way.alt_sac.n \in Nat
      /\ f.way.types \in Nat /\ f.way.exile \in Nat
  BY <1>1, WayNumbers
<1>7. InOrder(g)
  <2>1. \A i, j \in DOMAIN g.chosen : g.chosen[i].item = g.chosen[j].item => i = j
    BY <1>3 DEF CastPlan, InOrder
  <2>2. \A i \in DOMAIN g.chosen : Rank[g.chosen[i].at] <= Rank[g.step]
    BY <1>2, <1>3, <1>4 DEF CastPlan, InOrder
  <2> QED
    BY <2>1, <2>2 DEF InOrder
<1>8. Limited(g)
  <2>1. Limited(f)
    BY DEF CastPlan
  <2>2. ASSUME NEW s, NEW m \in Nat, Number(f, s) <= m, s = f.step => Number(f, s) < m
        PROVE  Number(g, s) <= m
    BY <1>3, <1>5, <2>2
  <2>3. f.delving \in Nat /\ g.way = f.way /\ g.delving = f.delving
    BY <1>1, <1>2, <1>5, <2>1 DEF Limited
  <2> QED
    BY <1>6, <2>1, <2>2, <2>3 DEF Limited, Room
<1>9. Complete(g)
  <2>1. Complete(f)
    BY DEF CastPlan
  <2>2. \A s : s # f.step => Number(g, s) = Number(f, s) /\ Chose(g, s) = Chose(f, s)
    BY <1>3, <1>5
  <2>3. \A s : s # f.step => ItemsAt(g, s) = ItemsAt(f, s)
    BY <1>3, <2>2 DEF Chose, ItemsAt
  <2>4. /\ Rank[g.step] > 8 => f.step # "ALT_PITCH"
        /\ Rank[g.step] > 9 => f.step # "ALT_RETURN"
        /\ Rank[g.step] > 10 => f.step # "ALT_SAC"
        /\ Rank[g.step] > 11 => f.step # "SPELL_SAC"
        /\ Rank[g.step] > 13 => f.step # "DELVE_PICK"
        /\ Rank[g.step] > 14 => f.step # "DEF_SAC"
        /\ Rank[g.step] > 15 => f.step # "DEF_EXILE_TYPES"
        /\ Rank[g.step] > 16 => f.step # "DEF_EXILE_COUNT"
    BY <1>2, Ranks
  <2> QED
    BY <1>2, <2>1, <2>2, <2>3, <2>4 DEF Complete
<1>10. Delvable(g, b)
  BY <1>2 DEF CastPlan, Delvable
<1>11. Tallied(g)
  <2>1. Tallied(f)
    BY DEF CastPlan
  <2>2. PICK k \in 0..f.pip : f.life_paid = 2 * k /\ f.cost = f.way.generic + Announced(f) - k
    BY <1>4, <2>1 DEF Tallied
  <2>3. Announced(f) \in Int /\ f.way.generic \in Nat /\ f.pip \in Nat
    BY <1>1, <2>1, AnnouncedTyped, WayNumbers DEF Tallied
  <2>4. Announced(g) = IF f.step = "DELVE_PICK" THEN Announced(f) - 1 ELSE Announced(f)
    <3>1. PICK a \in Int : /\ Announced(f) = a - Number(f, "DELVE_PICK")
                           /\ Announced(g) = a - Number(g, "DELVE_PICK")
      <4>1. g.chosen \in Seq(ChosenItems)
        BY <1>1, <1>2
      <4> QED
        BY <1>2, <4>1, AnnouncedApart
    <3>3. Number(g, "DELVE_PICK") = Number(f, "DELVE_PICK") + (IF "DELVE_PICK" = f.step THEN 1 ELSE 0)
      BY <1>3
    <3> QED
      BY <1>5, <3>1, <3>3
  <2>5. g.cost = g.way.generic + Announced(g) - k
    BY <1>1, <1>2, <2>2, <2>3, <2>4 DEF Cheaper
  <2>6. ~(Rank[g.step] = 0) /\ ~(Rank[g.step] <= 3) /\ ~(Rank[g.step] \in 1..5) /\ Rank[f.step] > 4
    BY <1>2, <1>4
  <2> QED
    BY <1>2, <2>1, <2>2, <2>5, <2>6 DEF Tallied
<1>12. \A i \in DOMAIN g.chosen : Fits(g.way, g.chosen[i], b.zone[g.chosen[i].item])
  BY <1>2, <1>3 DEF CastPlan
<1> QED
  BY <1>2, <1>7, <1>8, <1>9, <1>10, <1>11, <1>12 DEF CastPlan

(* What a change of the announcements adds to the mana announced. *)
LEMMA AnnouncedBy ==
  ASSUME NEW f, f \in CastFlows(f.snap), NEW g, g \in CastFlows(g.snap), g.chosen = f.chosen,
         g.way = f.way
  PROVE  /\ g.replicated = f.replicated + 1 /\ g.kicked = f.kicked /\ g.x = f.x /\ g.pip = f.pip =>
                Announced(g) = Announced(f) + f.way.replicate
         /\ g.replicated = f.replicated /\ f.x = 0 /\ g.kicked = f.kicked /\ g.pip = f.pip =>
                Announced(g) = Announced(f) + g.x * g.way.x
         /\ g.replicated = f.replicated /\ g.x = f.x =>
                Announced(g) = Announced(f) + ((g.kicked - f.kicked) + (g.pip - f.pip))
<1>1. /\ f.kicked \in Int /\ f.replicated \in Int /\ f.x \in Int /\ f.pip \in Int
      /\ g.kicked \in Int /\ g.replicated \in Int /\ g.x \in Int /\ g.pip \in Int
  BY DEF CastFlows
<1>2. /\ f.way.replicate \in Nat /\ f.way.x \in Nat /\ Number(f, "DELVE_PICK") \in Nat
      /\ Number(g, "DELVE_PICK") = Number(f, "DELVE_PICK")
  <2>1. Number(g, "DELVE_PICK") = Number(f, "DELVE_PICK")
    BY DEF Number, Chose
  <2>2. f.chosen \in Seq(ChosenItems) /\ f.way \in Casts
    BY DEF CastFlows
  <2> QED
    BY <2>1, <2>2, WayNumbers, NumberTyped
<1> DEFINE n == Number(f, "DELVE_PICK")
           rf == f.replicated * f.way.replicate
           rg == g.replicated * f.way.replicate
           xf == f.x * f.way.x
           xg == g.x * f.way.x
<1>3. /\ Announced(f) = f.kicked + rf + xf + f.pip - n
      /\ Announced(g) = g.kicked + rg + xg + g.pip - n
  BY <1>2 DEF Announced
<1>4. n \in Int /\ rf \in Int /\ rg \in Int /\ xf \in Int /\ xg \in Int
  BY <1>1, <1>2
<1>5. \A i, j \in Int : (i + 1) * j = i * j + j /\ 0 * j = 0
  OBVIOUS
<1>6. /\ g.replicated = f.replicated + 1 => rg = rf + f.way.replicate
      /\ f.x = 0 => xf = 0
      /\ g.replicated = f.replicated => rg = rf
      /\ g.x = f.x => xg = xf
      /\ xg = g.x * g.way.x
  <2>1. ASSUME g.replicated = f.replicated + 1
        PROVE  rg = rf + f.way.replicate
    <3>1. f.way.replicate \in Int /\ f.replicated \in Int
      BY <1>1, <1>2
    <3>2. (f.replicated + 1) * f.way.replicate = f.replicated * f.way.replicate + f.way.replicate
      BY <1>5, <3>1
    <3> QED
      BY <2>1, <3>2
  <2>2. f.x = 0 => xf = 0
    <3>1. f.way.x \in Int
      BY <1>2
    <3> QED
      BY <1>5, <3>1
  <2> QED
    BY <2>1, <2>2
<1> HIDE DEF n, rf, rg, xf, xg
<1>7. ASSUME g.replicated = f.replicated + 1, g.kicked = f.kicked, g.x = f.x, g.pip = f.pip
      PROVE  Announced(g) = Announced(f) + f.way.replicate
  <2>1. \A a, b, c, d, e, w \in Int : a + (b + w) + c + d - e = (a + b + c + d - e) + w
    OBVIOUS
  <2>2. Announced(g) = f.kicked + (rf + f.way.replicate) + xf + f.pip - n
    BY <1>3, <1>6, <1>7
  <2>3. f.way.replicate \in Int
    BY <1>2
  <2> QED
    BY <1>1, <1>3, <1>4, <2>1, <2>2, <2>3
<1>8. ASSUME g.replicated = f.replicated, f.x = 0, g.kicked = f.kicked, g.pip = f.pip
      PROVE  Announced(g) = Announced(f) + g.x * g.way.x
  <2>1. \A a, b, c, d, e \in Int : a + b + c + d - e = (a + b + 0 + d - e) + c
    OBVIOUS
  <2>2. Announced(g) = f.kicked + rf + xg + f.pip - n /\ Announced(f) = f.kicked + rf + 0 + f.pip - n
    BY <1>3, <1>6, <1>8
  <2> QED
    BY <1>1, <1>4, <1>6, <2>1, <2>2
<1>9. ASSUME g.replicated = f.replicated, g.x = f.x
      PROVE  Announced(g) = Announced(f) + ((g.kicked - f.kicked) + (g.pip - f.pip))
  <2>1. \A a, b, c, d, e, k, p \in Int :
            k + b + c + p - e = (a + b + c + d - e) + ((k - a) + (p - d))
    OBVIOUS
  <2>2. Announced(g) = g.kicked + rf + xf + g.pip - n
    BY <1>3, <1>6, <1>9
  <2> QED
    BY <1>1, <1>3, <1>4, <2>1, <2>2
<1> QED
  BY <1>7, <1>8, <1>9

(* What was tallied is tallied after an announcement that adds to the cost what it adds to the mana
   announced, but for a pip it pays with life. *)
LEMMA TallyKept ==
  ASSUME NEW f, f \in CastFlows(f.snap), NEW g, g \in CastFlows(g.snap), g.chosen = f.chosen,
         g.way = f.way, Tallied(f), Rank[f.step] \in 1..4, Rank[g.step] \in 1..5,
         NEW l \in {0, 1}, g.life_paid = f.life_paid + 2 * l, g.pip \in Nat, g.pip >= f.pip + l,
         g.cost = f.cost + (Announced(g) - Announced(f) - l),
         Rank[g.step] <= 3 => g.x = 0, Rank[g.step] = 5 => g.pip = OwnPips(g.way)
  PROVE  Tallied(g)
<1>0. ~(Rank[f.step] = 0)
  OBVIOUS
<1>1. PICK k \in 0..f.pip : f.life_paid = 2 * k /\ f.cost = f.way.generic + Announced(f) - k
  BY <1>0 DEF Tallied
<1>2. Announced(f) \in Int /\ Announced(g) \in Int /\ f.way.generic \in Nat /\ f.pip \in Nat
  <2>1. f.way \in Casts
    BY DEF CastFlows
  <2>2. f.pip \in Nat
    BY DEF Tallied
  <2> QED
    BY <2>1, <2>2, AnnouncedTyped, WayNumbers
<1>3. k + l \in 0..g.pip /\ g.life_paid = 2 * (k + l)
  BY <1>1, <1>2
<1>4. g.cost = g.way.generic + Announced(g) - (k + l)
  BY <1>1, <1>2
<1>5. f.way.kind \in {"regular", "permitted"} /\ ~(Rank[g.step] = 0)
  BY DEF Tallied
<1> QED
  BY <1>3, <1>4, <1>5 DEF Tallied

(* At a step before the payment of a cast. *)
LEMMA CastPlanned ==
  ASSUME CastInv, Planned, CastAsking
  PROVE  /\ CastPlan(flow, before) /\ flow.step \in AllSteps /\ flow.chosen \in Seq(ChosenItems)
         /\ Rank[flow.step] \in Nat
<1>1. flow # Idle /\ Proposing /\ flow \in CastFlows(flow.snap) /\ flow.step \in AllSteps
  BY CastAskingFacts DEF CastAsking, AllSteps
<1> QED
  BY <1>1, RankTyped DEF Proposing, Reversible, Planned, CastAsking, CastFlows

(* A proposal goes on as planned. *)
LEMMA PlannedIf ==
  ASSUME flow' \in CastFlows(flow'.snap), flow'.step \in CastSteps, before' = before,
         CastPlan(flow', before)
  PROVE  Planned' /\ Balanced' /\ PaidInFull'
<1>1. flow'.kind = "cast"
  BY DEF CastFlows
<1>2. Casting' /\ flow'.step \notin PaySteps /\ flow'.step # "FINISH"
  BY <1>1, StepsApart DEF Casting
<1>3. Planned'
  BY <1>2 DEF Planned, CastPlan, Tallied, InOrder, Limited, Complete, Delvable, Gated, Number, Chose
<1> QED
  BY <1>2, <1>3 DEF Balanced, PaidInFull, At

(* A step of the announcements keeps the plan if it keeps the tally. *)
LEMMA AnnouncementPlan ==
  ASSUME CastInv, Planned, CastAsking, flow' \in CastFlows(flow'.snap), flow'.step \in CastSteps,
         flow'.chosen = flow.chosen, flow'.way = flow.way, flow'.delving = flow.delving,
         before' = before, Rank[flow.step] <= Rank[flow'.step], Rank[flow'.step] <= 8,
         Tallied(flow')
  PROVE  Planned' /\ Balanced' /\ PaidInFull'
<1>1. CastPlan(flow, before) /\ flow.step \in AllSteps /\ flow.chosen \in Seq(ChosenItems)
  BY CastPlanned
<1>2. flow'.step \in AllSteps
  BY DEF AllSteps
<1>3. Rank[flow'.step] \in 0..8 /\ ~(Rank[flow'.step] = 13)
  BY <1>2, RankTyped
<1>4. CastPlan(flow', before)
  BY <1>1, <1>2, <1>3, NothingComplete, PlanGoesOn
<1> QED
  BY <1>4, PlannedIf

(* The announcements of a cast keep the plan. *)
LEMMA AnnouncementsPlan ==
  ASSUME CastInv, Planned,
         \/ CostStep \/ Kicker \/ Replicate \/ ChooseX \/ PipLife \/ PipMana \/ PipsDone \/ LifeX
         \/ Gift \/ Targets
  PROVE  Planned' /\ Balanced' /\ PaidInFull'
<1>1. flow # Idle /\ FlowTyped /\ before' = before
  BY FlowKinds DEF CastInv, CostStep, Kicker, Replicate, ChooseX, PipLife, PipMana, PipsDone, LifeX,
     Gift, Targets, Only
<1>2. /\ flow.step \in {"COST", "KICKER", "REPLICATE", "CHOOSE_X", "PHYREXIAN_PIP", "LIFE_X", "GIFT",
                        "MODES_TARGETS"}
      /\ (Casting \/ Activating)
  BY <1>1, FlowKinds DEF CostStep, Kicker, Replicate, ChooseX, PipLife, PipMana, PipsDone, LifeX, Gift,
     Targets
<1>3. CastAsking
  BY <1>1, <1>2, FlowKinds DEF ActivationFlows, ActivationSteps, CastSteps, PaySteps, CastAsking
<1> DEFINE snap == flow.snap
<1>4. flow \in CastFlows(snap) /\ flow.way \in Casts
  BY <1>3, CastAskingFacts
<1>5. Tallied(flow)
  BY <1>3, CastPlanned DEF CastPlan
<1>6. /\ flow.cost \in Int /\ flow.kicker \in Nat \ {0} /\ flow.kicked \in Int
      /\ flow.replicated \in Int /\ flow.pip \in Nat /\ flow.life_paid \in Int /\ flow.x \in Int
      /\ flow.way.generic \in Nat /\ flow.way.replicate \in Nat
      /\ flow.way.x \in Nat /\ flow.way.pips \in Nat
  BY <1>4, <1>5, WayNumbers DEF CastFlows, Tallied
<1>7. Announced(flow) \in Int
  BY <1>4, AnnouncedTyped
<1>8. {"KICKER", "REPLICATE", "CHOOSE_X", "PHYREXIAN_PIP", "LIFE_X", "GIFT", "MODES_TARGETS", "ALT_PITCH"}
         \subseteq CastSteps
  BY DEF CastSteps
<1> HIDE DEF snap
<1>9. ASSUME flow' \in CastFlows(snap), flow'.step \in CastSteps, flow'.chosen = flow.chosen,
             flow'.way = flow.way, flow'.delving = flow.delving,
             Rank[flow.step] <= Rank[flow'.step], Rank[flow'.step] <= 8, Tallied(flow')
      PROVE  Planned' /\ Balanced' /\ PaidInFull'
  <2>1. flow' \in CastFlows(flow'.snap)
    BY <1>9 DEF CastFlows
  <2> QED
    BY <1>1, <1>3, <1>9, <2>1, AnnouncementPlan
<1> DEFINE Others == /\ flow'.chosen = flow.chosen /\ flow'.way = flow.way /\ flow'.delving = flow.delving
<1>10. CASE CostStep
  <2> DEFINE step == IF flow.way.kind \in {"regular", "permitted"} THEN "KICKER" ELSE "GIFT"
  <2>1. flow' = [flow EXCEPT !.step = step, !.cost = flow.way.generic] /\ flow.step = "COST"
    BY <1>1, <1>10, FlowKinds DEF CostStep
  <2>2. /\ step \in CastSteps /\ Rank[flow.step] = 0 /\ Rank[step] \in {1, 6}
        /\ Rank[step] = 1 => flow.way.kind \in {"regular", "permitted"}
        /\ Rank[step] = 6 => OwnPips(flow.way) = 0
    BY <1>8, <2>1, Ranks DEF OwnPips
  <2> HIDE DEF step
  <2>3. /\ flow' \in CastFlows(snap) /\ Others /\ flow'.step = step /\ flow'.cost = flow.way.generic
        /\ flow'.kicked = flow.kicked /\ flow'.replicated = flow.replicated /\ flow'.x = flow.x
        /\ flow'.pip = flow.pip /\ flow'.life_paid = flow.life_paid
    <3> DEFINE a == flow.way.generic
    <3>1. a \in Int /\ flow' = [flow EXCEPT !.step = step, !.cost = a]
      BY <1>6, <2>1
    <3> HIDE DEF a
    <3> QED
      BY <1>4, <2>2, <3>1 DEF CastFlows, a
  <2>4. flow.pip = 0 /\ flow.x = 0 /\ flow.life_paid = 0
    <3>1. Rank[flow.step] = 0 /\ Rank[flow.step] <= 3
      BY <2>2
    <3>2. flow.pip = 0 /\ flow.x = 0 /\ \E k \in 0..flow.pip : flow.life_paid = 2 * k
      BY <1>5, <3>1 DEF Tallied
    <3> QED
      BY <3>2
  <2>5. Announced(flow') = 0
    <3>1. Number(flow, "DELVE_PICK") \in Nat /\ CastPlan(flow, before)
      BY <1>3, CastPlanned, NumberTyped
    <3>2. flow.delving = 0 /\ Number(flow, "DELVE_PICK") <= flow.delving
      <4>1. Rank[flow.step] <= 12
        BY <2>2
      <4> QED
        BY <3>1, <4>1 DEF CastPlan, Delvable, Limited
    <3>3. Number(flow', "DELVE_PICK") = 0
      <4>1. Number(flow', "DELVE_PICK") = Number(flow, "DELVE_PICK")
        BY <2>3 DEF Number, Chose
      <4> QED
        BY <3>1, <3>2, <4>1
    <3>4. flow.kicked = 0 /\ flow.replicated = 0
      BY <1>5, <2>2 DEF Tallied
    <3>5. 0 * flow.way.replicate = 0 /\ 0 * flow.way.x = 0
      BY <1>6
    <3> QED
      BY <2>3, <2>4, <3>3, <3>4, <3>5 DEF Announced
  <2>6. Tallied(flow')
    <3>1. /\ 0 \in 0..flow'.pip /\ flow'.life_paid = 2 * 0
          /\ flow'.cost = flow'.way.generic + Announced(flow') - 0
      BY <1>6, <2>3, <2>4, <2>5
    <3>2. /\ ~(Rank[flow'.step] = 0) /\ (Rank[flow'.step] \in 1..5 => flow'.way.kind \in {"regular", "permitted"})
          /\ (Rank[flow'.step] > 4 => flow'.pip = OwnPips(flow'.way)) /\ flow'.x = 0 /\ flow'.pip \in Nat
      BY <2>2, <2>3, <2>4
    <3> QED
      BY <3>1, <3>2 DEF Tallied
  <2>7. Rank[flow.step] <= Rank[flow'.step] /\ Rank[flow'.step] <= 8 /\ flow'.step \in CastSteps
    BY <2>2, <2>3
  <2> QED
    BY <1>9, <2>3, <2>6, <2>7
<1>11. ASSUME flow' \in CastFlows(snap), flow'.step \in CastSteps, Others,
              Rank[flow.step] \in 1..4, Rank[flow'.step] \in 1..5, Rank[flow.step] <= Rank[flow'.step],
              NEW l \in {0, 1}, flow'.life_paid = flow.life_paid + 2 * l, flow'.pip \in Nat,
              flow'.pip >= flow.pip + l,
              flow'.cost = flow.cost + (Announced(flow') - Announced(flow) - l),
              Rank[flow'.step] <= 3 => flow'.x = 0,
              Rank[flow'.step] = 5 => flow'.pip = OwnPips(flow'.way)
       PROVE  Planned' /\ Balanced' /\ PaidInFull'
  <2>1. flow \in CastFlows(flow.snap) /\ flow' \in CastFlows(flow'.snap)
    BY <1>4, <1>11 DEF CastFlows
  <2>2. Tallied(flow')
    BY <1>5, <1>11, <2>1, TallyKept
  <2> QED
    BY <1>9, <1>11, <2>2
<1>12. ASSUME NEW step \in CastSteps, Goto(step), Rank[flow.step] \in 1..4, Rank[step] \in 1..5,
              Rank[flow.step] <= Rank[step], Rank[step] <= 3 => flow.x = 0,
              Rank[step] = 5 => flow.pip = OwnPips(flow.way)
       PROVE  Planned' /\ Balanced' /\ PaidInFull'
  <2>1. /\ flow' \in CastFlows(snap) /\ Others /\ flow'.step = step /\ flow'.cost = flow.cost
        /\ flow'.kicked = flow.kicked /\ flow'.replicated = flow.replicated /\ flow'.x = flow.x
        /\ flow'.pip = flow.pip /\ flow'.life_paid = flow.life_paid
    BY <1>4, <1>12 DEF Goto, CastFlows
  <2>2. Announced(flow') = Announced(flow)
    BY <2>1 DEF Announced, Number, Chose
  <2>3. /\ flow'.life_paid = flow.life_paid + 2 * 0 /\ flow'.pip \in Nat /\ flow'.pip >= flow.pip + 0
        /\ flow'.cost = flow.cost + (Announced(flow') - Announced(flow) - 0)
    BY <1>6, <1>7, <2>1, <2>2
  <2> QED
    BY <1>11, <1>12, <2>1, <2>3
<1>13. CASE PipsDone
  <2>1. /\ flow.step = "PHYREXIAN_PIP" /\ Goto("LIFE_X") /\ flow.pip = flow.way.pips
        /\ Rank[flow.step] = 4 /\ Rank["LIFE_X"] = 5
    BY <1>1, <1>13, Ranks, FlowKinds DEF PipsDone
  <2>2. flow.pip = OwnPips(flow.way)
    <3>1. Rank[flow.step] \in 1..5
      BY <2>1
    <3> QED
      BY <1>5, <2>1, <3>1 DEF Tallied, OwnPips
  <2> QED
    BY <1>8, <1>12, <2>1, <2>2
<1>14. CASE LifeX \/ Gift \/ Targets
  <2>1. /\ Rank[flow.step] \in 5..7 /\ flow'.step \in CastSteps
        /\ Rank[flow'.step] = Rank[flow.step] + 1 /\ flow' \in CastFlows(snap)
        /\ AsAnnounced(flow, flow') /\ Others
    <3>1. CASE LifeX
      <4>1. PICK x \in IF flow.way.life_x THEN LifeXs ELSE {0} :
              flow' = [flow EXCEPT !.step = "GIFT", !.life_x = x]
        BY <3>1 DEF LifeX
      <4>2. x \in Int /\ flow.step = "LIFE_X"
        <5>1. x \in Int
          BY LadderTyped DEF LifeXs
        <5> QED
          BY <1>1, <3>1, <5>1, FlowKinds DEF LifeX
      <4>3. flow' \in CastFlows(snap) /\ AsAnnounced(flow, flow') /\ Others /\ flow'.step = "GIFT"
        BY <1>4, <1>8, <4>1, <4>2 DEF CastFlows, AsAnnounced
      <4> QED
        BY <1>8, <4>2, <4>3, Ranks
    <3>2. CASE Gift \/ Targets
      <4>1. PICK step \in CastSteps : Goto(step) /\ Rank[step] = Rank[flow.step] + 1
                                      /\ Rank[flow.step] \in 5..7
        BY <1>1, <1>8, <3>2, Ranks, FlowKinds DEF Gift, Targets
      <4>2. flow' \in CastFlows(snap) /\ AsAnnounced(flow, flow') /\ Others /\ flow'.step = step
        BY <1>4, <4>1 DEF Goto, CastFlows, AsAnnounced
      <4> QED
        BY <4>1, <4>2
    <3> QED
      BY <1>14, <3>1, <3>2
  <2>2. Tallied(flow')
    <3>1. flow.step \in AllSteps /\ flow'.step \in AllSteps
      BY <1>3, <2>1, CastPlanned DEF AllSteps
    <3>2. Rank[flow.step] > 4 /\ Rank[flow'.step] > 5
      BY <2>1
    <3> QED
      BY <1>5, <2>1, <3>1, <3>2, TalliedStays
  <2>3. Rank[flow.step] <= Rank[flow'.step] /\ Rank[flow'.step] <= 8
    BY <2>1
  <2> QED
    BY <1>9, <2>1, <2>2, <2>3
<1>15. CASE Kicker
  <2>1. flow.step = "KICKER" /\ Rank[flow.step] = 1 /\ Rank["REPLICATE"] = 2 /\ flow.x = 0
    <3>1. flow.step = "KICKER" /\ Rank[flow.step] = 1 /\ Rank["REPLICATE"] = 2
      BY <1>1, <1>15, Ranks, FlowKinds DEF Kicker
    <3>2. Rank[flow.step] <= 3
      BY <3>1
    <3> QED
      BY <1>5, <3>1, <3>2 DEF Tallied
  <2>2. CASE ~KickerOffered
    <3>1. Goto("REPLICATE")
      BY <1>15, <2>2 DEF Kicker
    <3> QED
      BY <1>8, <1>12, <2>1, <3>1
  <2>3. CASE KickerOffered
    <3> DEFINE m == flow.way.kickers[flow.kicker]
    <3>1. m \in Nat /\ WithKicker = flow.cost + m
      <4>1. flow.way.kickers \in Seq(Nat) /\ flow.kicker \in 1..Len(flow.way.kickers)
        BY <1>4, <1>6, <2>3, WaysTyped DEF KickerOffered
      <4>2. \A q \in Seq(Nat) : \A i \in 1..Len(q) : q[i] \in Nat
        OBVIOUS
      <4> QED
        BY <4>1, <4>2 DEF WithKicker
    <3>2. PICK yes \in BOOLEAN : flow' =
             [flow EXCEPT !.kicker = flow.kicker + 1,
                          !.kicked = IF yes THEN flow.kicked + m ELSE flow.kicked,
                          !.cost = IF yes THEN WithKicker ELSE flow.cost]
      BY <1>15, <2>3 DEF Kicker
    <3> HIDE DEF m
    <3> DEFINE k == IF yes THEN flow.kicked + m ELSE flow.kicked
               c == IF yes THEN WithKicker ELSE flow.cost
               i == flow.kicker + 1
    <3>3. /\ i \in Nat \ {0} /\ k \in Int /\ c \in Int /\ c - flow.cost = k - flow.kicked
          /\ flow' = [flow EXCEPT !.kicker = i, !.kicked = k, !.cost = c]
      BY <1>6, <3>1, <3>2
    <3> HIDE DEF k, c, i
    <3>4. /\ flow' \in CastFlows(snap) /\ Others /\ flow'.step = flow.step /\ flow'.cost = c
          /\ flow'.kicked = k /\ flow'.replicated = flow.replicated /\ flow'.x = flow.x
          /\ flow'.pip = flow.pip /\ flow'.life_paid = flow.life_paid
      BY <1>4, <3>3 DEF CastFlows
    <3>5. Announced(flow') = Announced(flow) + ((k - flow.kicked) + (flow.pip - flow.pip))
      <4>1. flow \in CastFlows(flow.snap) /\ flow' \in CastFlows(flow'.snap)
        BY <1>4, <3>4 DEF CastFlows
      <4> QED
        BY <3>4, <4>1, AnnouncedBy
    <3>6. /\ flow'.life_paid = flow.life_paid + 2 * 0 /\ flow'.pip \in Nat /\ flow'.pip >= flow.pip + 0
          /\ flow'.cost = flow.cost + (Announced(flow') - Announced(flow) - 0)
      BY <1>6, <1>7, <3>3, <3>4, <3>5
    <3> QED
      BY <1>8, <1>11, <2>1, <3>4, <3>6
  <2> QED
    BY <2>2, <2>3
<1>16. CASE Replicate
  <2>1. /\ flow.step = "REPLICATE" /\ Rank[flow.step] = 2 /\ Rank["CHOOSE_X"] = 3 /\ flow.x = 0
    <3>1. flow.step = "REPLICATE" /\ Rank[flow.step] = 2 /\ Rank["CHOOSE_X"] = 3
      BY <1>1, <1>16, Ranks, FlowKinds DEF Replicate
    <3>2. Rank[flow.step] <= 3
      BY <3>1
    <3> QED
      BY <1>5, <3>1, <3>2 DEF Tallied
  <2>2. CASE Goto("CHOOSE_X")
    BY <1>8, <1>12, <2>1, <2>2
  <2>3. CASE flow' = [flow EXCEPT !.cost = WithReplicate, !.replicated = @ + 1]
    <3> DEFINE c == flow.cost + flow.way.replicate
               r == flow.replicated + 1
    <3>1. c \in Int /\ r \in Int /\ flow' = [flow EXCEPT !.cost = c, !.replicated = r]
      BY <1>6, <2>3 DEF WithReplicate
    <3> HIDE DEF c, r
    <3>2. /\ flow' \in CastFlows(snap) /\ Others /\ flow'.step = flow.step /\ flow'.cost = c
          /\ flow'.kicked = flow.kicked /\ flow'.replicated = r /\ flow'.x = flow.x
          /\ flow'.pip = flow.pip /\ flow'.life_paid = flow.life_paid
      BY <1>4, <3>1 DEF CastFlows
    <3>3. Announced(flow') = Announced(flow) + flow.way.replicate
      <4>1. flow \in CastFlows(flow.snap) /\ flow' \in CastFlows(flow'.snap)
        BY <1>4, <3>2 DEF CastFlows
      <4> QED
        BY <3>2, <4>1, AnnouncedBy DEF r
    <3>4. /\ flow'.life_paid = flow.life_paid + 2 * 0 /\ flow'.pip \in Nat /\ flow'.pip >= flow.pip + 0
          /\ flow'.cost = flow.cost + (Announced(flow') - Announced(flow) - 0)
      BY <1>6, <1>7, <3>2, <3>3 DEF c
    <3>5. flow'.step \in CastSteps
      BY <1>8, <2>1, <3>2
    <3> QED
      BY <1>11, <2>1, <3>2, <3>4, <3>5
  <2> QED
    BY <1>16, <2>2, <2>3 DEF Replicate
<1>17. CASE ChooseX
  <2>1. /\ flow.step = "CHOOSE_X" /\ Rank[flow.step] = 3 /\ Rank["PHYREXIAN_PIP"] = 4 /\ flow.x = 0
    <3>1. flow.step = "CHOOSE_X" /\ Rank[flow.step] = 3 /\ Rank["PHYREXIAN_PIP"] = 4
      BY <1>1, <1>17, Ranks, FlowKinds DEF ChooseX
    <3>2. Rank[flow.step] <= 3
      BY <3>1
    <3> QED
      BY <1>5, <3>1, <3>2 DEF Tallied
  <2>2. CASE flow.way.x = 0
    <3>1. Goto("PHYREXIAN_PIP")
      BY <1>17, <2>2 DEF ChooseX
    <3> QED
      BY <1>8, <1>12, <2>1, <3>1
  <2>3. CASE flow.way.x # 0
    <3>1. PICK x \in Int : flow' = [flow EXCEPT !.step = "PHYREXIAN_PIP", !.x = x,
                                               !.cost = flow.cost + x * flow.way.x]
      BY <1>17, <2>3, LadderTyped DEF ChooseX, PayableX
    <3> DEFINE d == x * flow.way.x
               c == flow.cost + d
    <3>2. d \in Int
      BY <1>6
    <3>3. c \in Int
      BY <1>6, <3>2
    <3>4. flow' = [flow EXCEPT !.step = "PHYREXIAN_PIP", !.x = x, !.cost = c]
      BY <3>1
    <3> HIDE DEF c
    <3>5. /\ flow' \in CastFlows(snap) /\ Others /\ flow'.step = "PHYREXIAN_PIP" /\ flow'.cost = c
          /\ flow'.kicked = flow.kicked /\ flow'.replicated = flow.replicated /\ flow'.x = x
          /\ flow'.pip = flow.pip /\ flow'.life_paid = flow.life_paid
      BY <1>4, <1>8, <3>3, <3>4 DEF CastFlows
    <3>6. Announced(flow') = Announced(flow) + d
      <4>1. flow \in CastFlows(flow.snap) /\ flow' \in CastFlows(flow'.snap)
        BY <1>4, <3>5 DEF CastFlows
      <4> QED
        BY <2>1, <3>5, <4>1, AnnouncedBy
    <3> HIDE DEF d
    <3>7. /\ flow'.life_paid = flow.life_paid + 2 * 0 /\ flow'.pip \in Nat /\ flow'.pip >= flow.pip + 0
          /\ flow'.cost = flow.cost + (Announced(flow') - Announced(flow) - 0)
      BY <1>6, <1>7, <3>2, <3>5, <3>6 DEF c
    <3> QED
      BY <1>8, <1>11, <2>1, <3>5, <3>7
  <2> QED
    BY <2>2, <2>3
<1>18. CASE PipLife \/ PipMana
  <2>1. /\ flow.step = "PHYREXIAN_PIP" /\ Rank[flow.step] = 4 /\ flow.step \in CastSteps
    BY <1>1, <1>8, <1>18, Ranks, FlowKinds DEF PipLife, PipMana
  <2>2. PICK l \in {0, 1} :
           flow' = IF l = 1 THEN [flow EXCEPT !.pip = flow.pip + 1, !.life_paid = flow.life_paid + 2]
                   ELSE [flow EXCEPT !.pip = flow.pip + 1, !.cost = flow.cost + 1]
    BY <1>18 DEF PipLife, PipMana
  <2> DEFINE p == flow.pip + 1
             n == flow.life_paid + 2 * l
             c == flow.cost + 1 - l
  <2>3. p \in Nat /\ n \in Int /\ c \in Int
    BY <1>6
  <2>4. /\ l = 1 => c = flow.cost /\ n = flow.life_paid + 2
        /\ l = 0 => n = flow.life_paid /\ c = flow.cost + 1
    BY <1>6
  <2> HIDE DEF n, c
  <2>5. /\ l = 1 => flow' = [flow EXCEPT !.pip = p, !.life_paid = n]
        /\ l = 0 => flow' = [flow EXCEPT !.pip = p, !.cost = c]
    BY <2>2, <2>4
  <2> HIDE DEF p
  <2>6. /\ flow' \in CastFlows(snap) /\ Others /\ flow'.step = flow.step /\ flow'.cost = c
        /\ flow'.kicked = flow.kicked /\ flow'.replicated = flow.replicated /\ flow'.x = flow.x
        /\ flow'.pip = p /\ flow'.life_paid = n
    <3>1. CASE l = 1
      <4>1. flow' = [flow EXCEPT !.pip = p, !.life_paid = n] /\ c = flow.cost
        BY <2>4, <2>5, <3>1
      <4>2. n \in Int /\ p \in Int
        BY <2>3
      <4> QED
        BY <1>4, <4>1, <4>2 DEF CastFlows
    <3>2. CASE l = 0
      <4>1. flow' = [flow EXCEPT !.pip = p, !.cost = c] /\ n = flow.life_paid
        BY <2>4, <2>5, <3>2
      <4>2. c \in Int /\ p \in Int
        BY <2>3
      <4> QED
        BY <1>4, <4>1, <4>2 DEF CastFlows
    <3> QED
      BY <3>1, <3>2
  <2>7. Announced(flow') = Announced(flow) + ((flow.kicked - flow.kicked) + (p - flow.pip))
    <3>1. flow \in CastFlows(flow.snap) /\ flow' \in CastFlows(flow'.snap)
      BY <1>4, <2>6 DEF CastFlows
    <3> QED
      BY <2>6, <3>1, AnnouncedBy
  <2>8. /\ flow'.life_paid = flow.life_paid + 2 * l /\ flow'.pip \in Nat /\ flow'.pip >= flow.pip + l
        /\ flow'.cost = flow.cost + (Announced(flow') - Announced(flow) - l)
    BY <1>6, <1>7, <2>6, <2>7 DEF p, n, c
  <2> QED
    BY <1>11, <2>1, <2>6, <2>8
<1> QED
  BY <1>10, <1>13, <1>14, <1>15, <1>16, <1>17, <1>18

(* The board a cast's costs are chosen from is the one it was offered on, but for its own card. *)
LEMMA SameBoard ==
  ASSUME CastInv, CastAsking
  PROVE  /\ \A S \in SUBSET Objects : Controlled(S) = On(before, S)
         /\ \A S \in SUBSET Objects : \A o \in InHand(S) \ {flow.way.card} : before.zone[o] = "hand"
         /\ Yard(game) = Buried(before, flow.way)
         /\ \A o \in Buried(before, flow.way) : before.zone[o] = "yard" /\ o \in Objects
<1>1. Reversible /\ Proposing /\ Casting /\ flow.way \in Casts
  BY CastAskingFacts DEF Proposing, Reversible, CastAsking
<1>2. game = Start /\ before.zone[flow.way.card] = flow.way.from
  BY <1>1 DEF CastInv, Untouched, Found
<1>3. /\ \A o \in Objects : o # flow.way.card => game.zone[o] = before.zone[o]
      /\ game.zone[flow.way.card] = "stack"
  BY <1>1, <1>2, StartFacts
<1>4. before.zone[flow.way.card] # "field"
  <2>1. flow.way.from \in {"hand", "yard", "exile"}
    BY <1>1, WaysTyped
  <2> QED
    BY <1>2, <2>1
<1>5. ASSUME NEW S \in SUBSET Objects
      PROVE  Controlled(S) = On(before, S)
  BY <1>3, <1>4 DEF Controlled, On, OnField
<1>6. ASSUME NEW S \in SUBSET Objects, NEW o \in InHand(S) \ {flow.way.card}
      PROVE  before.zone[o] = "hand"
  BY <1>3 DEF InHand
<1>7. Yard(game) = Buried(before, flow.way)
  BY <1>3 DEF Yard, Buried
<1> QED
  BY <1>5, <1>6, <1>7 DEF Buried, Yard

(* What a step of the cost items was there for. *)
Done(f) ==
  LET w == f.way
  IN  /\ f.step = "ALT_PITCH" => Number(f, "ALT_PITCH") = w.pitch.n
      /\ f.step = "ALT_RETURN" => Number(f, "ALT_RETURN") = w.return.n
      /\ f.step = "ALT_SAC" => Number(f, "ALT_SAC") = w.alt_sac.n
      /\ f.step = "SPELL_SAC" /\ w.kind = "regular" /\ w.sac # {} => Number(f, "SPELL_SAC") = 1
      /\ f.step = "DELVE_PICK" => Number(f, "DELVE_PICK") = f.delving
      /\ f.step = "DEF_SAC" /\ w.flash_sac # {} => Number(f, "DEF_SAC") = 1
      /\ f.step = "DEF_EXILE_TYPES" =>
            Cardinality(TypesIn(ItemsAt(f, "DEF_EXILE_TYPES"))) >= w.types
      /\ f.step = "DEF_EXILE_COUNT" => Number(f, "DEF_EXILE_COUNT") = w.exile
(* The next step is as complete as the one before was done. *)
LEMMA DoneCompletes ==
  ASSUME NEW f, NEW g, f.step \in CastSteps, g.step \in CastSteps, Rank[f.step] > 7,
         Rank[g.step] = Rank[f.step] + 1, Complete(f), Done(f),
         g.way = f.way, g.chosen = f.chosen, g.delving = f.delving
  PROVE  Complete(g)
<1>1. \A s : Number(g, s) = Number(f, s) /\ ItemsAt(g, s) = ItemsAt(f, s)
  BY DEF Number, Chose, ItemsAt
<1>2. Rank[f.step] \in Nat
  BY RankTyped DEF AllSteps
<1>3. /\ Rank[g.step] > 8 => Rank[f.step] > 8 \/ f.step = "ALT_PITCH"
      /\ Rank[g.step] > 9 => Rank[f.step] > 9 \/ f.step = "ALT_RETURN"
      /\ Rank[g.step] > 10 => Rank[f.step] > 10 \/ f.step = "ALT_SAC"
      /\ Rank[g.step] > 11 => Rank[f.step] > 11 \/ f.step = "SPELL_SAC"
      /\ Rank[g.step] > 13 => Rank[f.step] > 13 \/ f.step = "DELVE_PICK"
      /\ Rank[g.step] > 14 => Rank[f.step] > 14 \/ f.step = "DEF_SAC"
      /\ Rank[g.step] > 15 => Rank[f.step] > 15 \/ f.step = "DEF_EXILE_TYPES"
      /\ Rank[g.step] > 16 => Rank[f.step] > 16 \/ f.step = "DEF_EXILE_COUNT"
  <2>1. /\ Rank[f.step] = 8 => f.step = "ALT_PITCH"
        /\ Rank[f.step] = 9 => f.step = "ALT_RETURN"
        /\ Rank[f.step] = 10 => f.step = "ALT_SAC"
        /\ Rank[f.step] = 11 => f.step = "SPELL_SAC"
        /\ Rank[f.step] = 13 => f.step = "DELVE_PICK"
        /\ Rank[f.step] = 14 => f.step = "DEF_SAC"
        /\ Rank[f.step] = 15 => f.step = "DEF_EXILE_TYPES"
        /\ Rank[f.step] = 16 => f.step = "DEF_EXILE_COUNT"
    BY Ranks DEF CastSteps
  <2> QED
    BY <1>2, <2>1
<1> QED
  BY <1>1, <1>3 DEF Complete, Done

(* Going on from a step of the cost items that is done. *)
LEMMA StepPlan ==
  ASSUME CastInv, Planned, CastAsking, before' = before, NEW step \in CastSteps, Goto(step),
         Rank[flow.step] > 7, Rank[step] > Rank[flow.step], Complete(flow'),
         Rank[step] = 13 => flow.way.delve
  PROVE  Planned' /\ Balanced' /\ PaidInFull'
<1> DEFINE snap == flow.snap
<1>1. CastPlan(flow, before) /\ flow.step \in AllSteps /\ flow.chosen \in Seq(ChosenItems)
  BY CastPlanned
<1>2. flow \in CastFlows(snap)
  BY CastAskingFacts
<1> HIDE DEF snap
<1>3. /\ flow' \in CastFlows(snap) /\ flow'.step = step /\ AsAnnounced(flow, flow')
      /\ flow'.chosen = flow.chosen /\ flow'.way = flow.way /\ flow'.delving = flow.delving
  BY <1>2 DEF Goto, CastFlows, AsAnnounced
<1>4. flow'.step \in AllSteps /\ flow' \in CastFlows(flow'.snap)
  BY <1>3 DEF AllSteps, CastFlows
<1>5. Rank[flow.step] \in Nat /\ Rank[flow'.step] \in Nat
  BY <1>1, <1>4, RankTyped
<1>6. Rank[flow.step] > 4 /\ Rank[flow'.step] > 5 /\ Rank[flow.step] <= Rank[flow'.step]
  BY <1>3, <1>5
<1>7. Tallied(flow')
  <2>1. Tallied(flow)
    BY <1>1 DEF CastPlan
  <2> QED
    BY <1>1, <1>3, <1>4, <1>6, <2>1, TalliedStays
<1>8. CastPlan(flow', before)
  BY <1>1, <1>3, <1>4, <1>6, <1>7, PlanGoesOn
<1> QED
  BY <1>3, <1>4, <1>8, PlannedIf

(* One more item chosen. *)
LEMMA ItemPlan ==
  ASSUME CastInv, Planned, CastAsking, before' = before, NEW o \in Objects, NEW dest \in Dests,
         flow' = [ChooseItem(flow, o, dest) EXCEPT !.cost = Cheaper(flow)],
         Rank[flow.step] > 7, Room(flow), o \notin AlreadyChosen,
         Fits(flow.way, [item |-> o, dest |-> dest, at |-> flow.step], before.zone[o])
  PROVE  Planned' /\ Balanced' /\ PaidInFull'
<1> DEFINE snap == flow.snap
           c == [item |-> o, dest |-> dest, at |-> flow.step]
           s == Append(flow.chosen, c)
           cost == Cheaper(flow)
<1>1. CastPlan(flow, before) /\ flow.step \in AllSteps /\ flow.chosen \in Seq(ChosenItems)
  BY CastPlanned
<1>2. flow \in CastFlows(snap) /\ flow.cost \in Int /\ flow.step \in CastSteps
  BY CastAskingFacts DEF CastAsking
<1>3. c \in ChosenItems
  BY <1>1 DEF ChosenItems, Dests
<1>4. s \in Seq(ChosenItems)
  BY <1>1, <1>3
<1>5. cost \in Int
  BY <1>2 DEF Cheaper
<1>6. c.at = flow.step /\ c.item = o
  OBVIOUS
<1> HIDE DEF snap, c
<1>7. flow' = [flow EXCEPT !.chosen = s, !.cost = cost]
  <2>1. ChooseItem(flow, o, dest) = [flow EXCEPT !.chosen = s]
    BY <1>2 DEF ChooseItem, CastFlows, c
  <2> HIDE DEF s, cost
  <2> QED
    BY <1>2, <2>1 DEF CastFlows, cost
<1>8. CastPlan(flow', before)
  <2>1. \A i \in DOMAIN flow.chosen : flow.chosen[i].item # c.item
    BY <1>6 DEF AlreadyChosen
  <2>2. Fits(flow.way, c, before.zone[c.item])
    BY <1>6 DEF c
  <2>3. flow \in CastFlows(flow.snap)
    BY <1>2 DEF snap
  <2> QED
    BY <1>1, <1>3, <1>6, <1>7, <2>1, <2>2, <2>3, ItemAdded
<1> HIDE DEF s, cost
<1>9. flow' \in CastFlows(snap) /\ flow'.step = flow.step
  BY <1>2, <1>4, <1>5, <1>7 DEF CastFlows
<1>10. flow' \in CastFlows(flow'.snap)
  BY <1>9 DEF CastFlows
<1> QED
  BY <1>2, <1>8, <1>9, <1>10, PlannedIf

(* A step that picks items of a menu until it is done. *)
LEMMA PickPlan ==
  ASSUME CastInv, Planned, CastAsking, NEW n, NEW menu \in SUBSET Objects, NEW dest \in Dests,
         NEW next \in CastSteps, Pick(n, menu, dest, next),
         Rank[flow.step] \in 8..16, Rank[next] = Rank[flow.step] + 1, Rank[next] \notin {13, 14},
         Number(flow, flow.step) < n => Room(flow),
         ~(Number(flow, flow.step) < n /\ menu # {}) => Done(flow),
         \A o \in menu : /\ Number(flow, flow.step) < n => o \notin AlreadyChosen
                         /\ Fits(flow.way, [item |-> o, dest |-> dest, at |-> flow.step], before.zone[o])
  PROVE  Planned' /\ Balanced' /\ PaidInFull'
<1>1. before' = before
  BY DEF Pick, Only
<1>2. Picking(n, menu) <=> (Number(flow, flow.step) < n /\ menu # {})
  BY DEF Picking, ChosenAt, Number, Chose
<1>3. flow \in CastFlows(flow.snap) /\ flow.step \in CastSteps /\ CastPlan(flow, before)
  BY CastAskingFacts, CastPlanned DEF CastAsking
<1>4. CASE Picking(n, menu)
  <2>1. PICK o \in menu : flow' = ChooseItem(flow, o, dest)
    BY <1>4 DEF Pick
  <2>2. flow.step # "DELVE_PICK"
    BY Ranks
  <2>3. flow' = [ChooseItem(flow, o, dest) EXCEPT !.cost = Cheaper(flow)]
    BY <1>3, <2>1, <2>2 DEF ChooseItem, Cheaper, CastFlows
  <2>4. /\ Rank[flow.step] > 7 /\ Room(flow) /\ o \in Objects /\ o \notin AlreadyChosen
        /\ Fits(flow.way, [item |-> o, dest |-> dest, at |-> flow.step], before.zone[o])
    BY <1>2, <1>4
  <2> QED
    BY <1>1, <2>3, <2>4, ItemPlan
<1>5. CASE ~Picking(n, menu)
  <2>1. Goto(next) /\ Done(flow) /\ Complete(flow)
    BY <1>2, <1>3, <1>5 DEF Pick, CastPlan
  <2>2. flow'.step = next /\ flow'.way = flow.way /\ flow'.chosen = flow.chosen /\ flow'.delving = flow.delving
    BY <1>3, <2>1 DEF Goto, CastFlows
  <2>3. Complete(flow')
    BY <1>3, <2>1, <2>2, DoneCompletes
  <2>4. Rank[next] > Rank[flow.step] /\ Rank[flow.step] > 7 /\ ~(Rank[next] = 13)
    OBVIOUS
  <2> QED
    BY <1>1, <2>1, <2>3, <2>4, StepPlan
<1> QED
  BY <1>4, <1>5

(* What is chosen so far: where each item comes from, and at which step it was chosen. *)
LEMMA ChosenSoFar ==
  ASSUME CastInv, Planned, CastAsking, NEW o \in AlreadyChosen
  PROVE  \E i \in DOMAIN flow.chosen :
            LET c == flow.chosen[i]
            IN  /\ c.item = o /\ c.at \in AllSteps /\ Rank[c.at] <= Rank[flow.step]
                /\ Fits(flow.way, c, before.zone[o])
                /\ i \in Chose(flow, c.at) /\ o # flow.way.card /\ o \in Objects
<1>1. CastPlan(flow, before) /\ flow.chosen \in Seq(ChosenItems)
  BY CastPlanned
<1>2. PICK i \in DOMAIN flow.chosen : flow.chosen[i].item = o
  BY DEF AlreadyChosen
<1>3. flow.chosen[i] \in ChosenItems
  BY <1>1, <1>2
<1>4. flow.chosen[i].at \in AllSteps /\ o \in Objects
  BY <1>2, <1>3 DEF ChosenItems
<1>5. Rank[flow.chosen[i].at] <= Rank[flow.step] /\ Fits(flow.way, flow.chosen[i], before.zone[o])
  BY <1>1, <1>2 DEF CastPlan, InOrder
<1>6. o # flow.way.card
  <2>1. Reversible /\ Casting
    BY CastAskingFacts DEF Proposing, Reversible, CastAsking
  <2> QED
    BY <1>2, <2>1 DEF CastInv, Found, ItemsOffStack, ItemsOf
<1> QED
  BY <1>2, <1>4, <1>5, <1>6 DEF Chose

(* What only one step can have chosen it has chosen. *)
LEMMA ChosenThere ==
  ASSUME CastInv, Planned, CastAsking, NEW S \in SUBSET AlreadyChosen, NEW s,
         \A c \in ChosenItems : /\ c.item \in S /\ Fits(flow.way, c, before.zone[c.item])
                                /\ Rank[c.at] <= Rank[flow.step]
                                => c.at = s
  PROVE  /\ S \subseteq ItemsAt(flow, s)
         /\ Number(flow, s) >= Cardinality(S) /\ Cardinality(S) \in Nat
<1>1. flow.chosen \in Seq(ChosenItems)
  BY CastPlanned
<1>2. ASSUME NEW o \in S
      PROVE  o \in Objects /\ \E i \in Chose(flow, s) : flow.chosen[i].item = o
  <2>1. PICK i \in DOMAIN flow.chosen :
            LET c == flow.chosen[i]
            IN  /\ c.item = o /\ c.at \in AllSteps /\ Rank[c.at] <= Rank[flow.step]
                /\ Fits(flow.way, c, before.zone[o])
                /\ i \in Chose(flow, c.at) /\ o # flow.way.card /\ o \in Objects
    BY ChosenSoFar
  <2>2. flow.chosen[i] \in ChosenItems
    BY <1>1, <2>1
  <2>3. flow.chosen[i].at = s
    BY <2>1, <2>2
  <2> QED
    BY <2>1, <2>3
<1>3. S \in SUBSET Objects
  BY <1>2
<1>4. Number(flow, s) >= Cardinality(S) /\ Cardinality(S) \in Nat
  BY <1>1, <1>2, <1>3, AllChosen
<1>5. S \subseteq ItemsAt(flow, s)
  BY <1>2 DEF ItemsAt
<1> QED
  BY <1>4, <1>5

(* The costs of a way take different permanents, and only some ways have some costs. *)
LEMMA KindsApart ==
  \A c \in Casts :
     /\ c.sac \intersect c.flash_sac = {} /\ c.return.of \intersect c.alt_sac.of = {}
     /\ c.sac \intersect c.return.of = {} /\ c.sac \intersect c.alt_sac.of = {}
     /\ c.flash_sac \intersect c.return.of = {} /\ c.flash_sac \intersect c.alt_sac.of = {}
     /\ c.kind # "alt" => c.alt_sac.n = 0
     /\ c.kind # "flashback" => c.flash_sac = {}
     /\ c.types > 0 => c.kind = "escape" /\ ~c.delve /\ c.exile = 0
     /\ c.exile > 0 => c.kind = "escape" /\ ~c.delve /\ c.types = 0
<1>1. \A c \in Casts :
     /\ c.kind # "alt" => c.alt_sac.n = 0
     /\ c.kind # "flashback" => c.flash_sac = {}
     /\ c.kind = "escape" => ~c.delve /\ 0 \in {c.types, c.exile}
     /\ c.kind # "escape" => c.types = 0 /\ c.exile = 0
  BY KindsAssumption
<1>2. \A c \in Casts :
     /\ c.types > 0 => c.kind = "escape" /\ ~c.delve /\ c.exile = 0
     /\ c.exile > 0 => c.kind = "escape" /\ ~c.delve /\ c.types = 0
  BY <1>1, WayNumbers
<1>3. \A c \in Casts :
     /\ c.sac \intersect c.flash_sac = {} /\ c.return.of \intersect c.alt_sac.of = {}
     /\ (c.sac \union c.flash_sac) \intersect (c.return.of \union c.alt_sac.of) = {}
  BY CostsApartAssumption DEF Apart
<1>4. \A c \in Casts :
     /\ c.sac \intersect c.return.of = {} /\ c.sac \intersect c.alt_sac.of = {}
     /\ c.flash_sac \intersect c.return.of = {} /\ c.flash_sac \intersect c.alt_sac.of = {}
  BY <1>3
<1> QED
  BY <1>1, <1>2, <1>3, <1>4

(* At which step an item of the battlefield or of the graveyard was chosen. *)
LEMMA WhereChosen ==
  ASSUME NEW w, NEW c, NEW z, Fits(w, c, z)
  PROVE  /\ z = "field" => \/ c.at = "ALT_RETURN" /\ c.item \in w.return.of
                           \/ c.at = "ALT_SAC" /\ c.item \in w.alt_sac.of
                           \/ c.at = "SPELL_SAC" /\ c.item \in w.sac
                           \/ c.at = "DEF_SAC" /\ c.item \in w.flash_sac
         /\ z = "yard" => \/ c.at = "DELVE_PICK" /\ w.delve
                          \/ c.at = "DEF_EXILE_TYPES" /\ w.types > 0
                          \/ c.at = "DEF_EXILE_COUNT"
BY DEF Fits

(* What a step of the cost items starts from. *)
LEMMA AskingFacts ==
  ASSUME CastInv, Planned, CastAsking
  PROVE  /\ flow.way \in Casts /\ flow.step \in CastSteps /\ flow.chosen \in Seq(ChosenItems)
         /\ Limited(flow) /\ Gated(flow.way, before) /\ Delvable(flow, before)
         /\ \A s : Number(flow, s) \in Nat
         /\ flow.way.sac \in SUBSET Objects /\ flow.way.flash_sac \in SUBSET Objects
         /\ flow.way.pitch.of \in SUBSET Objects /\ flow.way.return.of \in SUBSET Objects
         /\ flow.way.alt_sac.of \in SUBSET Objects
         /\ flow.way.pitch.n \in Nat /\ flow.way.return.n \in Nat /\ flow.way.alt_sac.n \in Nat
         /\ flow.way.types \in Nat /\ flow.way.exile \in Nat
<1>1. flow.way \in Casts /\ flow.step \in CastSteps
  BY CastAskingFacts DEF CastAsking
<1>2. CastPlan(flow, before) /\ flow.chosen \in Seq(ChosenItems)
  BY CastPlanned
<1>3. \A s : Number(flow, s) \in Nat
  BY <1>2, NumberTyped
<1>4. /\ flow.way.sac \in SUBSET Objects /\ flow.way.flash_sac \in SUBSET Objects
      /\ flow.way.pitch.of \in SUBSET Objects /\ flow.way.return.of \in SUBSET Objects
      /\ flow.way.alt_sac.of \in SUBSET Objects
  BY <1>1, WaysTyped
<1>5. /\ flow.way.pitch.n \in Nat /\ flow.way.return.n \in Nat /\ flow.way.alt_sac.n \in Nat
      /\ flow.way.types \in Nat /\ flow.way.exile \in Nat
  BY <1>1, WayNumbers
<1>6. Limited(flow) /\ Gated(flow.way, before) /\ Delvable(flow, before)
  BY <1>2 DEF CastPlan
<1> QED
  BY <1>1, <1>2, <1>3, <1>4, <1>5, <1>6

(* The pitched cards and the permanents returned to the hand. *)
LEMMA PitchPlan ==
  ASSUME CastInv, Planned, CastAsking, AltPitch
  PROVE  Planned' /\ Balanced' /\ PaidInFull'
<1> DEFINE w == flow.way
<1>1. flow.step = "ALT_PITCH" /\ Pick(w.pitch.n, PitchMenu, "exile", "ALT_RETURN")
  BY CastAskingFacts DEF AltPitch
<1>2. Number(flow, flow.step) <= w.pitch.n
  BY <1>1, AskingFacts DEF Limited
<1>3. Number(flow, flow.step) < w.pitch.n => PitchMenu # {}
  BY <1>1 DEF AltPitch, Picking, ChosenAt, Number, Chose
<1>4. PitchMenu \in SUBSET Objects
  BY AskingFacts DEF PitchMenu, InHand
<1>5. Number(flow, flow.step) < w.pitch.n => Room(flow)
  BY <1>1 DEF Room
<1>6. ~(Number(flow, flow.step) < w.pitch.n /\ PitchMenu # {}) => Done(flow)
  <2>1. Number(flow, flow.step) \in Nat /\ w.pitch.n \in Nat
    BY AskingFacts
  <2> QED
    BY <1>1, <1>2, <1>3, <2>1 DEF Done
<1>7. ASSUME NEW o \in PitchMenu
      PROVE  /\ o \notin AlreadyChosen
             /\ Fits(w, [item |-> o, dest |-> "exile", at |-> flow.step], before.zone[o])
  <2>1. before.zone[o] = "hand"
    <3>1. o \in InHand(w.pitch.of) \ {w.card} /\ w.pitch.of \in SUBSET Objects
      BY AskingFacts DEF PitchMenu
    <3> QED
      BY <3>1, SameBoard
  <2> QED
    BY <1>1, <2>1 DEF PitchMenu, InHand, Fits
<1>8. "exile" \in Dests /\ "ALT_RETURN" \in CastSteps
  BY DEF Dests, CastSteps
<1>9. /\ Rank[flow.step] \in 8..16 /\ Rank["ALT_RETURN"] = Rank[flow.step] + 1
      /\ Rank["ALT_RETURN"] \notin {13, 14}
  BY <1>1, Ranks
<1> QED
  BY <1>1, <1>4, <1>5, <1>6, <1>7, <1>8, <1>9, PickPlan

(* The permanents returned for an alternative cost are chosen (ALT_RETURN). *)
LEMMA ReturnPlan ==
  ASSUME CastInv, Planned, CastAsking, AltReturn
  PROVE  Planned' /\ Balanced' /\ PaidInFull'
<1> DEFINE w == flow.way
<1>1. flow.step = "ALT_RETURN" /\ Pick(w.return.n, ReturnMenu, "hand", "ALT_SAC")
  BY CastAskingFacts DEF AltReturn
<1>2. Number(flow, flow.step) <= w.return.n
  BY <1>1, AskingFacts DEF Limited
<1>3. Number(flow, flow.step) < w.return.n => ReturnMenu # {}
  BY <1>1 DEF AltReturn, Picking, ChosenAt, Number, Chose
<1>4. ReturnMenu \in SUBSET Objects
  BY AskingFacts DEF ReturnMenu, Controlled
<1>5. Number(flow, flow.step) < w.return.n => Room(flow)
  BY <1>1 DEF Room
<1>6. ~(Number(flow, flow.step) < w.return.n /\ ReturnMenu # {}) => Done(flow)
  <2>1. Number(flow, flow.step) \in Nat /\ w.return.n \in Nat
    BY AskingFacts
  <2> QED
    BY <1>1, <1>2, <1>3, <2>1 DEF Done
<1>7. ASSUME NEW o \in ReturnMenu
      PROVE  /\ o \notin AlreadyChosen
             /\ Fits(w, [item |-> o, dest |-> "hand", at |-> flow.step], before.zone[o])
  <2>1. o \in On(before, w.return.of)
    BY AskingFacts, SameBoard DEF ReturnMenu
  <2> QED
    BY <1>1, <2>1 DEF ReturnMenu, On, OnField, Fits
<1>8. "hand" \in Dests /\ "ALT_SAC" \in CastSteps
  BY DEF Dests, CastSteps
<1>9. /\ Rank[flow.step] \in 8..16 /\ Rank["ALT_SAC"] = Rank[flow.step] + 1
      /\ Rank["ALT_SAC"] \notin {13, 14}
  BY <1>1, Ranks
<1> QED
  BY <1>1, <1>4, <1>5, <1>6, <1>7, <1>8, <1>9, PickPlan

(* The permanents an alternative cost sacrifices: those it was offered on are there to be chosen, as
   nothing else of the cost can have taken one. *)
LEMMA AltSacPlan ==
  ASSUME CastInv, Planned, CastAsking, AltSac
  PROVE  Planned' /\ Balanced' /\ PaidInFull'
<1> DEFINE w == flow.way
           n == w.alt_sac.n
<1>1. flow.step = "ALT_SAC" /\ Pick(n, AltSacMenu, "yard", "SPELL_SAC")
  BY CastAskingFacts DEF AltSac
<1>2. Number(flow, flow.step) <= n /\ Number(flow, flow.step) \in Nat /\ n \in Nat
  BY <1>1, AskingFacts DEF Limited
<1>3. Controlled(w.alt_sac.of) = On(before, w.alt_sac.of) /\ w \in Casts
  BY AskingFacts, SameBoard
<1>4. AltSacMenu \in SUBSET Objects
  BY AskingFacts DEF AltSacMenu, Controlled
<1>5. Number(flow, flow.step) < n => Room(flow)
  BY <1>1 DEF Room
<1>6. ~(Number(flow, flow.step) < n /\ AltSacMenu # {}) => Done(flow)
  <2>1. ASSUME AltSacMenu = {}
        PROVE  Number(flow, flow.step) = n
    <3>1. CASE w.kind # "alt"
      BY <1>2, <1>3, <3>1, KindsApart
    <3>2. CASE w.kind = "alt"
      <4> DEFINE S == On(before, w.alt_sac.of)
      <4>1. S \in SUBSET AlreadyChosen
        BY <1>3, <2>1 DEF AltSacMenu
      <4>2. ASSUME NEW c \in ChosenItems, c.item \in S, Fits(w, c, before.zone[c.item]),
                   Rank[c.at] <= Rank[flow.step]
            PROVE  c.at = "ALT_SAC"
        <5>1. before.zone[c.item] = "field" /\ c.item \in w.alt_sac.of
          BY <4>2 DEF On, OnField
        <5> QED
          BY <1>1, <1>3, <4>2, <5>1, WhereChosen, KindsApart, Ranks
      <4> HIDE DEF S
      <4>3. Number(flow, "ALT_SAC") >= Cardinality(S) /\ Cardinality(S) \in Nat
        BY <4>1, <4>2, ChosenThere
      <4>4. Cardinality(S) >= n
        BY <3>2, AskingFacts DEF Gated, S
      <4> QED
        BY <1>1, <1>2, <4>3, <4>4
    <3> QED
      BY <3>1, <3>2
  <2> QED
    BY <1>1, <1>2, <2>1 DEF Done
<1>7. ASSUME NEW o \in AltSacMenu
      PROVE  /\ o \notin AlreadyChosen
             /\ Fits(w, [item |-> o, dest |-> "yard", at |-> flow.step], before.zone[o])
  <2>1. o \in On(before, w.alt_sac.of)
    BY <1>3 DEF AltSacMenu
  <2> QED
    BY <1>1, <2>1 DEF AltSacMenu, On, OnField, Fits
<1>8. "yard" \in Dests /\ "SPELL_SAC" \in CastSteps
  BY DEF Dests, CastSteps
<1>9. /\ Rank[flow.step] \in 8..16 /\ Rank["SPELL_SAC"] = Rank[flow.step] + 1
      /\ Rank["SPELL_SAC"] \notin {13, 14}
  BY <1>1, Ranks
<1> QED
  BY <1>1, <1>4, <1>5, <1>6, <1>7, <1>8, <1>9, PickPlan

(* The additional sacrifice: a spell offered for its own costs has a permanent to sacrifice, and one
   that matches no other cost. *)
LEMMA SpellSacPlan ==
  ASSUME CastInv, Planned, CastAsking, SpellSac
  PROVE  Planned' /\ Balanced' /\ PaidInFull'
<1> DEFINE w == flow.way
<1>1. flow.step = "SPELL_SAC" /\ Pick(1, Controlled(w.sac), "yard", "DELVE_COUNT")
  BY CastAskingFacts DEF SpellSac
<1>2. Number(flow, flow.step) <= 1 /\ Number(flow, flow.step) \in Nat
  BY <1>1, AskingFacts DEF Limited
<1>3. Controlled(w.sac) = On(before, w.sac) /\ w \in Casts
  BY AskingFacts, SameBoard
<1>4. Controlled(w.sac) \in SUBSET Objects
  BY AskingFacts DEF Controlled
<1>5. Number(flow, flow.step) < 1 => Room(flow)
  BY <1>1 DEF Room
<1>6. ~(Number(flow, flow.step) < 1 /\ Controlled(w.sac) # {}) => Done(flow)
  <2>1. w.kind = "regular" /\ w.sac # {} => Controlled(w.sac) # {}
    BY <1>3, AskingFacts DEF Gated
  <2> QED
    BY <1>1, <1>2, <2>1 DEF Done
<1>7. ASSUME NEW o \in Controlled(w.sac)
      PROVE  /\ Number(flow, flow.step) < 1 => o \notin AlreadyChosen
             /\ Fits(w, [item |-> o, dest |-> "yard", at |-> flow.step], before.zone[o])
  <2>1. o \in w.sac /\ before.zone[o] = "field" /\ o \in Objects
    BY <1>3, <1>4 DEF On, OnField
  <2>2. ASSUME o \in AlreadyChosen
        PROVE  Number(flow, flow.step) >= 1
    <3>1. ASSUME NEW c \in ChosenItems, c.item \in {o}, Fits(w, c, before.zone[c.item]),
                 Rank[c.at] <= Rank[flow.step]
          PROVE  c.at = "SPELL_SAC"
      BY <1>1, <1>3, <2>1, <3>1, WhereChosen, KindsApart, Ranks
    <3>2. Number(flow, "SPELL_SAC") >= Cardinality({o})
      BY <2>2, <3>1, ChosenThere
    <3>3. Cardinality({o}) = 1
      BY FS_Singleton
    <3> QED
      BY <1>1, <3>2, <3>3
  <2> QED
    BY <1>1, <1>2, <2>1, <2>2 DEF Fits
<1>8. "yard" \in Dests /\ "DELVE_COUNT" \in CastSteps
  BY DEF Dests, CastSteps
<1>9. /\ Rank[flow.step] \in 8..16 /\ Rank["DELVE_COUNT"] = Rank[flow.step] + 1
      /\ Rank["DELVE_COUNT"] \notin {13, 14}
  BY <1>1, Ranks
<1> QED
  BY <1>1, <1>4, <1>5, <1>6, <1>7, <1>8, <1>9, PickPlan

(* Flashback's sacrifice. *)
LEMMA DefSacPlan ==
  ASSUME CastInv, Planned, CastAsking, DefSac
  PROVE  Planned' /\ Balanced' /\ PaidInFull'
<1> DEFINE w == flow.way
<1>1. flow.step = "DEF_SAC" /\ Pick(1, Controlled(w.flash_sac), "yard", "DEF_EXILE_TYPES")
  BY CastAskingFacts DEF DefSac
<1>2. Number(flow, flow.step) <= 1 /\ Number(flow, flow.step) \in Nat
  BY <1>1, AskingFacts DEF Limited
<1>3. Controlled(w.flash_sac) = On(before, w.flash_sac) /\ w \in Casts
  BY AskingFacts, SameBoard
<1>4. Controlled(w.flash_sac) \in SUBSET Objects
  BY AskingFacts DEF Controlled
<1>5. Number(flow, flow.step) < 1 => Room(flow)
  BY <1>1 DEF Room
<1>6. ~(Number(flow, flow.step) < 1 /\ Controlled(w.flash_sac) # {}) => Done(flow)
  <2>1. w.flash_sac # {} => Controlled(w.flash_sac) # {}
    BY <1>3, AskingFacts, KindsApart DEF Gated
  <2> QED
    BY <1>1, <1>2, <2>1 DEF Done
<1>7. ASSUME NEW o \in Controlled(w.flash_sac)
      PROVE  /\ Number(flow, flow.step) < 1 => o \notin AlreadyChosen
             /\ Fits(w, [item |-> o, dest |-> "yard", at |-> flow.step], before.zone[o])
  <2>1. o \in w.flash_sac /\ before.zone[o] = "field" /\ o \in Objects
    BY <1>3, <1>4 DEF On, OnField
  <2>2. ASSUME o \in AlreadyChosen
        PROVE  Number(flow, flow.step) >= 1
    <3>1. ASSUME NEW c \in ChosenItems, c.item \in {o}, Fits(w, c, before.zone[c.item]),
                 Rank[c.at] <= Rank[flow.step]
          PROVE  c.at = "DEF_SAC"
      BY <1>1, <1>3, <2>1, <3>1, WhereChosen, KindsApart
    <3>2. Number(flow, "DEF_SAC") >= Cardinality({o})
      BY <2>2, <3>1, ChosenThere
    <3>3. Cardinality({o}) = 1
      BY FS_Singleton
    <3> QED
      BY <1>1, <3>2, <3>3
  <2> QED
    BY <1>1, <1>2, <2>1, <2>2 DEF Fits
<1>8. "yard" \in Dests /\ "DEF_EXILE_TYPES" \in CastSteps
  BY DEF Dests, CastSteps
<1>9. /\ Rank[flow.step] \in 8..16 /\ Rank["DEF_EXILE_TYPES"] = Rank[flow.step] + 1
      /\ Rank["DEF_EXILE_TYPES"] \notin {13, 14}
  BY <1>1, Ranks
<1> QED
  BY <1>1, <1>4, <1>5, <1>6, <1>7, <1>8, <1>9, PickPlan

(* The types of some of the objects are finitely many, and of more objects at least as many. *)
LEMMA TypesGrow ==
  ASSUME NEW S \in SUBSET Objects, NEW T \in SUBSET S
  PROVE  /\ Cardinality(TypesIn(S)) \in Nat /\ Cardinality(TypesIn(T)) \in Nat
         /\ Cardinality(TypesIn(T)) <= Cardinality(TypesIn(S))
<1> DEFINE types == [o \in S |-> TypesOf[o]]
           all == {TypesOf[o] : o \in S}
<1>1. IsFiniteSet(S)
  BY ObjectsAssumption, FS_Subset
<1>2. types \in Surjection(S, all)
  BY DEF Surjection
<1>3. \A t \in all : IsFiniteSet(t)
  BY TypesOfAssumption
<1> HIDE DEF types, all
<1>4. IsFiniteSet(all)
  BY <1>1, <1>2, FS_Surjection
<1>5. IsFiniteSet(TypesIn(S))
  BY <1>3, <1>4, FS_UNION DEF TypesIn, all
<1>6. TypesIn(T) \subseteq TypesIn(S)
  BY DEF TypesIn
<1> QED
  BY <1>5, <1>6, FS_Subset, FS_CardinalityType

(* Fewer items than objects are chosen at any step: the card that is cast is none of them. *)
LEMMA FewerThanObjects ==
  ASSUME CastInv, Planned, CastAsking, NEW s
  PROVE  Number(flow, s) < Cardinality(Objects) /\ ItemsAt(flow, s) \in SUBSET Objects
<1> DEFINE D == Chose(flow, s)
           O == Objects \ {flow.way.card}
           it == [i \in D |-> flow.chosen[i].item]
<1>1. /\ CastPlan(flow, before) /\ flow.way.card \in Objects /\ flow.way \in Casts
      /\ flow.chosen \in Seq(ChosenItems)
  BY AskingFacts, CastPlanned, WaysTyped
<1>2. ASSUME NEW i \in D
      PROVE  flow.chosen[i].item \in O
  <2>1. flow.chosen[i].item \in AlreadyChosen
    BY DEF Chose, AlreadyChosen
  <2> QED
    BY <2>1, ChosenSoFar
<1>3. it \in [D -> O] /\ \A i, j \in D : it[i] = it[j] => i = j
  <2>1. it \in [D -> O]
    BY <1>2
  <2>2. \A i, j \in D : flow.chosen[i].item = flow.chosen[j].item => i = j
    BY <1>1 DEF CastPlan, InOrder, Chose
  <2> QED
    BY <2>1, <2>2
<1> HIDE DEF it, D
<1>4. it \in Injection(D, O)
  BY <1>3 DEF Injection, IsInjective
<1>5. IsFiniteSet(O) /\ Cardinality(O) = Cardinality(Objects) - 1
  BY <1>1, ObjectsAssumption, FS_RemoveElement
<1>6. Cardinality(D) <= Cardinality(O)
  BY <1>4, <1>5, FS_Injection
<1>7. Cardinality(D) \in Nat /\ Cardinality(Objects) \in Nat
  BY <1>1, ObjectsAssumption, FS_CardinalityType, NumberTyped DEF D, Number
<1>8. ItemsAt(flow, s) \in SUBSET Objects
  BY <1>2 DEF D, ItemsAt
<1> QED
  BY <1>5, <1>6, <1>7, <1>8 DEF Number, D

(* The cards a graveyard still offers. *)
LEMMA BuriedFacts ==
  ASSUME CastInv, Planned, CastAsking
  PROVE  /\ ExileMenu = Buried(before, flow.way) \ AlreadyChosen
         /\ DelveMenu = Buried(before, flow.way) \ AlreadyChosen
         /\ Buried(before, flow.way) \in SUBSET Objects
         /\ Cardinality(Buried(before, flow.way)) \in Nat
<1>1. Yard(game) = Buried(before, flow.way) /\ Buried(before, flow.way) \in SUBSET Objects
  BY SameBoard
<1>2. ExileMenu = Buried(before, flow.way) \ AlreadyChosen
  BY <1>1 DEF ExileMenu, Buried
<1>3. Cardinality(Buried(before, flow.way)) \in Nat
  BY <1>1, ObjectsAssumption, FS_Subset, FS_CardinalityType
<1> QED
  BY <1>1, <1>2, <1>3 DEF DelveMenu

(* Escape's cards of so many types: those it was offered on are there, and none was chosen before. *)
LEMMA ExileTypesPlan ==
  ASSUME CastInv, Planned, CastAsking, DefExileTypes
  PROVE  Planned' /\ Balanced' /\ PaidInFull'
<1> DEFINE w == flow.way
           I == ItemsAt(flow, "DEF_EXILE_TYPES")
           B == Buried(before, w)
           N == Cardinality(Objects)
<1>1. flow.step = "DEF_EXILE_TYPES" /\ w \in Casts /\ w.types \in Nat /\ before' = before
  BY CastAskingFacts, AskingFacts DEF DefExileTypes, Only, Pick
<1>2. ExiledTypes = TypesIn(I)
  BY DEF ExiledTypes, TypesIn, ItemsAt, ChosenAt, Chose
<1>3. I \in SUBSET Objects /\ Number(flow, flow.step) < N
  BY <1>1, FewerThanObjects
<1>4. Cardinality(TypesIn(I)) \in Nat
  BY <1>3, TypesGrow
<1>5. "exile" \in Dests /\ "DEF_EXILE_COUNT" \in CastSteps
  BY DEF Dests, CastSteps
<1>6. /\ Rank[flow.step] \in 8..16 /\ Rank["DEF_EXILE_COUNT"] = Rank[flow.step] + 1
      /\ Rank["DEF_EXILE_COUNT"] \notin {13, 14}
  BY <1>1, Ranks
<1>7. CASE ~(Cardinality(TypesIn(I)) < w.types)
  <2>1. Goto("DEF_EXILE_COUNT")
    BY <1>2, <1>7 DEF DefExileTypes
  <2>2. Done(flow)
    BY <1>1, <1>4, <1>7 DEF Done
  <2>3. /\ flow'.step = "DEF_EXILE_COUNT" /\ flow'.way = flow.way /\ flow'.chosen = flow.chosen
        /\ flow'.delving = flow.delving
    BY <2>1, CastAskingFacts DEF Goto, CastFlows
  <2>4. Rank["DEF_EXILE_COUNT"] > Rank[flow.step] /\ Rank[flow.step] > 7 /\ ~(Rank["DEF_EXILE_COUNT"] = 13)
    BY <1>6
  <2>5. Complete(flow')
    <3>1. Complete(flow) /\ flow.step \in CastSteps
      BY CastPlanned, AskingFacts DEF CastPlan
    <3> QED
      BY <1>5, <1>6, <2>2, <2>3, <2>4, <3>1, DoneCompletes
  <2> QED
    BY <1>1, <1>5, <2>1, <2>4, <2>5, StepPlan
<1>8. CASE Cardinality(TypesIn(I)) < w.types
  <2>1. Pick(N, ExileMenu, "exile", "DEF_EXILE_COUNT") /\ w.types > 0
    BY <1>1, <1>2, <1>4, <1>8 DEF DefExileTypes
  <2>2. w.kind = "escape" /\ ~w.delve
    BY <1>1, <2>1, KindsApart
  <2>3. ExileMenu = B \ AlreadyChosen /\ B \in SUBSET Objects
    BY BuriedFacts
  <2>4. ExileMenu # {}
    <3> SUFFICES ASSUME ExileMenu = {}
                 PROVE  FALSE
      OBVIOUS
    <3>1. B \in SUBSET AlreadyChosen
      BY <2>3
    <3>2. ASSUME NEW c \in ChosenItems, c.item \in B, Fits(w, c, before.zone[c.item]),
                 Rank[c.at] <= Rank[flow.step]
          PROVE  c.at = "DEF_EXILE_TYPES"
      <4>1. before.zone[c.item] = "yard"
        BY <3>2, SameBoard
      <4> QED
        BY <1>1, <2>2, <3>2, <4>1, WhereChosen, Ranks
    <3>3. B \subseteq I
      <4> HIDE DEF B
      <4> QED
        BY <3>1, <3>2, ChosenThere
    <3>4. Cardinality(TypesIn(B)) <= Cardinality(TypesIn(I)) /\ Cardinality(TypesIn(B)) \in Nat
      BY <1>3, <3>3, TypesGrow
    <3>5. Cardinality(TypesIn(B)) >= w.types
      BY <2>2, AskingFacts DEF Gated
    <3> QED
      BY <1>1, <1>4, <1>8, <3>4, <3>5
  <2>5. ASSUME NEW o \in ExileMenu
        PROVE  /\ o \notin AlreadyChosen
               /\ Fits(w, [item |-> o, dest |-> "exile", at |-> flow.step], before.zone[o])
    <3>1. before.zone[o] = "yard"
      BY <2>3, SameBoard
    <3> QED
      BY <1>1, <2>1, <2>3, <3>1 DEF Fits
  <2>6. Room(flow)
    BY <1>1 DEF Room
  <2>7. ExileMenu \in SUBSET Objects
    BY <2>3
  <2> HIDE DEF N
  <2> QED
    BY <1>3, <1>5, <1>6, <2>1, <2>4, <2>5, <2>6, <2>7, PickPlan
<1> QED
  BY <1>7, <1>8

(* Escape's cards by number. *)
LEMMA ExileCountPlan ==
  ASSUME CastInv, Planned, CastAsking, DefExileCount
  PROVE  Planned' /\ Balanced' /\ PaidInFull'
<1> DEFINE w == flow.way
           B == Buried(before, w)
<1>1. flow.step = "DEF_EXILE_COUNT" /\ Pick(w.exile, ExileMenu, "exile", "MANA_PAY") /\ w \in Casts
  BY CastAskingFacts DEF DefExileCount
<1>2. Number(flow, flow.step) <= w.exile /\ Number(flow, flow.step) \in Nat /\ w.exile \in Nat
  BY <1>1, AskingFacts DEF Limited
<1>3. ExileMenu = B \ AlreadyChosen /\ B \in SUBSET Objects
  BY BuriedFacts
<1>4. ~(Number(flow, flow.step) < w.exile /\ ExileMenu # {}) => Done(flow)
  <2>1. ASSUME Number(flow, flow.step) < w.exile
        PROVE  ExileMenu # {}
    <3> SUFFICES ASSUME ExileMenu = {}
                 PROVE  FALSE
      OBVIOUS
    <3>1. w.kind = "escape" /\ ~w.delve /\ w.types = 0
      BY <1>1, <1>2, <2>1, KindsApart
    <3>2. B \in SUBSET AlreadyChosen
      BY <1>3
    <3>3. ASSUME NEW c \in ChosenItems, c.item \in B, Fits(w, c, before.zone[c.item]),
                 Rank[c.at] <= Rank[flow.step]
          PROVE  c.at = "DEF_EXILE_COUNT"
      <4>1. before.zone[c.item] = "yard"
        BY <3>3, SameBoard
      <4> QED
        BY <3>1, <3>3, <4>1, WhereChosen
    <3>4. Number(flow, "DEF_EXILE_COUNT") >= Cardinality(B) /\ Cardinality(B) \in Nat
      <4> HIDE DEF B
      <4> QED
        BY <3>2, <3>3, ChosenThere
    <3>5. Cardinality(B) >= w.exile
      BY <3>1, AskingFacts DEF Gated
    <3> QED
      BY <1>1, <1>2, <2>1, <3>4, <3>5
  <2> QED
    BY <1>1, <1>2, <2>1 DEF Done
<1>5. ASSUME NEW o \in ExileMenu
      PROVE  /\ o \notin AlreadyChosen
             /\ Fits(w, [item |-> o, dest |-> "exile", at |-> flow.step], before.zone[o])
  <2>1. before.zone[o] = "yard"
    BY <1>3, SameBoard
  <2> QED
    BY <1>1, <1>3, <2>1 DEF Fits
<1>6. Number(flow, flow.step) < w.exile => Room(flow)
  BY <1>1 DEF Room
<1>7. ExileMenu \in SUBSET Objects
  BY <1>3
<1>8. "exile" \in Dests /\ "MANA_PAY" \in CastSteps
  BY DEF Dests, CastSteps
<1>9. /\ Rank[flow.step] \in 8..16 /\ Rank["MANA_PAY"] = Rank[flow.step] + 1
      /\ Rank["MANA_PAY"] \notin {13, 14}
  BY <1>1, Ranks
<1> QED
  BY <1>1, <1>4, <1>5, <1>6, <1>7, <1>8, <1>9, PickPlan

(* The least of some natural numbers, if there is one, is one of them. *)
LEMMA LeastIsThere ==
  ASSUME NEW S \in SUBSET Nat, S # {}
  PROVE  Min(S) \in S
<1> DEFINE below == {p \in Nat \X Nat : p[1] < p[2]}
<1>1. IsWellFoundedOn(below, Nat)
  BY NatLessThanWellFounded DEF OpToRel
<1> HIDE DEF below
<1>2. PICK least \in S : \A n \in S : <<n, least>> \notin below
  BY <1>1, WFMin
<1>3. \A n \in S : ~(n < least)
  BY <1>2 DEF below
<1>4. \A n \in S : least <= n
  BY <1>3
<1> QED
  BY <1>2, <1>4 DEF Min

(* How much may be delved: no more cards than there are. *)
LEMMA DelveLadder ==
  ASSUME CastInv, Planned, CastAsking, Delving, NEW n \in DelveMin..DelveMax
  PROVE  n \in 0..Cardinality(Buried(before, flow.way))
<1>1. DelveEligible(game) = Cardinality(Buried(before, flow.way))
  BY SameBoard DEF DelveEligible
<1>2. DelveEligible(game) \in Nat /\ flow.cost \in Int
  BY <1>1, BuriedFacts, CastAskingFacts
<1>3. \A a, b \in Int : Min({a, b}) \in {a, b} /\ Min({a, b}) <= a
  <2> TAKE a, b \in Int
  <2>1. \E x \in {a, b} : \A y \in {a, b} : x <= y
    OBVIOUS
  <2>2. Min({a, b}) \in {a, b} /\ \A y \in {a, b} : Min({a, b}) <= y
    BY <2>1 DEF Min
  <2> QED
    BY <2>2
<1>4. DelveMax \in Int /\ DelveMax <= DelveEligible(game) /\ DelveMax > 0
  BY <1>2, <1>3 DEF DelveMax, Delving
<1> DEFINE S == {k \in 0..DelveMax :
                   k = DelveMax \/ CanPay(game, flow.cost - k, "none", Reserved(flow), flow.way.improvise)}
<1>5. DelveMin = Min(S) /\ S \in SUBSET Nat /\ DelveMax \in S
  <2>1. DelveMax \in 0..DelveMax
    BY <1>4
  <2> HIDE DEF DelveMax
  <2> QED
    BY <2>1 DEF DelveMin
<1> HIDE DEF S
<1>6. DelveMin \in Nat
  BY <1>5, LeastIsThere
<1> QED
  BY <1>1, <1>2, <1>4, <1>6

(* Nothing is delved before it is known how much. *)
LEMMA NotYetDelved ==
  ASSUME CastInv, Planned, CastAsking, flow.step = "DELVE_COUNT"
  PROVE  flow.delving = 0 /\ Number(flow, "DELVE_PICK") = 0
<1>1. Rank[flow.step] <= 12
  BY Ranks
<1>2. flow.delving = 0
  BY <1>1, AskingFacts DEF Delvable
<1> QED
  BY <1>2, AskingFacts DEF Limited

(* How many cards to delve. *)
LEMMA DelveCountPlan ==
  ASSUME CastInv, Planned, CastAsking, DelveCount
  PROVE  Planned' /\ Balanced' /\ PaidInFull'
<1> DEFINE snap == flow.snap
<1>1. flow.step = "DELVE_COUNT" /\ before' = before
  BY CastAskingFacts DEF DelveCount, Only
<1>2. /\ CastPlan(flow, before) /\ flow.step \in AllSteps /\ flow.chosen \in Seq(ChosenItems)
      /\ flow \in CastFlows(snap)
  BY CastAskingFacts, CastPlanned
<1>3. {"DEF_SAC", "DELVE_PICK"} \subseteq CastSteps
  BY DEF CastSteps
<1>4. flow.delving = 0 /\ Number(flow, "DELVE_PICK") = 0
  BY <1>1, NotYetDelved
<1>5. Rank[flow.step] = 12 /\ Rank["DEF_SAC"] = 14 /\ Rank["DELVE_PICK"] = 13
  BY <1>1, Ranks
<1> HIDE DEF snap
<1>6. ASSUME NEW g, g.way = flow.way, g.chosen = flow.chosen, Rank[g.step] \in {13, 14},
             Rank[g.step] = 14 => g.delving = 0
      PROVE  Complete(g)
  <2>1. \A s : Number(g, s) = Number(flow, s)
    BY <1>6 DEF Number, Chose
  <2>2. /\ ~(Rank[g.step] > 14) /\ ~(Rank[g.step] > 15) /\ ~(Rank[g.step] > 16)
        /\ Rank[g.step] > 13 => Rank[g.step] = 14
        /\ Rank[flow.step] > 8 /\ Rank[flow.step] > 9 /\ Rank[flow.step] > 10 /\ Rank[flow.step] > 11
    BY <1>5, <1>6
  <2>3. Complete(flow)
    BY <1>2 DEF CastPlan
  <2> QED
    BY <1>4, <1>6, <2>1, <2>2, <2>3 DEF Complete
<1>7. CASE ~Delving
  <2>1. Goto("DEF_SAC")
    BY <1>7 DEF DelveCount
  <2>2. /\ flow'.step = "DEF_SAC" /\ flow'.way = flow.way /\ flow'.chosen = flow.chosen
        /\ flow'.delving = flow.delving
    BY <1>2, <2>1 DEF Goto, CastFlows
  <2>3. Complete(flow')
    BY <1>4, <1>5, <1>6, <2>2
  <2>4. Rank["DEF_SAC"] > Rank[flow.step] /\ Rank[flow.step] > 7 /\ ~(Rank["DEF_SAC"] = 13)
    BY <1>5
  <2> QED
    BY <1>1, <1>3, <2>1, <2>3, <2>4, StepPlan
<1>8. CASE Delving
  <2>1. PICK n \in DelveMin..DelveMax : flow' = [flow EXCEPT !.step = "DELVE_PICK", !.delving = n]
    BY <1>8 DEF DelveCount
  <2>2. n \in 0..Cardinality(Buried(before, flow.way)) /\ flow.way.delve
    BY <1>8, DelveLadder DEF Delving
  <2>3. n \in Nat
    BY <2>2, BuriedFacts
  <2>4. /\ flow' \in CastFlows(snap) /\ flow'.step = "DELVE_PICK" /\ AsAnnounced(flow, flow')
        /\ flow'.chosen = flow.chosen /\ flow'.way = flow.way /\ flow'.delving = n
    <3>1. flow \in CastFlows(snap) /\ "DELVE_PICK" \in CastSteps /\ n \in Int
      BY <1>2, <1>3, <2>3
    <3> QED
      BY <2>1, <3>1 DEF CastFlows, AsAnnounced
  <2>5. flow'.step \in CastSteps /\ flow'.step \in AllSteps /\ flow' \in CastFlows(flow'.snap)
    BY <1>3, <2>4 DEF CastFlows, AllSteps
  <2>6. Tallied(flow')
    <3>1. Tallied(flow) /\ Rank[flow.step] > 4 /\ Rank[flow'.step] > 5
      BY <1>2, <1>5, <2>4 DEF CastPlan
    <3> QED
      BY <1>2, <2>4, <2>5, <3>1, TalliedStays
  <2>7. Complete(flow')
    BY <1>5, <1>6, <2>4
  <2>8. \A s : Number(flow', s) = Number(flow, s)
    BY <2>4 DEF Number, Chose
  <2>9. InOrder(flow')
    <3>1. ASSUME NEW i \in DOMAIN flow.chosen
          PROVE  Rank[flow.chosen[i].at] <= 13
      <4>1. flow.chosen[i] \in ChosenItems
        BY <1>2, <3>1
      <4>2. Rank[flow.chosen[i].at] \in Nat /\ Rank[flow.chosen[i].at] <= Rank[flow.step]
        BY <1>2, <4>1, RankTyped DEF CastPlan, InOrder, ChosenItems
      <4> QED
        BY <1>5, <4>2
    <3> QED
      BY <1>2, <1>5, <2>4, <3>1 DEF CastPlan, InOrder
  <2>10. Limited(flow')
    <3>1. Limited(flow) /\ Number(flow', "DELVE_PICK") <= flow'.delving
      BY <1>2, <1>4, <2>3, <2>4, <2>8 DEF CastPlan
    <3>2. flow'.way = flow.way
      BY <2>4
    <3> QED
      BY <2>8, <3>1, <3>2 DEF Limited
  <2>11. Delvable(flow', before)
    BY <1>5, <2>2, <2>4 DEF Delvable
  <2>12. CastPlan(flow', before)
    BY <1>2, <2>4, <2>6, <2>7, <2>9, <2>10, <2>11 DEF CastPlan
  <2> QED
    BY <1>1, <2>5, <2>12, PlannedIf
<1> QED
  BY <1>7, <1>8

(* Which cards: there are as many as were said, and each pays for one. *)
LEMMA DelvePickPlan ==
  ASSUME CastInv, Planned, CastAsking, DelvePick
  PROVE  Planned' /\ Balanced' /\ PaidInFull'
<1> DEFINE w == flow.way
           B == Buried(before, w)
<1>1. flow.step = "DELVE_PICK" /\ w \in Casts /\ before' = before
  BY CastAskingFacts DEF DelvePick, Only
<1>2. DelveMenu = B \ AlreadyChosen /\ B \in SUBSET Objects
  BY BuriedFacts
<1>3. /\ Rank[flow.step] = 13 /\ Rank["DEF_SAC"] = 14
      /\ Rank["DEF_EXILE_TYPES"] = 15 /\ Rank["DEF_EXILE_COUNT"] = 16
  BY <1>1, Ranks
<1>4. /\ w.delve /\ flow.delving \in Nat /\ flow.delving <= Cardinality(B)
      /\ Number(flow, flow.step) <= flow.delving /\ Number(flow, flow.step) \in Nat
  BY <1>1, <1>3, AskingFacts, BuriedFacts DEF Delvable, Limited
<1>5. Picking(flow.delving, DelveMenu) <=> (Number(flow, flow.step) < flow.delving /\ DelveMenu # {})
  BY DEF Picking, ChosenAt, Number, Chose
<1>6. "exile" \in Dests /\ "DEF_SAC" \in CastSteps /\ Rank[flow.step] > 7
      /\ Rank["DEF_SAC"] > Rank[flow.step] /\ ~(Rank["DEF_SAC"] = 13)
  BY <1>3 DEF Dests, CastSteps
<1>7. CASE Picking(flow.delving, DelveMenu)
  <2>1. PICK o \in DelveMenu : flow' = [ChooseItem(flow, o, "exile") EXCEPT !.cost = @ - 1]
    BY <1>7 DEF DelvePick
  <2>2. ChooseItem(flow, o, "exile").cost = flow.cost
    BY CastAskingFacts DEF ChooseItem, CastFlows
  <2>3. flow' = [ChooseItem(flow, o, "exile") EXCEPT !.cost = Cheaper(flow)]
    BY <1>1, <2>1, <2>2 DEF Cheaper
  <2>4. o \in Objects /\ o \notin AlreadyChosen /\ Room(flow)
    BY <1>1, <1>2, <1>5, <1>7 DEF Room
  <2>5. Fits(w, [item |-> o, dest |-> "exile", at |-> flow.step], before.zone[o])
    <3>1. before.zone[o] = "yard"
      BY <1>2, SameBoard
    <3> QED
      BY <1>1, <1>4, <3>1 DEF Fits
  <2> QED
    BY <1>1, <1>6, <2>3, <2>4, <2>5, ItemPlan
<1>8. CASE ~Picking(flow.delving, DelveMenu)
  <2>1. Goto("DEF_SAC")
    BY <1>8 DEF DelvePick
  <2>2. Number(flow, "DELVE_PICK") = flow.delving
    <3>1. CASE DelveMenu # {}
      BY <1>1, <1>4, <1>5, <1>8, <3>1
    <3>2. CASE DelveMenu = {}
      <4>1. B \in SUBSET AlreadyChosen
        BY <1>2, <3>2
      <4>2. w.types = 0
        <5>1. w.types \in Nat
          BY AskingFacts
        <5> QED
          BY <1>1, <1>4, <5>1, KindsApart
      <4>3. ASSUME NEW c \in ChosenItems, c.item \in B, Fits(w, c, before.zone[c.item]),
                   Rank[c.at] <= Rank[flow.step]
            PROVE  c.at = "DELVE_PICK"
        <5>1. before.zone[c.item] = "yard"
          BY <4>3, SameBoard
        <5> QED
          BY <1>3, <4>2, <4>3, <5>1, WhereChosen
      <4>4. Number(flow, "DELVE_PICK") >= Cardinality(B) /\ Cardinality(B) \in Nat
        <5> HIDE DEF B
        <5> QED
          BY <4>1, <4>3, ChosenThere
      <4> QED
        BY <1>1, <1>4, <4>4
    <3> QED
      BY <3>1, <3>2
  <2>3. Done(flow)
    BY <1>1, <2>2 DEF Done
  <2>4. /\ flow'.step = "DEF_SAC" /\ flow'.way = flow.way /\ flow'.chosen = flow.chosen
        /\ flow'.delving = flow.delving
    BY <2>1, CastAskingFacts DEF Goto, CastFlows
  <2>5. Complete(flow')
    <3>1. Complete(flow) /\ flow.step \in CastSteps
      BY CastPlanned, AskingFacts DEF CastPlan
    <3>2. Rank[flow'.step] = Rank[flow.step] + 1
      BY <1>3, <2>4
    <3> QED
      BY <1>6, <2>3, <2>4, <3>1, <3>2, DoneCompletes
  <2> QED
    BY <1>1, <1>6, <2>1, <2>5, StepPlan
<1> QED
  BY <1>7, <1>8

(* The choices of cost items keep the plan. *)
LEMMA ItemsPlan ==
  ASSUME CastInv, Planned,
         \/ AltPitch \/ AltReturn \/ AltSac \/ SpellSac \/ DelveCount \/ DelvePick \/ DefSac
         \/ DefExileTypes \/ DefExileCount
  PROVE  Planned' /\ Balanced' /\ PaidInFull'
<1>1. FlowTyped
  BY DEF CastInv
<1>2. CastAsking
  <2>1. flow # Idle /\ (Casting \/ Activating)
    BY <1>1, FlowKinds DEF CastInv, AltPitch, AltReturn, AltSac, SpellSac, DelveCount, DelvePick, DefSac,
       DefExileTypes, DefExileCount
  <2>2. flow.step \in {"ALT_PITCH", "ALT_RETURN", "ALT_SAC", "SPELL_SAC", "DELVE_COUNT", "DELVE_PICK",
                       "DEF_SAC", "DEF_EXILE_TYPES", "DEF_EXILE_COUNT"}
    BY <1>1, <2>1, FlowKinds DEF AltPitch, AltReturn, AltSac, SpellSac, DelveCount, DelvePick, DefSac,
       DefExileTypes, DefExileCount
  <2> QED
    BY <1>1, <2>1, <2>2, FlowKinds DEF CastAsking, CastSteps, ActivationFlows, ActivationSteps, PaySteps
<1> QED
  BY <1>2, PitchPlan, ReturnPlan, AltSacPlan, SpellSacPlan, DelveCountPlan, DelvePickPlan, DefSacPlan,
     ExileTypesPlan, ExileCountPlan

(* Nothing is chosen, and nothing counted, of an empty sequence of choices. *)
LEMMA NothingChosen ==
  ASSUME NEW f, f.chosen = <<>>
  PROVE  /\ InOrder(f) /\ \A s : Number(f, s) = 0
         /\ DOMAIN f.chosen = {}
<1>1. DOMAIN f.chosen = {}
  OBVIOUS
<1>2. \A s : Chose(f, s) = {}
  BY <1>1 DEF Chose
<1>3. \A s : Number(f, s) = 0
  BY <1>2, FS_EmptySet DEF Number
<1> QED
  BY <1>1, <1>3 DEF InOrder

(* A cast is proposed as planned: the items its costs want are there. *)
LEMMA ProposeCastPlan ==
  ASSUME CastInv, NEW c \in Casts, ProposeCast(c)
  PROVE  Planned' /\ Balanced' /\ PaidInFull'
<1> DEFINE f == NewCast(c)
<1>1. flow' = f /\ before' = game
  BY DEF ProposeCast
<1>2. /\ f.step = "COST" /\ f.way = c /\ f.kind = "cast" /\ f.chosen = <<>> /\ f.life_paid = 0
      /\ f.cost = 0 /\ f.kicked = 0 /\ f.replicated = 0 /\ f.x = 0 /\ f.pip = 0 /\ f.delving = 0
  BY DEF NewCast
<1> HIDE DEF f
<1>3. Rank[f.step] = 0
  BY <1>2, Ranks
<1>4. InOrder(f) /\ (\A s : Number(f, s) = 0) /\ DOMAIN f.chosen = {}
  BY <1>2, NothingChosen
<1>5. /\ c.pitch.n \in Nat /\ c.return.n \in Nat /\ c.alt_sac.n \in Nat /\ c.exile \in Nat
      /\ c.replicate \in Nat /\ c.x \in Nat
  BY WayNumbers
<1>6. Tallied(f)
  <2>1. Announced(f) = 0
    <3>1. 0 * c.replicate = 0 /\ 0 * c.x = 0
      BY <1>5
    <3> QED
      BY <1>2, <1>4, <3>1 DEF Announced
  <2>2. /\ 0 \in 0..f.pip /\ f.life_paid = 2 * 0 /\ f.cost = 0 + Announced(f) - 0
    BY <1>2, <2>1
  <2>3. ~(Rank[f.step] \in 1..5) /\ ~(Rank[f.step] > 4) /\ f.pip \in Nat
    BY <1>2, <1>3
  <2> QED
    BY <1>2, <1>3, <2>2, <2>3 DEF Tallied
<1>7. Limited(f) /\ Complete(f)
  <2>1. Limited(f)
    BY <1>2, <1>4, <1>5 DEF Limited
  <2>2. Complete(f)
    BY <1>3, NothingComplete
  <2> QED
    BY <2>1, <2>2
<1>8. Delvable(f, game)
  <2>1. Cardinality(Buried(game, c)) \in Nat
    <3>1. Buried(game, c) \in SUBSET Objects
      BY DEF Buried, Yard
    <3> QED
      BY <3>1, ObjectsAssumption, FS_Subset, FS_CardinalityType
  <2>2. 0 \in 0..Cardinality(Buried(game, c)) /\ ~(Rank[f.step] = 13)
    BY <1>3, <2>1
  <2> QED
    BY <1>2, <2>2 DEF Delvable
<1>9. Gated(c, game)
  <2>1. \A S : Controlled(S) = On(game, S)
    BY DEF Controlled, On
  <2>2. OtherYard(c) = Buried(game, c)
    BY DEF OtherYard, Buried
  <2>3. c.kind = "regular" /\ c.sac # {} => On(game, c.sac) # {}
    BY <2>1 DEF ProposeCast, Offered
  <2>4. c.kind = "alt" => Cardinality(On(game, c.alt_sac.of)) >= c.alt_sac.n
    BY <2>1 DEF ProposeCast, Offered, AltAffordable
  <2>5. c.kind = "flashback" /\ c.flash_sac # {} => On(game, c.flash_sac) # {}
    BY <2>1 DEF ProposeCast, Offered
  <2>6. c.kind = "escape" => /\ Cardinality(TypesIn(Buried(game, c))) >= c.types
                             /\ Cardinality(Buried(game, c)) >= c.exile
    BY <2>2 DEF ProposeCast, Offered, EscapeAffordable, TypesIn
  <2> QED
    BY <2>3, <2>4, <2>5, <2>6 DEF Gated
<1>10. CastPlan(f, game)
  BY <1>2, <1>4, <1>6, <1>7, <1>8, <1>9 DEF CastPlan
<1>11. CastPlan(flow, before)'
  BY <1>1, <1>10 DEF CastPlan, Tallied, InOrder, Limited, Complete, Delvable, Gated, Number, Chose
<1>12. Casting' /\ flow'.step \notin PaySteps /\ flow'.step # "FINISH"
  BY <1>1, <1>2 DEF Casting, PaySteps
<1> QED
  BY <1>11, <1>12 DEF Planned, Balanced, PaidInFull, At

(* An activation is proposed as planned. *)
LEMMA ProposeActivationPlan ==
  ASSUME CastInv, NEW a \in Abilities, ProposeActivation(a)
  PROVE  Planned' /\ Balanced' /\ PaidInFull'
<1> DEFINE f == NewActivation(a)
<1>1. flow' = f /\ before' = game
  BY DEF ProposeActivation
<1>2. /\ f.step \in {"X_LADDER", "ZONE_TARGET"} /\ f.way = a /\ f.kind = "activation" /\ f.chosen = <<>>
  BY DEF NewActivation
<1> HIDE DEF f
<1>3. Rank[f.step] \in {0, 1}
  BY <1>2, Ranks
<1>4. InOrder(f) /\ (\A s : Number(f, s) = 0) /\ DOMAIN f.chosen = {}
  BY <1>2, NothingChosen
<1>5. (a.sac # {} => On(game, a.sac) # {}) /\ (a.return # {} => On(game, a.return) # {})
  BY DEF ProposeActivation, Activatable, Controlled, On
<1>6. ~(Rank[f.step] > 8) /\ ~(Rank[f.step] > 9) /\ ~(Rank[f.step] > 17)
  BY <1>3
<1>7. ActivationPlan(f, game)
  BY <1>2, <1>4, <1>5, <1>6 DEF ActivationPlan
<1>8. ActivationPlan(flow, before)'
  BY <1>1, <1>7 DEF ActivationPlan, InOrder, Number, Chose
<1>9. ~Casting' /\ flow'.step \notin PaySteps /\ flow'.step # "FINISH"
  BY <1>1, <1>2 DEF Casting, PaySteps
<1> QED
  BY <1>8, <1>9 DEF Planned, Balanced, PaidInFull, At

(* An activation goes on with the same choices. *)
LEMMA ActivationPlanGoesOn ==
  ASSUME NEW f, NEW g, NEW b, ActivationPlan(f, b), f.chosen \in Seq(ChosenItems),
         f.step \in AllSteps, g.step \in AllSteps, g.chosen = f.chosen, g.way = f.way,
         Rank[f.step] <= Rank[g.step], Rank[g.step] <= 17,
         Number(f, "COST_SAC") = IF Rank[g.step] > 8 THEN One(f.way.sac # {}) ELSE 0,
         Number(f, "COST_RETURN") = IF Rank[g.step] > 9 THEN One(f.way.return # {}) ELSE 0
  PROVE  ActivationPlan(g, b)
<1>1. \A s : Number(g, s) = Number(f, s)
  BY DEF Chose, Number
<1>2. Rank[f.step] \in Nat /\ Rank[g.step] \in Nat
  BY RankTyped
<1>3. InOrder(g)
  <2>1. ASSUME NEW i \in DOMAIN g.chosen
        PROVE  Rank[g.chosen[i].at] <= Rank[g.step]
    <3>1. f.chosen[i] \in ChosenItems
      BY <2>1
    <3>2. Rank[f.chosen[i].at] \in Nat /\ Rank[f.chosen[i].at] <= Rank[f.step]
      BY <2>1, <3>1, RankTyped DEF ActivationPlan, InOrder, ChosenItems
    <3> QED
      BY <1>2, <3>2
  <2> QED
    BY <2>1 DEF ActivationPlan, InOrder
<1>4. ~(Rank[g.step] > 17)
  BY <1>2
<1>5. (\A i \in DOMAIN g.chosen : Matches(g.way, g.chosen[i], b.zone[g.chosen[i].item]))
  BY DEF ActivationPlan
<1> QED
  BY <1>1, <1>3, <1>4, <1>5 DEF ActivationPlan

(* One more permanent chosen for its costs. *)
LEMMA ActivationItemAdded ==
  ASSUME NEW f, NEW g, NEW b, ActivationPlan(f, b), f.chosen \in Seq(ChosenItems),
         NEW c \in ChosenItems, f.step \in AllSteps, g.step \in AllSteps,
         g.chosen = Append(f.chosen, c), c.at = f.step, g.way = f.way,
         Rank[f.step] <= Rank[g.step], Rank[g.step] <= 17,
         Matches(f.way, c, b.zone[c.item]), \A i \in DOMAIN f.chosen : f.chosen[i].item # c.item,
         Number(f, "COST_SAC") + (IF "COST_SAC" = f.step THEN 1 ELSE 0)
            = IF Rank[g.step] > 8 THEN One(f.way.sac # {}) ELSE 0,
         Number(f, "COST_RETURN") + (IF "COST_RETURN" = f.step THEN 1 ELSE 0)
            = IF Rank[g.step] > 9 THEN One(f.way.return # {}) ELSE 0
  PROVE  ActivationPlan(g, b)
<1>1. PICK n \in Nat : Longer(f, g, c, n)
  BY OneMore
<1>2. /\ DOMAIN g.chosen = DOMAIN f.chosen \union {n} /\ n \notin DOMAIN f.chosen
      /\ g.chosen[n] = c /\ \A i \in DOMAIN f.chosen : g.chosen[i] = f.chosen[i]
      /\ \A s : Number(g, s) = Number(f, s) + (IF s = f.step THEN 1 ELSE 0)
  BY <1>1 DEF Longer
<1>3. Rank[f.step] \in Nat /\ Rank[g.step] \in Nat
  BY RankTyped
<1>4. InOrder(g)
  <2>1. \A i, j \in DOMAIN g.chosen : g.chosen[i].item = g.chosen[j].item => i = j
    BY <1>2 DEF ActivationPlan, InOrder
  <2>2. ASSUME NEW i \in DOMAIN f.chosen
        PROVE  Rank[f.chosen[i].at] <= Rank[g.step]
    <3>1. f.chosen[i] \in ChosenItems
      BY <2>2
    <3>2. Rank[f.chosen[i].at] \in Nat /\ Rank[f.chosen[i].at] <= Rank[f.step]
      BY <2>2, <3>1, RankTyped DEF ActivationPlan, InOrder, ChosenItems
    <3> QED
      BY <1>3, <3>2
  <2>3. \A i \in DOMAIN g.chosen : Rank[g.chosen[i].at] <= Rank[g.step]
    BY <1>2, <2>2
  <2> QED
    BY <2>1, <2>3 DEF InOrder
<1>5. \A i \in DOMAIN g.chosen : Matches(g.way, g.chosen[i], b.zone[g.chosen[i].item])
  BY <1>2 DEF ActivationPlan
<1>6. /\ Number(g, "COST_SAC") = IF Rank[g.step] > 8 THEN One(g.way.sac # {}) ELSE 0
      /\ Number(g, "COST_RETURN") = IF Rank[g.step] > 9 THEN One(g.way.return # {}) ELSE 0
  BY <1>2
<1>7. ~(Rank[g.step] > 17)
  BY <1>3
<1>8. /\ g.way.sac # {} => On(b, g.way.sac) # {}
      /\ g.way.return # {} => On(b, g.way.return) # {}
  BY DEF ActivationPlan
<1> QED
  BY <1>4, <1>5, <1>6, <1>7, <1>8 DEF ActivationPlan

(* At a step before the payment of an activation. *)
LEMMA ActivationPlanned ==
  ASSUME CastInv, Planned, ActivationAsking
  PROVE  /\ ActivationPlan(flow, before) /\ flow.step \in AllSteps /\ flow.chosen \in Seq(ChosenItems)
         /\ flow \in ActivationFlows(flow.snap) /\ flow.way \in Abilities
         /\ flow.way.sac \in SUBSET Objects /\ flow.way.return \in SUBSET Objects
         /\ \A S \in SUBSET Objects : Controlled(S) = On(before, S)
<1>1. flow # Idle /\ Proposing /\ flow \in ActivationFlows(flow.snap) /\ FlowTyped /\ flow.way \in Abilities
  BY ActivationAskingFacts
<1>2. ~Casting /\ Reversible /\ flow.chosen \in Seq(ChosenItems) /\ flow.step \in AllSteps
  BY <1>1, FlowKinds DEF ActivationAsking, Proposing, Reversible, ActivationFlows, AllSteps
<1>3. game = Start
  BY <1>1 DEF CastInv, Untouched
<1>4. \A o \in Objects : game.zone[o] = before.zone[o]
  BY <1>2, <1>3, StartFacts
<1>5. \A S \in SUBSET Objects : Controlled(S) = On(before, S)
  BY <1>4 DEF Controlled, On, OnField
<1> QED
  BY <1>1, <1>2, <1>5, WaysTyped DEF Planned

(* An activation goes on as planned. *)
LEMMA ActivationPlannedIf ==
  ASSUME flow' \in ActivationFlows(flow'.snap), flow'.step \in ActivationSteps, before' = before,
         ActivationPlan(flow', before)
  PROVE  Planned' /\ Balanced' /\ PaidInFull'
<1>1. flow'.kind = "activation"
  BY DEF ActivationFlows
<1>2. ~Casting' /\ flow'.step \notin PaySteps /\ flow'.step # "FINISH"
  BY <1>1, StepsApart DEF Casting
<1>3. Planned'
  BY <1>2 DEF Planned, ActivationPlan, InOrder, Number, Chose
<1> QED
  BY <1>2, <1>3 DEF Balanced, PaidInFull, At

(* A step to choose the one permanent of a cost. *)
LEMMA PickOnePlan ==
  ASSUME CastInv, Planned, ActivationAsking, NEW cost \in {"sac", "return"},
         PickOne(Controlled(IF cost = "sac" THEN flow.way.sac ELSE flow.way.return),
                 IF cost = "sac" THEN "yard" ELSE "hand",
                 IF cost = "sac" THEN "COST_RETURN" ELSE "PAY"),
         flow.step = IF cost = "sac" THEN "COST_SAC" ELSE "COST_RETURN"
  PROVE  Planned' /\ Balanced' /\ PaidInFull'
<1> DEFINE menu == Controlled(IF cost = "sac" THEN flow.way.sac ELSE flow.way.return)
           dest == IF cost = "sac" THEN "yard" ELSE "hand"
           next == IF cost = "sac" THEN "COST_RETURN" ELSE "PAY"
           a == flow.way
           snap == flow.snap
<1>1. /\ ActivationPlan(flow, before) /\ flow.step \in AllSteps /\ flow.chosen \in Seq(ChosenItems)
      /\ flow \in ActivationFlows(snap) /\ a \in Abilities
      /\ a.sac \in SUBSET Objects /\ a.return \in SUBSET Objects
      /\ \A S \in SUBSET Objects : Controlled(S) = On(before, S)
  BY ActivationPlanned
<1>2. before' = before
  BY DEF PickOne, Only
<1>3. /\ next \in ActivationSteps /\ next \in AllSteps /\ dest \in {"exile", "hand", "yard"}
      /\ Rank["COST_SAC"] = 8 /\ Rank["COST_RETURN"] = 9 /\ Rank["PAY"] = 17
      /\ Rank[flow.step] <= Rank[next] /\ Rank[next] <= 17
  BY Ranks DEF ActivationSteps, AllSteps
<1>4. menu = On(before, IF cost = "sac" THEN a.sac ELSE a.return)
  BY <1>1
<1>5. /\ cost = "sac" => Number(flow, "COST_SAC") = 0 /\ Number(flow, "COST_RETURN") = 0
      /\ cost = "return" => Number(flow, "COST_SAC") = One(a.sac # {}) /\ Number(flow, "COST_RETURN") = 0
  BY <1>1, <1>3 DEF ActivationPlan
<1>6. (IF cost = "sac" THEN a.sac ELSE a.return) # {} => menu # {}
  BY <1>1, <1>4 DEF ActivationPlan
<1>7. menu = {} => (IF cost = "sac" THEN a.sac ELSE a.return) = {}
  BY <1>6
<1> HIDE DEF next, dest, menu, snap
<1>8. CASE menu = {}
  <2>1. Goto(next)
    BY <1>8 DEF PickOne, menu, next, dest
  <2>2. /\ flow' \in ActivationFlows(snap) /\ flow'.step = next /\ flow'.way = flow.way
        /\ flow'.chosen = flow.chosen
    BY <1>1, <1>3, <2>1 DEF Goto, ActivationFlows
  <2>3. /\ Number(flow, "COST_SAC") = IF Rank[next] > 8 THEN One(a.sac # {}) ELSE 0
        /\ Number(flow, "COST_RETURN") = IF Rank[next] > 9 THEN One(a.return # {}) ELSE 0
    <3>1. CASE cost = "sac"
      BY <1>3, <1>5, <1>7, <1>8, <3>1 DEF next, One
    <3>2. CASE cost = "return"
      BY <1>3, <1>5, <1>7, <1>8, <3>2 DEF next, One
    <3> QED
      BY <3>1, <3>2
  <2>4. ActivationPlan(flow', before)
    BY <1>1, <1>3, <2>2, <2>3, ActivationPlanGoesOn
  <2>5. flow' \in ActivationFlows(flow'.snap) /\ flow'.step \in ActivationSteps
    BY <1>3, <2>2 DEF ActivationFlows
  <2> QED
    BY <1>2, <2>4, <2>5, ActivationPlannedIf
<1>9. CASE menu # {}
  <2>1. PICK o \in menu : flow' = [ChooseItem(flow, o, dest) EXCEPT !.step = next]
    BY <1>9 DEF PickOne, menu, next, dest
  <2> DEFINE c == [item |-> o, dest |-> dest, at |-> flow.step]
             s == Append(flow.chosen, c)
  <2>2. /\ o \in Objects /\ before.zone[o] = "field"
        /\ o \in IF cost = "sac" THEN a.sac ELSE a.return
    BY <1>1, <1>4, <2>1 DEF On, OnField
  <2>3. c \in ChosenItems
    BY <1>1, <1>3, <2>2 DEF ChosenItems
  <2>4. s \in Seq(ChosenItems)
    BY <1>1, <2>3
  <2>5. flow' = [flow EXCEPT !.chosen = s, !.step = next]
    <3>1. ChooseItem(flow, o, dest) = [flow EXCEPT !.chosen = s]
      BY <1>1 DEF ChooseItem, ActivationFlows
    <3> HIDE DEF s
    <3> QED
      BY <1>1, <2>1, <3>1 DEF ActivationFlows
  <2>6. c.at = flow.step /\ Matches(a, c, before.zone[c.item])
    <3>1. CASE cost = "sac"
      BY <2>2, <3>1 DEF Matches, dest
    <3>2. CASE cost = "return"
      BY <2>2, <3>2 DEF Matches, dest
    <3> QED
      BY <3>1, <3>2
  <2>7. ASSUME NEW i \in DOMAIN flow.chosen, flow.chosen[i].item = c.item
        PROVE  FALSE
    <3>1. flow.chosen[i] \in ChosenItems
      BY <1>1, <2>7
    <3>2. /\ Matches(a, flow.chosen[i], "field") /\ flow.chosen[i].item = o
          /\ i \in Chose(flow, flow.chosen[i].at)
      BY <1>1, <2>2, <2>7 DEF ActivationPlan, Chose
    <3>3. \A at : Number(flow, at) = 0 => Chose(flow, at) = {}
      <4>1. \A at : IsFiniteSet(Chose(flow, at))
        BY <1>1, NumberTyped
      <4> QED
        BY <4>1, FS_EmptySet DEF Number
    <3>4. CASE cost = "sac"
      BY <1>5, <3>2, <3>3, <3>4 DEF Matches
    <3>5. CASE cost = "return"
      <4>1. o \in a.sac
        BY <1>5, <3>2, <3>3, <3>5 DEF Matches
      <4>2. a.sac \intersect a.return = {}
        BY <1>1, CostsApartAssumption DEF Apart
      <4> QED
        BY <2>2, <3>5, <4>1, <4>2
    <3> QED
      BY <3>4, <3>5
  <2>8. /\ Number(flow, "COST_SAC") + (IF "COST_SAC" = flow.step THEN 1 ELSE 0)
              = IF Rank[next] > 8 THEN One(a.sac # {}) ELSE 0
        /\ Number(flow, "COST_RETURN") + (IF "COST_RETURN" = flow.step THEN 1 ELSE 0)
              = IF Rank[next] > 9 THEN One(a.return # {}) ELSE 0
    <3>1. CASE cost = "sac"
      <4>1. a.sac # {}
        BY <2>2, <3>1
      <4> QED
        BY <1>3, <1>5, <3>1, <4>1 DEF next, One
    <3>2. CASE cost = "return"
      <4>1. a.return # {}
        BY <2>2, <3>2
      <4> QED
        BY <1>3, <1>5, <3>2, <4>1 DEF next, One
    <3> QED
      BY <3>1, <3>2
  <2> HIDE DEF c
  <2>9. flow'.chosen = Append(flow.chosen, c) /\ flow'.way = flow.way /\ flow'.step = next
    BY <1>1, <2>5 DEF ActivationFlows
  <2>10. ActivationPlan(flow', before)
    BY <1>1, <1>3, <2>3, <2>6, <2>7, <2>8, <2>9, ActivationItemAdded
  <2> HIDE DEF s
  <2>11. flow' \in ActivationFlows(snap)
    BY <1>1, <1>3, <2>4, <2>5 DEF ActivationFlows
  <2>12. flow' \in ActivationFlows(flow'.snap) /\ flow'.step \in ActivationSteps
    BY <1>3, <2>9, <2>11 DEF ActivationFlows
  <2> QED
    BY <1>2, <2>10, <2>12, ActivationPlannedIf
<1> QED
  BY <1>8, <1>9

(* The choices of an activation keep the plan. *)
LEMMA ActivationChoicesPlan ==
  ASSUME CastInv, Planned, ActivationX \/ ActivationTarget \/ ActivationSac \/ ActivationReturn
  PROVE  Planned' /\ Balanced' /\ PaidInFull'
<1> DEFINE snap == flow.snap
<1>1. ActivationAsking
  <2>1. FlowTyped /\ flow # Idle /\ Activating
    BY FlowKinds DEF CastInv, ActivationX, ActivationTarget, ActivationSac, ActivationReturn, PickOne
  <2>2. flow.step \in {"X_LADDER", "TARGET", "ZONE_TARGET", "COST_SAC", "COST_RETURN"}
    BY <2>1, FlowKinds DEF ActivationX, ActivationTarget, ActivationSac, ActivationReturn
  <2> QED
    BY <2>1, <2>2 DEF ActivationAsking, ActivationSteps
<1>2. /\ ActivationPlan(flow, before) /\ flow.step \in AllSteps /\ flow.chosen \in Seq(ChosenItems)
      /\ flow \in ActivationFlows(snap)
  BY <1>1, ActivationPlanned
<1>3. \A step : At(step) <=> flow.step = step
  BY <1>1, ActivationAskingFacts
<1> HIDE DEF snap
<1>4. ASSUME NEW step \in {"TARGET", "COST_SAC"}, NEW x \in Int,
             flow' = [flow EXCEPT !.step = step, !.x = x], before' = before,
             flow.step \in {"X_LADDER", "TARGET", "ZONE_TARGET"}
      PROVE  Planned' /\ Balanced' /\ PaidInFull'
  <2>1. /\ step \in ActivationSteps /\ step \in AllSteps
        /\ Rank[flow.step] \in {0, 1} /\ Rank[step] \in {1, 8}
        /\ Rank[flow.step] <= Rank[step] /\ Rank[step] <= 17
        /\ ~(Rank[step] > 8) /\ ~(Rank[step] > 9) /\ ~(Rank[flow.step] > 8) /\ ~(Rank[flow.step] > 9)
    BY <1>4, Ranks DEF ActivationSteps, AllSteps
  <2>2. /\ flow' \in ActivationFlows(snap) /\ flow'.step = step /\ flow'.way = flow.way
        /\ flow'.chosen = flow.chosen
    BY <1>2, <1>4, <2>1 DEF ActivationFlows
  <2>3. Number(flow, "COST_SAC") = 0 /\ Number(flow, "COST_RETURN") = 0
    BY <1>2, <2>1 DEF ActivationPlan
  <2>4. ActivationPlan(flow', before)
    BY <1>2, <2>1, <2>2, <2>3, ActivationPlanGoesOn
  <2>5. flow' \in ActivationFlows(flow'.snap) /\ flow'.step \in ActivationSteps
    BY <2>1, <2>2 DEF ActivationFlows
  <2> QED
    BY <1>4, <2>4, <2>5, ActivationPlannedIf
<1>5. flow.x \in Int /\ \A step : Goto(step) => flow' = [flow EXCEPT !.step = step, !.x = flow.x]
  BY <1>2 DEF Goto, ActivationFlows
<1>6. CASE ActivationX
  <2>1. CASE flow.way.x = 0
    BY <1>3, <1>4, <1>5, <1>6, <2>1 DEF ActivationX, Only
  <2>2. CASE flow.way.x # 0
    <3>1. PICK x \in Int : flow' = [flow EXCEPT !.step = "TARGET", !.x = x]
      BY <1>6, <2>2, LadderTyped DEF ActivationX, PayableX
    <3> QED
      BY <1>3, <1>4, <1>6, <3>1 DEF ActivationX, Only
  <2> QED
    BY <2>1, <2>2
<1>7. CASE ActivationTarget
  BY <1>3, <1>4, <1>5, <1>7 DEF ActivationTarget, Only
<1>8. CASE ActivationSac
  BY <1>1, <1>3, <1>8, PickOnePlan DEF ActivationSac
<1>9. CASE ActivationReturn
  BY <1>1, <1>3, <1>9, PickOnePlan DEF ActivationReturn
<1> QED
  BY <1>6, <1>7, <1>8, <1>9

(* The plan of a proposal stays the same through its payment. *)
LEMMA PayingPlan ==
  ASSUME CastInv, Planned, Reversible, NEW step \in PaySteps, NEW cost \in Int, NEW snap,
         flow' = OnPayment(flow, step, cost, snap), before' = before,
         Rank[flow.step] >= 17, Rank[flow.step] <= Rank[step],
         Casting => cost = flow.cost,
         Activating => cost = flow.way.mana + flow.x * flow.way.x
  PROVE  Planned' /\ PaidInFull' /\ PayFlow
<1>1. FlowTyped /\ flow # Idle /\ (Casting \/ Activating) /\ ~(Casting /\ Activating)
  BY FlowKinds DEF CastInv, Reversible
<1>2. step \in AllSteps /\ ~(Rank[step] = 13) /\ Rank[step] \in {18, 19} /\ step # "FINISH"
  BY Ranks DEF AllSteps, PaySteps
<1>3. flow \in CastFlows(flow.snap) \/ flow \in ActivationFlows(flow.snap)
  BY <1>1 DEF FlowTyped
<1>4. flow.step \in AllSteps /\ flow.chosen \in Seq(ChosenItems)
  BY <1>3 DEF CastFlows, ActivationFlows, AllSteps
<1>5. Rank[flow.step] \in Nat
  BY <1>4, RankTyped
<1>6. Goes(flow, flow', step, snap)
  BY <1>3, PayUpdates
<1>7. PayFlow
  BY <1>6 DEF Goes, PayFlow, Casting, Activating
<1>8. flow'.way = flow.way /\ flow'.chosen = flow.chosen /\ flow'.step = step
  BY <1>6 DEF Goes
<1>9. \A s : Number(flow', s) = Number(flow, s) /\ ItemsAt(flow', s) = ItemsAt(flow, s)
  BY <1>8 DEF Number, Chose, ItemsAt
<1>10. PaidInFull'
  BY <1>2, <1>8 DEF PaidInFull, At
<1>11. CASE Casting
  <2> DEFINE s == flow.snap
  <2>1. flow \in CastFlows(s) /\ cost = flow.cost
    BY <1>1, <1>11, FlowKinds
  <2>2. CastPlan(flow, before)
    BY <1>11 DEF Planned
  <2> HIDE DEF s
  <2>3. AsAnnounced(flow, flow') /\ flow'.delving = flow.delving /\ flow'.kind = "cast"
    BY <2>1 DEF OnPayment, CastFlows, AsAnnounced
  <2>4. Tallied(flow')
    <3>1. Tallied(flow) /\ Rank[flow.step] > 4 /\ Rank[flow'.step] > 5 /\ flow'.step \in AllSteps
      BY <1>2, <1>5, <1>8, <2>2 DEF CastPlan
    <3> QED
      BY <1>4, <2>3, <3>1, TalliedStays
  <2>5. Complete(flow')
    <3>1. /\ Rank[flow.step] > 8 /\ Rank[flow.step] > 9 /\ Rank[flow.step] > 10 /\ Rank[flow.step] > 11
          /\ Rank[flow.step] > 13 /\ Rank[flow.step] > 14 /\ Rank[flow.step] > 15 /\ Rank[flow.step] > 16
      BY <1>5
    <3>2. Complete(flow)
      BY <2>2 DEF CastPlan
    <3> QED
      BY <1>8, <1>9, <2>3, <3>1, <3>2 DEF Complete
  <2>6. CastPlan(flow', before)
    BY <1>2, <1>4, <1>8, <2>2, <2>3, <2>4, <2>5, PlanGoesOn
  <2>7. Casting'
    BY <2>3 DEF Casting
  <2>8. Planned'
    BY <2>6, <2>7 DEF Planned, CastPlan, Tallied, InOrder, Limited, Complete, Delvable, Gated, Number, Chose
  <2> QED
    BY <1>7, <1>10, <2>8
<1>12. CASE Activating
  <2> DEFINE s == flow.snap
  <2>1. flow \in ActivationFlows(s) /\ cost = flow.way.mana + flow.x * flow.way.x
    BY <1>1, <1>12, FlowKinds
  <2>2. ActivationPlan(flow, before)
    BY <1>1, <1>12 DEF Planned
  <2> HIDE DEF s
  <2>3. flow'.cost = cost /\ flow'.x = flow.x /\ flow'.kind = "activation"
    BY <2>1 DEF OnPayment, ActivationFlows
  <2>4. InOrder(flow')
    <3>1. ASSUME NEW i \in DOMAIN flow.chosen
          PROVE  Rank[flow.chosen[i].at] <= Rank[step]
      <4>1. flow.chosen[i] \in ChosenItems
        BY <1>4, <3>1
      <4>2. Rank[flow.chosen[i].at] \in Nat /\ Rank[flow.chosen[i].at] <= Rank[flow.step]
        BY <2>2, <3>1, <4>1, RankTyped DEF ActivationPlan, InOrder, ChosenItems
      <4> QED
        BY <1>2, <1>5, <4>2
    <3> QED
      BY <1>8, <2>2, <3>1 DEF ActivationPlan, InOrder
  <2>5. Rank[flow.step] > 8 /\ Rank[flow.step] > 9 /\ Rank[step] > 8 /\ Rank[step] > 9
    BY <1>2, <1>5
  <2>6. /\ Number(flow, "COST_SAC") = One(flow.way.sac # {})
        /\ Number(flow, "COST_RETURN") = One(flow.way.return # {})
        /\ flow.way.sac # {} => On(before, flow.way.sac) # {}
        /\ flow.way.return # {} => On(before, flow.way.return) # {}
        /\ \A i \in DOMAIN flow.chosen :
              Matches(flow.way, flow.chosen[i], before.zone[flow.chosen[i].item])
    BY <2>2, <2>5 DEF ActivationPlan
  <2>7. ActivationPlan(flow', before)
    BY <1>8, <1>9, <2>1, <2>3, <2>4, <2>5, <2>6 DEF ActivationPlan
  <2>8. ~Casting'
    BY <2>3 DEF Casting
  <2>9. Planned'
    BY <2>7, <2>8 DEF Planned, ActivationPlan, InOrder, Number, Chose
  <2> QED
    BY <1>7, <1>10, <2>9
<1> QED
  BY <1>1, <1>11, <1>12

(* Through the payment the game it began with, and what it may tap, stay the same. *)
LEMMA SameLedgers ==
  ASSUME CastInv, Reversible, PayFlow, before' = before, game'.stamps = game.stamps
  PROVE  Opening' = Opening /\ Means' = Means
<1>1. FlowTyped /\ flow # Idle /\ (Casting \/ Activating) /\ ~(Casting /\ Activating)
  BY FlowKinds DEF CastInv, Reversible
<1>2. (Casting' <=> Casting) /\ (Activating' <=> Activating) /\ flow'.way = flow.way
  BY <1>1 DEF PayFlow, CastFlows, ActivationFlows, Casting, Activating, Idle
<1>3. Start' = Start
  BY <1>1, <1>2 DEF Start, CastStart, ActivationStart, PayFlow
<1>4. Opening' = Opening
  BY <1>2, <1>3 DEF Opening, Tapped
<1>5. Means' = Means
  BY <1>2 DEF Means, Improvises
<1> QED
  BY <1>4, <1>5

(* So a game that balances then balances still. *)
LEMMA BalancedStill ==
  ASSUME Opening' = Opening, Means' = Means, Balance' \in Ledgers(Opening)
  PROVE  Balanced'
<1>1. PICK U \in SUBSET Means : Ledger(Opening, Balance', U)
  BY DEF Ledgers
<1>2. Balance' \in Alike(Opening')
  BY DEF Ledgers
<1>3. U \in SUBSET Means' /\ Ledger(Opening', Balance', U)
  BY <1>1
<1>4. Balance' \in {h \in Alike(Opening') : \E V \in SUBSET Means' : Ledger(Opening', h, V)}
  BY <1>2, <1>3
<1> QED
  BY <1>4 DEF Balanced, Ledgers

(* What the payment begins with is a game. *)
LEMMA OpeningTyped ==
  ASSUME CastInv, Reversible
  PROVE  Opening \in Alike(Opening) /\ Opening.stamps = game.stamps /\ Opening.zone = Start.zone
<1>1. Start \in Alike(Start) /\ Start.stamps = game.stamps /\ FlowTyped
  BY StartFacts, StartIsClean DEF CastInv
<1>2. Activating => flow.way.source \in Objects
  BY <1>1, FlowKinds, WaysTyped DEF ActivationFlows
<1> HIDE DEF Start
<1> QED
  BY <1>1, <1>2 DEF Opening, Tapped, Alike

(* The payment begins: what leaves for a cost is tapped first. *)
LEMMA BeginPlan ==
  ASSUME CastInv, Planned, Proposing, Rank[flow.step] = 17, NEW owed \in Int,
         BeginPayment(Opening, owed), Casting => owed = flow.cost,
         Activating => owed = flow.way.mana + flow.x * flow.way.x
  PROVE  Planned' /\ Balanced' /\ PaidInFull'
<1>1. FlowTyped /\ Reversible /\ game = Start /\ (Casting \/ Activating)
  BY FlowKinds DEF CastInv, Untouched, Proposing, Reversible
<1>2. flow.chosen \in Seq(ChosenItems)
  BY <1>1, FlowKinds DEF CastFlows, ActivationFlows
<1>3. Opening \in Alike(Opening) /\ Opening.stamps = game.stamps
  BY <1>1, OpeningTyped
<1>4. FloatAll(Opening, owed) \in Ledgers(Opening)
  <2> DEFINE g == Opening
             V == Ledgers(g)
  <2>1. g \in V
    BY <1>3, LedgerBegins
  <2>2. \A h \in V : \A o : Floated(h, owed, o, Reserved(flow)) \in V
    BY <1>3, FloatedIsEntered
  <2> HIDE DEF g, V
  <2>3. FloatAll(g, owed) \in V
    BY <1>2, <2>1, <2>2, FloatAllStays
  <2> QED
    BY <2>3 DEF g, V
<1>5. game' \in Ledgers(Opening) /\ before' = before
  BY <1>4 DEF BeginPayment
<1>6. flow' = OnPayment(flow, "PAYING", owed, <<Snapshot(Start)>>)
  BY <1>1 DEF BeginPayment, OnPayment
<1>7. "PAYING" \in PaySteps /\ Rank["PAYING"] = 18
  BY Ranks DEF PaySteps
<1>8. Planned' /\ PaidInFull' /\ PayFlow
  BY <1>1, <1>5, <1>6, <1>7, PayingPlan
<1>9. game'.stamps = game.stamps
  BY <1>3, <1>5 DEF Ledgers, Alike
<1>10. Opening' = Opening /\ Means' = Means
  BY <1>1, <1>5, <1>8, <1>9, SameLedgers
<1>11. flow'.step = "PAYING"
  <2>1. flow \in CastFlows(flow.snap) \/ flow \in ActivationFlows(flow.snap)
    BY <1>1, FlowKinds
  <2>2. Goes(flow, flow', "PAYING", <<Snapshot(Start)>>)
    BY <1>6, <1>7, <2>1, PayUpdates
  <2> QED
    BY <2>2 DEF Goes
<1>12. Balance' = game'
  BY <1>11 DEF Balance
<1> QED
  BY <1>5, <1>8, <1>10, <1>12, BalancedStill

(* The payments of a cast and of an activation begin. *)
LEMMA ManaPayPlan ==
  ASSUME CastInv, Planned, ManaPay
  PROVE  Planned' /\ Balanced' /\ PaidInFull'
<1>1. FlowTyped /\ flow # Idle /\ flow.step = "MANA_PAY" /\ Casting /\ ~Activating
  BY FlowKinds DEF CastInv, ManaPay
<1>2. CastAsking
  BY <1>1 DEF CastAsking, CastSteps
<1>3. Proposing /\ flow.cost \in Int
  BY <1>2, CastAskingFacts DEF CastInv
<1>4. game = Start /\ Opening = Start
  BY <1>1, <1>3 DEF CastInv, Untouched, Opening
<1>5. Rank[flow.step] = 17
  BY <1>1, Ranks
<1> QED
  BY <1>1, <1>3, <1>4, <1>5, BeginPlan DEF ManaPay

(* And the payment of an activation, with its own tap already paid. *)
LEMMA ActivationPayPlan ==
  ASSUME CastInv, Planned, ActivationPay
  PROVE  Planned' /\ Balanced' /\ PaidInFull'
<1>1. FlowTyped /\ flow # Idle /\ flow.step = "PAY" /\ Activating /\ ~Casting
  BY FlowKinds DEF CastInv, ActivationPay
<1>2. ActivationAsking
  BY <1>1 DEF ActivationAsking, ActivationSteps
<1>3. Proposing /\ flow.x \in Int /\ flow.way \in Abilities
  BY <1>2, ActivationAskingFacts DEF CastInv, ActivationFlows
<1>4. game = Start /\ Opening = Tapped(game)
  BY <1>1, <1>3 DEF CastInv, Untouched, Opening
<1>5. Rank[flow.step] = 17
  BY <1>1, Ranks
<1>6. ActivationOwed = flow.way.mana + flow.x * flow.way.x /\ ActivationOwed \in Int
  BY <1>3, WaysTyped DEF ActivationOwed
<1> QED
  BY <1>1, <1>3, <1>4, <1>5, <1>6, BeginPlan DEF ActivationPay

(* The payment goes on: from one of its steps to itself or to the next. *)
LEMMA PaymentPlan ==
  ASSUME CastInv, Planned, Paying, before' = before, flow' = flow \/ Goto("PAY_APPLY"),
         NEW h \in Ledgers(Opening),
         flow' = flow => game' = h,
         flow' # flow => game' = [h EXCEPT !.pool = @ - flow.cost]
  PROVE  Planned' /\ Balanced' /\ PaidInFull'
<1>1. FlowTyped /\ flow # Idle /\ flow.step = "PAYING" /\ flow.cost \in Int
  BY FlowKinds DEF CastInv, Paying, CastFlows, ActivationFlows, FlowTyped
<1>2. Reversible /\ (Casting \/ Activating) /\ ~(Casting /\ Activating)
  BY <1>1, FlowKinds DEF Reversible
<1>3. /\ Casting <=> flow \in CastFlows(flow.snap)
      /\ Activating <=> flow \in ActivationFlows(flow.snap)
  BY <1>1, FlowKinds
<1>4. "PAY_APPLY" \in PaySteps /\ "PAYING" \in PaySteps /\ Rank["PAYING"] = 18 /\ Rank["PAY_APPLY"] = 19
  BY Ranks DEF PaySteps
<1>5. Activating => flow.cost = flow.way.mana + flow.x * flow.way.x
  BY <1>1, <1>2, <1>4 DEF Planned, ActivationPlan
<1>6. PICK step \in PaySteps : /\ flow' = OnPayment(flow, step, flow.cost, flow.snap)
                               /\ step = "PAYING" => flow' = flow
                               /\ flow' = flow => step = "PAYING"
                               /\ Rank[flow.step] <= Rank[step]
  <2>1. flow = OnPayment(flow, "PAYING", flow.cost, flow.snap)
    BY <1>1, <1>2, <1>3 DEF CastFlows, ActivationFlows, OnPayment
  <2>2. Goto("PAY_APPLY") => flow' = OnPayment(flow, "PAY_APPLY", flow.cost, flow.snap) /\ flow' # flow
    <3>1. Goto("PAY_APPLY") => flow'.step = "PAY_APPLY"
      BY <1>2, <1>3 DEF Goto, CastFlows, ActivationFlows
    <3> QED
      BY <1>1, <1>2, <1>3, <3>1 DEF Goto, CastFlows, ActivationFlows, OnPayment
  <2> QED
    BY <1>1, <1>4, <2>1, <2>2
<1>7. Planned' /\ PaidInFull' /\ PayFlow
  BY <1>1, <1>2, <1>4, <1>5, <1>6, PayingPlan
<1>8. flow'.step = step /\ flow'.cost = flow.cost
  <2>1. Goes(flow, flow', step, flow.snap)
    BY <1>1, <1>2, <1>3, <1>6, PayUpdates
  <2>2. flow'.step = step
    BY <2>1 DEF Goes
  <2>3. flow'.cost = flow.cost
    BY <1>2, <1>3, <1>6 DEF OnPayment, CastFlows, ActivationFlows
  <2> QED
    BY <2>2, <2>3
<1>9. /\ h \in Alike(Opening) /\ Opening.stamps = game.stamps
      /\ h.pool \in Int
  BY <1>2, OpeningTyped DEF Ledgers, Alike
<1>10. game'.stamps = game.stamps /\ Balance' = h
  <2>1. CASE flow' = flow
    BY <1>1, <1>9, <2>1 DEF Balance, Alike
  <2>2. CASE flow' # flow
    <3>1. step = "PAY_APPLY"
      BY <1>6, <2>2 DEF PaySteps
    <3>2. game' = [h EXCEPT !.pool = h.pool - flow.cost]
      BY <2>2
    <3>3. game'.stamps = h.stamps /\ game'.pool = h.pool - flow.cost
      BY <1>9, <3>2 DEF Alike
    <3>4. game'.pool + flow.cost = h.pool
      BY <1>1, <1>9, <3>3
    <3>5. Balance' = [game' EXCEPT !.pool = h.pool]
      BY <1>8, <3>1, <3>4 DEF Balance
    <3>6. [[h EXCEPT !.pool = h.pool - flow.cost] EXCEPT !.pool = h.pool] = h
      BY <1>9 DEF Alike
    <3> QED
      BY <1>9, <3>2, <3>3, <3>5, <3>6 DEF Alike
  <2> QED
    BY <2>1, <2>2
<1>11. Opening' = Opening /\ Means' = Means
  BY <1>2, <1>7, <1>10, SameLedgers
<1> QED
  BY <1>7, <1>10, <1>11, BalancedStill

(* What the payment does when it succeeds: from the pool, source by source, or all at once. *)
LEMMA PaysPlan ==
  ASSUME CastInv, Planned, Balanced, FromPool \/ TapSource
  PROVE  Planned' /\ Balanced' /\ PaidInFull'
<1>1. Paying /\ before' = before /\ FlowTyped /\ flow # Idle /\ flow.step = "PAYING"
  BY FlowKinds DEF CastInv, FromPool, TapSource, Paying
<1>2. game \in Ledgers(Opening) /\ Reversible
  BY <1>1 DEF Balanced, Balance, PaySteps, Reversible
<1>3. CASE FromPool
  <2>1. flow' # flow
    <3>1. Goto("PAY_APPLY")
      BY <1>3 DEF FromPool
    <3>2. flow'.step = "PAY_APPLY"
      BY <1>1, <3>1 DEF Goto, FlowTyped, CastFlows, ActivationFlows
    <3> QED
      BY <1>1, <3>2
  <2> QED
    BY <1>1, <1>2, <1>3, <2>1, PaymentPlan DEF FromPool
<1>4. CASE TapSource
  <2>1. PICK m \in Usable : game' = Activated(game, m)
    BY <1>4 DEF TapSource
  <2>2. Opening \in Alike(Opening)
    BY <1>2, OpeningTyped
  <2>3. Activated(game, m) \in Ledgers(Opening)
    BY <1>2, <2>2, UsableAreMeans, LedgerGrows
  <2> QED
    BY <1>1, <1>4, <2>1, <2>3, PaymentPlan DEF TapSource
<1> QED
  BY <1>3, <1>4

(* Nothing is left to show of a proposal that is over. *)
LEMMA IdleIsPaid ==
  ASSUME flow' = Idle
  PROVE  Planned' /\ Balanced' /\ PaidInFull'
<1>1. flow'.kind = "none"
  BY DEF Idle
<1> QED
  BY <1>1 DEF Planned, Balanced, PaidInFull, Reversible, At

(* The automatic payer, and the ways a payment fails. *)
LEMMA PayerPlan ==
  ASSUME CastInv, Planned, Balanced, AutoPay \/ AutoFails \/ CancelPayment
  PROVE  Planned' /\ Balanced' /\ PaidInFull'
<1>1. CASE AutoFails \/ CancelPayment
  BY <1>1, IdleIsPaid DEF AutoFails, CancelPayment, FailPayment, Rewind
<1>2. CASE AutoPay
  <2>1. IF Automatic.pool >= flow.cost
        THEN /\ game' = [Automatic EXCEPT !.pool = @ - flow.cost]
             /\ Goto("PAY_APPLY")
             /\ UNCHANGED <<mode, fails, before, proposals>>
        ELSE FailPayment(Automatic)
    BY <1>2 DEF AutoPay, Automatic
  <2>2. Paying /\ FlowTyped /\ flow # Idle /\ flow.step = "PAYING"
    BY <1>2, FlowKinds DEF CastInv, AutoPay, Paying
  <2>3. game \in Ledgers(Opening) /\ Reversible /\ Opening \in Alike(Opening)
    BY <2>2, OpeningTyped DEF Balanced, Balance, PaySteps, Reversible
  <2>4. Automatic \in Ledgers(Opening)
    <3>1. Plan \in SUBSET Means /\ \A m \in Plan : OnField(game, m.on)
      BY StrategyIsOfSources, UsableAreMeans DEF Plan
    <3> QED
      BY <2>3, <3>1, AttemptIsEntered DEF Automatic
  <2>5. CASE FailPayment(Automatic)
    BY <2>5, IdleIsPaid DEF FailPayment, Rewind
  <2>6. CASE ~FailPayment(Automatic)
    <3>1. /\ game' = [Automatic EXCEPT !.pool = @ - flow.cost]
          /\ Goto("PAY_APPLY") /\ before' = before
      BY <2>1, <2>6
    <3>2. flow'.step = "PAY_APPLY"
      BY <2>2, <3>1 DEF Goto, FlowTyped, CastFlows, ActivationFlows
    <3>3. flow' # flow
      BY <2>2, <3>2
    <3> QED
      BY <2>2, <2>4, <3>1, <3>3, PaymentPlan
  <2> QED
    BY <2>5, <2>6
<1> QED
  BY <1>1, <1>2

(***************************************************************************)
(* The costs are paid: what was owed, and what was chosen for it.          *)
(***************************************************************************)
(* What was tapped for mana made what is owed, before the other costs are paid. *)
Squared(U) ==
  /\ {m.on : m \in U} = game.tapped \ Opening.tapped
  /\ \A m, n \in U : m.on = n.on => m = n
  /\ \A m \in U : Start.zone[m.on] = "field"
  /\ YieldOf(U) \in Nat /\ LossOf(U) \in Nat
  /\ game.pool + flow.cost = before.pool + YieldOf(U)
  /\ game.life = Start.life - LossOf(U) /\ game.energy = before.energy
  /\ \A o \in Objects : game.zone[o] = IF o \in SacrificedFor(U) THEN "yard" ELSE Start.zone[o]
(* So it did when the payment was over. *)
LEMMA Accounted ==
  ASSUME CastInv, Balanced, flow # Idle, flow.step = "PAY_APPLY"
  PROVE  \E U \in SUBSET Means : Squared(U)
<1>1. /\ FlowTyped /\ Reversible /\ Clean(game) /\ Clean(before) /\ flow.cost \in Int
      /\ (Casting \/ Activating) /\ ~(Casting /\ Activating)
  BY FlowKinds DEF CastInv, Found, Reversible, CastFlows, ActivationFlows
<1>2. /\ Opening.zone = Start.zone /\ Start \in Alike(Start)
      /\ game \in Alike(game) /\ before \in Alike(before)
  BY <1>1, StartFacts, OpeningTyped DEF Clean
<1>3. Start.pool = before.pool /\ Start.energy = before.energy
  BY <1>1, <1>2 DEF Start, CastStart, ActivationStart, Alike
<1>4. /\ Opening.pool = before.pool /\ Opening.life = Start.life /\ Opening.energy = before.energy
  <2> HIDE DEF Start
  <2> QED
    BY <1>2, <1>3 DEF Opening, Tapped, Alike
<1> DEFINE h == [game EXCEPT !.pool = game.pool + flow.cost]
<1>5. h \in Ledgers(Opening)
  BY DEF Balanced, Balance, PaySteps
<1>6. /\ h.pool = game.pool + flow.cost /\ h.zone = game.zone /\ h.life = game.life
      /\ h.tapped = game.tapped /\ h.energy = game.energy
  BY <1>2 DEF Alike
<1> HIDE DEF h
<1>7. PICK U \in SUBSET Means : Ledger(Opening, h, U)
  BY <1>5 DEF Ledgers
<1>8. h.energy = Opening.energy
  BY <1>5 DEF Ledgers, Alike
<1>9. U \in SUBSET Tappers /\ IsFiniteSet(U)
  BY MeansFinite, FS_Subset
<1>10. YieldOf(U) \in Nat /\ LossOf(U) \in Nat
  BY <1>9, SumsGrow
<1>11. Squared(U)
  BY <1>2, <1>4, <1>6, <1>7, <1>8, <1>10 DEF Squared, Ledger, OnField
<1> QED
  BY <1>11

(* The proposal at the payment of its costs, and after it. *)
Finished ==
  /\ flow'.kind = flow.kind /\ flow'.step = "FINISH" /\ flow'.way = flow.way
  /\ flow'.chosen = flow.chosen /\ flow'.x = flow.x /\ flow'.kind # "none"
  /\ Casting => /\ flow'.kicked = flow.kicked /\ flow'.replicated = flow.replicated
                /\ flow'.life_paid = flow.life_paid /\ flow'.life_x = flow.life_x
                /\ flow'.delving = flow.delving
(* Nothing of the proposal but its step changes when its costs are paid. *)
LEMMA FinishFlow ==
  ASSUME CastInv, flow # Idle, flow.step = "PAY_APPLY", Goto("FINISH")
  PROVE  Finished
<1> DEFINE s == flow.snap
<1>1. FlowTyped /\ (Casting \/ Activating) /\ ~(Casting /\ Activating)
  BY FlowKinds DEF CastInv
<1>2. CASE Casting
  <2>1. flow \in CastFlows(s)
    BY <1>1, <1>2, FlowKinds
  <2> HIDE DEF s
  <2> QED
    BY <2>1 DEF Goto, Finished, CastFlows
<1>3. CASE Activating
  <2>1. flow \in ActivationFlows(s) /\ ~Casting
    BY <1>1, <1>3, FlowKinds
  <2> HIDE DEF s
  <2> QED
    BY <2>1 DEF Goto, Finished, ActivationFlows
<1> QED
  BY <1>1, <1>2, <1>3

(* What was tapped is accounted for. *)
LEMMA AccountKept ==
  ASSUME CastInv, flow # Idle, flow.step = "PAY_APPLY", Finished, before' = before,
         game'.tapped = game.tapped, NEW U \in SUBSET Means, Squared(U)
  PROVE  U \in Accounts'
<1>1. Means' = Means
  BY DEF Finished, Means, Improvises, Casting
<1>2. Engaged' = game.tapped \ Opening.tapped
  <2>1. /\ Reversible /\ FlowTyped /\ (Casting \/ Activating) /\ ~(Casting /\ Activating)
        /\ Clean(before)
    BY FlowKinds DEF CastInv, Found, Reversible
  <2>2. before \in Alike(before) /\ Start \in Alike(Start)
    BY <2>1, StartFacts DEF Clean
  <2>3. Start.tapped = before.tapped
    BY <2>1, <2>2 DEF Start, CastStart, ActivationStart, Alike
  <2> HIDE DEF Start
  <2>4. Opening.tapped = before.tapped \union (IF Activating /\ flow.way.tap THEN {flow.way.source} ELSE {})
    BY <2>2, <2>3 DEF Opening, Tapped, Alike
  <2> QED
    BY <2>4 DEF Engaged, Finished, Activating
<1>3. U \in SUBSET {m \in Means' : m.on \in Engaged'}
  BY <1>1, <1>2 DEF Squared
<1>4. {m.on : m \in U} = Engaged' /\ \A m, n \in U : m.on = n.on => m = n
  BY <1>2 DEF Squared
<1> QED
  BY <1>3, <1>4 DEF Accounts

(* What the choices come to, told after the costs were paid. *)
LEMMA ChoicesKept ==
  ASSUME Finished
  PROVE  /\ \A s : ChosenAt(s)' = Chose(flow, s) /\ Count(s)' = Number(flow, s)
         /\ ExiledTypes' = TypesIn(ItemsAt(flow, "DEF_EXILE_TYPES"))
<1>1. \A s : ChosenAt(s)' = Chose(flow, s) /\ Count(s)' = Number(flow, s)
  BY DEF Finished, ChosenAt, Chose, Count, Number
<1>2. ExiledTypes' = UNION {TypesOf[flow.chosen[i].item] : i \in Chose(flow, "DEF_EXILE_TYPES")}
  BY DEF Finished, ExiledTypes, ChosenAt, Chose
<1>3. ExiledTypes' = TypesIn(ItemsAt(flow, "DEF_EXILE_TYPES"))
  <2> DEFINE C == Chose(flow, "DEF_EXILE_TYPES")
             t(o) == TypesOf[o]
             it(i) == flow.chosen[i].item
  <2>1. UNION {t(it(i)) : i \in C} = UNION {t(o) : o \in {it(i) : i \in C}}
    <3> HIDE DEF t, it, C
    <3> QED
      OBVIOUS
  <2> QED
    BY <1>2, <2>1 DEF TypesIn, ItemsAt
<1> QED
  BY <1>1, <1>3

(* An item chosen at a step went from where it was chosen to where it is to go. *)
LEMMA WentThere ==
  ASSUME Finished, before' = before, NEW s, NEW of, NEW from, NEW to,
         \A i \in Chose(flow, s) : LET o == flow.chosen[i].item
                                   IN  o \in of /\ before.zone[o] = from /\ game'.zone[o] = to
  PROVE  Went(s, of, from, to)'
BY ChoicesKept DEF Went, Finished

(* Every cost item of a cast is paid. *)
CastItemsPaid(w) ==
  /\ Took("ALT_PITCH", w.pitch.n, w.pitch.of, "hand", "exile")
  /\ Took("ALT_RETURN", w.return.n, w.return.of, "field", "hand")
  /\ Took("ALT_SAC", w.alt_sac.n, w.alt_sac.of, "field", "yard")
  /\ Went("SPELL_SAC", w.sac, "field", "yard") /\ Count("SPELL_SAC") <= 1
  /\ w.kind = "regular" /\ w.sac # {} => Count("SPELL_SAC") = 1
  /\ Took("DELVE_PICK", flow.delving, Objects, "yard", "exile")
  /\ Took("DEF_SAC", One(w.flash_sac # {}), w.flash_sac, "field", "yard")
  /\ Went("DEF_EXILE_TYPES", Objects, "yard", "exile") /\ Cardinality(ExiledTypes) >= w.types
  /\ w.types = 0 => Count("DEF_EXILE_TYPES") = 0
  /\ Took("DEF_EXILE_COUNT", w.exile, Objects, "yard", "exile")
(* Each was chosen as often as its cost takes it, and moved to its place (PAY_APPLY). *)
LEMMA CastItems ==
  ASSUME Finished, before' = before, Casting, CastPlan(flow, before), NEW w, w = flow.way,
         flow.step = "PAY_APPLY", flow.chosen \in Seq(ChosenItems), w.types \in Nat,
         \A i \in DOMAIN flow.chosen : game'.zone[flow.chosen[i].item] = flow.chosen[i].dest
  PROVE  CastItemsPaid(w)'
<1>1. \A i \in DOMAIN flow.chosen :
          LET c == flow.chosen[i]
          IN  /\ c.item \in Objects /\ game'.zone[c.item] = c.dest
              /\ Fits(w, c, before.zone[c.item])
  <2>1. \A i \in DOMAIN flow.chosen : flow.chosen[i] \in ChosenItems
    OBVIOUS
  <2> QED
    BY <2>1 DEF CastPlan, ChosenItems
<1>2. \A s : \A i \in Chose(flow, s) : i \in DOMAIN flow.chosen /\ flow.chosen[i].at = s
  BY DEF Chose
<1>3. Went("ALT_PITCH", w.pitch.of, "hand", "exile")'
  BY <1>1, <1>2, WentThere DEF Fits
<1>4. Went("ALT_RETURN", w.return.of, "field", "hand")'
  BY <1>1, <1>2, WentThere DEF Fits
<1>5. Went("ALT_SAC", w.alt_sac.of, "field", "yard")'
  BY <1>1, <1>2, WentThere DEF Fits
<1>6. Went("SPELL_SAC", w.sac, "field", "yard")'
  BY <1>1, <1>2, WentThere DEF Fits
<1>7. Went("DELVE_PICK", Objects, "yard", "exile")'
  BY <1>1, <1>2, WentThere DEF Fits
<1>8. Went("DEF_SAC", w.flash_sac, "field", "yard")'
  BY <1>1, <1>2, WentThere DEF Fits
<1>9. Went("DEF_EXILE_TYPES", Objects, "yard", "exile")'
  BY <1>1, <1>2, WentThere DEF Fits
<1>10. Went("DEF_EXILE_COUNT", Objects, "yard", "exile")'
  BY <1>1, <1>2, WentThere DEF Fits
<1>11. Rank[flow.step] = 19
  BY Ranks
<1>12. /\ Number(flow, "ALT_PITCH") = w.pitch.n /\ Number(flow, "ALT_RETURN") = w.return.n
       /\ Number(flow, "ALT_SAC") = w.alt_sac.n /\ Number(flow, "SPELL_SAC") <= 1
       /\ w.kind = "regular" /\ w.sac # {} => Number(flow, "SPELL_SAC") = 1
       /\ Number(flow, "DELVE_PICK") = flow.delving
       /\ w.flash_sac # {} => Number(flow, "DEF_SAC") = 1
       /\ Cardinality(TypesIn(ItemsAt(flow, "DEF_EXILE_TYPES"))) >= w.types
       /\ Number(flow, "DEF_EXILE_COUNT") = w.exile
  BY <1>11 DEF CastPlan, Complete, Limited
<1>13. \A s : (\A i \in DOMAIN flow.chosen : flow.chosen[i].at # s) => Number(flow, s) = 0
  <2>1. Cardinality({}) = 0
    BY FS_EmptySet
  <2>2. \A s : (\A i \in DOMAIN flow.chosen : flow.chosen[i].at # s) => Chose(flow, s) = {}
    BY DEF Chose
  <2> QED
    BY <2>1, <2>2 DEF Number
<1>14. w.flash_sac = {} => Number(flow, "DEF_SAC") = 0
  <2>1. w.flash_sac = {} => \A i \in DOMAIN flow.chosen : flow.chosen[i].at # "DEF_SAC"
    BY <1>1 DEF Fits
  <2> QED
    BY <1>13, <2>1
<1>15. w.types = 0 => Number(flow, "DEF_EXILE_TYPES") = 0
  <2>1. w.types = 0 => \A i \in DOMAIN flow.chosen : flow.chosen[i].at # "DEF_EXILE_TYPES"
    BY <1>1 DEF Fits
  <2> QED
    BY <1>13, <2>1
<1>16. \A s : Count(s)' = Number(flow, s)
  BY ChoicesKept
<1>17. ExiledTypes' = TypesIn(ItemsAt(flow, "DEF_EXILE_TYPES")) /\ flow'.delving = flow.delving
  BY ChoicesKept DEF Finished
<1>18. Number(flow, "DEF_SAC") = One(w.flash_sac # {})
  BY <1>12, <1>14 DEF One
<1>19. /\ Took("ALT_PITCH", w.pitch.n, w.pitch.of, "hand", "exile")'
       /\ Took("ALT_RETURN", w.return.n, w.return.of, "field", "hand")'
       /\ Took("ALT_SAC", w.alt_sac.n, w.alt_sac.of, "field", "yard")'
  BY <1>3, <1>4, <1>5, <1>12, <1>16 DEF Took
<1>20. Took("DELVE_PICK", flow.delving, Objects, "yard", "exile")'
  BY <1>7, <1>12, <1>16, <1>17 DEF Took
<1>21. Took("DEF_SAC", One(w.flash_sac # {}), w.flash_sac, "field", "yard")'
  BY <1>8, <1>16, <1>18 DEF Took
<1>22. Took("DEF_EXILE_COUNT", w.exile, Objects, "yard", "exile")'
  BY <1>10, <1>12, <1>16 DEF Took
<1>23. /\ Count("SPELL_SAC")' <= 1
       /\ w.kind = "regular" /\ w.sac # {} => Count("SPELL_SAC")' = 1
  BY <1>12, <1>16
<1>24. Cardinality(ExiledTypes') >= w.types /\ (w.types = 0 => Count("DEF_EXILE_TYPES")' = 0)
  BY <1>12, <1>15, <1>16, <1>17
<1> QED
  BY <1>6, <1>9, <1>19, <1>20, <1>21, <1>22, <1>23, <1>24 DEF CastItemsPaid

(* The others stay, but for the card itself and what was sacrificed for mana. *)
LEMMA CastOthersStay ==
  ASSUME CastInv, Casting, flow.step = "PAY_APPLY", Finished, before' = before,
         NEW U \in SUBSET Means, Squared(U), NEW w, w = flow.way,
         \A o \in Objects \ ItemsOf(flow.chosen) : game'.zone[o] = game.zone[o]
  PROVE  OthersStay(U, {w.card}, "stack")'
<1>1. Reversible /\ flow.way.card \in Objects
  <2>1. FlowTyped /\ flow # Idle
    BY FlowKinds DEF CastInv
  <2> QED
    BY <2>1, FlowKinds, WaysTyped DEF Reversible, CastFlows
<1>2. /\ \A o \in Objects : o # flow.way.card => Start.zone[o] = before.zone[o]
      /\ Start.zone[flow.way.card] = "stack"
  BY <1>1, StartFacts
<1>3. flow.way.card \notin SacrificedFor(U)
  BY <1>2 DEF Squared, SacrificedFor
<1>4. ASSUME NEW o \in Objects, \A i \in DOMAIN flow.chosen : flow.chosen[i].item # o
      PROVE  game'.zone[o] = CASE o \in {w.card} -> "stack"
                               [] o \in SacrificedFor(U) \ {w.card} -> "yard"
                               [] OTHER -> before.zone[o]
  <2>1. o \notin ItemsOf(flow.chosen)
    BY <1>4 DEF ItemsOf
  <2>2. game'.zone[o] = IF o \in SacrificedFor(U) THEN "yard" ELSE Start.zone[o]
    BY <2>1 DEF Squared
  <2>3. CASE o = w.card
    BY <1>2, <1>3, <2>2, <2>3
  <2>4. CASE o # w.card
    BY <1>2, <2>2, <2>4
  <2> QED
    BY <2>3, <2>4
<1> QED
  BY <1>4 DEF OthersStay, Finished, SacrificedFor

(* The mana and the life of a cast are paid. *)
LEMMA CastSums ==
  ASSUME CastInv, Casting, CastPlan(flow, before), flow.step = "PAY_APPLY", Finished,
         before' = before, NEW U, Squared(U), NEW w, w = flow.way,
         game'.pool = game.pool, game'.life = game.life - (w.life + flow.life_x)
  PROVE  /\ (before.pool + YieldOf(U) - game.pool)' =
                (w.generic + flow.kicked + flow.replicated * w.replicate + flow.x * w.x
                    + OwnPips(w) - flow.life_paid \div 2 - Count("DELVE_PICK"))'
         /\ (before.life - game.life = w.life + flow.life_x + flow.life_paid + LossOf(U))'
<1>1. flow \in CastFlows(flow.snap) /\ Clean(before) /\ Clean(game) /\ Reversible
  BY FlowKinds DEF CastInv, Found, Reversible, Idle, Casting
<1>2. /\ flow.kicked \in Int /\ flow.replicated \in Int /\ flow.x \in Int /\ flow.pip \in Int
      /\ flow.life_paid \in Int /\ flow.life_x \in Int /\ flow.cost \in Int /\ flow.way \in Casts
      /\ flow.chosen \in Seq(ChosenItems)
  <2> DEFINE s == flow.snap
  <2>1. flow \in CastFlows(s)
    BY <1>1
  <2> HIDE DEF s
  <2> QED
    BY <2>1 DEF CastFlows
<1>3. /\ w.generic \in Nat /\ w.replicate \in Nat /\ w.x \in Nat /\ w.life \in Nat
      /\ OwnPips(w) \in Nat
  BY <1>2, WayNumbers
<1>4. /\ game.pool \in Int /\ game.life \in Int /\ before.pool \in Int /\ before.life \in Int
  BY <1>1 DEF Clean, Alike
<1>5. Start.life = before.life - flow.life_paid
  BY <1>1 DEF Start, CastStart, Clean, Alike
<1>6. /\ YieldOf(U) \in Nat /\ LossOf(U) \in Nat
      /\ game.pool + flow.cost = before.pool + YieldOf(U) /\ game.life = Start.life - LossOf(U)
  BY DEF Squared
<1>7. Number(flow, "DELVE_PICK") \in Nat
  BY <1>2, NumberTyped
<1>8. PICK k \in 0..flow.pip : /\ flow.life_paid = 2 * k
                               /\ flow.cost = w.generic + Announced(flow) - k
  <2>1. Rank[flow.step] = 19
    BY Ranks
  <2>2. PICK k \in 0..flow.pip : /\ flow.life_paid = 2 * k
            /\ flow.cost = (IF Rank[flow.step] = 0 THEN 0 ELSE w.generic) + Announced(flow) - k
    BY DEF CastPlan, Tallied
  <2> QED
    BY <2>1, <2>2
<1>9. flow.pip = OwnPips(w)
  BY Ranks DEF CastPlan, Tallied
<1> DEFINE r == flow.replicated * w.replicate
           x == flow.x * w.x
<1>10. r \in Int /\ x \in Int
  <2>1. \A p, q \in Int : p * q \in Int
    OBVIOUS
  <2>2. flow.replicated \in Int /\ flow.x \in Int /\ w.replicate \in Int /\ w.x \in Int
    BY <1>2, <1>3
  <2> QED
    BY <2>1, <2>2
<1>11. Announced(flow) = flow.kicked + r + x + flow.pip - Number(flow, "DELVE_PICK")
  BY DEF Announced
<1>12. /\ flow'.kicked = flow.kicked /\ flow'.replicated = flow.replicated /\ flow'.x = flow.x
       /\ flow'.life_paid = flow.life_paid /\ flow'.life_x = flow.life_x
       /\ Count("DELVE_PICK")' = Number(flow, "DELVE_PICK")
  BY ChoicesKept DEF Finished
<1> HIDE DEF r, x
<1>13. k \in Int /\ flow.life_paid \div 2 = k
  BY <1>2, <1>8
<1> DEFINE d == Number(flow, "DELVE_PICK")
           y == YieldOf(U)
           p == OwnPips(w)
<1>14. d \in Int /\ y \in Int /\ p \in Int /\ w.generic \in Int
  BY <1>3, <1>6, <1>7
<1>15. Announced(flow) = flow.kicked + r + x + p - d
  BY <1>9, <1>11
<1> HIDE DEF d, y, p
<1> DEFINE a == Announced(flow)
           c == flow.cost
<1>16. before.pool + y - game.pool = w.generic + flow.kicked + r + x + p - k - d
  <2>a. flow.kicked \in Int /\ c \in Int /\ w.generic \in Int /\ game.pool \in Int /\ before.pool \in Int
    BY <1>2, <1>4, <1>14
  <2>1. game.pool + c = before.pool + y
    BY <1>6 DEF y
  <2>4. c = w.generic + a - k
    BY <1>8
  <2>5. a = flow.kicked + r + x + p - d
    BY <1>15
  <2> HIDE DEF a, c
  <2>3. before.pool + y - game.pool = c
    <3>1. \A m, n, q \in Int : m + c = n + q => n + q - m = c
      BY <2>a
    <3> QED
      BY <1>14, <2>a, <2>1, <3>1
  <2>6. \A n \in Int : n + a - k = n + flow.kicked + r + x + p - k - d
    BY <1>10, <1>13, <1>14, <2>5, <2>a
  <2> QED
    BY <2>a, <2>3, <2>4, <2>6
<1>17. (before.pool + YieldOf(U) - game.pool)' = before.pool + y - game.pool
  BY DEF y
<1>18. (w.generic + flow.kicked + flow.replicated * w.replicate + flow.x * w.x
            + OwnPips(w) - flow.life_paid \div 2 - Count("DELVE_PICK"))' =
       w.generic + flow.kicked + r + x + p - k - d
  BY <1>12, <1>13 DEF r, x, p, d, OwnPips
<1>19. (before.life - game.life = w.life + flow.life_x + flow.life_paid + LossOf(U))'
  <2> DEFINE l == LossOf(U)
  <2>1. l \in Nat /\ game.life = before.life - flow.life_paid - l
    BY <1>5, <1>6
  <2> HIDE DEF l
  <2>a. /\ l \in Int /\ w.life \in Int /\ flow.life_x \in Int /\ flow.life_paid \in Int
        /\ before.life \in Int
    BY <1>2, <1>3, <1>4, <2>1
  <2>b. \A b, m, n, q, s \in Int : b - (b - q - s - (m + n)) = m + n + q + s
    OBVIOUS
  <2>2. before.life - (game.life - (w.life + flow.life_x)) = w.life + flow.life_x + flow.life_paid + l
    BY <2>1, <2>a, <2>b
  <2>3. before'.life - game'.life = w.life + flow'.life_x + flow'.life_paid + l
    BY <1>12, <2>2
  <2> QED
    BY <2>3 DEF l
<1> QED
  BY <1>16, <1>17, <1>18, <1>19

(* A spell becomes cast only when everything it costs is paid. *)
LEMMA PayApplyPlan ==
  ASSUME CastInv, Planned, Balanced, PayApply
  PROVE  Planned' /\ Balanced' /\ PaidInFull'
<1>1. FlowTyped /\ flow # Idle /\ flow.step = "PAY_APPLY" /\ Casting /\ Reversible
  BY FlowKinds DEF CastInv, PayApply, Reversible
<1>2. CASE ~CanApply
  BY <1>2, IdleIsPaid DEF PayApply, FailPayment, Rewind
<1>3. CASE CanApply
  <2> DEFINE k == Moved(CostsPaid(game))
             d == IF flow.way.delve THEN Delved ELSE k.delved
  <2>0. PICK w : w = flow.way
    OBVIOUS
  <2>1. game' = [k EXCEPT !.delved = d] /\ Goto("FINISH") /\ before' = before
    BY <1>3 DEF PayApply, Apply
  <2>2. /\ k \in Alike(k) /\ k.tapped = game.tapped /\ k.pool = game.pool
        /\ k.life = game.life - CostLife /\ k.energy = game.energy - w.energy
        /\ \A o \in Objects \ ItemsOf(flow.chosen) : k.zone[o] = game.zone[o]
        /\ ChosenOnce => \A i \in DOMAIN flow.chosen :
               k.zone[flow.chosen[i].item] = flow.chosen[i].dest
    BY <1>1, <2>0, CostsMoved
  <2> HIDE DEF k, d
  <2>3. /\ game'.zone = k.zone /\ game'.tapped = game.tapped /\ game'.pool = game.pool
        /\ game'.life = game.life - (w.life + flow.life_x)
        /\ game'.energy = game.energy - w.energy
    <3>1. CostLife = w.life + flow.life_x
      BY <1>1, <2>0 DEF CostLife
    <3> QED
      BY <2>1, <2>2, <3>1 DEF Alike
  <2>4. CastPlan(flow, before)
    BY <1>1 DEF Planned
  <2>5. ChosenOnce
    BY <2>4 DEF CastPlan, InOrder, ChosenOnce
  <2>6. Finished
    BY <1>1, <2>1, FinishFlow
  <2>7. PICK U \in SUBSET Means : Squared(U)
    BY <1>1, Accounted
  <2>8. U \in Accounts'
    BY <1>1, <2>1, <2>3, <2>6, <2>7, AccountKept
  <2>9. w \in Casts /\ flow.chosen \in Seq(ChosenItems)
    BY <1>1, <2>0, FlowKinds DEF CastFlows
  <2>10. w.types \in Nat /\ w.energy \in Nat
    BY <2>9, WayNumbers
  <2>11. CastItemsPaid(w)'
    BY <1>1, <2>1, <2>2, <2>3, <2>4, <2>5, <2>6, <2>9, <2>10, <2>0, CastItems
  <2>12. OthersStay(U, {w.card}, "stack")'
    BY <1>1, <2>1, <2>2, <2>3, <2>6, <2>7, <2>0, CastOthersStay
  <2>13. flow'.way = w /\ flow'.step = "FINISH" /\ flow'.kind = "cast"
    BY <1>1, <2>0, <2>6 DEF Finished, Casting
  <2>14. CastPaid(w, U)'
    <3>1. /\ (before.pool + YieldOf(U) - game.pool)' =
                (w.generic + flow.kicked + flow.replicated * w.replicate + flow.x * w.x
                    + OwnPips(w) - flow.life_paid \div 2 - Count("DELVE_PICK"))'
          /\ (before.life - game.life = w.life + flow.life_x + flow.life_paid + LossOf(U))'
      BY <1>1, <2>1, <2>3, <2>4, <2>6, <2>7, <2>0, CastSums
    <3> QED
      BY <2>11, <2>12, <3>1 DEF CastPaid, CastItemsPaid
  <2>15. ChosenOnce'
    BY <2>5, <2>6 DEF ChosenOnce, Finished
  <2>16. before'.energy - game'.energy = flow'.way.energy
    <3>1. Clean(before) /\ game.energy = before.energy
      BY <1>1, <2>7 DEF Squared, CastInv, Found
    <3>2. before.energy \in Int
      BY <3>1 DEF Clean, Alike
    <3> QED
      BY <2>1, <2>3, <2>10, <2>13, <3>1, <3>2
  <2>17. PaidInFull'
    BY <2>8, <2>13, <2>14, <2>15, <2>16 DEF PaidInFull, Casting
  <2>18. ~Reversible' /\ ~(flow'.step \in PaySteps)
    BY <2>13, StepsApart DEF Reversible
  <2> QED
    BY <2>17, <2>18 DEF Planned, Balanced
<1> QED
  BY <1>2, <1>3

(* What an activation uses up when its costs are paid. *)
Uses(w, z, o) ==
  \/ w.sac_self /\ o = w.source
  \/ w.discard_self /\ o = w.source
  \/ w.discard_hand /\ z[o] = "hand"
(* Its chosen permanents are not among that. *)
LEMMA ItemsNotUsed ==
  ASSUME NEW w \in Abilities, NEW c, NEW z, NEW zones, Matches(w, c, z), zones[c.item] = c.dest
  PROVE  ~Uses(w, zones, c.item)
<1>1. /\ w.sac_self \/ w.discard_self => w.source \notin w.sac \union w.return
      /\ w.discard_hand => w.return = {}
  BY CostsApartAssumption
<1>2. \/ c.item \in w.sac /\ c.dest = "yard"
      \/ c.item \in w.return /\ c.dest = "hand"
  BY DEF Matches
<1> QED
  BY <1>1, <1>2 DEF Uses

(* The one permanent of each kind of cost is paid. *)
ActivationItemsPaid(w) ==
  /\ Took("COST_SAC", One(w.sac # {}), w.sac, "field", "yard")
  /\ Took("COST_RETURN", One(w.return # {}), w.return, "field", "hand")
(* Each was chosen if the ability has that cost, and moved to its place. *)
LEMMA ActivationItems ==
  ASSUME Finished, before' = before, ActivationPlan(flow, before), NEW w, w = flow.way,
         flow.step = "PAY_APPLY",
         \A i \in DOMAIN flow.chosen : game'.zone[flow.chosen[i].item] = flow.chosen[i].dest
  PROVE  ActivationItemsPaid(w)'
<1>1. \A i \in DOMAIN flow.chosen :
          LET c == flow.chosen[i]
          IN  game'.zone[c.item] = c.dest /\ Matches(w, c, before.zone[c.item])
  BY DEF ActivationPlan
<1>2. \A s : \A i \in Chose(flow, s) : i \in DOMAIN flow.chosen /\ flow.chosen[i].at = s
  BY DEF Chose
<1>3. Went("COST_SAC", w.sac, "field", "yard")'
  BY <1>1, <1>2, WentThere DEF Matches
<1>4. Went("COST_RETURN", w.return, "field", "hand")'
  BY <1>1, <1>2, WentThere DEF Matches
<1>5. Rank[flow.step] = 19
  BY Ranks
<1>6. Number(flow, "COST_SAC") = One(w.sac # {}) /\ Number(flow, "COST_RETURN") = One(w.return # {})
  BY <1>5 DEF ActivationPlan
<1>7. \A s : Count(s)' = Number(flow, s)
  BY ChoicesKept
<1> QED
  BY <1>3, <1>4, <1>6, <1>7 DEF ActivationItemsPaid, Took

(* The others stay, but for what the activation uses up and what was sacrificed for mana. *)
LEMMA ActivationOthersStay ==
  ASSUME CastInv, Activating, flow.step = "PAY_APPLY", Finished, before' = before,
         NEW U \in SUBSET Means, Squared(U), NEW w, w = flow.way,
         \A o \in Objects \ ItemsOf(flow.chosen) :
            game'.zone[o] = IF Uses(w, game.zone, o) THEN "yard" ELSE game.zone[o]
  PROVE  OthersStay(U, Spent(w), "yard")'
<1>1. Reversible /\ ~Casting
  <2>1. FlowTyped /\ flow # Idle
    BY FlowKinds DEF CastInv
  <2> QED
    BY <2>1, FlowKinds DEF Reversible
<1>2. \A o \in Objects : Start.zone[o] = before.zone[o]
  BY <1>1, StartFacts
<1>3. \A o \in SacrificedFor(U) : Start.zone[o] = "field"
  BY DEF Squared, SacrificedFor
<1>4. \A o \in Objects : o \in Spent(w) <=> Uses(w, before.zone, o)
  BY DEF Spent, Uses
<1>5. ASSUME NEW o \in Objects, \A i \in DOMAIN flow.chosen : flow.chosen[i].item # o
      PROVE  game'.zone[o] = CASE o \in Spent(w) -> "yard"
                               [] o \in SacrificedFor(U) \ Spent(w) -> "yard"
                               [] OTHER -> before.zone[o]
  <2>1. o \notin ItemsOf(flow.chosen)
    BY <1>5 DEF ItemsOf
  <2>2. /\ game'.zone[o] = IF Uses(w, game.zone, o) THEN "yard" ELSE game.zone[o]
        /\ game.zone[o] = IF o \in SacrificedFor(U) THEN "yard" ELSE before.zone[o]
    BY <1>2, <2>1 DEF Squared
  <2>3. CASE o \in SacrificedFor(U)
    BY <2>2, <2>3
  <2>4. CASE o \notin SacrificedFor(U)
    <3>1. Uses(w, game.zone, o) <=> o \in Spent(w)
      BY <1>4, <2>2, <2>4 DEF Uses
    <3> QED
      BY <2>2, <2>4, <3>1
  <2> QED
    BY <2>3, <2>4
<1>6. Spent(w)' = Spent(w)
  BY DEF Spent
<1> QED
  BY <1>5, <1>6 DEF OthersStay, Finished, SacrificedFor

(* The mana and the life of an activation are paid. *)
LEMMA ActivationSums ==
  ASSUME CastInv, Activating, ActivationPlan(flow, before), flow.step = "PAY_APPLY", Finished,
         before' = before, NEW U, Squared(U), NEW w, w = flow.way,
         game'.pool = game.pool, game'.life = game.life - w.life
  PROVE  /\ (before.pool + YieldOf(U) - game.pool)' = (w.mana + flow.x * w.x)'
         /\ (before.life - game.life = w.life + LossOf(U))'
<1>1. flow \in ActivationFlows(flow.snap) /\ Clean(before) /\ Clean(game) /\ Reversible /\ ~Casting
  BY FlowKinds DEF CastInv, Found, Reversible, Idle, Activating
<1>2. flow.cost \in Int /\ flow.way \in Abilities
  <2> DEFINE s == flow.snap
  <2>1. flow \in ActivationFlows(s)
    BY <1>1
  <2> HIDE DEF s
  <2> QED
    BY <2>1 DEF ActivationFlows
<1>3. w.life \in Int
  BY <1>2, WaysTyped
<1>4. /\ game.pool \in Int /\ before.pool \in Int /\ before.life \in Int
  BY <1>1 DEF Clean, Alike
<1>5. Start.life = before.life
  BY <1>1 DEF Start, ActivationStart, Clean, Alike
<1>6. flow.cost = w.mana + flow.x * w.x
  BY Ranks DEF ActivationPlan
<1>7. flow'.x = flow.x
  BY DEF Finished
<1> DEFINE y == YieldOf(U)
           l == LossOf(U)
           c == flow.cost
<1>8. /\ y \in Int /\ l \in Int /\ c \in Int
      /\ game.pool + c = before.pool + y /\ game.life = before.life - l
  BY <1>2, <1>5 DEF Squared
<1> HIDE DEF y, l, c
<1>9. before.pool + y - game.pool = c
  <2>1. \A m, n, q \in Int : m + c = n + q => n + q - m = c
    BY <1>8
  <2> QED
    BY <1>4, <1>8, <2>1
<1>10. before.life - (game.life - w.life) = w.life + l
  <2>1. \A b, m, q \in Int : b - (b - q - m) = m + q
    OBVIOUS
  <2> QED
    BY <1>3, <1>4, <1>8, <2>1
<1>11. (before.pool + YieldOf(U) - game.pool)' = c
  BY <1>9 DEF y
<1>12. (w.mana + flow.x * w.x)' = c
  BY <1>6, <1>7 DEF c
<1>13. before'.life - game'.life = w.life + l
  BY <1>10
<1>14. (before.life - game.life = w.life + LossOf(U))'
  BY <1>13 DEF l
<1> QED
  BY <1>11, <1>12, <1>14

(* An ability is activated only when everything it costs is paid. *)
LEMMA ActivationApplyPlan ==
  ASSUME CastInv, Planned, Balanced, ActivationApply
  PROVE  Planned' /\ Balanced' /\ PaidInFull'
<1>1. /\ FlowTyped /\ flow # Idle /\ flow.step = "PAY_APPLY" /\ Activating /\ ~Casting /\ Reversible
  BY FlowKinds DEF CastInv, ActivationApply, Reversible
<1>2. CASE ~CanApply
  BY <1>2, IdleIsPaid DEF ActivationApply, FailPayment, Rewind
<1>3. CASE CanApply
  <2>0. PICK w : w = flow.way
    OBVIOUS
  <2> DEFINE k == Moved(CostsPaid(game))
             z == [o \in Objects |-> IF Uses(w, k.zone, o) THEN "yard" ELSE k.zone[o]]
  <2>1. game' = [k EXCEPT !.zone = z] /\ Goto("FINISH") /\ before' = before
    BY <1>3, <2>0 DEF ActivationApply, Apply, Discarded, Uses
  <2>2. /\ k \in Alike(k) /\ k.tapped = game.tapped /\ k.pool = game.pool
        /\ k.life = game.life - CostLife /\ k.energy = game.energy - w.energy
        /\ \A o \in Objects \ ItemsOf(flow.chosen) : k.zone[o] = game.zone[o]
        /\ ChosenOnce => \A i \in DOMAIN flow.chosen :
               k.zone[flow.chosen[i].item] = flow.chosen[i].dest
    BY <1>1, <2>0, CostsMoved
  <2> HIDE DEF k
  <2>3. /\ game'.zone = z /\ game'.tapped = game.tapped /\ game'.pool = game.pool
        /\ game'.life = game.life - w.life /\ game'.energy = game.energy - w.energy
    <3>1. CostLife = w.life
      BY <1>1, <2>0 DEF CostLife
    <3> HIDE DEF z
    <3> QED
      BY <2>1, <2>2, <3>1 DEF Alike
  <2>4. ActivationPlan(flow, before)
    BY <1>1 DEF Planned
  <2>5. ChosenOnce
    BY <2>4 DEF ActivationPlan, InOrder, ChosenOnce
  <2>6. Finished
    BY <1>1, <2>1, FinishFlow
  <2>7. PICK U \in SUBSET Means : Squared(U)
    BY <1>1, Accounted
  <2>8. U \in Accounts'
    BY <1>1, <2>1, <2>3, <2>6, <2>7, AccountKept
  <2>9. w \in Abilities /\ flow.chosen \in Seq(ChosenItems)
    BY <1>1, <2>0, FlowKinds DEF ActivationFlows
  <2>10. w.energy \in Nat
    BY <2>9, WaysTyped
  <2>11. \A i \in DOMAIN flow.chosen : game'.zone[flow.chosen[i].item] = flow.chosen[i].dest
    <3> SUFFICES ASSUME NEW i \in DOMAIN flow.chosen
                 PROVE  game'.zone[flow.chosen[i].item] = flow.chosen[i].dest
      OBVIOUS
    <3> DEFINE c == flow.chosen[i]
    <3>1. c \in ChosenItems
      BY <2>9
    <3>2. c.item \in Objects /\ Matches(w, c, before.zone[c.item]) /\ k.zone[c.item] = c.dest
      BY <2>0, <2>2, <2>4, <2>5, <3>1 DEF ActivationPlan, ChosenItems
    <3> HIDE DEF c
    <3>3. ~Uses(w, k.zone, c.item)
      BY <2>9, <3>2, ItemsNotUsed
    <3>4. game'.zone[c.item] = c.dest
      BY <2>3, <3>2, <3>3
    <3> QED
      BY <3>4 DEF c
  <2>12. ActivationItemsPaid(w)'
    BY <2>0, <1>1, <2>1, <2>4, <2>6, <2>11, ActivationItems
  <2>13. OthersStay(U, Spent(w), "yard")'
    <3>1. \A o \in Objects \ ItemsOf(flow.chosen) :
            game'.zone[o] = IF Uses(w, game.zone, o) THEN "yard" ELSE game.zone[o]
      BY <2>2, <2>3 DEF Uses
    <3> QED
      BY <1>1, <2>0, <2>1, <2>6, <2>7, <3>1, ActivationOthersStay
  <2>14. flow'.way = w /\ flow'.step = "FINISH" /\ flow'.kind = "activation"
    BY <1>1, <2>0, <2>6 DEF Finished, Activating
  <2>15. ActivationPaid(w, U)'
    <3>1. /\ (before.pool + YieldOf(U) - game.pool)' = (w.mana + flow.x * w.x)'
          /\ (before.life - game.life = w.life + LossOf(U))'
      BY <1>1, <2>0, <2>1, <2>3, <2>4, <2>6, <2>7, ActivationSums
    <3> QED
      BY <2>12, <2>13, <3>1 DEF ActivationPaid, ActivationItemsPaid
  <2>16. ChosenOnce'
    BY <2>5, <2>6 DEF ChosenOnce, Finished
  <2>17. before'.energy - game'.energy = flow'.way.energy
    <3>1. Clean(before) /\ game.energy = before.energy
      BY <1>1, <2>7 DEF Squared, CastInv, Found
    <3>2. before.energy \in Int
      BY <3>1 DEF Clean, Alike
    <3> QED
      BY <2>1, <2>3, <2>10, <2>14, <3>1, <3>2
  <2>18. PaidInFull'
    BY <2>8, <2>14, <2>15, <2>16, <2>17 DEF PaidInFull, Casting
  <2>19. ~Reversible' /\ ~(flow'.step \in PaySteps)
    BY <2>14, StepsApart DEF Reversible
  <2> QED
    BY <2>18, <2>19 DEF Planned, Balanced
<1> QED
  BY <1>2, <1>3

(* After the costs are paid nothing more is owed: a spell becomes cast, its copies are made, and the
   proposal is over. *)
LEMMA EndsPlan ==
  ASSUME CastInv, Finish \/ MakeCopy \/ PlaceCopy \/ CastDone \/ ActivationFinish
  PROVE  Planned' /\ Balanced' /\ PaidInFull'
<1>1. CASE CastDone \/ ActivationFinish
  BY <1>1, IdleIsPaid DEF CastDone, ActivationFinish
<1>2. CASE Finish \/ MakeCopy \/ PlaceCopy
  <2>1. flow'.step = "COPY_TARGETS"
    <3>1. flow # Idle /\ FlowTyped /\ (MakeCopy \/ PlaceCopy => flow.step = "COPY_TARGETS")
      BY <1>2, FlowKinds DEF CastInv, Finish, MakeCopy, PlaceCopy
    <3> QED
      BY <1>2, <3>1 DEF Finish, MakeCopy, PlaceCopy, FlowTyped, CastFlows, ActivationFlows
  <2> QED
    BY <2>1, StepsApart DEF Planned, Balanced, PaidInFull, Reversible, At, PaySteps
<1> QED
  BY <1>1, <1>2

(* What is paid stays paid while nothing changes. *)
LEMMA NothingOwed ==
  ASSUME PayInv, UNCHANGED vars
  PROVE  Planned' /\ Balanced' /\ PaidInFull'
<1>1. game' = game /\ flow' = flow /\ before' = before /\ mode' = mode
  BY DEF vars
<1>2. Planned'
  BY <1>1 DEF PayInv, Planned, Reversible, Casting, CastPlan, ActivationPlan, Tallied, InOrder,
     Limited, Complete, Delvable, Gated, Number, Chose
<1>3. Means' = Means /\ Opening' = Opening
  BY <1>1 DEF Means, Improvises, Casting, Activating, Opening, Tapped, Start, CastStart, ActivationStart
<1>4. Balanced'
  <2>1. flow' # Idle /\ flow'.step \in PaySteps => Balance' \in Ledgers(Opening)
    BY <1>1 DEF PayInv, Balanced, Balance
  <2>2. ~(flow' # Idle /\ flow'.step \in PaySteps) => Balanced'
    BY DEF Balanced
  <2> QED
    BY <1>3, <2>1, <2>2, BalancedStill
<1>5. PaidInFull'
  <2>1. Accounts' = Accounts
    BY <1>1, <1>3 DEF Accounts, Engaged, Activating
  <2>a. \A s : Count(s)' = Count(s)
    BY <1>1 DEF Count, ChosenAt
  <2>b. \A s, of, from, to : Went(s, of, from, to)' <=> Went(s, of, from, to)
    BY <1>1 DEF Went, ChosenAt
  <2>c. \A s, n, of, from, to : Took(s, n, of, from, to)' <=> Took(s, n, of, from, to)
    BY <2>a, <2>b DEF Took
  <2>d. ExiledTypes' = ExiledTypes
    BY <1>1 DEF ExiledTypes, ChosenAt
  <2>e. \A U, moved, to : OthersStay(U, moved, to)' <=> OthersStay(U, moved, to)
    BY <1>1 DEF OthersStay
  <2>2. ASSUME NEW w, NEW U, CastPaid(w, U)
        PROVE  CastPaid(w, U)'
    BY <1>1, <2>2, <2>a, <2>b, <2>c, <2>d, <2>e DEF CastPaid
  <2>3. \A w, U : ActivationPaid(w, U) => ActivationPaid(w, U)'
    BY <1>1 DEF ActivationPaid, Took, Went, Count, ChosenAt, OthersStay, Spent
  <2> QED
    BY <1>1, <2>1, <2>2, <2>3 DEF PayInv, PaidInFull, At, ChosenOnce, Casting
<1> QED
  BY <1>2, <1>4, <1>5

(***************************************************************************)
(* The proposal, its payment and what is paid: an invariant.               *)
(***************************************************************************)
(* Nothing is owed at first. *)
LEMMA InitPayInv == Init => PayInv
<1> SUFFICES ASSUME Init
             PROVE  PayInv
  OBVIOUS
<1>1. flow = Idle /\ flow.kind = "none"
  BY DEF Init, Idle
<1> QED
  BY <1>1, InitInv DEF PayInv, Planned, Balanced, PaidInFull, Reversible, At

(* And every step keeps to the plan. *)
LEMMA NextPayInv == PayInv /\ [Next]_vars => PayInv'
<1> SUFFICES ASSUME PayInv, [Next]_vars
             PROVE  Planned' /\ Balanced' /\ PaidInFull'
  BY NextInv DEF PayInv
<1>0. CastInv /\ Planned /\ Balanced
  BY DEF PayInv
<1>1. CASE \E c \in Casts : ProposeCast(c)
  BY <1>0, <1>1, ProposeCastPlan
<1>2. CASE \E a \in Abilities : ProposeActivation(a)
  BY <1>0, <1>2, ProposeActivationPlan
<1>3. CASE CastStep
  BY <1>0, <1>3, AnnouncementsPlan, ItemsPlan, ManaPayPlan, PayApplyPlan, EndsPlan DEF CastStep
<1>4. CASE ActivationStep
  BY <1>0, <1>4, ActivationChoicesPlan, ActivationPayPlan, ActivationApplyPlan, EndsPlan
  DEF ActivationStep
<1>5. CASE PaymentStep
  BY <1>0, <1>5, PaysPlan, PayerPlan DEF PaymentStep
<1>6. CASE CancelProposal
  BY <1>6, IdleIsPaid DEF CancelProposal, Rewind
<1>7. CASE UNCHANGED vars
  BY <1>7, NothingOwed
<1> QED
  BY <1>1, <1>2, <1>3, <1>4, <1>5, <1>6, <1>7 DEF Next, Step

(* In every position, with any cards, costs and mana abilities: until a proposal is paid, what it has
   announced is tallied in its cost, what it has chosen is where it was offered, as many as each cost
   takes, and what was tapped for mana made the mana that is there (CastPlan, ActivationPlan, Ledger). *)
THEOREM PaymentInvariant == Spec => []PayInv
BY InitPayInv, NextPayInv, PTL DEF Spec

(* When a spell becomes cast or an ability activated, in any position and with any costs, the player
   has paid exactly what its choices came to, in mana, life, energy and cards (PAY_APPLY). *)
THEOREM AllPaid == Spec => []PaidInFull
<1>1. PayInv => PaidInFull
  BY DEF PayInv
<1> QED
  BY <1>1, PaymentInvariant, PTL
=============================================================================
