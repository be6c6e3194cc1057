--------------------------- MODULE CastFlowProofs ---------------------------
(***************************************************************************)
(* A proposal that is reversed leaves no trace, for every set of cards,     *)
(* ways to cast, abilities and positions.                                   *)
(*                                                                          *)
(* What the payer does is a fold along its order of the sources.  The value *)
(* is found by induction over the sequence's length, in the form of a set   *)
(* of numbers that lacks none (Induction), from which the recursive         *)
(* function a fold stands for exists and stays where its steps stay         *)
(* (FoldExists, FoldStays).                                                 *)
(*                                                                          *)
(* CastInv says what a proposal has changed so far, CastInvariant that it   *)
(* is an invariant, NoTraceLeft that a reversal undoes it.                  *)
(***************************************************************************)
EXTENDS CastFlow, TLAPS, FiniteSetTheorems, SequenceTheorems, WellFoundedInduction

(* Induction over the naturals, of membership in a set: a number left out would be preceded by a
   least one. *)
LEMMA Induction ==
  ASSUME NEW T, 0 \in T, \A n \in Nat : n \in T => n + 1 \in T
  PROVE  \A n \in Nat : n \in T
<1> SUFFICES ASSUME NEW m \in Nat, m \notin T
             PROVE  FALSE
  OBVIOUS
<1> DEFINE missing == {n \in Nat : n \notin T}
<1> DEFINE below == {p \in Nat \X Nat : p[1] < p[2]}
<1>0. IsWellFoundedOn(below, Nat)
  BY NatLessThanWellFounded DEF OpToRel
<1> HIDE DEF below
<1>1. PICK least \in missing : \A n \in missing : <<n, least>> \notin below
  BY <1>0, WFMin
<1>2. \A n \in missing : ~(n < least)
  BY <1>1 DEF below
<1>3. least - 1 \in Nat /\ least - 1 \in T
  BY <1>1, <1>2
<1>4. (least - 1) + 1 \in T
  BY <1>3
<1> QED
  BY <1>1, <1>3, <1>4

(* The largest of the first n numbers is n. *)
LEMMA LargestOfInterval ==
  ASSUME NEW n \in Nat, n # 0
  PROVE  Max(1..n) = n /\ (1..n) \ {n} = 1..(n - 1)
<1>1. n \in 1..n /\ \A i \in 1..n : n >= i
  OBVIOUS
<1>2. \A i \in 1..n : (\A j \in 1..n : i >= j) => i = n
  BY <1>1
<1> QED
  BY <1>1, <1>2 DEF Max

(* A set of some of the first n numbers, if it is not empty, has a largest. *)
LEMMA LargestIsThere ==
  ASSUME NEW n \in Nat
  PROVE  \A S \in SUBSET (1..n) : S # {} => Max(S) \in S /\ \A j \in S : Max(S) >= j
<1> DEFINE Largest(S) == \E i \in S : \A j \in S : i >= j
           T == {k \in Nat : \A S \in SUBSET (1..k) : S # {} => Largest(S)}
<1>1. 0 \in T
  <2>1. 1..0 = {}
    OBVIOUS
  <2>2. \A S \in SUBSET (1..0) : S = {}
    BY <2>1
  <2> QED
    BY <2>2
<1>2. ASSUME NEW k \in Nat, k \in T
      PROVE  k + 1 \in T
  <2> SUFFICES ASSUME NEW S \in SUBSET (1..(k + 1)), S # {}
               PROVE  Largest(S)
    OBVIOUS
  <2>1. CASE k + 1 \in S
    BY <2>1
  <2>2. CASE k + 1 \notin S
    <3>1. S \in SUBSET (1..k)
      BY <2>2
    <3> QED
      BY <3>1, <1>2
  <2> QED
    BY <2>1, <2>2
<1> HIDE DEF T
<1>3. n \in T
  BY <1>1, <1>2, Induction
<1>4. ASSUME NEW S \in SUBSET (1..n), S # {}
      PROVE  Largest(S)
  BY <1>3, <1>4 DEF T
<1> QED
  BY <1>4 DEF Max

(* The recursive function of a fold along n steps, each of which takes a member of V to a member of
   V; its argument is the set of the steps taken. *)
Follows(it, n, V, b, step) ==
  /\ it \in [SUBSET (1..n) -> V]
  /\ \A S \in SUBSET (1..n) : it[S] = IF S = {} THEN b ELSE step[Max(S)][it[S \ {Max(S)}]]
Steps(n, V) == [1..n -> [V -> V]]
(* Such a fold exists. *)
LEMMA FoldExists ==
  ASSUME NEW n \in Nat, NEW V, NEW b \in V, NEW step \in Steps(n, V)
  PROVE  \E it : Follows(it, n, V, b, step)
<1> DEFINE Small(k) == {S \in SUBSET (1..n) : S \subseteq 1..k}
           Rest(S) == S \ {Max(S)}
           Goes(it, S) == it[S] = IF S = {} THEN b ELSE step[Max(S)][it[Rest(S)]]
           T == {k \in Nat : \E it \in [Small(k) -> V] : \A S \in Small(k) : Goes(it, S)}
<1>1. 0 \in T
  <2> DEFINE it == [S \in Small(0) |-> b]
  <2>1. \A S \in Small(0) : S = {}
    OBVIOUS
  <2>2. it \in [Small(0) -> V] /\ \A S \in Small(0) : it[S] = b
    OBVIOUS
  <2>3. \A S \in Small(0) : Goes(it, S)
    BY <2>1, <2>2
  <2> HIDE DEF it, Small, Goes
  <2> QED
    BY <2>2, <2>3
<1>2. ASSUME NEW k \in Nat, k \in T
      PROVE  k + 1 \in T
  <2>1. PICK it \in [Small(k) -> V] : \A S \in Small(k) : Goes(it, S)
    BY <1>2
  <2>2. ASSUME NEW S \in Small(k + 1), S # {}
        PROVE  Max(S) \in 1..n /\ Rest(S) \in Small(k)
    <3>1. Max(S) \in S /\ \A j \in S : Max(S) >= j
      BY <2>2, LargestIsThere
    <3>2. S \subseteq 1..(k + 1) /\ S \subseteq 1..n
      OBVIOUS
    <3>3. ASSUME NEW j \in S, j # Max(S)
          PROVE  j \in 1..k
      <4>1. j <= Max(S) /\ j \in 1..(k + 1) /\ Max(S) \in 1..(k + 1)
        BY <3>1, <3>2
      <4> QED
        BY <4>1, <3>3
    <3>4. Rest(S) \subseteq 1..k /\ Rest(S) \subseteq 1..n
      BY <3>2, <3>3
    <3> QED
      BY <3>1, <3>2, <3>4
  <2> DEFINE next == [S \in Small(k + 1) |-> IF S = {} THEN b ELSE step[Max(S)][it[Rest(S)]]]
  <2>a. \A S \in Small(k) : S \in Small(k + 1)
    OBVIOUS
  <2> HIDE DEF Small, Rest
  <2>3. next \in [Small(k + 1) -> V]
    BY <2>2 DEF Steps
  <2>4. \A S \in Small(k) : next[S] = it[S]
    BY <2>1, <2>a
  <2>5. ASSUME NEW S \in Small(k + 1)
        PROVE  Goes(next, S)
    <3>1. CASE S = {}
      BY <3>1
    <3>2. CASE S # {}
      <4>1. next[Rest(S)] = it[Rest(S)]
        BY <2>2, <2>4, <3>2
      <4> QED
        BY <4>1, <3>2
    <3> QED
      BY <3>1, <3>2
  <2> HIDE DEF next, Goes
  <2> QED
    BY <2>3, <2>5
<1> HIDE DEF T
<1>3. n \in T
  BY <1>1, <1>2, Induction
<1>4. Small(n) = SUBSET (1..n)
  OBVIOUS
<1>5. PICK it \in [SUBSET (1..n) -> V] : \A S \in SUBSET (1..n) : Goes(it, S)
  BY <1>3, <1>4 DEF T
<1> QED
  BY <1>5 DEF Follows

(* What holds at the start of a fold and is kept by each of its steps holds at its end. *)
LEMMA FoldStays ==
  ASSUME NEW n \in Nat, NEW V, NEW it, it[{}] \in V,
         \A k \in 1..n : it[1..(k - 1)] \in V => it[1..k] \in V
  PROVE  it[1..n] \in V
<1> DEFINE T == {k \in Nat : k <= n => it[1..k] \in V}
<1>1. 0 \in T
  <2>1. 1..0 = {}
    OBVIOUS
  <2> QED
    BY <2>1
<1>2. ASSUME NEW k \in Nat, k \in T
      PROVE  k + 1 \in T
  <2>1. CASE k + 1 <= n
    <3>1. k + 1 \in 1..n /\ (k + 1) - 1 = k
      BY <2>1
    <3> QED
      BY <3>1, <1>2
  <2> QED
    BY <2>1
<1> HIDE DEF T
<1>3. n \in T
  BY <1>1, <1>2, Induction
<1> QED
  BY <1>3 DEF T
(***************************************************************************)
(* What a payment may change: mana, life, taps, and the place of a         *)
(* permanent sacrificed for mana.                                          *)
(***************************************************************************)
Alike(g) ==
  [zone : [Objects -> Zones], tapped : SUBSET Objects, life : Int, lost : Int, pool : Int,
   energy : {g.energy} \intersect Int, delved : {g.delved}, stamps : {g.stamps}, casts : {g.casts},
   copies : {g.copies}, abilities : {g.abilities}, order : {g.order} \intersect Seq(AllMeans)]
SacrificedForManaOn(o) == \E m \in ManaAbilities : m.on = o /\ m.sac
Payments(g) ==
  {h \in Alike(g) : \A o \in Objects :
      \/ h.zone[o] = g.zone[o]
      \/ g.zone[o] = "field" /\ h.zone[o] = "yard" /\ SacrificedForManaOn(o)}

Tappers ==
  [on : Objects, yield : Nat, life : Nat, hurt : Nat, sac : BOOLEAN, improvise : BOOLEAN]
SourcesOf(g) == {m \in Tappers : (m.sac => m \in ManaAbilities) /\ OnField(g, m.on)}

(* Two games that agree in every field are the same game. *)
LEMMA SameGame ==
  ASSUME NEW a, NEW b, NEW g, NEW h, g \in Alike(a), h \in Alike(b),
         g.zone = h.zone, g.tapped = h.tapped, g.life = h.life, g.lost = h.lost, g.pool = h.pool,
         g.energy = h.energy, g.delved = h.delved, g.stamps = h.stamps, g.casts = h.casts,
         g.copies = h.copies, g.abilities = h.abilities, g.order = h.order
  PROVE  g = h
BY DEF Alike

(* A payment after a payment is a payment. *)
LEMMA PaymentsCompose ==
  ASSUME NEW g, NEW h \in Payments(g), NEW k \in Payments(h)
  PROVE  k \in Payments(g)
<1>1. Alike(h) = Alike(g)
  BY DEF Payments, Alike
<1>2. k \in Alike(g)
  BY <1>1 DEF Payments
<1>3. ASSUME NEW o \in Objects
      PROVE  \/ k.zone[o] = g.zone[o]
             \/ g.zone[o] = "field" /\ k.zone[o] = "yard" /\ SacrificedForManaOn(o)
  <2>1. \/ h.zone[o] = g.zone[o]
        \/ g.zone[o] = "field" /\ h.zone[o] = "yard" /\ SacrificedForManaOn(o)
    BY DEF Payments
  <2>2. \/ k.zone[o] = h.zone[o]
        \/ h.zone[o] = "field" /\ k.zone[o] = "yard" /\ SacrificedForManaOn(o)
    BY DEF Payments
  <2> QED
    BY <2>1, <2>2
<1> QED
  BY <1>2, <1>3 DEF Payments

(* What tapping a source does. *)
LEMMA TapFacts ==
  ASSUME NEW g, NEW h \in Alike(g), NEW m \in Tappers
  PROVE  LET k == Activated(h, m)
         IN  /\ k \in Alike(g) /\ k.pool = h.pool + m.yield /\ k.life = h.life - Loss(m)
             /\ k.tapped = h.tapped \union {m.on}
             /\ \A o \in Objects : k.zone[o] = IF o = m.on /\ m.sac THEN "yard" ELSE h.zone[o]
<1> DEFINE k == Activated(h, m)
<1>1. /\ k.zone = [h.zone EXCEPT ![m.on] = IF m.sac THEN "yard" ELSE @]
      /\ k = [h EXCEPT !.life = k.life, !.lost = k.lost, !.pool = k.pool, !.tapped = k.tapped,
                       !.zone = k.zone]
      /\ k.life = h.life - Loss(m) /\ k.pool = h.pool + m.yield
      /\ k.life \in Int /\ k.lost \in Int /\ k.pool \in Int /\ k.tapped \in SUBSET Objects
      /\ k.tapped = h.tapped \union {m.on}
  BY DEF Activated, Tap, PayLife, Loss, Alike, Tappers
<1>2. k.zone \in [Objects -> Zones]
  <2>1. h.zone \in [Objects -> Zones] /\ "yard" \in Zones
    BY DEF Alike, Zones
  <2> QED
    BY <1>1, <2>1
<1> HIDE DEF k
<1>3. k \in Alike(g)
  BY <1>1, <1>2 DEF Alike
<1>4. \A o \in Objects : k.zone[o] = IF o = m.on /\ m.sac THEN "yard" ELSE h.zone[o]
  BY <1>1 DEF Alike
<1> QED
  BY <1>1, <1>3, <1>4 DEF k

(* Tapping a source on the battlefield is a payment. *)
LEMMA TapIsPayment ==
  ASSUME NEW g, NEW h \in Payments(g), NEW m \in SourcesOf(g)
  PROVE  Activated(h, m) \in Payments(g)
<1>1. /\ h \in Alike(g) /\ m \in Tappers /\ g.zone[m.on] = "field"
      /\ m.sac => SacrificedForManaOn(m.on)
  BY DEF Payments, SourcesOf, OnField, SacrificedForManaOn
<1>2. /\ Activated(h, m) \in Alike(g)
      /\ \A o \in Objects : Activated(h, m).zone[o] = IF o = m.on /\ m.sac THEN "yard" ELSE h.zone[o]
  BY <1>1, TapFacts
<1> QED
  BY <1>1, <1>2 DEF Payments

(* What the payer finds is on the battlefield, and it sacrifices nothing but mana abilities that say
   so. *)
LEMMA SourcesFound ==
  ASSUME NEW g, NEW exclude, NEW reserve, NEW improvise
  PROVE  Payable(g, exclude, reserve, improvise) \subseteq SourcesOf(g)
<1>1. Sources(g, exclude, reserve) \subseteq SourcesOf(g)
  BY ManaAbilitiesAssumption DEF Sources, SourcesOf, Tappers
<1>2. Tappable(g) \subseteq SourcesOf(g)
  <2> SUFFICES ASSUME NEW a \in Artifacts, OnField(g, a)
               PROVE  [on |-> a, yield |-> 1, life |-> 0, hurt |-> 0, sac |-> FALSE,
                       improvise |-> TRUE] \in SourcesOf(g)
    BY DEF Tappable, Improvised
  <2> QED
    BY ArtifactsAssumption DEF SourcesOf, Tappers
<1> QED
  BY <1>1, <1>2 DEF Payable

(* What float_mana_before_cost_removal() does, for one item and for all of them. *)
LEMMA FloatedIsPayment ==
  ASSUME NEW g, NEW h \in Payments(g), NEW owed, NEW leaving, NEW reserve
  PROVE  Floated(h, owed, leaving, reserve) \in Payments(g)
<1> DEFINE A == {m \in Sources(h, "none", reserve) : m.on = leaving /\ ~m.sac}
           chosen == CHOOSE m \in A : Loss(m) > 0 => \A n \in A : Loss(n) > 0
<1>1. CASE Floated(h, owed, leaving, reserve) = h
  BY <1>1
<1>2. CASE A # {} /\ Floated(h, owed, leaving, reserve) = Activated(h, chosen)
  <2>1. \E m \in A : Loss(m) > 0 => \A n \in A : Loss(n) > 0
    BY <1>2
  <2>2. chosen \in A
    BY <2>1
  <2>3. chosen \in SourcesOf(h)
    BY <2>2, SourcesFound DEF Payable
  <2>4. chosen \in SourcesOf(g)
    BY <2>3, ManaAbilitiesAssumption DEF SourcesOf, Payments, OnField, Tappers
  <2> QED
    BY <1>2, <2>4, TapIsPayment
<1> QED
  BY <1>1, <1>2 DEF Floated

(* Tapping what is about to leave for a cost, one item after another, stays in a set of games that
   one such tap does not leave. *)
LEMMA FloatAllStays ==
  ASSUME NEW V, NEW g \in V, NEW owed, NEW S, flow.chosen \in Seq(S),
         \A h \in V : \A o : Floated(h, owed, o, Reserved(flow)) \in V
  PROVE  FloatAll(g, owed) \in V
<1> DEFINE n == Len(flow.chosen)
           Then(h, c) == Floated(h, owed, c.item, Reserved(flow))
           step == [i \in 1..n |-> [h \in V |-> Then(h, flow.chosen[i])]]
           it == CHOOSE it : it = [T \in SUBSET (DOMAIN flow.chosen) |->
                    IF T = {} THEN g ELSE Then(it[T \ {Max(T)}], flow.chosen[Max(T)])]
<1>1. FloatAll(g, owed) = it[DOMAIN flow.chosen]
  BY DEF FloatAll, FoldLeft, MapThenFoldSet
<1>2. n \in Nat /\ DOMAIN flow.chosen = 1..n
  OBVIOUS
<1>3. g \in V
  OBVIOUS
<1>4. \A h \in V : \A c : Then(h, c) \in V
  OBVIOUS
<1> HIDE DEF Then, n
<1>5. step \in Steps(n, V)
  BY <1>4 DEF Steps
<1> HIDE DEF step
<1>6. PICK typed : Follows(typed, n, V, g, step)
  BY <1>2, <1>3, <1>5, FoldExists
<1>7. typed = [T \in SUBSET (1..n) |->
                 IF T = {} THEN g ELSE Then(typed[T \ {Max(T)}], flow.chosen[Max(T)])]
  <2>1. ASSUME NEW T \in SUBSET (1..n), T # {}
        PROVE  step[Max(T)][typed[T \ {Max(T)}]] = Then(typed[T \ {Max(T)}], flow.chosen[Max(T)])
    <3>1. Max(T) \in 1..n
      BY <1>2, <2>1, LargestIsThere
    <3>2. typed[T \ {Max(T)}] \in V
      BY <1>6 DEF Follows
    <3> QED
      BY <3>1, <3>2 DEF step
  <2> QED
    BY <1>6, <2>1 DEF Follows
<1>8. it = [T \in SUBSET (1..n) |->
              IF T = {} THEN g ELSE Then(it[T \ {Max(T)}], flow.chosen[Max(T)])]
  BY <1>2, <1>7
<1> HIDE DEF it
<1>9. it[{}] \in V
  BY <1>3, <1>8
<1>10. ASSUME NEW k \in 1..n, it[1..(k - 1)] \in V
       PROVE  it[1..k] \in V
  <2>1. k \in Nat /\ k # 0 /\ n \in Nat /\ k <= n
    BY <1>2
  <2>a. 1..k \in SUBSET (1..n) /\ k \in 1..k
    BY <2>1
  <2>2. Max(1..k) = k /\ (1..k) \ {k} = 1..(k - 1)
    BY <2>1, LargestOfInterval
  <2>3. it[1..k] = Then(it[1..(k - 1)], flow.chosen[k])
    BY <1>8, <2>1, <2>2, <2>a
  <2> QED
    BY <1>4, <1>10, <2>3
<1>11. it[1..n] \in V
  BY <1>2, <1>9, <1>10, FoldStays
<1> QED
  BY <1>1, <1>2, <1>11

(* So it is a payment. *)
LEMMA FloatAllIsPayment ==
  ASSUME NEW g, g \in Alike(g), NEW owed, NEW S, flow.chosen \in Seq(S)
  PROVE  FloatAll(g, owed) \in Payments(g)
<1> DEFINE V == Payments(g)
<1>1. g \in V
  BY DEF Payments
<1>2. \A h \in V : \A o : Floated(h, owed, o, Reserved(flow)) \in V
  BY FloatedIsPayment
<1> HIDE DEF V
<1> QED
  BY <1>1, <1>2, FloatAllStays DEF V

(***************************************************************************)
(* The automatic payer: whatever it taps down its order, paid in full or   *)
(* not, is a payment.                                                      *)
(***************************************************************************)
(* The strategy it chooses has only sources of those it may use. *)
LEMMA StrategyIsOfSources ==
  ASSUME NEW g, NEW owed, NEW A, NEW reserve
  PROVE  Strategy(g, owed, A, reserve) \subseteq A
BY DEF Strategy, BestYield

(* Tapping down the order stays in a set of games that tapping one more source does not leave. *)
LEMMA AttemptStays ==
  ASSUME NEW V, NEW g \in V, NEW owed, NEW A, g.order \in Seq(AllMeans), NEW reserve,
         \A h \in V : \A m \in A : m.on \notin h.tapped => Activated(h, m) \in V
  PROVE  Attempt(g, owed, A, reserve, TRUE) \in V
<1> DEFINE order == g.order
           n == Len(order)
           Then(h, m) == IF \/ m \notin A \/ h.pool >= owed
                            \/ m.on \in h.tapped \/ ~PainPayable(h, m, reserve)
                         THEN h ELSE Used(h, m, TRUE)
           step == [i \in 1..n |-> [h \in V |-> Then(h, order[i])]]
           it == CHOOSE it : it = [T \in SUBSET (DOMAIN order) |->
                    IF T = {} THEN g ELSE Then(it[T \ {Max(T)}], order[Max(T)])]
<1>1. Attempt(g, owed, A, reserve, TRUE) = it[DOMAIN order]
  BY DEF Attempt, FoldLeft, MapThenFoldSet
<1>2. n \in Nat /\ DOMAIN order = 1..n
  OBVIOUS
<1>3. g \in V
  OBVIOUS
<1>4. \A h \in V : \A m : Then(h, m) \in V
  BY DEF Used
<1> HIDE DEF Then, n, order
<1>5. step \in Steps(n, V)
  BY <1>2, <1>4 DEF Steps
<1> HIDE DEF step
<1>6. PICK typed : Follows(typed, n, V, g, step)
  BY <1>2, <1>3, <1>5, FoldExists
<1>7. typed = [T \in SUBSET (1..n) |->
                 IF T = {} THEN g ELSE Then(typed[T \ {Max(T)}], order[Max(T)])]
  <2>1. ASSUME NEW T \in SUBSET (1..n), T # {}
        PROVE  step[Max(T)][typed[T \ {Max(T)}]] = Then(typed[T \ {Max(T)}], order[Max(T)])
    <3>1. Max(T) \in 1..n
      BY <1>2, <2>1, LargestIsThere
    <3>2. typed[T \ {Max(T)}] \in V
      BY <1>6 DEF Follows
    <3> QED
      BY <3>1, <3>2 DEF step
  <2> QED
    BY <1>6, <2>1 DEF Follows
<1>8. it = [T \in SUBSET (1..n) |->
              IF T = {} THEN g ELSE Then(it[T \ {Max(T)}], order[Max(T)])]
  BY <1>2, <1>7
<1> HIDE DEF it
<1>9. it[{}] \in V
  BY <1>3, <1>8
<1>10. ASSUME NEW k \in 1..n, it[1..(k - 1)] \in V
       PROVE  it[1..k] \in V
  <2>1. k \in Nat /\ k # 0 /\ n \in Nat /\ k <= n
    BY <1>2
  <2>2. 1..k \in SUBSET (1..n) /\ k \in 1..k
    BY <2>1
  <2>3. Max(1..k) = k /\ (1..k) \ {k} = 1..(k - 1)
    BY <2>1, LargestOfInterval
  <2>4. it[1..k] = Then(it[1..(k - 1)], order[k])
    BY <1>8, <2>1, <2>2, <2>3
  <2> QED
    BY <1>2, <1>4, <1>10, <2>4
<1>11. it[1..n] \in V
  BY <1>2, <1>9, <1>10, FoldStays
<1> QED
  BY <1>1, <1>2, <1>11

(* Whatever the automatic payer taps down its order, paid in full or not, is a payment. *)
LEMMA AttemptIsPayment ==
  ASSUME NEW g, g \in Alike(g), NEW owed, NEW A \in SUBSET SourcesOf(g), NEW reserve
  PROVE  Attempt(g, owed, A, reserve, TRUE) \in Payments(g)
<1> DEFINE V == Payments(g)
<1>1. g \in V /\ g.order \in Seq(AllMeans)
  BY DEF Payments, Alike
<1>2. \A h \in V : \A m \in A : Activated(h, m) \in V
  BY TapIsPayment
<1> HIDE DEF V
<1> QED
  BY <1>1, <1>2, AttemptStays DEF V

(***************************************************************************)
(* Moving the chosen items, and which of them delve exiled.                *)
(***************************************************************************)
CastSteps ==
  {"COST", "KICKER", "REPLICATE", "CHOOSE_X", "PHYREXIAN_PIP", "LIFE_X", "GIFT", "MODES_TARGETS",
   "ALT_PITCH", "ALT_RETURN", "ALT_SAC", "SPELL_SAC", "DELVE_COUNT", "DELVE_PICK", "DEF_SAC",
   "DEF_EXILE_TYPES", "DEF_EXILE_COUNT", "MANA_PAY"}
ActivationSteps == {"X_LADDER", "TARGET", "ZONE_TARGET", "COST_SAC", "COST_RETURN", "PAY"}
PaySteps == {"PAYING", "PAY_APPLY"}
AllSteps == CastSteps \union ActivationSteps \union PaySteps \union {"FINISH", "COPY_TARGETS"}
ChosenItems == [item : Objects, dest : {"exile", "hand", "yard"}, at : AllSteps]
ItemsOf(s) == {s[i].item : i \in DOMAIN s}
Moves(g, S) ==
  {h \in Alike(g) : /\ h = [g EXCEPT !.zone = h.zone]
                    /\ \A o \in Objects \ S : h.zone[o] = g.zone[o]}

(* Moving the chosen items to their places moves nothing else, and leaves each where it is to go if
   none is chosen twice. *)
LEMMA MovedIsMove ==
  ASSUME NEW g, g \in Alike(g), flow.chosen \in Seq(ChosenItems)
  PROVE  /\ Moved(g) \in Moves(g, ItemsOf(flow.chosen))
         /\ ChosenOnce => \A i \in DOMAIN flow.chosen :
                Moved(g).zone[flow.chosen[i].item] = flow.chosen[i].dest
<1> DEFINE n == Len(flow.chosen)
           V == Moves(g, ItemsOf(flow.chosen))
           Then(h, c) == [h EXCEPT !.zone[c.item] = c.dest]
           step == [i \in 1..n |-> [h \in V |-> Then(h, flow.chosen[i])]]
           it == CHOOSE it : it = [T \in SUBSET (DOMAIN flow.chosen) |->
                    IF T = {} THEN g ELSE Then(it[T \ {Max(T)}], flow.chosen[Max(T)])]
<1>1. Moved(g) = it[DOMAIN flow.chosen]
  BY DEF Moved, FoldLeft, MapThenFoldSet
<1>2. /\ n \in Nat /\ DOMAIN flow.chosen = 1..n
      /\ \A i \in 1..n : flow.chosen[i] \in ChosenItems
  OBVIOUS
<1>3. g \in V
  <2>1. g = [g EXCEPT !.zone = g.zone]
    BY DEF Alike
  <2> QED
    BY <2>1 DEF Moves
<1>4. \A h \in V : \A i \in 1..n : Then(h, flow.chosen[i]) \in V
  <2> SUFFICES ASSUME NEW h \in V, NEW i \in 1..n
               PROVE  Then(h, flow.chosen[i]) \in V
    OBVIOUS
  <2> DEFINE c == flow.chosen[i]
             k == Then(h, c)
  <2>1. c.item \in Objects /\ c.dest \in Zones /\ c.item \in ItemsOf(flow.chosen)
    BY <1>2 DEF ChosenItems, ItemsOf, Zones
  <2>2. h \in Alike(g) /\ h = [g EXCEPT !.zone = h.zone] /\ h.zone \in [Objects -> Zones]
    BY DEF Moves, Alike
  <2>3. k.zone = [h.zone EXCEPT ![c.item] = c.dest] /\ k = [h EXCEPT !.zone = k.zone]
    BY <2>2 DEF Alike
  <2>4. k.zone \in [Objects -> Zones]
    BY <2>1, <2>2, <2>3
  <2>5. k \in Alike(g) /\ k = [g EXCEPT !.zone = k.zone]
    BY <2>2, <2>3, <2>4 DEF Alike
  <2>6. \A o \in Objects \ ItemsOf(flow.chosen) : k.zone[o] = g.zone[o]
    BY <2>1, <2>2, <2>3 DEF Moves
  <2> HIDE DEF k, c
  <2>7. k \in V
    BY <2>5, <2>6 DEF Moves
  <2> QED
    BY <2>7 DEF k, c
<1> HIDE DEF V, Then, n
<1>5. step \in Steps(n, V)
  BY <1>2, <1>4 DEF Steps
<1> HIDE DEF step
<1>6. PICK typed : Follows(typed, n, V, g, step)
  BY <1>2, <1>3, <1>5, FoldExists
<1>7. typed = [T \in SUBSET (1..n) |->
                 IF T = {} THEN g ELSE Then(typed[T \ {Max(T)}], flow.chosen[Max(T)])]
  <2>1. ASSUME NEW T \in SUBSET (1..n), T # {}
        PROVE  step[Max(T)][typed[T \ {Max(T)}]] = Then(typed[T \ {Max(T)}], flow.chosen[Max(T)])
    <3>1. Max(T) \in 1..n
      BY <1>2, <2>1, LargestIsThere
    <3>2. typed[T \ {Max(T)}] \in V
      BY <1>6 DEF Follows
    <3> QED
      BY <3>1, <3>2 DEF step
  <2> QED
    BY <1>6, <2>1 DEF Follows
<1>8. it = [T \in SUBSET (1..n) |->
              IF T = {} THEN g ELSE Then(it[T \ {Max(T)}], flow.chosen[Max(T)])]
  BY <1>2, <1>7
<1> HIDE DEF it
<1>9. it[{}] \in V
  BY <1>3, <1>8
<1>10. ASSUME NEW k \in 1..n
       PROVE  it[1..k] = Then(it[1..(k - 1)], flow.chosen[k])
  <2>1. k \in Nat /\ k # 0 /\ n \in Nat /\ k <= n
    BY <1>2
  <2>2. 1..k \in SUBSET (1..n) /\ k \in 1..k
    BY <2>1
  <2>3. Max(1..k) = k /\ (1..k) \ {k} = 1..(k - 1)
    BY <2>1, LargestOfInterval
  <2> QED
    BY <1>8, <2>1, <2>2, <2>3
<1>11. ASSUME NEW k \in Nat, k <= n
       PROVE  it[1..k] \in V
  <2>1. \A l \in 1..k : it[1..(l - 1)] \in V => it[1..l] \in V
    BY <1>2, <1>4, <1>10, <1>11
  <2> QED
    BY <1>9, <2>1, FoldStays
<1>12. ASSUME ChosenOnce
       PROVE  \A i \in 1..n : it[1..n].zone[flow.chosen[i].item] = flow.chosen[i].dest
  <2> DEFINE T == {k \in Nat : k <= n => \A i \in 1..k :
                      it[1..k].zone[flow.chosen[i].item] = flow.chosen[i].dest}
  <2>1. 0 \in T
    OBVIOUS
  <2>2. ASSUME NEW k \in Nat, k \in T
        PROVE  k + 1 \in T
    <3> SUFFICES ASSUME k + 1 <= n, NEW i \in 1..(k + 1)
                 PROVE  it[1..(k + 1)].zone[flow.chosen[i].item] = flow.chosen[i].dest
      OBVIOUS
    <3> DEFINE h == it[1..k]
               c == flow.chosen[k + 1]
               d == flow.chosen[i]
    <3>1. k <= n /\ k + 1 \in 1..n /\ (k + 1) - 1 = k /\ i \in 1..n
      BY <1>2
    <3>2. h \in V /\ it[1..(k + 1)] = Then(h, c)
      BY <1>10, <1>11, <3>1
    <3>3. h.zone \in [Objects -> Zones] /\ c \in ChosenItems /\ d \in ChosenItems
      BY <1>2, <3>1, <3>2 DEF V, Moves, Alike
    <3>4. \A l \in 1..k : h.zone[flow.chosen[l].item] = flow.chosen[l].dest
      BY <2>2, <3>1
    <3>5. d.item = c.item => i = k + 1
      BY <1>2, <1>12, <3>1 DEF ChosenOnce
    <3> HIDE DEF h, T
    <3>6. Then(h, c).zone = [h.zone EXCEPT ![c.item] = c.dest]
      BY <3>2 DEF Then, V, Moves, Alike
    <3>7. CASE i = k + 1
      BY <3>2, <3>3, <3>6, <3>7 DEF ChosenItems
    <3>8. CASE i # k + 1
      <4>1. i \in 1..k
        BY <3>8
      <4> QED
        BY <3>2, <3>3, <3>4, <3>5, <3>6, <3>8, <4>1 DEF ChosenItems
    <3> QED
      BY <3>7, <3>8
  <2> HIDE DEF T
  <2>3. n \in T
    BY <1>2, <2>1, <2>2, Induction
  <2> QED
    BY <1>2, <2>3 DEF T
<1>13. it[1..n] \in V
  BY <1>2, <1>11
<1> QED
  BY <1>1, <1>2, <1>12, <1>13 DEF V

(* The cards remembered as delved are among the chosen items. *)
LEMMA DelvedAreChosen ==
  ASSUME flow.chosen \in Seq(ChosenItems)
  PROVE  Delved \in Seq(ItemsOf(flow.chosen))
<1> DEFINE n == Len(flow.chosen)
           V == Seq(ItemsOf(flow.chosen))
           Then(d, c) == IF c.at = "DELVE_PICK" THEN Append(d, c.item) ELSE d
           step == [i \in 1..n |-> [d \in V |-> Then(d, flow.chosen[i])]]
           it == CHOOSE it : it = [T \in SUBSET (DOMAIN flow.chosen) |->
                    IF T = {} THEN <<>> ELSE Then(it[T \ {Max(T)}], flow.chosen[Max(T)])]
<1>1. Delved = it[DOMAIN flow.chosen]
  BY DEF Delved, FoldLeft, MapThenFoldSet
<1>2. /\ n \in Nat /\ DOMAIN flow.chosen = 1..n
      /\ \A i \in 1..n : flow.chosen[i] \in ChosenItems
  OBVIOUS
<1>3. <<>> \in V
  OBVIOUS
<1>4. \A d \in V : \A i \in 1..n : Then(d, flow.chosen[i]) \in V
  <2>1. \A i \in 1..n : flow.chosen[i].item \in ItemsOf(flow.chosen)
    BY <1>2 DEF ItemsOf
  <2>2. ASSUME NEW S, NEW d \in Seq(S), NEW o \in S
        PROVE  Append(d, o) \in Seq(S)
    OBVIOUS
  <2> HIDE DEF n
  <2> QED
    BY <2>1, <2>2
<1> HIDE DEF V, Then, n
<1>5. step \in Steps(n, V)
  BY <1>2, <1>4 DEF Steps
<1> HIDE DEF step
<1>6. PICK typed : Follows(typed, n, V, <<>>, step)
  BY <1>2, <1>3, <1>5, FoldExists
<1>7. typed = [T \in SUBSET (1..n) |->
                 IF T = {} THEN <<>> ELSE Then(typed[T \ {Max(T)}], flow.chosen[Max(T)])]
  <2>1. ASSUME NEW T \in SUBSET (1..n), T # {}
        PROVE  step[Max(T)][typed[T \ {Max(T)}]] = Then(typed[T \ {Max(T)}], flow.chosen[Max(T)])
    <3>1. Max(T) \in 1..n
      BY <1>2, <2>1, LargestIsThere
    <3>2. typed[T \ {Max(T)}] \in V
      BY <1>6 DEF Follows
    <3> QED
      BY <3>1, <3>2 DEF step
  <2> QED
    BY <1>6, <2>1 DEF Follows
<1>8. it = [T \in SUBSET (1..n) |->
              IF T = {} THEN <<>> ELSE Then(it[T \ {Max(T)}], flow.chosen[Max(T)])]
  BY <1>2, <1>7
<1> HIDE DEF it
<1>9. it[{}] \in V
  BY <1>3, <1>8
<1>10. ASSUME NEW k \in 1..n, it[1..(k - 1)] \in V
       PROVE  it[1..k] \in V
  <2>1. k \in Nat /\ k # 0 /\ n \in Nat /\ k <= n
    BY <1>2
  <2>2. 1..k \in SUBSET (1..n) /\ k \in 1..k
    BY <2>1
  <2>3. Max(1..k) = k /\ (1..k) \ {k} = 1..(k - 1)
    BY <2>1, LargestOfInterval
  <2>4. it[1..k] = Then(it[1..(k - 1)], flow.chosen[k])
    BY <1>8, <2>1, <2>2, <2>3
  <2> QED
    BY <1>2, <1>4, <1>10, <2>4
<1>11. it[1..n] \in V
  BY <1>2, <1>9, <1>10, FoldStays
<1> QED
  BY <1>1, <1>2, <1>11 DEF V

(***************************************************************************)
(* The invariant: what a proposal has changed so far.  Until it pays, the   *)
(* card's zone and its components, the life its pips took, or one ability   *)
(* on the stack; then a snapshot of just that is kept, and the game differs *)
(* from it by a payment.                                                    *)
(***************************************************************************)
CastFlows(snap) ==
  [kind : {"cast"}, step : CastSteps \union PaySteps \union {"FINISH", "COPY_TARGETS"},
   way : Casts, cost : Int, kicker : Nat \ {0}, kicked : Int, replicated : Int, x : Int, pip : Int,
   life_paid : Int, life_x : Int, delving : Int, chosen : Seq(ChosenItems), snap : {snap},
   copying : Int]
ActivationFlows(snap) ==
  [kind : {"activation"}, step : ActivationSteps \union PaySteps \union {"FINISH"},
   way : Abilities, cost : Int, x : Int, chosen : Seq(ChosenItems), snap : {snap}]

(* Only what is on the stack carries the components of a spell. *)
Clean(g) ==
  /\ g \in Alike(g)
  /\ g.abilities \in Int
  /\ g.stamps \in [Objects -> SUBSET {"Spell", "Ability"}]
  /\ \A o \in Objects : g.zone[o] # "stack" => g.stamps[o] = {}

CastStart(stamps) ==
  [before EXCEPT !.zone[flow.way.card] = "stack", !.stamps[flow.way.card] = stamps,
                 !.life = @ - flow.life_paid, !.lost = @ + flow.life_paid]
ActivationStart ==
  IF flow.way.makes > 0 THEN before ELSE [before EXCEPT !.abilities = @ + 1]
Start == IF Casting THEN CastStart(game.stamps[flow.way.card]) ELSE ActivationStart

FlowTyped == flow = Idle \/ flow \in CastFlows(flow.snap) \/ flow \in ActivationFlows(flow.snap)
Proposing == flow # Idle /\ flow.step \notin PaySteps \union {"FINISH", "COPY_TARGETS"}
Reversible == flow # Idle /\ flow.step \notin {"FINISH", "COPY_TARGETS"}
Past == flow # Idle /\ flow.step \in {"FINISH", "COPY_TARGETS"}

(* Nothing chosen for a cost is on the stack: not the card itself, nor another spell. *)
ItemsOffStack ==
  \A o \in ItemsOf(flow.chosen) : before.zone[o] # "stack" /\ (Casting => o # flow.way.card)
Found ==
  Reversible => /\ Clean(before) /\ ItemsOffStack
                /\ Casting => before.zone[flow.way.card] = flow.way.from
                /\ Activating => before.zone[flow.way.source] = flow.way.from
Untouched == Proposing => flow.snap = <<>> /\ game = Start
OnlyPaid == flow # Idle /\ flow.step \in PaySteps => /\ flow.snap = <<Snapshot(Start)>>
                                     /\ game \in Payments(Start)
Settled ==
  Past => /\ flow.snap # <<>>
          /\ flow.snap[1].life \in Int /\ flow.snap[1].lost \in Int /\ flow.snap[1].pool \in Int
          /\ flow.snap[1].tapped \in SUBSET Objects
          /\ \A i \in DOMAIN game.delved \ DOMAIN flow.snap[1].delved :
                game.stamps[game.delved[i]] = {}
          /\ Activating => game.stamps[flow.way.source] = {}

CastInv == Clean(game) /\ FlowTyped /\ Found /\ Untouched /\ OnlyPaid /\ Settled

(***************************************************************************)
(* The kinds of flow, and what a proposal has changed before it pays.       *)
(***************************************************************************)
LEMMA FlowKinds ==
  ASSUME FlowTyped
  PROVE  /\ flow = Idle => ~Casting /\ ~Activating /\ \A step : ~At(step)
         /\ flow # Idle => \A step : At(step) <=> flow.step = step
         /\ Casting <=> flow \in CastFlows(flow.snap)
         /\ Activating <=> flow \in ActivationFlows(flow.snap)
         /\ flow # Idle => Casting \/ Activating
         /\ ~(Casting /\ Activating)
<1>1. CASE flow = Idle
  <2>1. flow.kind = "none"
    BY <1>1 DEF Idle
  <2> QED
    BY <1>1, <2>1 DEF Casting, Activating, At, CastFlows, ActivationFlows
<1>2. CASE flow \in CastFlows(flow.snap)
  <2>1. flow.kind = "cast"
    BY <1>2 DEF CastFlows
  <2> QED
    BY <1>2, <2>1 DEF Casting, Activating, At, Idle, CastFlows, ActivationFlows
<1>3. CASE flow \in ActivationFlows(flow.snap)
  <2>1. flow.kind = "activation"
    BY <1>3 DEF ActivationFlows
  <2> QED
    BY <1>3, <2>1 DEF Casting, Activating, At, Idle, CastFlows, ActivationFlows
<1> QED
  BY <1>1, <1>2, <1>3 DEF FlowTyped

(* The fields of a way to cast and of an ability, from the assumptions on the constants. *)
LEMMA WaysTyped ==
  /\ \A c \in Casts :
        /\ c.card \in Objects /\ c.from \in {"hand", "yard", "exile"} /\ c.kickers \in Seq(Nat)
        /\ c.generic \in Nat /\ c.replicate \in Nat /\ c.x \in Nat /\ c.life \in Nat
        /\ c.sac \in SUBSET Objects /\ c.flash_sac \in SUBSET Objects
        /\ c.pitch.of \in SUBSET Objects /\ c.return.of \in SUBSET Objects
        /\ c.alt_sac.of \in SUBSET Objects /\ c.energy \in Nat
  /\ \A a \in Abilities :
        /\ a.source \in Objects /\ a.from \in Zones \ {"stack"} /\ a.mana \in Nat /\ a.x \in Nat
        /\ a.life \in Nat /\ a.makes \in Nat /\ a.tap \in BOOLEAN
        /\ a.sac \in SUBSET Objects /\ a.return \in SUBSET Objects /\ a.energy \in Nat
<1>1. \A c \in Casts :
        /\ c.card \in Objects /\ c.from \in {"hand", "yard", "exile"} /\ c.kickers \in Seq(Nat)
        /\ c.generic \in Nat /\ c.replicate \in Nat /\ c.x \in Nat /\ c.life \in Nat
        /\ c.sac \in Menu /\ c.flash_sac \in Menu
        /\ c.pitch \in Items /\ c.return \in Items /\ c.alt_sac \in Items /\ c.energy \in Nat
  BY CastsAssumption
<1>2. \A i \in Items : i.of \in SUBSET Objects
  BY DEF Items
<1>3. \A a \in Abilities :
        /\ a.source \in Objects /\ a.from \in Zones \ {"stack"} /\ a.mana \in Nat /\ a.x \in Nat
        /\ a.life \in Nat /\ a.makes \in Nat /\ a.tap \in BOOLEAN
        /\ a.sac \in Menu /\ a.return \in Menu /\ a.energy \in Nat
  BY AbilitiesAssumption
<1> QED
  BY <1>1, <1>2, <1>3 DEF Menu

(* What a proposal changed before it pays: only the place and the components of its own card, and
   that card is on the stack. *)
LEMMA StartFacts ==
  ASSUME CastInv, Reversible
  PROVE  /\ Start \in Alike(Start)
         /\ \A o \in Objects : (Casting => o # flow.way.card) => /\ Start.zone[o] = before.zone[o]
                                                               /\ Start.stamps[o] = before.stamps[o]
         /\ Casting => Start.zone[flow.way.card] = "stack" /\ flow.way.card \in Objects
         /\ Clean(before)
<1>1. Clean(before) /\ FlowTyped /\ (Casting \/ Activating)
  BY FlowKinds DEF CastInv, Found, Reversible
<1>2. CASE Casting
  <2>1. flow \in CastFlows(flow.snap) /\ flow.way.card \in Objects /\ flow.life_paid \in Int
    BY <1>1, <1>2, FlowKinds, WaysTyped DEF CastFlows
  <2>2. before \in Alike(before)
    BY <1>1 DEF Clean
  <2>3. Start = CastStart(game.stamps[flow.way.card])
    BY <1>2 DEF Start
  <2>5. /\ Start.zone = [before.zone EXCEPT ![flow.way.card] = "stack"]
        /\ Start.stamps = [before.stamps EXCEPT ![flow.way.card] = game.stamps[flow.way.card]]
        /\ Start.life = before.life - flow.life_paid /\ Start.lost = before.lost + flow.life_paid
        /\ Start = [before EXCEPT !.zone = Start.zone, !.stamps = Start.stamps, !.life = Start.life,
                                  !.lost = Start.lost]
    BY <2>2, <2>3 DEF CastStart, Alike
  <2>6. /\ before.zone \in [Objects -> Zones] /\ before.life \in Int /\ before.lost \in Int
        /\ before.stamps \in [Objects -> SUBSET {"Spell", "Ability"}]
    BY <1>1 DEF Clean, Alike
  <2>7. Start.zone \in [Objects -> Zones] /\ Start.life \in Int /\ Start.lost \in Int
    BY <2>1, <2>5, <2>6 DEF Zones
  <2>4. Start \in Alike(Start)
    <3> HIDE DEF Start
    <3> QED
      BY <2>2, <2>5, <2>7 DEF Alike
  <2> QED
    BY <1>1, <1>2, <2>1, <2>4, <2>5, <2>6
<1>3. CASE Activating
  <2>1. before \in Alike(before)
    BY <1>1 DEF Clean
  <2>2. ~Casting /\ Start = ActivationStart
    BY <1>1, <1>3, FlowKinds DEF Start
  <2>3. Start \in Alike(Start) /\ Start.zone = before.zone /\ Start.stamps = before.stamps
    BY <2>1, <2>2 DEF ActivationStart, Alike
  <2> QED
    BY <1>1, <2>2, <2>3
<1> QED
  BY <1>1, <1>2, <1>3

(* The game a reversal leaves, of the game it finds. *)
Rewound(g) == IF Casting THEN RewoundCast(Undone(g)) ELSE RewoundActivation(Undone(g))
(* Undoing a payment and then the proposal gives back the game it found, but for sacrifices. *)
LEMMA RewoundGame ==
  ASSUME CastInv, Reversible, NEW h, h \in Payments(Start),
         Proposing => h = game
  PROVE  LET z == [o \in Objects |-> IF Casting /\ o = flow.way.card THEN before.zone[o]
                                     ELSE h.zone[o]]
         IN  Rewound(h) = [before EXCEPT !.zone = z]
<1> DEFINE z == [o \in Objects |-> IF Casting /\ o = flow.way.card THEN before.zone[o]
                                   ELSE h.zone[o]]
<1>1. /\ Start \in Alike(Start) /\ Clean(before) /\ h \in Alike(Start)
      /\ FlowTyped /\ (Casting \/ Activating)
  BY StartFacts, FlowKinds DEF CastInv, Reversible, Payments
<1>2. before \in Alike(before) /\ before.abilities \in Int
  BY <1>1 DEF Clean
<1>3. Undone(h) = [Start EXCEPT !.zone = h.zone]
  <2>1. CASE Proposing
    <3>1. flow.snap = <<>> /\ game = Start /\ h = game
      BY <2>1 DEF CastInv, Untouched
    <3>2. Undone(h) = h
      BY <3>1 DEF Undone
    <3> QED
      BY <1>1, <3>1, <3>2 DEF Alike
  <2>2. CASE ~Proposing
    <3>1. flow.snap = <<Snapshot(Start)>>
      BY <2>2 DEF CastInv, OnlyPaid, Reversible, Proposing
    <3>2. Undone(h) = Restored(h, Snapshot(Start))
      BY <3>1 DEF Undone
    <3>3. h.delved = Start.delved /\ h.zone \in [Objects -> Zones]
      BY <1>1 DEF Alike
    <3>4. [o \in Objects |-> IF o \in {} THEN "yard" ELSE h.zone[o]] = h.zone
      BY <3>3
    <3>5. {h.delved[i] : i \in DOMAIN h.delved \ DOMAIN Start.delved} = {}
      BY <3>3
    <3>6. Restored(h, Snapshot(Start)) =
            [h EXCEPT !.pool = Start.pool, !.life = Start.life, !.lost = Start.lost,
                      !.tapped = Start.tapped, !.delved = Start.delved, !.zone = h.zone]
      BY <3>4, <3>5 DEF Restored, Snapshot
    <3> DEFINE k == [h EXCEPT !.pool = Start.pool, !.life = Start.life, !.lost = Start.lost,
                              !.tapped = Start.tapped, !.delved = Start.delved, !.zone = h.zone]
               s == [Start EXCEPT !.zone = h.zone]
    <3>7. k \in Alike(Start) /\ s \in Alike(Start)
      BY <1>1 DEF Alike
    <3>8. /\ k.zone = s.zone /\ k.tapped = s.tapped /\ k.life = s.life /\ k.lost = s.lost
          /\ k.pool = s.pool /\ k.energy = s.energy /\ k.delved = s.delved
          /\ k.stamps = s.stamps /\ k.casts = s.casts /\ k.copies = s.copies
          /\ k.abilities = s.abilities /\ k.order = s.order
      BY <1>1 DEF Alike
    <3> HIDE DEF k, s
    <3>9. k = s
      BY <3>7, <3>8, SameGame
    <3> QED
      BY <3>2, <3>6, <3>9 DEF k, s
  <2> QED
    BY <2>1, <2>2
<1>4. CASE Casting
  <2>1. /\ flow \in CastFlows(flow.snap) /\ flow.way.card \in Objects /\ flow.life_paid \in Int
        /\ before.zone[flow.way.card] = flow.way.from /\ flow.way.from # "stack"
    BY <1>1, <1>4, FlowKinds, WaysTyped DEF CastFlows, CastInv, Found
  <2>2. before.stamps[flow.way.card] = {}
    BY <1>1, <2>1 DEF Clean
  <2>3. Start = CastStart(game.stamps[flow.way.card])
    BY <1>4 DEF Start
  <2>4. /\ before.life \in Int /\ before.lost \in Int /\ before.zone \in [Objects -> Zones]
        /\ before.stamps \in [Objects -> SUBSET {"Spell", "Ability"}]
        /\ h.zone \in [Objects -> Zones]
    BY <1>1, <1>2 DEF Alike, Clean
  <2>a. /\ Start.stamps = [before.stamps EXCEPT ![flow.way.card] = game.stamps[flow.way.card]]
        /\ Start.life = before.life - flow.life_paid /\ Start.lost = before.lost + flow.life_paid
        /\ Start.energy = before.energy /\ Start.pool = before.pool /\ Start.tapped = before.tapped
        /\ Start.delved = before.delved /\ Start.casts = before.casts
        /\ Start.copies = before.copies /\ Start.abilities = before.abilities
        /\ Start.order = before.order
    BY <1>2, <2>3 DEF CastStart, Alike
  <2> HIDE DEF Start
  <2>5. /\ Start.life + flow.life_paid = before.life /\ Start.lost - flow.life_paid = before.lost
        /\ [Start.stamps EXCEPT ![flow.way.card] = {}] = before.stamps
    <3>1. Start.life + flow.life_paid = before.life /\ Start.lost - flow.life_paid = before.lost
      BY <2>1, <2>4, <2>a
    <3>2. \A x : [[before.stamps EXCEPT ![flow.way.card] = x] EXCEPT ![flow.way.card] = {}]
                   = before.stamps
      BY <2>1, <2>2, <2>4
    <3> QED
      BY <3>1, <3>2, <2>a
  <2>6. [h.zone EXCEPT ![flow.way.card] = flow.way.from] = z
    BY <1>4, <2>1, <2>4
  <2>7. Rewound(h) =
          [Undone(h) EXCEPT !.life = Undone(h).life + flow.life_paid,
                            !.lost = Undone(h).lost - flow.life_paid,
                            !.zone = [Undone(h).zone EXCEPT ![flow.way.card] = flow.way.from],
                            !.stamps = [Undone(h).stamps EXCEPT ![flow.way.card] = {}]]
    BY <1>4 DEF Rewound, RewoundCast
  <2> HIDE DEF z
  <2> DEFINE k == [Start EXCEPT !.life = before.life, !.lost = before.lost, !.zone = z,
                                !.stamps = before.stamps]
             s == [before EXCEPT !.zone = z]
  <2>8. /\ Undone(h).life = Start.life /\ Undone(h).lost = Start.lost
        /\ Undone(h).zone = h.zone /\ Undone(h).stamps = Start.stamps
    BY <1>1, <1>3 DEF Alike
  <2>9. Rewound(h) = [Undone(h) EXCEPT !.life = before.life, !.lost = before.lost, !.zone = z,
                                      !.stamps = before.stamps]
    BY <2>5, <2>6, <2>7, <2>8
  <2>10. Rewound(h) = k
    <3> HIDE DEF Undone
    <3> QED
      BY <1>1, <1>3, <2>9 DEF Alike
  <2>11. z \in [Objects -> Zones]
    BY <2>4 DEF z
  <2>12. k \in Alike(before) /\ s \in Alike(before)
    BY <1>1, <1>2, <2>a, <2>4, <2>11 DEF Alike
  <2>13. /\ k.zone = s.zone /\ k.tapped = s.tapped /\ k.life = s.life /\ k.lost = s.lost
         /\ k.pool = s.pool /\ k.energy = s.energy /\ k.delved = s.delved
         /\ k.stamps = s.stamps /\ k.casts = s.casts /\ k.copies = s.copies
         /\ k.abilities = s.abilities /\ k.order = s.order
    BY <1>1, <1>2, <2>a DEF Alike
  <2> HIDE DEF k, s
  <2>14. k = s
    BY <2>12, <2>13, SameGame
  <2> QED
    BY <2>10, <2>14 DEF s, z
<1>5. CASE ~Casting
  <2>1. h.zone \in [Objects -> Zones]
    BY <1>1 DEF Alike
  <2>2. z = h.zone
    BY <1>5, <2>1
  <2>3. Start = ActivationStart
    BY <1>5 DEF Start
  <2>4. Rewound(h) = RewoundActivation(Undone(h))
    BY <1>5 DEF Rewound
  <2> HIDE DEF z
  <2>5. Rewound(h).zone = h.zone /\ Undone(h) \in Alike(Start)
    BY <1>1, <1>3, <2>1, <2>4 DEF RewoundActivation, Alike
  <2>6. CASE flow.way.makes > 0
    BY <1>3, <2>2, <2>3, <2>4, <2>6 DEF RewoundActivation, ActivationStart, z
  <2>7. CASE ~(flow.way.makes > 0)
    <3>1. Start = [before EXCEPT !.abilities = before.abilities + 1]
      BY <2>3, <2>7 DEF ActivationStart
    <3>2. Rewound(h) = [Undone(h) EXCEPT !.abilities = Undone(h).abilities - 1]
      BY <2>4, <2>7 DEF RewoundActivation
    <3> HIDE DEF Start, Undone
    <3>a. Start.abilities = before.abilities + 1 /\ Undone(h).abilities = Start.abilities
      BY <1>1, <1>2, <1>3, <3>1 DEF Alike
    <3>b. Undone(h).abilities - 1 = before.abilities
      BY <1>2, <3>a
    <3>c. Rewound(h) = [Undone(h) EXCEPT !.abilities = before.abilities]
      BY <3>2, <3>b
    <3>3. Rewound(h) = [Start EXCEPT !.zone = h.zone, !.abilities = before.abilities]
      BY <1>1, <1>3, <3>c DEF Alike
    <3> QED
      BY <1>2, <2>1, <2>2, <3>1, <3>3 DEF Alike, z
  <2> QED
    BY <2>6, <2>7 DEF z
<1> QED
  BY <1>4, <1>5

(* Rewinding from any payment gives back the game the proposal found but for the sources sacrificed
   in it (rewind_cast, rewind_activation, restore_mana_state). *)
LEMMA SourcesOffField ==
  ASSUME CastInv, Reversible, NEW h \in Payments(Start), NEW r,
         r = Rewound(h), Proposing => h = game
  PROVE  /\ Clean(r)
         /\ r = [before EXCEPT !.zone = r.zone]
         /\ SacrificedIn(r) = SacrificedIn(h)
         /\ \A o \in Objects : r.zone[o] = IF o \in SacrificedIn(h) THEN "yard" ELSE before.zone[o]
<1> DEFINE z == [o \in Objects |-> IF Casting /\ o = flow.way.card THEN before.zone[o]
                                   ELSE h.zone[o]]
<1>1. /\ Clean(before) /\ before \in Alike(before) /\ before.zone \in [Objects -> Zones]
      /\ h \in Alike(Start) /\ h.zone \in [Objects -> Zones]
      /\ Casting => before.zone[flow.way.card] \in {"hand", "yard", "exile"}
  <2>1. Clean(before)
    BY StartFacts
  <2>2. Casting => before.zone[flow.way.card] = flow.way.from /\ flow.way \in Casts
    BY FlowKinds DEF CastInv, Found, CastFlows
  <2>3. h \in Alike(Start)
    BY DEF Payments
  <2> QED
    BY <2>1, <2>2, <2>3, WaysTyped DEF Clean, Alike
<1>2. r = [before EXCEPT !.zone = z]
  BY RewoundGame
<1>3. r.zone = z /\ r = [before EXCEPT !.zone = r.zone] /\ z \in [Objects -> Zones]
  BY <1>1, <1>2 DEF Alike
<1>4. \A o \in Objects :
         \/ z[o] = before.zone[o]
         \/ before.zone[o] = "field" /\ z[o] = "yard" /\ SacrificedForManaOn(o) /\ h.zone[o] = "yard"
  <2> SUFFICES ASSUME NEW o \in Objects, ~(Casting /\ o = flow.way.card)
               PROVE  \/ h.zone[o] = before.zone[o]
                      \/ before.zone[o] = "field" /\ h.zone[o] = "yard" /\ SacrificedForManaOn(o)
    OBVIOUS
  <2>1. Start.zone[o] = before.zone[o]
    BY StartFacts
  <2> QED
    BY <2>1 DEF Payments
<1> HIDE DEF z
<1>5. r \in Alike(r) /\ r.stamps = before.stamps /\ r.abilities = before.abilities
  BY <1>1, <1>3 DEF Alike
<1>6. Clean(r)
  BY <1>1, <1>3, <1>4, <1>5 DEF Clean
<1>7. \A o \in Objects : before.zone[o] = "field" => (z[o] = "field" <=> h.zone[o] = "field")
  BY <1>1 DEF z
<1>8. SacrificedIn(r) = SacrificedIn(h)
  BY <1>3, <1>7, ManaAbilitiesAssumption DEF SacrificedIn, OnField
<1>9. ASSUME NEW o \in Objects
      PROVE  z[o] = IF o \in SacrificedIn(h) THEN "yard" ELSE before.zone[o]
  <2>1. o \in SacrificedIn(h) <=>
          SacrificedForManaOn(o) /\ before.zone[o] = "field" /\ h.zone[o] # "field"
    BY DEF SacrificedIn, OnField, SacrificedForManaOn
  <2>2. o \in SacrificedIn(h) => z[o] # before.zone[o]
    BY <1>7, <2>1
  <2> QED
    BY <1>4, <2>1, <2>2
<1> QED
  BY <1>3, <1>6, <1>8, <1>9

(* With no proposal pending, the invariant asks only for clean components. *)
LEMMA IdleAgain ==
  ASSUME Clean(game'), flow' = Idle
  PROVE  CastInv'
<1>1. flow'.kind = "none"
  BY DEF Idle
<1> QED
  BY <1>1 DEF CastInv, FlowTyped, Found, Untouched, OnlyPaid, Settled, Proposing, Reversible, Past

(* What each rewinding does to the game. *)
LEMMA Rewinds ==
  ASSUME NEW h, Rewind(h)
  PROVE  game' = Rewound(h) /\ flow' = Idle
BY DEF Rewind, Rewound

(* A reversal keeps the invariant, whatever the payment had tapped by then. *)
LEMMA ReversalKeeps ==
  ASSUME CastInv, Reversible, NEW h \in Payments(Start), Proposing => h = game, Rewind(h)
  PROVE  CastInv'
<1>1. game' = Rewound(h) /\ flow' = Idle
  BY Rewinds
<1>2. Clean(game')
  BY <1>1, SourcesOffField
<1> QED
  BY <1>1, <1>2, IdleAgain

(* Up to its reversal a proposal has done nothing to the game it started but pay. *)
LEMMA PaidSoFar ==
  ASSUME CastInv, Reversible
  PROVE  game \in Payments(Start)
<1>1. CASE Proposing
  <2>1. game = Start /\ Start \in Alike(Start)
    BY <1>1, StartFacts DEF CastInv, Untouched
  <2> QED
    BY <2>1 DEF Payments
<1>2. CASE ~Proposing
  BY <1>2 DEF CastInv, OnlyPaid, Proposing, Reversible
<1> QED
  BY <1>1, <1>2

(***************************************************************************)
(* The steps up to the payment.                                            *)
(***************************************************************************)
SameProposal ==
  /\ \/ Casting /\ flow' \in CastFlows(flow.snap) /\ flow'.life_paid = flow.life_paid
     \/ Activating /\ flow' \in ActivationFlows(flow.snap)
  /\ flow'.way = flow.way
  /\ flow'.step \in CastSteps \union ActivationSteps
Chooses ==
  \/ flow'.chosen = flow.chosen
  \/ \E c \in ChosenItems : /\ flow'.chosen = Append(flow.chosen, c)
                            /\ game.zone[c.item] # "stack"

(* The steps before the payment, of the payment and after it are different. *)
LEMMA StepsApart ==
  /\ CastSteps \intersect (PaySteps \union {"FINISH", "COPY_TARGETS"}) = {}
  /\ ActivationSteps \intersect (PaySteps \union {"FINISH", "COPY_TARGETS"}) = {}
  /\ PaySteps \intersect {"FINISH", "COPY_TARGETS"} = {}
BY DEF CastSteps, ActivationSteps, PaySteps

(* A step that changes only the pending proposal, and chooses at most one item that is not on the
   stack, keeps the invariant. *)
LEMMA ProposalGoesOn ==
  ASSUME CastInv, Proposing, Only, SameProposal, Chooses
  PROVE  CastInv'
<1>1. /\ FlowTyped /\ Reversible /\ Clean(before) /\ game = Start /\ flow.snap = <<>>
      /\ game' = game /\ before' = before /\ (Casting \/ Activating)
      /\ (Casting <=> flow \in CastFlows(flow.snap))
      /\ (Activating <=> flow \in ActivationFlows(flow.snap))
      /\ ~(Casting /\ Activating)
      /\ Clean(game)
  BY FlowKinds DEF CastInv, Proposing, Reversible, Only, Found, Untouched
<1>2. /\ flow'.snap = flow.snap /\ FlowTyped' /\ flow' # Idle
      /\ Casting' <=> Casting
      /\ Activating' <=> Activating
  BY <1>1 DEF SameProposal, FlowTyped, CastFlows, ActivationFlows, Casting, Activating, Idle
<1>3. Proposing' /\ Reversible' /\ ~Past' /\ ~(flow'.step \in PaySteps)
  BY <1>2, StepsApart DEF SameProposal, Proposing, Reversible, Past
<1>4. Start' = Start
  BY <1>1, <1>2 DEF Start, CastStart, ActivationStart, SameProposal
<1>5. ItemsOffStack'
  <2>1. ItemsOffStack /\ flow.chosen \in Seq(ChosenItems)
    BY <1>1 DEF CastInv, Found, CastFlows, ActivationFlows
  <2>2. CASE flow'.chosen = flow.chosen
    BY <1>1, <1>2, <2>1, <2>2 DEF ItemsOffStack, SameProposal
  <2>3. CASE \E c \in ChosenItems : /\ flow'.chosen = Append(flow.chosen, c)
                                    /\ game.zone[c.item] # "stack"
    <3>1. PICK c \in ChosenItems : /\ flow'.chosen = Append(flow.chosen, c)
                                   /\ game.zone[c.item] # "stack"
      BY <2>3
    <3>2. ItemsOf(flow'.chosen) = ItemsOf(flow.chosen) \union {c.item}
      BY <2>1, <3>1 DEF ItemsOf
    <3>3. c.item \in Objects
      BY <3>1 DEF ChosenItems
    <3>4. Casting => c.item # flow.way.card
      BY <1>1, <3>1, StartFacts
    <3>5. before.zone[c.item] # "stack"
      BY <1>1, <3>1, <3>3, <3>4, StartFacts
    <3> QED
      BY <1>1, <1>2, <2>1, <3>2, <3>4, <3>5 DEF ItemsOffStack, SameProposal
  <2> QED
    BY <2>2, <2>3 DEF Chooses
<1>6. Found'
  BY <1>1, <1>2, <1>3, <1>5 DEF CastInv, Found, SameProposal
<1>7. Untouched' /\ OnlyPaid' /\ Settled'
  BY <1>1, <1>2, <1>3, <1>4 DEF Untouched, OnlyPaid, Settled
<1> QED
  BY <1>1, <1>2, <1>6, <1>7 DEF CastInv

(* The members of a ladder are integers. *)
LEMMA LadderTyped == \A S : \A x \in UpToMax(S) : x \in Int
BY DEF UpToMax

(* Choosing an item appends it, with its place and the step, to the choices. *)
LEMMA ChosenAppended ==
  ASSUME NEW snap, NEW f, f \in CastFlows(snap) \/ f \in ActivationFlows(snap),
         NEW o \in Objects, NEW dest \in {"exile", "hand", "yard"}
  PROVE  /\ ChooseItem(f, o, dest).chosen =
               Append(f.chosen, [item |-> o, dest |-> dest, at |-> f.step])
         /\ [item |-> o, dest |-> dest, at |-> f.step] \in ChosenItems
         /\ ChooseItem(f, o, dest).chosen \in Seq(ChosenItems)
         /\ ChooseItem(f, o, dest) = [f EXCEPT !.chosen = ChooseItem(f, o, dest).chosen]
<1>1. f.chosen \in Seq(ChosenItems) /\ f.step \in AllSteps
  BY DEF CastFlows, ActivationFlows, AllSteps
<1>2. [item |-> o, dest |-> dest, at |-> f.step] \in ChosenItems
  BY <1>1 DEF ChosenItems
<1>3. Append(f.chosen, [item |-> o, dest |-> dest, at |-> f.step]) \in Seq(ChosenItems)
  BY <1>1, <1>2
<1> QED
  BY <1>2, <1>3 DEF ChooseItem, CastFlows, ActivationFlows

(* The fields the steps update, two or three at a time. *)
Onwards(f, g) ==
  /\ g \in CastFlows(f.snap) /\ g.step \in CastSteps
  /\ g.life_paid = f.life_paid /\ g.way = f.way /\ g.chosen = f.chosen
(* The updates the announcements make to a cast. *)
LEMMA CastUpdates ==
  ASSUME NEW f, f \in CastFlows(f.snap), f.step \in CastSteps
  PROVE  /\ \A step \in CastSteps : Onwards(f, [f EXCEPT !.step = step])
         /\ \A step \in CastSteps, a \in Int : Onwards(f, [f EXCEPT !.step = step, !.cost = a])
         /\ \A k \in Nat \ {0}, a, b \in Int : Onwards(f, [f EXCEPT !.kicker = k, !.kicked = a, !.cost = b])
         /\ \A a, b \in Int : Onwards(f, [f EXCEPT !.cost = a, !.replicated = b])
         /\ \A step \in CastSteps, a, b \in Int : Onwards(f, [f EXCEPT !.step = step, !.x = a, !.cost = b])
         /\ \A a, b \in Int : Onwards(f, [f EXCEPT !.pip = a, !.cost = b])
         /\ \A step \in CastSteps, a \in Int : Onwards(f, [f EXCEPT !.step = step, !.life_x = a])
         /\ \A step \in CastSteps, a \in Int : Onwards(f, [f EXCEPT !.step = step, !.delving = a])
<1> DEFINE s == f.snap
<1>0. f \in CastFlows(s)
  OBVIOUS
<1> HIDE DEF s
<1>1. ASSUME NEW step \in CastSteps
      PROVE  Onwards(f, [f EXCEPT !.step = step])
  <2> DEFINE g == [f EXCEPT !.step = step]
  <2>1. g \in CastFlows(s)
    BY <1>0 DEF CastFlows
  <2>2. g.step \in CastSteps /\ g.life_paid = f.life_paid /\ g.way = f.way /\ g.chosen = f.chosen
    BY <1>0 DEF CastFlows
  <2> HIDE DEF g
  <2>3. Onwards(f, g)
    BY <2>1, <2>2 DEF Onwards, s
  <2> QED
    BY <2>3 DEF g
<1>2. ASSUME NEW step \in CastSteps, NEW a \in Int
      PROVE  Onwards(f, [f EXCEPT !.step = step, !.cost = a])
  <2> DEFINE g == [f EXCEPT !.step = step, !.cost = a]
  <2>1. g \in CastFlows(s)
    BY <1>0 DEF CastFlows
  <2>2. g.step \in CastSteps /\ g.life_paid = f.life_paid /\ g.way = f.way /\ g.chosen = f.chosen
    BY <1>0 DEF CastFlows
  <2> HIDE DEF g
  <2>3. Onwards(f, g)
    BY <2>1, <2>2 DEF Onwards, s
  <2> QED
    BY <2>3 DEF g
<1>3. ASSUME NEW k \in Nat \ {0}, NEW a \in Int, NEW b \in Int
      PROVE  Onwards(f, [f EXCEPT !.kicker = k, !.kicked = a, !.cost = b])
  <2> DEFINE g == [f EXCEPT !.kicker = k, !.kicked = a, !.cost = b]
  <2>1. g \in CastFlows(s)
    BY <1>0 DEF CastFlows
  <2>2. g.step \in CastSteps /\ g.life_paid = f.life_paid /\ g.way = f.way /\ g.chosen = f.chosen
    BY <1>0 DEF CastFlows
  <2> HIDE DEF g
  <2>3. Onwards(f, g)
    BY <2>1, <2>2 DEF Onwards, s
  <2> QED
    BY <2>3 DEF g
<1>4. ASSUME NEW a \in Int, NEW b \in Int
      PROVE  Onwards(f, [f EXCEPT !.cost = a, !.replicated = b])
  <2> DEFINE g == [f EXCEPT !.cost = a, !.replicated = b]
  <2>1. g \in CastFlows(s)
    BY <1>0 DEF CastFlows
  <2>2. g.step \in CastSteps /\ g.life_paid = f.life_paid /\ g.way = f.way /\ g.chosen = f.chosen
    BY <1>0 DEF CastFlows
  <2> HIDE DEF g
  <2>3. Onwards(f, g)
    BY <2>1, <2>2 DEF Onwards, s
  <2> QED
    BY <2>3 DEF g
<1>5. ASSUME NEW step \in CastSteps, NEW a \in Int, NEW b \in Int
      PROVE  Onwards(f, [f EXCEPT !.step = step, !.x = a, !.cost = b])
  <2> DEFINE g == [f EXCEPT !.step = step, !.x = a, !.cost = b]
  <2>1. g \in CastFlows(s)
    BY <1>0 DEF CastFlows
  <2>2. g.step \in CastSteps /\ g.life_paid = f.life_paid /\ g.way = f.way /\ g.chosen = f.chosen
    BY <1>0 DEF CastFlows
  <2> HIDE DEF g
  <2>3. Onwards(f, g)
    BY <2>1, <2>2 DEF Onwards, s
  <2> QED
    BY <2>3 DEF g
<1>6. ASSUME NEW a \in Int, NEW b \in Int
      PROVE  Onwards(f, [f EXCEPT !.pip = a, !.cost = b])
  <2> DEFINE g == [f EXCEPT !.pip = a, !.cost = b]
  <2>1. g \in CastFlows(s)
    BY <1>0 DEF CastFlows
  <2>2. g.step \in CastSteps /\ g.life_paid = f.life_paid /\ g.way = f.way /\ g.chosen = f.chosen
    BY <1>0 DEF CastFlows
  <2> HIDE DEF g
  <2>3. Onwards(f, g)
    BY <2>1, <2>2 DEF Onwards, s
  <2> QED
    BY <2>3 DEF g
<1>7. ASSUME NEW step \in CastSteps, NEW a \in Int
      PROVE  Onwards(f, [f EXCEPT !.step = step, !.life_x = a])
  <2> DEFINE g == [f EXCEPT !.step = step, !.life_x = a]
  <2>1. g \in CastFlows(s)
    BY <1>0 DEF CastFlows
  <2>2. g.step \in CastSteps /\ g.life_paid = f.life_paid /\ g.way = f.way /\ g.chosen = f.chosen
    BY <1>0 DEF CastFlows
  <2> HIDE DEF g
  <2>3. Onwards(f, g)
    BY <2>1, <2>2 DEF Onwards, s
  <2> QED
    BY <2>3 DEF g
<1>8. ASSUME NEW step \in CastSteps, NEW a \in Int
      PROVE  Onwards(f, [f EXCEPT !.step = step, !.delving = a])
  <2> DEFINE g == [f EXCEPT !.step = step, !.delving = a]
  <2>1. g \in CastFlows(s)
    BY <1>0 DEF CastFlows
  <2>2. g.step \in CastSteps /\ g.life_paid = f.life_paid /\ g.way = f.way /\ g.chosen = f.chosen
    BY <1>0 DEF CastFlows
  <2> HIDE DEF g
  <2>3. Onwards(f, g)
    BY <2>1, <2>2 DEF Onwards, s
  <2> QED
    BY <2>3 DEF g
<1> QED
  BY <1>1, <1>2, <1>3, <1>4, <1>5, <1>6, <1>7, <1>8

(* A step that moves on and leaves the choices alone. *)
LEMMA SameChoices ==
  ASSUME CastInv, Proposing, Only, Casting, Onwards(flow, flow')
  PROVE  CastInv'
BY ProposalGoesOn DEF SameProposal, Chooses, Onwards

(* The announcements of a cast. *)
LEMMA AnnouncementsKeep ==
  ASSUME CastInv,
         CostStep \/ Kicker \/ Replicate \/ ChooseX \/ PipMana \/ PipsDone \/ LifeX \/ Gift
  PROVE  CastInv'
<1>1. flow # Idle /\ FlowTyped /\ Only
  BY FlowKinds DEF CastInv, CostStep, Kicker, Replicate, ChooseX, PipMana, PipsDone, LifeX, Gift
<1>2. /\ flow.step \in {"COST", "KICKER", "REPLICATE", "CHOOSE_X", "PHYREXIAN_PIP", "LIFE_X", "GIFT"}
      /\ (Casting \/ Activating)
  BY <1>1, FlowKinds DEF CostStep, Kicker, Replicate, ChooseX, PipMana, PipsDone, LifeX, Gift
<1>3. Casting /\ flow \in CastFlows(flow.snap) /\ Proposing /\ flow.step \in CastSteps
  BY <1>1, <1>2, FlowKinds DEF ActivationFlows, ActivationSteps, CastSteps, PaySteps, Proposing
<1>4. /\ flow.way \in Casts /\ flow.cost \in Int /\ flow.kicker \in Nat \ {0} /\ flow.kicked \in Int
      /\ flow.replicated \in Int /\ flow.pip \in Int
      /\ flow.way.generic \in Nat /\ flow.way.kickers \in Seq(Nat) /\ flow.way.replicate \in Nat
      /\ flow.way.x \in Nat
  BY <1>3, WaysTyped DEF CastFlows
<1>a. {"KICKER", "REPLICATE", "CHOOSE_X", "PHYREXIAN_PIP", "LIFE_X", "GIFT", "MODES_TARGETS"}
         \subseteq CastSteps
  BY DEF CastSteps
<1>b. ASSUME NEW step \in CastSteps, flow' = [flow EXCEPT !.step = step]
      PROVE  CastInv'
  <2>1. Onwards(flow, flow')
    BY <1>3, <1>b, CastUpdates
  <2> QED
    BY <1>1, <1>3, <2>1, SameChoices
<1>5. CASE CostStep
  <2> DEFINE step == IF flow.way.kind \in {"regular", "permitted"} THEN "KICKER" ELSE "GIFT"
  <2>1. flow' = [flow EXCEPT !.step = step, !.cost = flow.way.generic]
    BY <1>5 DEF CostStep
  <2>2. step \in CastSteps /\ flow.way.generic \in Int
    BY <1>4, <1>a
  <2> HIDE DEF step
  <2>3. Onwards(flow, flow')
    BY <1>3, <2>1, <2>2, CastUpdates
  <2> QED
    BY <1>1, <1>3, <2>3, SameChoices
<1>6. CASE Kicker
  <2>1. CASE ~KickerOffered
    BY <1>6, <1>a, <1>b, <2>1 DEF Kicker, Goto
  <2>2. CASE KickerOffered
    <3>1. flow.way.kickers[flow.kicker] \in Nat /\ WithKicker \in Int
      <4>1. flow.kicker \in 1..Len(flow.way.kickers)
        BY <1>4, <2>2 DEF KickerOffered
      <4>2. flow.way.kickers[flow.kicker] \in Nat
        <5>1. \A s \in Seq(Nat) : \A i \in 1..Len(s) : s[i] \in Nat
          OBVIOUS
        <5> QED
          BY <1>4, <4>1, <5>1
      <4> QED
        BY <1>4, <4>2 DEF WithKicker
    <3>2. PICK yes \in BOOLEAN : flow' =
             [flow EXCEPT !.kicker = flow.kicker + 1,
                          !.kicked = IF yes THEN flow.kicked + flow.way.kickers[flow.kicker]
                                     ELSE flow.kicked,
                          !.cost = IF yes THEN WithKicker ELSE flow.cost]
      BY <1>6, <2>2 DEF Kicker
    <3>3. /\ flow.kicker + 1 \in Nat \ {0}
          /\ (IF yes THEN flow.kicked + flow.way.kickers[flow.kicker] ELSE flow.kicked) \in Int
          /\ (IF yes THEN WithKicker ELSE flow.cost) \in Int
      BY <1>4, <3>1
    <3>4. Onwards(flow, flow')
      BY <1>3, <3>2, <3>3, CastUpdates
    <3> QED
      BY <1>1, <1>3, <3>4, SameChoices
  <2> QED
    BY <2>1, <2>2
<1>7. CASE Replicate
  <2>1. CASE Goto("CHOOSE_X")
    BY <1>a, <1>b, <2>1 DEF Goto
  <2>2. CASE flow' = [flow EXCEPT !.cost = WithReplicate, !.replicated = @ + 1]
    <3>1. WithReplicate \in Int /\ flow.replicated + 1 \in Int
      BY <1>4 DEF WithReplicate
    <3>2. Onwards(flow, flow')
      BY <1>3, <2>2, <3>1, CastUpdates
    <3> QED
      BY <1>1, <1>3, <3>2, SameChoices
  <2> QED
    BY <1>7, <2>1, <2>2 DEF Replicate
<1>8. CASE ChooseX
  <2>1. CASE flow.way.x = 0
    BY <1>8, <1>a, <1>b, <2>1 DEF ChooseX, Goto
  <2>2. CASE flow.way.x # 0
    <3>1. PICK x \in Int : flow' = [flow EXCEPT !.step = "PHYREXIAN_PIP", !.x = x,
                                               !.cost = flow.cost + x * flow.way.x]
      BY <1>8, <2>2, LadderTyped DEF ChooseX, PayableX
    <3>2. flow.cost + x * flow.way.x \in Int
      BY <1>4
    <3>3. Onwards(flow, flow')
      BY <1>3, <1>a, <3>1, <3>2, CastUpdates
    <3> QED
      BY <1>1, <1>3, <3>3, SameChoices
  <2> QED
    BY <2>1, <2>2
<1>9. CASE PipMana
  <2>1. flow.pip + 1 \in Int /\ flow.cost + 1 \in Int
    BY <1>4
  <2>2. flow' = [flow EXCEPT !.pip = flow.pip + 1, !.cost = flow.cost + 1]
    BY <1>9 DEF PipMana
  <2>3. Onwards(flow, flow')
    BY <1>3, <2>1, <2>2, CastUpdates
  <2> QED
    BY <1>1, <1>3, <2>3, SameChoices
<1>10. CASE PipsDone \/ Gift
  BY <1>10, <1>a, <1>b DEF PipsDone, Gift, Goto
<1>11. CASE LifeX
  <2>1. PICK x \in IF flow.way.life_x THEN LifeXs ELSE {0} :
            flow' = [flow EXCEPT !.step = "GIFT", !.life_x = x]
    BY <1>11 DEF LifeX
  <2>2. x \in Int
    BY LadderTyped DEF LifeXs
  <2>3. Onwards(flow, flow')
    BY <1>3, <1>a, <2>1, <2>2, CastUpdates
  <2> QED
    BY <1>1, <1>3, <2>3, SameChoices
<1> QED
  BY <1>5, <1>6, <1>7, <1>8, <1>9, <1>10, <1>11

(***************************************************************************)
(* The cost items.                                                         *)
(***************************************************************************)
OffStack == {o \in Objects : game.zone[o] # "stack"}
Dests == {"exile", "hand", "yard"}

(* At a step of a cast before its payment. *)
CastAsking == Casting /\ flow.step \in CastSteps
(* At a step of a cast before its payment. *)
LEMMA CastAskingFacts ==
  ASSUME CastInv, CastAsking
  PROVE  /\ flow # Idle /\ FlowTyped /\ flow \in CastFlows(flow.snap) /\ Proposing
         /\ flow.way \in Casts /\ flow.cost \in Int /\ game.zone \in [Objects -> Zones]
         /\ \A step : At(step) <=> flow.step = step
<1>1. FlowTyped /\ flow # Idle
  BY FlowKinds DEF CastInv, CastAsking
<1>2. flow \in CastFlows(flow.snap)
  BY <1>1, FlowKinds DEF CastAsking
<1>3. Proposing
  BY <1>1, StepsApart DEF CastAsking, Proposing
<1> QED
  BY <1>1, <1>2, <1>3, FlowKinds DEF CastFlows, CastInv, Clean, Alike

(* Going to another step of a cast keeps the invariant. *)
LEMMA CastGoesTo ==
  ASSUME CastInv, CastAsking, NEW step \in CastSteps, Goto(step), Only
  PROVE  CastInv'
<1>1. Onwards(flow, flow')
  BY CastAskingFacts, CastUpdates DEF Goto, CastAsking
<1> QED
  BY <1>1, CastAskingFacts, SameChoices DEF CastAsking

(* One more item chosen, and perhaps one less to pay. *)
LEMMA ItemChosen ==
  ASSUME CastInv, CastAsking, NEW o \in OffStack, NEW dest \in Dests, NEW cost \in Int,
         flow' = [ChooseItem(flow, o, dest) EXCEPT !.cost = cost], Only
  PROVE  CastInv'
<1> DEFINE c == [item |-> o, dest |-> dest, at |-> flow.step]
           s == ChooseItem(flow, o, dest).chosen
           snap == flow.snap
<1>1. flow \in CastFlows(snap) /\ o \in Objects /\ flow.step \in CastSteps
  BY CastAskingFacts DEF OffStack, CastAsking
<1>2. /\ s = Append(flow.chosen, c) /\ c \in ChosenItems /\ s \in Seq(ChosenItems)
      /\ ChooseItem(flow, o, dest) = [flow EXCEPT !.chosen = s]
  <2>1. (flow \in CastFlows(snap) \/ flow \in ActivationFlows(snap)) /\ dest \in {"exile", "hand", "yard"}
    BY <1>1 DEF Dests
  <2> HIDE DEF snap
  <2>2. s = Append(flow.chosen, c)
    BY <1>1 DEF ChooseItem, CastFlows
  <2>3. c \in ChosenItems
    BY <1>1, <2>1, ChosenAppended
  <2>4. s \in Seq(ChosenItems)
    BY <1>1, <2>1, ChosenAppended
  <2>5. ChooseItem(flow, o, dest) = [flow EXCEPT !.chosen = s]
    BY <1>1 DEF ChooseItem, CastFlows
  <2> QED
    BY <2>2, <2>3, <2>4, <2>5
<1>3. game.zone[c.item] # "stack"
  BY DEF OffStack
<1> HIDE DEF c, s, snap
<1>4. flow' = [flow EXCEPT !.chosen = s, !.cost = cost]
  BY <1>1, <1>2 DEF CastFlows
<1>5. /\ flow' \in CastFlows(snap) /\ flow'.chosen = s /\ flow'.step = flow.step
      /\ flow'.way = flow.way /\ flow'.life_paid = flow.life_paid
  BY <1>1, <1>2, <1>4 DEF CastFlows
<1>6. SameProposal
  BY <1>1, <1>5 DEF SameProposal, CastAsking, snap
<1>7. Chooses
  BY <1>2, <1>3, <1>5 DEF Chooses
<1> QED
  BY <1>6, <1>7, CastAskingFacts, ProposalGoesOn

(* A cost step of a cast keeps the invariant when nothing on its menu is on the stack. *)
LEMMA PickKeeps ==
  ASSUME CastInv, CastAsking, NEW n, NEW menu \in SUBSET OffStack, NEW dest \in Dests,
         NEW next \in CastSteps, Pick(n, menu, dest, next)
  PROVE  CastInv'
<1>1. Only
  BY DEF Pick
<1>2. CASE Goto(next)
  BY <1>1, <1>2, CastGoesTo
<1>3. CASE ~Goto(next)
  <2>1. PICK o \in menu : flow' = ChooseItem(flow, o, dest)
    BY <1>3 DEF Pick
  <2>2. flow \in CastFlows(flow.snap) /\ flow.cost \in Int
    BY CastAskingFacts
  <2>3. flow' = [ChooseItem(flow, o, dest) EXCEPT !.cost = flow.cost]
    BY <2>1, <2>2 DEF ChooseItem, CastFlows
  <2> QED
    BY <1>1, <2>2, <2>3, ItemChosen
<1> QED
  BY <1>2, <1>3

(* Permanents, cards in hand and cards in the graveyard are not on the stack. *)
LEMMA MenusOffStack ==
  ASSUME game.zone \in [Objects -> Zones]
  PROVE  /\ \A S \in SUBSET Objects : Controlled(S) \subseteq OffStack /\ InHand(S) \subseteq OffStack
         /\ Yard(game) \subseteq OffStack
BY DEF Controlled, OnField, InHand, Yard, OffStack

(* The choices of cost items, delve's among them. *)
LEMMA ItemsKeep ==
  ASSUME CastInv,
         \/ AltPitch \/ AltReturn \/ AltSac \/ SpellSac \/ DelveCount \/ DelvePick \/ DefSac
         \/ DefExileTypes \/ DefExileCount
  PROVE  CastInv'
<1>1. FlowTyped
  BY DEF CastInv
<1>2. CastAsking
  <2>1. flow # Idle /\ (Casting \/ Activating)
    BY <1>1, FlowKinds DEF CastInv, AltPitch, AltReturn, AltSac, SpellSac, DelveCount, DelvePick, DefSac,
       DefExileTypes, DefExileCount
  <2>2. flow.step \in {"ALT_PITCH", "ALT_RETURN", "ALT_SAC", "SPELL_SAC", "DELVE_COUNT", "DELVE_PICK",
                       "DEF_SAC", "DEF_EXILE_TYPES", "DEF_EXILE_COUNT"}
    BY <1>1, <2>1, FlowKinds DEF AltPitch, AltReturn, AltSac, SpellSac, DelveCount, DelvePick, DefSac,
       DefExileTypes, DefExileCount
  <2> QED
    BY <1>1, <2>1, <2>2, FlowKinds DEF CastAsking, CastSteps, ActivationFlows, ActivationSteps, PaySteps
<1>3. /\ flow.way.sac \in SUBSET Objects /\ flow.way.flash_sac \in SUBSET Objects
      /\ flow.way.pitch.of \in SUBSET Objects /\ flow.way.return.of \in SUBSET Objects
      /\ flow.way.alt_sac.of \in SUBSET Objects
  BY <1>2, CastAskingFacts, WaysTyped
<1>4. /\ Controlled(flow.way.sac) \subseteq OffStack /\ Controlled(flow.way.flash_sac) \subseteq OffStack
      /\ PitchMenu \subseteq OffStack /\ ReturnMenu \subseteq OffStack /\ AltSacMenu \subseteq OffStack
      /\ ExileMenu \subseteq OffStack /\ DelveMenu \subseteq OffStack
  BY <1>2, <1>3, CastAskingFacts, MenusOffStack DEF PitchMenu, ReturnMenu, AltSacMenu, ExileMenu, DelveMenu
<1>5. /\ {"ALT_RETURN", "ALT_SAC", "SPELL_SAC", "DELVE_COUNT", "DELVE_PICK", "DEF_SAC", "DEF_EXILE_TYPES",
          "DEF_EXILE_COUNT", "MANA_PAY"} \subseteq CastSteps
      /\ {"exile", "hand", "yard"} \subseteq Dests
  BY DEF CastSteps, Dests
<1>6. CASE AltPitch
  BY <1>2, <1>4, <1>5, <1>6, PickKeeps DEF AltPitch
<1>7. CASE AltReturn
  BY <1>2, <1>4, <1>5, <1>7, PickKeeps DEF AltReturn
<1>8. CASE AltSac
  BY <1>2, <1>4, <1>5, <1>8, PickKeeps DEF AltSac
<1>9. CASE SpellSac
  BY <1>2, <1>4, <1>5, <1>9, PickKeeps DEF SpellSac
<1>10. CASE DelveCount
  <2>1. CASE ~Delving
    BY <1>2, <1>5, <1>10, <2>1, CastGoesTo DEF DelveCount
  <2>2. CASE Delving
    <3>1. PICK n \in DelveMin..DelveMax : flow' = [flow EXCEPT !.step = "DELVE_PICK", !.delving = n]
      BY <1>10, <2>2 DEF DelveCount
    <3>2. n \in Int
      OBVIOUS
    <3>3. Onwards(flow, flow')
      BY <1>2, <1>5, <3>1, <3>2, CastAskingFacts, CastUpdates DEF CastAsking
    <3> QED
      BY <1>2, <1>10, <3>3, CastAskingFacts, SameChoices DEF CastAsking, DelveCount
  <2> QED
    BY <2>1, <2>2
<1>11. CASE DelvePick
  <2>1. CASE Goto("DEF_SAC")
    BY <1>2, <1>5, <1>11, <2>1, CastGoesTo DEF DelvePick
  <2>2. CASE ~Goto("DEF_SAC")
    <3>1. PICK o \in DelveMenu : flow' = [ChooseItem(flow, o, "exile") EXCEPT !.cost = @ - 1]
      BY <1>11, <2>2 DEF DelvePick
    <3>2. ChooseItem(flow, o, "exile").cost = flow.cost /\ flow.cost - 1 \in Int
      BY <1>2, CastAskingFacts DEF ChooseItem, CastFlows
    <3>3. flow' = [ChooseItem(flow, o, "exile") EXCEPT !.cost = flow.cost - 1]
      BY <3>1, <3>2
    <3> QED
      BY <1>2, <1>4, <1>5, <1>11, <3>1, <3>2, <3>3, ItemChosen DEF DelvePick
  <2> QED
    BY <2>1, <2>2
<1>12. CASE DefSac
  BY <1>2, <1>4, <1>5, <1>12, PickKeeps DEF DefSac
<1>13. CASE DefExileTypes
  <2>1. CASE Cardinality(ExiledTypes) < flow.way.types
    BY <1>2, <1>4, <1>5, <1>13, <2>1, PickKeeps DEF DefExileTypes
  <2>2. CASE ~(Cardinality(ExiledTypes) < flow.way.types)
    BY <1>2, <1>5, <1>13, <2>2, CastGoesTo DEF DefExileTypes
  <2> QED
    BY <2>1, <2>2
<1>14. CASE DefExileCount
  BY <1>2, <1>4, <1>5, <1>14, PickKeeps DEF DefExileCount
<1> QED
  BY <1>6, <1>7, <1>8, <1>9, <1>10, <1>11, <1>12, <1>13, <1>14
(***************************************************************************)
(* The choices of an activation.                                           *)
(***************************************************************************)
ActivationAsking == Activating /\ flow.step \in ActivationSteps
(* At a step of an activation before its payment. *)
LEMMA ActivationAskingFacts ==
  ASSUME CastInv, ActivationAsking
  PROVE  /\ flow # Idle /\ FlowTyped /\ flow \in ActivationFlows(flow.snap) /\ Proposing
         /\ flow.way \in Abilities /\ game.zone \in [Objects -> Zones]
         /\ \A step : At(step) <=> flow.step = step
<1>1. FlowTyped /\ flow # Idle
  BY FlowKinds DEF CastInv, ActivationAsking
<1>2. flow \in ActivationFlows(flow.snap)
  BY <1>1, FlowKinds DEF ActivationAsking
<1>3. Proposing
  BY <1>1, StepsApart DEF ActivationAsking, Proposing
<1> QED
  BY <1>1, <1>2, <1>3, FlowKinds DEF ActivationFlows, CastInv, Clean, Alike

(* Going to another step of an activation, with any X, keeps the invariant. *)
LEMMA ActivationGoesOn ==
  ASSUME CastInv, ActivationAsking, Only, NEW step \in ActivationSteps, NEW x \in Int,
         flow' = [flow EXCEPT !.step = step, !.x = x]
  PROVE  CastInv'
<1> DEFINE snap == flow.snap
<1>1. flow \in ActivationFlows(snap)
  BY ActivationAskingFacts
<1> HIDE DEF snap
<1>2. /\ flow' \in ActivationFlows(snap) /\ flow'.chosen = flow.chosen /\ flow'.step = step
      /\ flow'.way = flow.way
  BY <1>1 DEF ActivationFlows
<1>3. SameProposal
  BY <1>2 DEF SameProposal, ActivationAsking, snap
<1>4. Chooses
  BY <1>2 DEF Chooses
<1> QED
  BY <1>3, <1>4, ActivationAskingFacts, ProposalGoesOn

(* The same with the X it had. *)
LEMMA ActivationGoesTo ==
  ASSUME CastInv, ActivationAsking, Only, NEW step \in ActivationSteps, Goto(step)
  PROVE  CastInv'
<1>1. flow.x \in Int /\ flow' = [flow EXCEPT !.step = step, !.x = flow.x]
  BY ActivationAskingFacts DEF Goto, ActivationFlows
<1> QED
  BY <1>1, ActivationGoesOn

(* A cost step of an activation keeps the invariant when nothing on its menu is on the stack. *)
LEMMA PickOneKeeps ==
  ASSUME CastInv, ActivationAsking, NEW menu \in SUBSET OffStack, NEW dest \in Dests,
         NEW next \in ActivationSteps, PickOne(menu, dest, next)
  PROVE  CastInv'
<1>1. Only
  BY DEF PickOne
<1>2. CASE Goto(next)
  BY <1>1, <1>2, ActivationGoesTo
<1>3. CASE ~Goto(next)
  <2>1. PICK o \in menu : flow' = [ChooseItem(flow, o, dest) EXCEPT !.step = next]
    BY <1>3 DEF PickOne
  <2> DEFINE c == [item |-> o, dest |-> dest, at |-> flow.step]
             s == ChooseItem(flow, o, dest).chosen
             snap == flow.snap
  <2>2. flow \in ActivationFlows(snap) /\ o \in Objects
    BY ActivationAskingFacts DEF OffStack
  <2>3. /\ s = Append(flow.chosen, c)
        /\ ChooseItem(flow, o, dest) = [flow EXCEPT !.chosen = s]
    BY <2>2 DEF ChooseItem, ActivationFlows
  <2>4. c \in ChosenItems /\ s \in Seq(ChosenItems)
    <3>1. (flow \in CastFlows(snap) \/ flow \in ActivationFlows(snap)) /\ dest \in {"exile", "hand", "yard"}
      BY <2>2 DEF Dests
    <3> HIDE DEF snap
    <3>2. c \in ChosenItems
      BY <2>2, <3>1, ChosenAppended
    <3>3. s \in Seq(ChosenItems)
      BY <2>2, <3>1, ChosenAppended
    <3> QED
      BY <3>2, <3>3
  <2>5. game.zone[c.item] # "stack"
    BY DEF OffStack
  <2> HIDE DEF c, s, snap
  <2>6. flow' = [flow EXCEPT !.chosen = s, !.step = next]
    BY <2>1, <2>2, <2>3 DEF ActivationFlows
  <2>7. /\ flow' \in ActivationFlows(snap) /\ flow'.chosen = s /\ flow'.step = next
        /\ flow'.way = flow.way
    BY <2>2, <2>4, <2>6 DEF ActivationFlows
  <2>8. SameProposal
    BY <2>7 DEF SameProposal, ActivationAsking, snap
  <2>9. Chooses
    BY <2>3, <2>4, <2>5, <2>7 DEF Chooses
  <2> QED
    BY <1>1, <2>8, <2>9, ActivationAskingFacts, ProposalGoesOn
<1> QED
  BY <1>2, <1>3

(* The choices of an activation keep the invariant. *)
LEMMA ActivationChoicesKeep ==
  ASSUME CastInv, ActivationX \/ ActivationTarget \/ ActivationSac \/ ActivationReturn
  PROVE  CastInv'
<1>1. ActivationAsking
  <2>1. FlowTyped /\ flow # Idle /\ Activating
    BY FlowKinds DEF CastInv, ActivationX, ActivationTarget, ActivationSac, ActivationReturn, PickOne
  <2>2. flow.step \in {"X_LADDER", "TARGET", "ZONE_TARGET", "COST_SAC", "COST_RETURN"}
    BY <2>1, FlowKinds DEF ActivationX, ActivationTarget, ActivationSac, ActivationReturn
  <2> QED
    BY <2>1, <2>2 DEF ActivationAsking, ActivationSteps
<1>2. /\ Controlled(flow.way.sac) \subseteq OffStack /\ Controlled(flow.way.return) \subseteq OffStack
  BY <1>1, ActivationAskingFacts, WaysTyped, MenusOffStack
<1>3. {"TARGET", "COST_SAC", "COST_RETURN", "PAY"} \subseteq ActivationSteps /\ {"yard", "hand"} \subseteq Dests
  BY DEF ActivationSteps, Dests
<1>4. CASE ActivationX
  <2>1. CASE flow.way.x = 0
    BY <1>1, <1>3, <1>4, <2>1, ActivationGoesTo DEF ActivationX
  <2>2. CASE flow.way.x # 0
    <3>1. PICK x \in Int : flow' = [flow EXCEPT !.step = "TARGET", !.x = x]
      BY <1>4, <2>2, LadderTyped DEF ActivationX, PayableX
    <3> QED
      BY <1>1, <1>3, <1>4, <3>1, ActivationGoesOn DEF ActivationX
  <2> QED
    BY <2>1, <2>2
<1>5. CASE ActivationTarget
  BY <1>1, <1>3, <1>5, ActivationGoesTo DEF ActivationTarget
<1>6. CASE ActivationSac
  BY <1>1, <1>2, <1>3, <1>6, PickOneKeeps DEF ActivationSac
<1>7. CASE ActivationReturn
  BY <1>1, <1>2, <1>3, <1>7, PickOneKeeps DEF ActivationReturn
<1> QED
  BY <1>4, <1>5, <1>6, <1>7

(***************************************************************************)
(* The two steps that change the game before the payment.                  *)
(***************************************************************************)
(* A step that changes the game of a cast keeps the invariant if what it leaves is what such a
   proposal starts its payment from. *)
LEMMA ProposalMoves ==
  ASSUME CastInv, CastAsking, flow' \in CastFlows(flow.snap), flow'.step \in CastSteps,
         flow'.way = flow.way, flow'.chosen = flow.chosen, before' = before,
         Clean(game'), game' = CastStart(game.stamps[flow.way.card])'
  PROVE  CastInv'
<1>1. /\ FlowTyped /\ Reversible /\ Proposing /\ Clean(before) /\ flow.snap = <<>>
      /\ flow \in CastFlows(flow.snap) /\ ItemsOffStack
      /\ before.zone[flow.way.card] = flow.way.from
  BY CastAskingFacts, FlowKinds DEF CastInv, Found, Untouched, Proposing, Reversible, CastAsking
<1>2. /\ flow'.snap = <<>> /\ FlowTyped' /\ flow' # Idle /\ Casting' /\ ~Activating'
  <2>1. flow' \in CastFlows(<<>>)
    BY <1>1
  <2>2. flow'.snap = <<>> /\ flow'.kind = "cast"
    BY <2>1 DEF CastFlows
  <2>3. flow' # Idle
    BY <2>2 DEF Idle
  <2> QED
    BY <2>1, <2>2, <2>3 DEF FlowTyped, Casting, Activating
<1>3. Proposing' /\ Reversible' /\ ~Past' /\ ~(flow'.step \in PaySteps)
  BY <1>2, StepsApart DEF Proposing, Reversible, Past
<1>4. Start' = game'
  BY <1>2 DEF Start
<1>5. ItemsOffStack'
  BY <1>1 DEF ItemsOffStack, CastAsking
<1>6. Found'
  BY <1>1, <1>2, <1>5 DEF Found
<1>7. Untouched' /\ OnlyPaid' /\ Settled'
  BY <1>2, <1>3, <1>4 DEF Untouched, OnlyPaid, Settled
<1>8. Clean(game)'
  OBVIOUS
<1> QED
  BY <1>2, <1>6, <1>7, <1>8 DEF CastInv

(* Paying a Phyrexian pip with life keeps the invariant: the life is remembered in the proposal. *)
LEMMA PipLifeKeeps ==
  ASSUME CastInv, PipLife
  PROVE  CastInv'
<1> DEFINE snap == flow.snap
           life == flow.life_paid + 2
<1>1. CastAsking
  <2>1. FlowTyped /\ flow # Idle /\ flow.step = "PHYREXIAN_PIP" /\ (Casting \/ Activating)
    BY FlowKinds DEF CastInv, PipLife
  <2> QED
    BY <2>1, FlowKinds DEF CastAsking, CastSteps, ActivationFlows, ActivationSteps, PaySteps
<1>2. /\ flow \in CastFlows(snap) /\ flow.life_paid \in Int /\ flow.pip + 1 \in Int
      /\ flow.way.card \in Objects /\ flow.step \in CastSteps
  BY <1>1, CastAskingFacts, WaysTyped DEF CastFlows, CastAsking
<1>3. game = CastStart(game.stamps[flow.way.card]) /\ Clean(before) /\ Clean(game)
  BY <1>1, CastAskingFacts, StartFacts DEF CastInv, Untouched, Start, CastAsking, Proposing, Reversible
<1>4. before \in Alike(before) /\ before.life \in Int /\ before.lost \in Int
  BY <1>3 DEF Clean, Alike
<1> HIDE DEF snap
<1>5. flow' = [flow EXCEPT !.pip = flow.pip + 1, !.life_paid = life]
  BY DEF PipLife
<1>6. life \in Int
  BY <1>2
<1> HIDE DEF life
<1>7. /\ flow' \in CastFlows(snap) /\ flow'.step = flow.step /\ flow'.way = flow.way
      /\ flow'.chosen = flow.chosen /\ flow'.life_paid = life
  BY <1>2, <1>5, <1>6 DEF CastFlows
<1>8. game' = [game EXCEPT !.life = game.life - 2, !.lost = game.lost + 2] /\ before' = before
  BY DEF PipLife, PayLife
<1>9. game.life = before.life - flow.life_paid /\ game.lost = before.lost + flow.life_paid
  BY <1>3, <1>4 DEF CastStart, Alike
<1>10. game.life - 2 = before.life - life /\ game.lost + 2 = before.lost + life
  BY <1>2, <1>4, <1>9 DEF life
<1>11. game' = [game EXCEPT !.life = before.life - life, !.lost = before.lost + life]
  BY <1>8, <1>10
<1>12. game'.stamps = game.stamps /\ Clean(game')
  <2> DEFINE a == before.life - life
             b == before.lost + life
  <2>1. a \in Int /\ b \in Int
    BY <1>4, <1>6
  <2>2. game' = [game EXCEPT !.life = a, !.lost = b]
    BY <1>11
  <2>3. game \in Alike(game)
    BY <1>3 DEF Clean
  <2> HIDE DEF a, b
  <2>4. /\ game' \in Alike(game') /\ game'.stamps = game.stamps /\ game'.zone = game.zone
        /\ game'.abilities = game.abilities
    BY <2>1, <2>2, <2>3 DEF Alike
  <2> QED
    BY <1>3, <2>4 DEF Clean
<1>13. game' = CastStart(game.stamps[flow.way.card])'
  <2> DEFINE w == flow.way.card
             st == game.stamps[flow.way.card]
             b == before
  <2>1. CastStart(game.stamps[flow.way.card])' =
          [b EXCEPT !.zone[w] = "stack", !.stamps[w] = st,
                    !.life = b.life - life, !.lost = b.lost + life]
    BY <1>7, <1>8, <1>12 DEF CastStart
  <2>2. game = [b EXCEPT !.zone[w] = "stack", !.stamps[w] = st,
                        !.life = b.life - flow.life_paid, !.lost = b.lost + flow.life_paid]
    BY <1>3 DEF CastStart
  <2> HIDE DEF w, st, b
  <2>3. [game EXCEPT !.life = b.life - life, !.lost = b.lost + life] =
          [b EXCEPT !.zone[w] = "stack", !.stamps[w] = st,
                    !.life = b.life - life, !.lost = b.lost + life]
    <3>1. b \in Alike(b)
      BY <1>4 DEF b
    <3> QED
      BY <2>2, <3>1 DEF Alike
  <2> QED
    BY <1>11, <2>1, <2>3 DEF b
<1> QED
  BY <1>1, <1>2, <1>7, <1>8, <1>12, <1>13, ProposalMoves DEF snap

(* Choosing the targets keeps the invariant: only the card gets its ability. *)
LEMMA TargetsKeeps ==
  ASSUME CastInv, Targets
  PROVE  CastInv'
<1> DEFINE snap == flow.snap
           w == flow.way.card
           st == game.stamps[w] \union {"Ability"}
<1>1. CastAsking
  <2>1. FlowTyped /\ flow # Idle /\ flow.step = "MODES_TARGETS" /\ Casting
    BY FlowKinds DEF CastInv, Targets
  <2> QED
    BY <2>1 DEF CastAsking, CastSteps
<1>2. flow \in CastFlows(snap) /\ w \in Objects /\ "ALT_PITCH" \in CastSteps
  BY <1>1, CastAskingFacts, WaysTyped DEF CastSteps
<1>3. /\ game = CastStart(game.stamps[w]) /\ Clean(before) /\ Clean(game)
      /\ game.zone[w] = "stack"
  BY <1>1, CastAskingFacts, StartFacts DEF CastInv, Untouched, Start, CastAsking, Proposing, Reversible
<1>4. /\ before \in Alike(before) /\ game \in Alike(game)
      /\ game.stamps \in [Objects -> SUBSET {"Spell", "Ability"}]
      /\ before.stamps \in [Objects -> SUBSET {"Spell", "Ability"}]
  BY <1>3 DEF Clean
<1>5. flow' = [flow EXCEPT !.step = "ALT_PITCH"] /\ before' = before
  BY DEF Targets, Goto
<1> HIDE DEF snap
<1>6. /\ flow' \in CastFlows(snap) /\ flow'.step = "ALT_PITCH" /\ flow'.way = flow.way
      /\ flow'.chosen = flow.chosen /\ flow'.life_paid = flow.life_paid
  BY <1>2, <1>5 DEF CastFlows
<1>7. game' = [game EXCEPT !.stamps = [game.stamps EXCEPT ![w] = st]]
  BY DEF Targets
<1>8. st \in SUBSET {"Spell", "Ability"}
  BY <1>2, <1>4
<1>9. game'.stamps = [game.stamps EXCEPT ![w] = st] /\ game'.stamps[w] = st
  BY <1>2, <1>4, <1>7 DEF Alike
<1> HIDE DEF st
<1>10. Clean(game')
  <2>1. game'.stamps \in [Objects -> SUBSET {"Spell", "Ability"}]
    BY <1>2, <1>4, <1>8, <1>9
  <2>2. \A o \in Objects : game.zone[o] # "stack" => game'.stamps[o] = {}
    BY <1>2, <1>3, <1>4, <1>9 DEF Clean
  <2>3. game'.zone = game.zone /\ game'.abilities = game.abilities /\ game' \in Alike(game')
    BY <1>4, <1>7 DEF Alike
  <2> QED
    BY <1>3, <2>1, <2>2, <2>3 DEF Clean
<1>11. game' = CastStart(game.stamps[flow.way.card])'
  <2> DEFINE b == before
             old == game.stamps[w]
  <2>1. CastStart(game.stamps[flow.way.card])' =
          [b EXCEPT !.zone[w] = "stack", !.stamps[w] = st,
                    !.life = b.life - flow.life_paid, !.lost = b.lost + flow.life_paid]
    BY <1>5, <1>6, <1>9 DEF CastStart
  <2>2. game = [b EXCEPT !.zone[w] = "stack", !.stamps[w] = old,
                        !.life = b.life - flow.life_paid, !.lost = b.lost + flow.life_paid]
    BY <1>3 DEF CastStart
  <2>3. b \in Alike(b) /\ b.stamps \in [Objects -> SUBSET {"Spell", "Ability"}]
    BY <1>4
  <2> HIDE DEF w, b, old
  <2>4. game.stamps = [b.stamps EXCEPT ![w] = old]
    BY <2>2, <2>3 DEF Alike
  <2>5. [game.stamps EXCEPT ![w] = st] = [b.stamps EXCEPT ![w] = st]
    BY <2>3, <2>4
  <2>6. game' = [game EXCEPT !.stamps = [b.stamps EXCEPT ![w] = st]]
    BY <1>7, <2>5
  <2> QED
    BY <2>1, <2>2, <2>3, <2>6 DEF Alike
<1> QED
  BY <1>1, <1>2, <1>5, <1>6, <1>10, <1>11, ProposalMoves DEF snap
(***************************************************************************)
(* A proposal begins.                                                      *)
(***************************************************************************)
(* Proposing to cast a card keeps the invariant. *)
LEMMA ProposeCastKeeps ==
  ASSUME CastInv, NEW c \in Casts, ProposeCast(c)
  PROVE  CastInv'
<1> DEFINE f == NewCast(c)
           w == c.card
<1>1. /\ flow' = f /\ before' = game /\ game.zone[w] = c.from /\ Clean(game)
      /\ game' = [game EXCEPT !.zone[w] = "stack", !.stamps[w] = {"Spell"}]
  BY DEF ProposeCast, Offered, CastInv
<1>2. w \in Objects /\ c.from # "stack"
  BY WaysTyped
<1>3. /\ f \in CastFlows(<<>>) /\ f.snap = <<>> /\ f.step = "COST" /\ f.way = c /\ f.kind = "cast"
      /\ f.chosen = <<>> /\ f.life_paid = 0
  BY DEF NewCast, CastFlows, CastSteps
<1> HIDE DEF f
<1>4. f # Idle
  BY <1>3 DEF Idle
<1>5. FlowTyped' /\ flow' # Idle /\ Casting' /\ ~Activating' /\ flow'.step \in CastSteps
  BY <1>1, <1>3, <1>4 DEF FlowTyped, Casting, Activating, CastSteps
<1>6. Proposing' /\ Reversible' /\ ~Past' /\ ~(flow'.step \in PaySteps)
  BY <1>5, StepsApart DEF Proposing, Reversible, Past
<1>7. /\ game \in Alike(game) /\ game.life \in Int /\ game.lost \in Int
      /\ game.zone \in [Objects -> Zones] /\ game.stamps \in [Objects -> SUBSET {"Spell", "Ability"}]
  BY <1>1 DEF Clean, Alike
<1>8. /\ game'.zone = [game.zone EXCEPT ![w] = "stack"]
      /\ game'.stamps = [game.stamps EXCEPT ![w] = {"Spell"}]
      /\ game'.abilities = game.abilities /\ game' \in Alike(game')
  <2>1. "stack" \in Zones
    BY DEF Zones
  <2>2. [game.zone EXCEPT ![w] = "stack"] \in [Objects -> Zones]
    BY <1>7, <2>1
  <2> QED
    BY <1>1, <1>7, <2>2 DEF Alike
<1>9. Clean(game)'
  <2>1. \A o \in Objects : game'.zone[o] # "stack" => game'.stamps[o] = {}
    BY <1>1, <1>2, <1>7, <1>8 DEF Clean
  <2>2. game'.stamps \in [Objects -> SUBSET {"Spell", "Ability"}]
    BY <1>2, <1>7, <1>8
  <2> QED
    BY <1>1, <1>8, <2>1, <2>2 DEF Clean
<1>10. Start' = game'
  <2>1. Start' = CastStart(game.stamps[flow.way.card])'
    BY <1>5 DEF Start
  <2>2. game'.stamps[w] = {"Spell"}
    BY <1>2, <1>7, <1>8
  <2>3. CastStart(game.stamps[flow.way.card])' =
          [game EXCEPT !.zone[w] = "stack", !.stamps[w] = {"Spell"},
                       !.life = game.life - 0, !.lost = game.lost + 0]
    BY <1>1, <1>3, <2>2 DEF CastStart
  <2>4. game.life - 0 = game.life /\ game.lost + 0 = game.lost
    BY <1>7
  <2>5. CastStart(game.stamps[flow.way.card])' =
          [game EXCEPT !.zone[w] = "stack", !.stamps[w] = {"Spell"},
                       !.life = game.life, !.lost = game.lost]
    BY <2>3, <2>4
  <2> QED
    BY <1>1, <1>7, <2>1, <2>5 DEF Alike
<1>11. ItemsOffStack'
  <2>1. ItemsOf(flow.chosen)' = {}
    BY <1>1, <1>3 DEF ItemsOf
  <2> QED
    BY <2>1 DEF ItemsOffStack
<1>12. Found'
  BY <1>1, <1>3, <1>5, <1>11 DEF Found
<1>13. Untouched' /\ OnlyPaid' /\ Settled'
  BY <1>1, <1>3, <1>6, <1>10 DEF Untouched, OnlyPaid, Settled
<1> QED
  BY <1>5, <1>9, <1>12, <1>13 DEF CastInv

(* Proposing to activate an ability keeps the invariant. *)
LEMMA ProposeActivationKeeps ==
  ASSUME CastInv, NEW a \in Abilities, ProposeActivation(a)
  PROVE  CastInv'
<1> DEFINE f == NewActivation(a)
<1>1. /\ flow' = f /\ before' = game /\ game.zone[a.source] = a.from /\ Clean(game)
      /\ game' = IF a.makes > 0 THEN game ELSE [game EXCEPT !.abilities = @ + 1]
  BY DEF ProposeActivation, Activatable, CastInv
<1>3. /\ f \in ActivationFlows(<<>>) /\ f.snap = <<>> /\ f.step \in ActivationSteps /\ f.way = a
      /\ f.kind = "activation" /\ f.chosen = <<>>
  BY DEF NewActivation, ActivationFlows, ActivationSteps
<1> HIDE DEF f
<1>4. f # Idle
  BY <1>3 DEF Idle
<1>5. FlowTyped' /\ flow' # Idle /\ ~Casting' /\ Activating' /\ flow'.step \in ActivationSteps
  BY <1>1, <1>3, <1>4 DEF FlowTyped, Casting, Activating
<1>6. Proposing' /\ Reversible' /\ ~Past' /\ ~(flow'.step \in PaySteps)
  BY <1>5, StepsApart DEF Proposing, Reversible, Past
<1>7. Start' = game'
  BY <1>1, <1>3, <1>5 DEF Start, ActivationStart
<1>9. Clean(game)'
  <2>1. CASE game' = game
    BY <1>1, <2>1
  <2>2. CASE game' = [game EXCEPT !.abilities = @ + 1]
    <3>1. game \in Alike(game) /\ game.abilities + 1 \in Int
      BY <1>1 DEF Clean
    <3>2. /\ game' \in Alike(game') /\ game'.abilities = game.abilities + 1
          /\ game'.stamps = game.stamps /\ game'.zone = game.zone
      BY <2>2, <3>1 DEF Alike
    <3> QED
      BY <1>1, <3>1, <3>2 DEF Clean
  <2> QED
    BY <1>1, <2>1, <2>2
<1>11. ItemsOffStack'
  <2>1. ItemsOf(flow.chosen)' = {}
    BY <1>1, <1>3 DEF ItemsOf
  <2> QED
    BY <2>1 DEF ItemsOffStack
<1>12. Found'
  BY <1>1, <1>3, <1>5, <1>11 DEF Found
<1>13. Untouched' /\ OnlyPaid' /\ Settled'
  BY <1>1, <1>3, <1>6, <1>7 DEF Untouched, OnlyPaid, Settled
<1> QED
  BY <1>5, <1>9, <1>12, <1>13 DEF CastInv

(***************************************************************************)
(* A payment goes on.                                                      *)
(***************************************************************************)
(* The game a payment starts from carries components only on the stack. *)
LEMMA StartIsClean ==
  ASSUME CastInv, Reversible
  PROVE  Clean(Start) /\ Start.stamps = game.stamps
<1>1. /\ Start \in Alike(Start) /\ game \in Payments(Start) /\ Clean(before) /\ Clean(game)
      /\ FlowTyped
  BY StartFacts, PaidSoFar DEF CastInv
<1>2. Start.stamps = game.stamps /\ Start.abilities = game.abilities
  BY <1>1 DEF Payments, Alike
<1>3. \A o \in Objects : Start.zone[o] # "stack" => Start.stamps[o] = {}
  BY <1>1, StartFacts DEF Clean
<1> HIDE DEF Start
<1> QED
  BY <1>1, <1>2, <1>3 DEF Clean

(* And so does every game a payment leads to. *)
LEMMA PaymentIsClean ==
  ASSUME NEW g, Clean(g), NEW h \in Payments(g)
  PROVE  Clean(h)
<1>1. h \in Alike(h) /\ h.stamps = g.stamps /\ h.abilities = g.abilities
  BY DEF Payments, Alike
<1> QED
  BY <1>1 DEF Clean, Payments

(* The flow of a proposal on its way through the payment. *)
PayFlow ==
  /\ \/ Casting /\ flow' \in CastFlows(flow'.snap) /\ flow'.life_paid = flow.life_paid
     \/ Activating /\ flow' \in ActivationFlows(flow'.snap)
  /\ flow'.way = flow.way /\ flow'.chosen = flow.chosen /\ flow'.step \in PaySteps
(* A step of the payment keeps the invariant if it keeps the snapshot and what was chosen. *)
LEMMA PaymentGoesOn ==
  ASSUME CastInv, Reversible, PayFlow, before' = before,
         flow'.snap = <<Snapshot(Start)>>, game' \in Payments(Start)
  PROVE  CastInv'
<1>1. /\ FlowTyped /\ flow # Idle /\ Clean(before) /\ ItemsOffStack /\ Clean(Start)
      /\ Start.stamps = game.stamps
      /\ Casting => before.zone[flow.way.card] = flow.way.from
      /\ Activating => before.zone[flow.way.source] = flow.way.from
      /\ (Casting \/ Activating) /\ ~(Casting /\ Activating)
  BY FlowKinds, StartIsClean DEF CastInv, Found, Reversible
<1>2. /\ FlowTyped' /\ flow' # Idle
      /\ Casting' <=> Casting
      /\ Activating' <=> Activating
  BY <1>1 DEF PayFlow, FlowTyped, CastFlows, ActivationFlows, Casting, Activating, Idle
<1>3. ~Proposing' /\ Reversible' /\ ~Past'
  BY <1>2, StepsApart DEF PayFlow, Proposing, Reversible, Past
<1>4. game'.stamps = game.stamps
  BY <1>1 DEF Payments, Alike
<1>5. Start' = Start
  BY <1>1, <1>2, <1>4 DEF Start, CastStart, ActivationStart, PayFlow
<1>6. Clean(game)'
  BY <1>1, PaymentIsClean
<1>7. Found'
  BY <1>1, <1>2 DEF Found, ItemsOffStack, PayFlow
<1>8. Untouched' /\ OnlyPaid' /\ Settled'
  BY <1>3, <1>5 DEF Untouched, OnlyPaid, Settled
<1> QED
  BY <1>2, <1>6, <1>7, <1>8 DEF CastInv
OnPayment(f, step, cost, snap) == [f EXCEPT !.step = step, !.cost = cost, !.snap = snap]
Goes(f, g, step, snap) ==
  /\ \/ f.kind = "cast" /\ g \in CastFlows(snap) /\ g.life_paid = f.life_paid
     \/ f.kind = "activation" /\ g \in ActivationFlows(snap)
  /\ g.way = f.way /\ g.chosen = f.chosen /\ g.step = step /\ g.snap = snap
(* The updates the payment makes to the proposal. *)
LEMMA PayUpdates ==
  ASSUME NEW f, NEW snap, NEW cost \in Int, NEW step \in PaySteps,
         f \in CastFlows(f.snap) \/ f \in ActivationFlows(f.snap)
  PROVE  Goes(f, OnPayment(f, step, cost, snap), step, snap)
<1> DEFINE s == f.snap
           g == OnPayment(f, step, cost, snap)
<1>1. CASE f \in CastFlows(s)
  <2> HIDE DEF s
  <2>1. /\ g \in CastFlows(snap) /\ g.life_paid = f.life_paid /\ g.way = f.way
        /\ g.chosen = f.chosen /\ g.step = step /\ g.snap = snap /\ f.kind = "cast"
    BY <1>1 DEF CastFlows, OnPayment
  <2> HIDE DEF g
  <2> QED
    BY <2>1 DEF Goes, g
<1>2. CASE f \in ActivationFlows(s)
  <2> HIDE DEF s
  <2>1. /\ g \in ActivationFlows(snap) /\ g.way = f.way
        /\ g.chosen = f.chosen /\ g.step = step /\ g.snap = snap /\ f.kind = "activation"
    BY <1>2 DEF ActivationFlows, OnPayment
  <2> HIDE DEF g
  <2> QED
    BY <2>1 DEF Goes, g
<1> QED
  BY <1>1, <1>2

(* Spending from the pool is a payment. *)
LEMMA SpendingIsPayment ==
  ASSUME NEW g, g \in Alike(g), NEW n \in Int
  PROVE  [g EXCEPT !.pool = n] \in Payments(g)
BY DEF Payments, Alike

(* From one step of the payment to another. *)
LEMMA PaymentMoves ==
  ASSUME CastInv, flow # Idle, flow.step \in PaySteps, before' = before,
         flow' = flow \/ Goto("PAY_APPLY"), game' \in Payments(game)
  PROVE  CastInv'
<1>1. FlowTyped /\ Reversible /\ flow.snap = <<Snapshot(Start)>> /\ game \in Payments(Start)
  BY StepsApart DEF CastInv, OnlyPaid, Reversible
<1>2. game' \in Payments(Start)
  BY <1>1, PaymentsCompose
<1>3. /\ Casting <=> flow \in CastFlows(flow.snap)
      /\ Activating <=> flow \in ActivationFlows(flow.snap)
      /\ (Casting \/ Activating)
      /\ flow.cost \in Int
  BY <1>1, FlowKinds DEF CastFlows, ActivationFlows
<1>4. "PAY_APPLY" \in PaySteps
  BY DEF PaySteps
<1>5. PICK step \in PaySteps : flow' = OnPayment(flow, step, flow.cost, flow.snap)
  <2>1. flow = OnPayment(flow, flow.step, flow.cost, flow.snap)
    BY <1>3 DEF CastFlows, ActivationFlows, OnPayment
  <2>2. Goto("PAY_APPLY") => flow' = OnPayment(flow, "PAY_APPLY", flow.cost, flow.snap)
    BY <1>3 DEF Goto, CastFlows, ActivationFlows, OnPayment
  <2> QED
    BY <1>4, <2>1, <2>2
<1>6. PayFlow /\ flow'.snap = flow.snap
  <2>1. Goes(flow, flow', step, flow.snap)
    BY <1>3, <1>5, PayUpdates
  <2> QED
    BY <2>1 DEF Goes, PayFlow, Casting, Activating
<1> QED
  BY <1>1, <1>2, <1>6, PaymentGoesOn

(* Beginning the payment keeps the invariant: the snapshot is of the game the proposal started it from. *)
LEMMA BeginPaymentKeeps ==
  ASSUME CastInv, Proposing, NEW h \in Payments(game), NEW owed \in Int, BeginPayment(h, owed)
  PROVE  CastInv'
<1>1. FlowTyped /\ Reversible /\ game = Start /\ Clean(game) /\ (Casting \/ Activating)
  BY FlowKinds DEF CastInv, Untouched, Proposing, Reversible
<1>2. /\ Casting <=> flow \in CastFlows(flow.snap)
      /\ Activating <=> flow \in ActivationFlows(flow.snap)
      /\ flow.chosen \in Seq(ChosenItems)
  BY <1>1, FlowKinds DEF CastFlows, ActivationFlows
<1>3. h \in Alike(h)
  BY DEF Payments, Alike
<1>4. FloatAll(h, owed) \in Payments(h)
  BY <1>2, <1>3, FloatAllIsPayment
<1>5. game' \in Payments(Start)
  BY <1>1, <1>4, PaymentsCompose DEF BeginPayment
<1>6. "PAYING" \in PaySteps
  BY DEF PaySteps
<1>7. flow' = OnPayment(flow, "PAYING", owed, <<Snapshot(Start)>>)
  BY <1>1 DEF BeginPayment, OnPayment
<1>8. PayFlow /\ flow'.snap = <<Snapshot(Start)>>
  <2>1. Goes(flow, flow', "PAYING", <<Snapshot(Start)>>)
    BY <1>1, <1>2, <1>6, <1>7, PayUpdates
  <2> QED
    BY <1>6, <2>1 DEF Goes, PayFlow, Casting, Activating
<1> QED
  BY <1>1, <1>5, <1>8, PaymentGoesOn DEF BeginPayment

(* The payment of a cast begins. *)
LEMMA ManaPayKeeps ==
  ASSUME CastInv, ManaPay
  PROVE  CastInv'
<1>1. FlowTyped /\ flow # Idle /\ flow.step = "MANA_PAY"
  BY FlowKinds DEF CastInv, ManaPay
<1>2. CastAsking
  BY <1>1 DEF ManaPay, CastAsking, CastSteps
<1>3. Proposing /\ flow.cost \in Int /\ game \in Alike(game)
  BY <1>2, CastAskingFacts DEF CastInv, Clean
<1>4. game \in Payments(game)
  BY <1>3 DEF Payments
<1> QED
  BY <1>3, <1>4, BeginPaymentKeeps DEF ManaPay

(* The payment of an activation begins, with its own tap paid after the snapshot is taken. *)
LEMMA ActivationPayKeeps ==
  ASSUME CastInv, ActivationPay
  PROVE  CastInv'
<1>1. FlowTyped /\ flow # Idle /\ flow.step = "PAY"
  BY FlowKinds DEF CastInv, ActivationPay
<1>2. ActivationAsking
  BY <1>1 DEF ActivationPay, ActivationAsking, ActivationSteps
<1>3. Proposing /\ flow.x \in Int /\ flow.way \in Abilities /\ game \in Alike(game)
  BY <1>2, ActivationAskingFacts DEF CastInv, Clean, ActivationFlows
<1>4. ActivationOwed \in Int
  BY <1>3, WaysTyped DEF ActivationOwed
<1>5. Tapped(game) \in Payments(game)
  <2>1. flow.way.source \in Objects
    BY <1>3, WaysTyped
  <2> QED
    BY <1>3, <2>1 DEF Tapped, Payments, Alike
<1> QED
  BY <1>3, <1>4, <1>5, BeginPaymentKeeps DEF ActivationPay

(* Carrying out the strategy of the automatic payer is a payment. *)
Automatic == Attempt(game, flow.cost, Plan, Reserved(flow), TRUE)
LEMMA AutomaticPays ==
  ASSUME CastInv, Paying
  PROVE  Automatic \in Payments(game)
<1>1. game \in Alike(game)
  BY DEF CastInv, Clean
<1>2. Plan \subseteq Usable /\ Usable \subseteq SourcesOf(game)
  BY StrategyIsOfSources, SourcesFound DEF Usable, Plan
<1> QED
  BY <1>1, <1>2, AttemptIsPayment DEF Automatic

(* The steps of the payment that succeed. *)
LEMMA PaymentKeeps ==
  ASSUME CastInv, FromPool \/ TapSource
  PROVE  CastInv'
<1>1. FlowTyped /\ flow # Idle /\ flow.step \in PaySteps /\ flow.cost \in Int
  BY FlowKinds DEF CastInv, FromPool, TapSource, Paying, PaySteps, CastFlows, ActivationFlows, FlowTyped
<1>2. game \in Alike(game) /\ game.pool \in Int
  BY DEF CastInv, Clean, Alike
<1>3. CASE FromPool
  <2>1. game.pool - flow.cost \in Int
    BY <1>1, <1>2
  <2>2. game' \in Payments(game)
    BY <1>2, <1>3, <2>1, SpendingIsPayment DEF FromPool
  <2> QED
    BY <1>1, <1>3, <2>2, PaymentMoves DEF FromPool
<1>4. CASE TapSource
  <2>1. PICK m \in Usable : game' = Activated(game, m)
    BY <1>4 DEF TapSource
  <2>2. m \in SourcesOf(game) /\ game \in Payments(game)
    BY <1>2, SourcesFound DEF Usable, Payments
  <2>3. game' \in Payments(game)
    BY <2>1, <2>2, TapIsPayment
  <2> QED
    BY <1>1, <1>4, <2>3, PaymentMoves DEF TapSource
<1> QED
  BY <1>3, <1>4

(* A payment that fails, in the automatic payer or in the player's hands, or for want of life. *)
LEMMA FailureKeeps ==
  ASSUME CastInv, flow # Idle, flow.step \in PaySteps, NEW h \in Payments(game), FailPayment(h)
  PROVE  CastInv'
<1>1. Reversible /\ ~Proposing /\ game \in Payments(Start)
  BY StepsApart, PaidSoFar DEF Reversible, Proposing
<1>2. h \in Payments(Start)
  BY <1>1, PaymentsCompose
<1> QED
  BY <1>1, <1>2, ReversalKeeps DEF FailPayment

(* A payment by the automatic payer, or one the player gives up, keeps the invariant. *)
LEMMA PayerKeeps ==
  ASSUME CastInv, AutoPay \/ AutoFails \/ CancelPayment
  PROVE  CastInv'
<1>1. FlowTyped /\ flow # Idle /\ flow.step \in PaySteps /\ flow.cost \in Int /\ Paying
  BY FlowKinds DEF CastInv, AutoPay, AutoFails, CancelPayment, Paying, PaySteps, CastFlows,
     ActivationFlows, FlowTyped
<1>2. game \in Payments(game)
  BY DEF CastInv, Clean, Payments
<1>3. CASE AutoFails \/ CancelPayment
  BY <1>1, <1>2, <1>3, FailureKeeps DEF AutoFails, CancelPayment
<1>4. CASE AutoPay
  <2>1. IF Automatic.pool >= flow.cost
        THEN /\ game' = [Automatic EXCEPT !.pool = @ - flow.cost]
             /\ Goto("PAY_APPLY")
             /\ UNCHANGED <<mode, fails, before, proposals>>
        ELSE FailPayment(Automatic)
    BY <1>4 DEF AutoPay, Automatic
  <2>2. Automatic \in Payments(game)
    BY <1>1, AutomaticPays
  <2>3. CASE FailPayment(Automatic)
    BY <1>1, <2>2, <2>3, FailureKeeps
  <2>4. CASE ~FailPayment(Automatic)
    <3>1. Automatic \in Alike(Automatic) /\ Automatic.pool - flow.cost \in Int
      BY <1>1, <2>2 DEF Payments, Alike
    <3>2. game' = [Automatic EXCEPT !.pool = Automatic.pool - flow.cost]
      BY <2>1, <2>4
    <3>3. game' \in Payments(Automatic)
      BY <3>1, <3>2, SpendingIsPayment
    <3>4. game' \in Payments(game)
      BY <2>2, <3>3, PaymentsCompose
    <3> QED
      BY <1>1, <2>1, <2>4, <3>4, PaymentMoves
  <2> QED
    BY <2>3, <2>4
<1> QED
  BY <1>3, <1>4
(***************************************************************************)
(* The costs are paid, and after.                                          *)
(***************************************************************************)
(* Paying the other costs keeps the invariant: what they moved off the stack carried no components. *)
LEMMA CostsApply ==
  ASSUME CastInv, flow # Idle, flow.step = "PAY_APPLY", Goto("FINISH"), before' = before,
         game' \in Alike(game'), game'.stamps = game.stamps, game'.abilities = game.abilities,
         \A o \in Objects : game'.zone[o] # "stack" =>
             game.zone[o] # "stack" \/ o \in ItemsOf(flow.chosen) \/ (Activating /\ o = flow.way.source),
         game'.delved = game.delved \/ game'.delved \in Seq(ItemsOf(flow.chosen))
  PROVE  CastInv'
<1>1. /\ FlowTyped /\ Reversible /\ flow.snap = <<Snapshot(Start)>> /\ game \in Payments(Start)
      /\ Clean(Start) /\ Clean(game) /\ Clean(before) /\ ItemsOffStack /\ Start.stamps = game.stamps
      /\ Activating => before.zone[flow.way.source] = flow.way.from
  BY StartIsClean, StepsApart DEF CastInv, OnlyPaid, PaySteps, Reversible, Found
<1>2. /\ Casting <=> flow \in CastFlows(flow.snap)
      /\ Activating <=> flow \in ActivationFlows(flow.snap)
      /\ (Casting \/ Activating) /\ ~(Casting /\ Activating)
      /\ flow.chosen \in Seq(ChosenItems)
      /\ Activating => flow.way.source \in Objects /\ flow.way.from # "stack"
  BY <1>1, FlowKinds, WaysTyped DEF CastFlows, ActivationFlows
<1>3. \A o \in ItemsOf(flow.chosen) : o \in Objects /\ game.stamps[o] = {}
  <2>1. \A o \in ItemsOf(flow.chosen) : o \in Objects
    <3>1. \A s \in Seq(ChosenItems) : \A i \in DOMAIN s : s[i] \in ChosenItems
      OBVIOUS
    <3>2. \A i \in DOMAIN flow.chosen : flow.chosen[i].item \in Objects
      BY <1>2, <3>1 DEF ChosenItems
    <3> QED
      BY <3>2 DEF ItemsOf
  <2>2. \A o \in ItemsOf(flow.chosen) : Start.stamps[o] = before.stamps[o] /\ before.stamps[o] = {}
    BY <1>1, <2>1, StartFacts DEF ItemsOffStack, Clean
  <2> QED
    BY <1>1, <2>1, <2>2
<1>4. Activating => game.stamps[flow.way.source] = {}
  BY <1>1, <1>2, StartFacts DEF Clean
<1>5. Clean(game')
  <2>1. \A o \in Objects : game'.zone[o] # "stack" => game'.stamps[o] = {}
    BY <1>1, <1>3, <1>4 DEF Clean
  <2> QED
    BY <1>1, <2>1 DEF Clean
<1>6. /\ FlowTyped' /\ flow' # Idle /\ flow'.step = "FINISH" /\ flow'.snap = flow.snap
      /\ flow'.way = flow.way
      /\ Activating' => Activating
  <2> DEFINE s == flow.snap
  <2>1. CASE flow \in CastFlows(s)
    <3> HIDE DEF s
    <3>1. /\ flow' \in CastFlows(s) /\ flow'.step = "FINISH" /\ flow'.snap = s /\ flow'.way = flow.way
          /\ flow'.kind = "cast"
      BY <2>1 DEF Goto, CastFlows
    <3> QED
      BY <3>1 DEF FlowTyped, Activating, Idle, s
  <2>2. CASE flow \in ActivationFlows(s)
    <3> HIDE DEF s
    <3>1. /\ flow' \in ActivationFlows(s) /\ flow'.step = "FINISH" /\ flow'.snap = s
          /\ flow'.way = flow.way /\ flow'.kind = "activation"
      BY <2>2 DEF Goto, ActivationFlows
    <3> QED
      BY <1>2, <2>2, <3>1 DEF FlowTyped, Activating, Idle, s
  <2> QED
    BY <1>2, <2>1, <2>2
<1>7. ~Reversible' /\ ~Proposing' /\ ~(flow'.step \in PaySteps)
  BY <1>6, StepsApart DEF Reversible, Proposing
<1>8. Settled'
  <2>1. /\ flow'.snap # <<>> /\ flow'.snap[1] = Snapshot(Start) /\ Start \in Alike(Start)
        /\ Start.delved = game.delved
    BY <1>1, <1>6 DEF Clean, Payments, Alike
  <2>2. /\ flow'.snap[1].life = Start.life /\ flow'.snap[1].lost = Start.lost
        /\ flow'.snap[1].pool = Start.pool /\ flow'.snap[1].tapped = Start.tapped
        /\ flow'.snap[1].delved = Start.delved
    BY <2>1 DEF Snapshot
  <2>3. Start.life \in Int /\ Start.lost \in Int /\ Start.pool \in Int /\ Start.tapped \in SUBSET Objects
    BY <2>1 DEF Alike
  <2>4. \A i \in DOMAIN game'.delved \ DOMAIN flow'.snap[1].delved : game'.stamps[game'.delved[i]] = {}
    BY <1>3, <2>1, <2>2
  <2> QED
    BY <1>4, <1>6, <2>1, <2>2, <2>3, <2>4 DEF Settled
<1>9. Clean(game)'
  BY <1>5
<1> QED
  BY <1>6, <1>7, <1>8, <1>9 DEF CastInv, Found, Untouched, OnlyPaid

(* The life a cost takes is an integer. *)
LEMMA CostLifeTyped ==
  ASSUME CastInv, flow # Idle
  PROVE  CostLife \in Int
<1>1. FlowTyped
  BY DEF CastInv
<1>2. CASE Casting
  <2>1. flow.way.life \in Int /\ flow.life_x \in Int
    BY <1>1, <1>2, FlowKinds, WaysTyped DEF CastFlows
  <2> QED
    BY <1>2, <2>1 DEF CostLife
<1>3. CASE ~Casting
  <2>1. flow.way.life \in Int
    BY <1>1, <1>3, FlowKinds, WaysTyped DEF ActivationFlows
  <2> QED
    BY <1>3, <2>1 DEF CostLife
<1> QED
  BY <1>2, <1>3

(* What the cost items' moves and the life and energy come to. *)
LEMMA CostsMoved ==
  ASSUME CastInv, flow # Idle
  PROVE  LET k == Moved(CostsPaid(game))
         IN  /\ k \in Alike(k) /\ k.stamps = game.stamps /\ k.abilities = game.abilities
             /\ k.delved = game.delved /\ k.zone \in [Objects -> Zones]
             /\ k.tapped = game.tapped /\ k.pool = game.pool /\ k.life = game.life - CostLife
             /\ k.energy = game.energy - flow.way.energy
             /\ \A o \in Objects \ ItemsOf(flow.chosen) : k.zone[o] = game.zone[o]
             /\ ChosenOnce => \A i \in DOMAIN flow.chosen :
                    k.zone[flow.chosen[i].item] = flow.chosen[i].dest
<1> DEFINE g == CostsPaid(game)
           k == Moved(g)
<1>1. game \in Alike(game) /\ CostLife \in Int /\ flow.chosen \in Seq(ChosenItems)
  BY CostLifeTyped, FlowKinds DEF CastInv, Clean, CastFlows, ActivationFlows
<1>2. /\ g \in Alike(g) /\ g.stamps = game.stamps /\ g.abilities = game.abilities
      /\ g.delved = game.delved /\ g.zone = game.zone /\ g.tapped = game.tapped
      /\ g.pool = game.pool /\ g.life = game.life - CostLife
      /\ g.energy = game.energy - flow.way.energy
  <2> DEFINE life == game.life - CostLife
             lost == game.lost + CostLife
             energy == game.energy - flow.way.energy
  <2>a. flow.way.energy \in Nat
    BY WaysTyped, FlowKinds DEF CastInv, CastFlows, ActivationFlows
  <2>1. life \in Int /\ lost \in Int /\ energy \in Int
    BY <1>1, <2>a DEF Alike
  <2>2. g = [game EXCEPT !.life = life, !.lost = lost, !.energy = energy]
    BY <1>1 DEF CostsPaid, PayLife, Alike
  <2>3. g.life = life /\ g.energy = energy
    BY <1>1, <2>2 DEF Alike
  <2> HIDE DEF life, lost, energy, g
  <2>4. /\ g \in Alike(g) /\ g.stamps = game.stamps /\ g.abilities = game.abilities
        /\ g.delved = game.delved /\ g.zone = game.zone /\ g.tapped = game.tapped
        /\ g.pool = game.pool
    BY <1>1, <2>1, <2>2 DEF Alike
  <2> QED
    BY <2>3, <2>4 DEF life, energy
<1> HIDE DEF g
<1>3. /\ k \in Moves(g, ItemsOf(flow.chosen))
      /\ ChosenOnce => \A i \in DOMAIN flow.chosen : k.zone[flow.chosen[i].item] = flow.chosen[i].dest
  BY <1>1, <1>2, MovedIsMove
<1> HIDE DEF k
<1>4. /\ k \in Alike(g) /\ k = [g EXCEPT !.zone = k.zone]
      /\ \A o \in Objects \ ItemsOf(flow.chosen) : k.zone[o] = g.zone[o]
  BY <1>3 DEF Moves
<1>5. /\ k \in Alike(k) /\ k.stamps = game.stamps /\ k.abilities = game.abilities
      /\ k.delved = game.delved /\ k.zone \in [Objects -> Zones]
  BY <1>2, <1>4 DEF Alike
<1>6. /\ k.tapped = game.tapped /\ k.pool = game.pool /\ k.life = game.life - CostLife
      /\ k.energy = game.energy - flow.way.energy
  BY <1>2, <1>4 DEF Alike
<1> QED
  BY <1>2, <1>3, <1>4, <1>5, <1>6 DEF k, g

(* The costs of a cast are paid, or the payment fails. *)
LEMMA PayApplyKeeps ==
  ASSUME CastInv, PayApply
  PROVE  CastInv'
<1>1. FlowTyped /\ flow # Idle /\ flow.step = "PAY_APPLY"
  BY FlowKinds DEF CastInv, PayApply
<1>2. game \in Payments(game) /\ "PAY_APPLY" \in PaySteps
  BY DEF CastInv, Clean, Payments, PaySteps
<1>3. CASE ~CanApply
  BY <1>1, <1>2, <1>3, FailureKeeps DEF PayApply
<1>4. CASE CanApply
  <2> DEFINE k == Moved(CostsPaid(game))
             d == IF flow.way.delve THEN Delved ELSE k.delved
  <2>1. game' = [k EXCEPT !.delved = d] /\ Goto("FINISH") /\ before' = before
    BY <1>4 DEF PayApply, Apply
  <2>2. /\ k \in Alike(k) /\ k.stamps = game.stamps /\ k.abilities = game.abilities
        /\ k.delved = game.delved /\ k.zone \in [Objects -> Zones]
        /\ \A o \in Objects \ ItemsOf(flow.chosen) : k.zone[o] = game.zone[o]
    BY <1>1, CostsMoved
  <2>3. Delved \in Seq(ItemsOf(flow.chosen))
    BY <1>1, FlowKinds, DelvedAreChosen DEF CastFlows, ActivationFlows
  <2>4. d = game.delved \/ d \in Seq(ItemsOf(flow.chosen))
    BY <2>2, <2>3
  <2> HIDE DEF k, d
  <2>5. /\ game' \in Alike(game') /\ game'.stamps = game.stamps /\ game'.abilities = game.abilities
        /\ game'.zone = k.zone /\ game'.delved = d
    BY <2>1, <2>2 DEF Alike
  <2>6. ASSUME NEW o \in Objects, game'.zone[o] # "stack"
        PROVE  game.zone[o] # "stack" \/ o \in ItemsOf(flow.chosen)
    BY <2>2, <2>5, <2>6
  <2> QED
    BY <1>1, <2>1, <2>4, <2>5, <2>6, CostsApply
<1> QED
  BY <1>3, <1>4

(* The costs of an activation are paid, or the payment fails. *)
LEMMA ActivationApplyKeeps ==
  ASSUME CastInv, ActivationApply
  PROVE  CastInv'
<1>1. FlowTyped /\ flow # Idle /\ flow.step = "PAY_APPLY" /\ Activating
  BY FlowKinds DEF CastInv, ActivationApply
<1>2. game \in Payments(game) /\ "PAY_APPLY" \in PaySteps
  BY DEF CastInv, Clean, Payments, PaySteps
<1>3. CASE ~CanApply
  BY <1>1, <1>2, <1>3, FailureKeeps DEF ActivationApply
<1>4. CASE CanApply
  <2> DEFINE k == Moved(CostsPaid(game))
             used(o) == \/ flow.way.sac_self /\ o = flow.way.source
                        \/ flow.way.discard_self /\ o = flow.way.source
                        \/ flow.way.discard_hand /\ k.zone[o] = "hand"
             z == [o \in Objects |-> IF used(o) THEN "yard" ELSE k.zone[o]]
  <2>1. game' = [k EXCEPT !.zone = z] /\ Goto("FINISH") /\ before' = before
    BY <1>4 DEF ActivationApply, Apply, Discarded
  <2>2. /\ k \in Alike(k) /\ k.stamps = game.stamps /\ k.abilities = game.abilities
        /\ k.delved = game.delved /\ k.zone \in [Objects -> Zones]
        /\ \A o \in Objects \ ItemsOf(flow.chosen) : k.zone[o] = game.zone[o]
    BY <1>1, CostsMoved
  <2>3. z \in [Objects -> Zones]
    BY <2>2 DEF Zones
  <2>4. \A o \in Objects : z[o] = k.zone[o] \/ o = flow.way.source \/ k.zone[o] = "hand"
    OBVIOUS
  <2> HIDE DEF k, z
  <2>5. /\ game' \in Alike(game') /\ game'.stamps = game.stamps /\ game'.abilities = game.abilities
        /\ game'.zone = z /\ game'.delved = game.delved
    BY <2>1, <2>2, <2>3 DEF Alike
  <2>6. ASSUME NEW o \in Objects, game'.zone[o] # "stack"
        PROVE  game.zone[o] # "stack" \/ o \in ItemsOf(flow.chosen) \/ (Activating /\ o = flow.way.source)
    <3>1. CASE o \in ItemsOf(flow.chosen) \/ o = flow.way.source
      BY <1>1, <3>1
    <3>2. CASE o \notin ItemsOf(flow.chosen) /\ o # flow.way.source
      <4>1. k.zone[o] = game.zone[o]
        BY <2>2, <3>2
      <4>2. z[o] = k.zone[o] \/ k.zone[o] = "hand"
        BY <2>4, <3>2
      <4> QED
        BY <2>5, <2>6, <4>1, <4>2
    <3> QED
      BY <3>1, <3>2
  <2> QED
    BY <1>1, <2>1, <2>5, <2>6, CostsApply
<1> QED
  BY <1>3, <1>4

(* Once the costs are paid nothing brings the proposal back but a cancel of a copy's target. *)
LEMMA PastKeeps ==
  ASSUME CastInv, Past, Casting,
         game' \in Alike(game'), game'.zone = game.zone, game'.stamps = game.stamps,
         game'.abilities = game.abilities, game'.delved = game.delved,
         flow' \in CastFlows(flow.snap), flow'.step \in {"FINISH", "COPY_TARGETS"}
  PROVE  CastInv'
<1>1. FlowTyped /\ Clean(game) /\ Settled /\ flow \in CastFlows(flow.snap)
  BY FlowKinds DEF CastInv
<1>2. Clean(game)'
  BY <1>1 DEF Clean
<1>3. flow'.snap = flow.snap /\ FlowTyped' /\ flow' # Idle /\ ~Activating'
  <2> DEFINE s == flow.snap
  <2>1. flow' \in CastFlows(s)
    OBVIOUS
  <2> HIDE DEF s
  <2>2. flow'.snap = s /\ flow'.kind = "cast"
    BY <2>1 DEF CastFlows
  <2> QED
    BY <2>1, <2>2 DEF FlowTyped, Idle, Activating, s
<1>4. ~Reversible' /\ ~Proposing' /\ ~(flow'.step \in PaySteps) /\ Past'
  BY <1>3, StepsApart DEF Reversible, Proposing, Past
<1>5. Settled'
  BY <1>1, <1>3 DEF Settled
<1> QED
  BY <1>2, <1>3, <1>4, <1>5 DEF CastInv, Found, Untouched, OnlyPaid

(* A spell becomes cast and its copies are made. *)
LEMMA CopiesKeep ==
  ASSUME CastInv, Finish \/ MakeCopy \/ PlaceCopy
  PROVE  CastInv'
<1> DEFINE s == flow.snap
<1>1. FlowTyped /\ flow # Idle /\ game \in Alike(game)
  BY FlowKinds DEF CastInv, Finish, MakeCopy, PlaceCopy, Clean
<1>2. flow.step \in {"FINISH", "COPY_TARGETS"} /\ Past
  BY <1>1, FlowKinds DEF Finish, MakeCopy, PlaceCopy, Past
<1>3. Casting /\ flow \in CastFlows(s)
  <2>1. CASE Finish
    BY <1>1, <2>1, FlowKinds DEF Finish
  <2>2. CASE MakeCopy \/ PlaceCopy
    <3>1. flow.step = "COPY_TARGETS"
      BY <1>1, <2>2, FlowKinds DEF MakeCopy, PlaceCopy
    <3>2. flow \notin ActivationFlows(s)
      BY <3>1 DEF ActivationFlows, ActivationSteps, PaySteps
    <3> QED
      BY <1>1, <3>2, FlowKinds
  <2> QED
    BY <2>1, <2>2
<1>4. flow.replicated \in Int /\ flow.copying - 1 \in Int
  BY <1>3 DEF CastFlows
<1> HIDE DEF s
<1>5. flow' \in CastFlows(s) /\ flow'.step \in {"FINISH", "COPY_TARGETS"}
  <2>1. CASE Finish
    <3>1. flow' = [flow EXCEPT !.step = "COPY_TARGETS", !.copying = flow.replicated]
      BY <2>1 DEF Finish
    <3> QED
      BY <1>3, <1>4, <3>1 DEF CastFlows
  <2>2. CASE MakeCopy
    BY <1>2, <1>3, <2>2 DEF MakeCopy
  <2>3. CASE PlaceCopy
    <3>1. flow' = [flow EXCEPT !.copying = flow.copying - 1]
      BY <2>3 DEF PlaceCopy
    <3> QED
      BY <1>2, <1>3, <1>4, <3>1 DEF CastFlows
  <2> QED
    BY <2>1, <2>2, <2>3
<1>6. \E casts, copies : game' = [game EXCEPT !.casts = casts, !.copies = copies]
  <2>1. CASE Finish
    <3>1. game' = [game EXCEPT !.casts = game.casts + 1, !.copies = game.copies]
      BY <1>1, <2>1 DEF Finish, Alike
    <3> QED
      BY <3>1
  <2>2. CASE MakeCopy
    <3>1. game' = [game EXCEPT !.casts = game.casts, !.copies = [game.copies EXCEPT !.made = 1]]
      BY <1>1, <2>2 DEF MakeCopy, Alike
    <3> QED
      BY <3>1
  <2>3. CASE PlaceCopy
    <3>1. game' = [game EXCEPT !.casts = game.casts,
                               !.copies = [placed |-> game.copies.placed + 1, made |-> 0]]
      BY <1>1, <2>3 DEF PlaceCopy, Alike
    <3> QED
      BY <3>1
  <2> QED
    BY <2>1, <2>2, <2>3
<1>7. PICK casts, copies : game' = [game EXCEPT !.casts = casts, !.copies = copies]
  BY <1>6
<1>8. /\ game' \in Alike(game') /\ game'.zone = game.zone /\ game'.stamps = game.stamps
      /\ game'.abilities = game.abilities /\ game'.delved = game.delved
  BY <1>1, <1>7 DEF Alike
<1> QED
  BY <1>2, <1>3, <1>5, <1>8, PastKeeps DEF s

(* A proposal ends with its spell cast or its ability activated. *)
LEMMA EndsKeep ==
  ASSUME CastInv, CastDone \/ ActivationFinish
  PROVE  CastInv'
<1>1. Clean(game) /\ game \in Alike(game) /\ FlowTyped
  BY DEF CastInv, Clean
<1>2. CASE CastDone
  BY <1>1, <1>2, IdleAgain DEF CastDone
<1>3. CASE ActivationFinish
  <2>1. flow # Idle /\ flow.step = "FINISH" /\ flow.way \in Abilities /\ Activating
    BY <1>1, <1>3, FlowKinds DEF ActivationFinish, ActivationFlows
  <2>2. /\ flow.way.source \in Objects /\ flow.way.makes \in Nat /\ game.stamps[flow.way.source] = {}
    BY <2>1, WaysTyped DEF CastInv, Settled, Past
  <2>3. CASE game' = game
    BY <1>1, <1>3, <2>3, IdleAgain DEF ActivationFinish
  <2>4. CASE game' = [game EXCEPT !.pool = @ + flow.way.makes]
    <3>1. game.pool + flow.way.makes \in Int
      BY <1>1, <2>2 DEF Alike
    <3>2. game' \in Payments(game)
      BY <1>1, <2>4, <3>1, SpendingIsPayment
    <3>3. Clean(game')
      BY <1>1, <3>2, PaymentIsClean
    <3> QED
      BY <1>3, <3>3, IdleAgain DEF ActivationFinish
  <2>5. CASE game' = [game EXCEPT !.zone[flow.way.source] = "yard"]
    <3>1. [game.zone EXCEPT ![flow.way.source] = "yard"] \in [Objects -> Zones]
      BY <1>1, <2>2 DEF Alike, Zones
    <3>2. /\ game'.zone = [game.zone EXCEPT ![flow.way.source] = "yard"]
          /\ game' \in Alike(game') /\ game'.stamps = game.stamps /\ game'.abilities = game.abilities
      BY <1>1, <2>5, <3>1 DEF Alike
    <3>3. game.zone \in [Objects -> Zones]
      BY <1>1 DEF Alike
    <3>4. Clean(game')
      BY <1>1, <2>2, <3>2, <3>3 DEF Clean
    <3> QED
      BY <1>3, <3>4, IdleAgain DEF ActivationFinish
  <2> QED
    BY <1>3, <2>3, <2>4, <2>5 DEF ActivationFinish
<1> QED
  BY <1>2, <1>3

(* A cancelled copy takes the spell back, with the cards it was delved for. *)
LEMMA CopyCancelled ==
  ASSUME CastInv, Past, flow.step = "COPY_TARGETS", Rewind(game)
  PROVE  CastInv'
<1> DEFINE snap == flow.snap[1]
           w == flow.way.card
           u == Restored(game, snap)
           exiled == {game.delved[i] : i \in DOMAIN game.delved \ DOMAIN snap.delved}
<1>1. FlowTyped /\ flow # Idle /\ Settled /\ Clean(game) /\ game \in Alike(game)
  BY DEF CastInv, Past, Clean
<1>2. Casting /\ flow \in CastFlows(flow.snap)
  <2>1. flow \notin ActivationFlows(flow.snap)
    BY DEF ActivationFlows, ActivationSteps, PaySteps
  <2> QED
    BY <1>1, <2>1, FlowKinds
<1>3. /\ flow.snap # <<>> /\ snap.life \in Int /\ snap.lost \in Int /\ snap.pool \in Int
      /\ snap.tapped \in SUBSET Objects /\ \A o \in exiled : game.stamps[o] = {}
  BY <1>1 DEF Settled
<1>4. /\ w \in Objects /\ flow.way.from \in Zones /\ flow.life_paid \in Int
  BY <1>2, WaysTyped DEF CastFlows, Zones
<1>5. game' = RewoundCast(u) /\ flow' = Idle
  BY <1>2, <1>3, Rewinds DEF Rewound, Undone
<1>6. /\ u \in Alike(u) /\ u.stamps = game.stamps /\ u.abilities = game.abilities
      /\ u.zone = [o \in Objects |-> IF o \in exiled THEN "yard" ELSE game.zone[o]]
  <2> DEFINE z == [o \in Objects |-> IF o \in exiled THEN "yard" ELSE game.zone[o]]
  <2>1. z \in [Objects -> Zones]
    BY <1>1 DEF Alike, Zones
  <2>2. u = [game EXCEPT !.pool = snap.pool, !.life = snap.life, !.lost = snap.lost,
                         !.tapped = snap.tapped, !.delved = snap.delved, !.zone = z]
    BY DEF Restored
  <2> HIDE DEF z, u, snap
  <2>3. u \in Alike(u) /\ u.stamps = game.stamps /\ u.abilities = game.abilities /\ u.zone = z
    BY <1>1, <1>3, <2>1, <2>2 DEF Alike
  <2> QED
    BY <2>3 DEF z
<1> HIDE DEF u, exiled, w
<1>7. /\ game'.zone = [u.zone EXCEPT ![w] = flow.way.from]
      /\ game'.stamps = [u.stamps EXCEPT ![w] = {}]
      /\ game'.abilities = u.abilities /\ game' \in Alike(game')
  <2> DEFINE life == u.life + flow.life_paid
             lost == u.lost - flow.life_paid
             z == [u.zone EXCEPT ![w] = flow.way.from]
             st == [u.stamps EXCEPT ![w] = {}]
  <2>1. life \in Int /\ lost \in Int /\ z \in [Objects -> Zones]
    BY <1>4, <1>6 DEF Alike
  <2>2. game' = [u EXCEPT !.life = life, !.lost = lost, !.zone = z, !.stamps = st]
    BY <1>5 DEF RewoundCast, w
  <2> HIDE DEF life, lost, z, st
  <2>3. game' \in Alike(game') /\ game'.zone = z /\ game'.stamps = st /\ game'.abilities = u.abilities
    BY <1>6, <2>1, <2>2 DEF Alike
  <2> QED
    BY <2>3 DEF z, st
<1>8. Clean(game')
  <2>1. /\ game.stamps \in [Objects -> SUBSET {"Spell", "Ability"}] /\ u.zone \in [Objects -> Zones]
        /\ game.abilities \in Int
    BY <1>1, <1>6 DEF Clean, Alike
  <2>2. \A o \in Objects : u.zone[o] # "stack" => game.stamps[o] = {}
    BY <1>1, <1>3, <1>6 DEF Clean
  <2>3. \A o \in Objects : game'.zone[o] # "stack" => game'.stamps[o] = {}
    BY <1>4, <1>6, <1>7, <2>1, <2>2
  <2>4. game'.stamps \in [Objects -> SUBSET {"Spell", "Ability"}]
    BY <1>4, <1>6, <1>7, <2>1
  <2> QED
    BY <1>6, <1>7, <2>1, <2>3, <2>4 DEF Clean
<1> QED
  BY <1>5, <1>8, IdleAgain

(* The Cancel row keeps the invariant, whichever question it answers. *)
LEMMA CancelKeeps ==
  ASSUME CastInv, CancelProposal
  PROVE  CastInv'
<1>1. FlowTyped /\ flow # Idle /\ Asks /\ Rewind(game)
  BY FlowKinds DEF CastInv, CancelProposal, Asks
<1>2. flow.step # "FINISH"
  BY <1>1, FlowKinds DEF Asks
<1>3. CASE flow.step = "COPY_TARGETS"
  BY <1>1, <1>3, CopyCancelled DEF Past
<1>4. CASE flow.step # "COPY_TARGETS"
  BY <1>1, <1>2, <1>4, PaidSoFar, ReversalKeeps DEF Reversible
<1> QED
  BY <1>3, <1>4
(***************************************************************************)
(* The invariant is one, and a reversal leaves no trace.                   *)
(***************************************************************************)
(* The invariant holds at first. *)
LEMMA InitInv == Init => CastInv
<1> SUFFICES ASSUME Init
             PROVE  CastInv
  OBVIOUS
<1>1. flow = Idle /\ flow.kind = "none"
  BY DEF Init, Idle
<1>2. PICK d \in Deals : game = Position(d)
  BY DEF Init
<1>3. /\ d.zone \in [Objects -> Zones] /\ d.tapped \in SUBSET Objects /\ d.life \in Int
      /\ d.energy \in Int /\ d.order \in Seq(AllMeans)
  BY DealsAssumption
<1>4. Clean(game)
  <2>1. game \in Alike(game) /\ game.abilities = 0 /\ game.stamps = [o \in Objects |-> {}]
    BY <1>2, <1>3 DEF Position, Alike
  <2> QED
    BY <2>1 DEF Clean
<1> QED
  BY <1>1, <1>4 DEF CastInv, FlowTyped, Found, Untouched, OnlyPaid, Settled, Proposing, Reversible, Past

(* And every step keeps it. *)
LEMMA NextInv == CastInv /\ [Next]_vars => CastInv'
<1> SUFFICES ASSUME CastInv, [Next]_vars
             PROVE  CastInv'
  OBVIOUS
<1>1. CASE \E c \in Casts : ProposeCast(c)
  BY <1>1, ProposeCastKeeps
<1>2. CASE \E a \in Abilities : ProposeActivation(a)
  BY <1>2, ProposeActivationKeeps
<1>3. CASE CastStep
  BY <1>3, AnnouncementsKeep, PipLifeKeeps, TargetsKeeps, ItemsKeep, ManaPayKeeps, PayApplyKeeps,
     CopiesKeep, EndsKeep DEF CastStep
<1>4. CASE ActivationStep
  BY <1>4, ActivationChoicesKeep, ActivationPayKeeps, ActivationApplyKeeps, EndsKeep
  DEF ActivationStep
<1>5. CASE PaymentStep
  BY <1>5, PaymentKeeps, PayerKeeps DEF PaymentStep
<1>6. CASE CancelProposal
  BY <1>6, CancelKeeps
<1>7. CASE UNCHANGED vars
  BY <1>7 DEF vars, CastInv, Clean, FlowTyped, Found, ItemsOffStack, Untouched, OnlyPaid, Settled,
     Proposing, Reversible, Past, Start, CastStart, ActivationStart, Casting, Activating
<1> QED
  BY <1>1, <1>2, <1>3, <1>4, <1>5, <1>6, <1>7 DEF Next, Step

(* In every position, with any cards, costs and mana abilities: until a proposal pays, the game is the
   one it found but for its own card, the life its pips took or its ability on the stack; from then on a
   snapshot of just that is kept and the game differs from it by a payment (begin_cast,
   snapshot_mana_state, prompt_mana_payment). *)
THEOREM CastInvariant == Spec => []CastInv
BY InitInv, NextInv, PTL DEF Spec

(* A step that does not rewind leaves the proposal of its kind. *)
LEMMA GoesOn ==
  ASSUME CastInv, flow # Idle,
         \/ CostStep \/ Kicker \/ Replicate \/ ChooseX \/ PipLife \/ PipMana \/ PipsDone \/ LifeX \/ Gift
         \/ Targets \/ AltPitch \/ AltReturn \/ AltSac \/ SpellSac \/ DelveCount \/ DelvePick \/ DefSac
         \/ DefExileTypes \/ DefExileCount \/ ManaPay \/ ActivationX \/ ActivationTarget
         \/ ActivationSac \/ ActivationReturn \/ ActivationPay \/ FromPool \/ TapSource
  PROVE  flow' # Idle
<1> SUFFICES flow'.kind # "none"
  BY DEF Idle
<1>1. "kind" \in DOMAIN flow /\ flow.kind # "none"
  BY DEF CastInv, FlowTyped, CastFlows, ActivationFlows
<1> SUFFICES flow'.kind = flow.kind
  BY <1>1
<1>2. CASE CostStep \/ Kicker \/ Replicate \/ ChooseX
  BY <1>1, <1>2 DEF CostStep, Kicker, Replicate, ChooseX, Goto
<1>3. CASE PipLife \/ PipMana \/ PipsDone \/ LifeX \/ Gift \/ Targets
  BY <1>1, <1>3 DEF PipLife, PipMana, PipsDone, LifeX, Gift, Targets, Goto
<1>4. CASE AltPitch \/ AltReturn \/ AltSac \/ SpellSac \/ DefSac \/ DefExileCount
  BY <1>1, <1>4 DEF AltPitch, AltReturn, AltSac, SpellSac, DefSac, DefExileCount, Pick, ChooseItem, Goto
<1>5. CASE DelveCount \/ DelvePick \/ DefExileTypes
  BY <1>1, <1>5 DEF DelveCount, DelvePick, DefExileTypes, Pick, ChooseItem, Goto
<1>6. CASE ManaPay \/ ActivationPay \/ FromPool \/ TapSource
  BY <1>1, <1>6 DEF ManaPay, ActivationPay, FromPool, TapSource, BeginPayment, Goto
<1>7. CASE ActivationX \/ ActivationTarget \/ ActivationSac \/ ActivationReturn
  BY <1>1, <1>7 DEF ActivationX, ActivationTarget, ActivationSac, ActivationReturn, PickOne,
     ChooseItem, Goto
<1> QED
  BY <1>2, <1>3, <1>4, <1>5, <1>6, <1>7

(* What is rewound, and from which game. *)
LEMMA ReversesFrom ==
  ASSUME CastInv, Next, flow # Idle, flow' = Idle, Reversible
  PROVE  \E h \in Payments(game) : /\ Rewind(h)
                                   /\ ~mode.auto => h = game
                                   /\ Proposing => h = game
<1>1. FlowTyped /\ game \in Payments(game) /\ "PAY_APPLY" \in PaySteps /\ "PAYING" \in PaySteps
  BY DEF CastInv, Clean, Payments, PaySteps
<1>2. CASE AutoPay
  <2>1. IF Automatic.pool >= flow.cost
        THEN /\ game' = [Automatic EXCEPT !.pool = @ - flow.cost]
             /\ Goto("PAY_APPLY")
             /\ UNCHANGED <<mode, fails, before, proposals>>
        ELSE FailPayment(Automatic)
    BY <1>2 DEF AutoPay, Automatic
  <2>2. Automatic \in Payments(game)
    BY <1>2, AutomaticPays DEF AutoPay
  <2>3. ~Goto("PAY_APPLY")
    <3>1. "kind" \in DOMAIN flow /\ flow.kind # "none"
      BY DEF CastInv, FlowTyped, CastFlows, ActivationFlows
    <3>2. Goto("PAY_APPLY") => flow'.kind # "none"
      BY <3>1 DEF Goto
    <3> QED
      BY <3>2 DEF Idle
  <2>4. Rewind(Automatic)
    BY <2>1, <2>3 DEF FailPayment
  <2>5. mode.auto /\ ~Proposing
    BY <1>1, <1>2, FlowKinds DEF AutoPay, Paying, Proposing
  <2> QED
    BY <2>2, <2>4, <2>5
<1>3. CASE AutoFails \/ CancelPayment \/ CancelProposal
  BY <1>1, <1>3 DEF AutoFails, CancelPayment, CancelProposal, FailPayment
<1>4. CASE PayApply \/ ActivationApply
  <2>1. "kind" \in DOMAIN flow /\ flow.kind # "none"
    BY DEF CastInv, FlowTyped, CastFlows, ActivationFlows
  <2>2. Goto("FINISH") => flow'.kind # "none"
    BY <2>1 DEF Goto
  <2>3. ~Goto("FINISH")
    BY <2>2 DEF Idle
  <2> QED
    BY <1>1, <1>4, <2>3 DEF PayApply, ActivationApply, Apply, FailPayment
<1>5. CASE Finish \/ MakeCopy \/ PlaceCopy \/ CastDone \/ ActivationFinish
  BY <1>1, <1>5, FlowKinds DEF Finish, MakeCopy, PlaceCopy, CastDone, ActivationFinish, Reversible
<1>6. CASE (\E c \in Casts : ProposeCast(c)) \/ (\E a \in Abilities : ProposeActivation(a))
  BY <1>6 DEF ProposeCast, ProposeActivation
<1> QED
  BY <1>2, <1>3, <1>4, <1>5, <1>6, GoesOn DEF Next, Step, CastStep, ActivationStep, PaymentStep

(* Before the payment nothing was sacrificed for mana. *)
LEMMA NothingSpent ==
  ASSUME CastInv, Proposing
  PROVE  SacrificedIn(game) = {} /\ SpentSources = {}
<1>1. FlowTyped /\ Reversible /\ game = Start
  BY DEF CastInv, Untouched, Proposing, Reversible
<1>2. \A o \in Objects : before.zone[o] = "field" => Start.zone[o] = "field"
  <2>1. Casting => before.zone[flow.way.card] \in {"hand", "yard", "exile"}
    BY <1>1, FlowKinds, WaysTyped DEF CastInv, Found, CastFlows
  <2> QED
    BY <1>1, <2>1, StartFacts
<1>3. SacrificedIn(game) = {}
  BY <1>1, <1>2, ManaAbilitiesAssumption DEF SacrificedIn, OnField
<1>4. ~At("PAYING") /\ ~At("PAY_APPLY")
  BY <1>1, FlowKinds DEF Proposing, PaySteps
<1> QED
  BY <1>3, <1>4 DEF SpentSources

(* So a step that reverses a proposal leaves no trace of it. *)
LEMMA NoTrace ==
  ASSUME CastInv, Next, Reverses, ~At("COPY_TARGETS")
  PROVE  LeavesNoTrace
<1>1. FlowTyped /\ flow # Idle /\ flow' = Idle /\ Reversible
  BY FlowKinds DEF CastInv, Reverses, Reversible
<1>2. PICK h \in Payments(game) : /\ Rewind(h)
                                  /\ ~mode.auto => h = game
                                  /\ Proposing => h = game
  BY <1>1, ReversesFrom
<1>3. h \in Payments(Start) /\ game' = Rewound(h)
  BY <1>1, <1>2, PaidSoFar, PaymentsCompose, Rewinds
<1>4. /\ game' = [before EXCEPT !.zone = game'.zone]
      /\ SacrificedIn(game') = SacrificedIn(h)
      /\ \A o \in Objects : game'.zone[o] = IF o \in SacrificedIn(h) THEN "yard" ELSE before.zone[o]
      /\ Clean(game') /\ Clean(before)
  BY <1>1, <1>2, <1>3, SourcesOffField, StartFacts
<1>5. SpentSources = SacrificedIn(h)
  <2>1. CASE Proposing
    BY <1>2, <2>1, NothingSpent
  <2>2. CASE ~Proposing
    <3>1. At("PAYING") \/ At("PAY_APPLY")
      BY <1>1, <2>2, FlowKinds DEF Proposing, Reversible, PaySteps
    <3> QED
      BY <1>2, <1>4, <3>1 DEF SpentSources
  <2> QED
    BY <2>1, <2>2
<1> DEFINE z == [o \in Objects |-> IF o \in SpentSources THEN "yard" ELSE before.zone[o]]
<1>6. game'.zone = z
  BY <1>4, <1>5 DEF Clean, Alike
<1>7. LeavesNoTrace <=> game' = [before EXCEPT !.zone = z]
  BY DEF LeavesNoTrace
<1> QED
  BY <1>4, <1>6, <1>7

(* A proposal that is cancelled before its costs are paid, or whose payment fails, leaves the game
   exactly as it was but for the sources sacrificed for its mana, whatever was chosen, tapped and spent on
   the way (rewind_cast, rewind_activation, restore_mana_state). *)
THEOREM NoTraceLeft == Spec => ReversedLeavesNoTrace
<1>1. CastInv /\ [Next]_vars => [Reverses /\ ~At("COPY_TARGETS") => LeavesNoTrace]_vars
  BY NoTrace
<1> QED
  BY <1>1, CastInvariant, PTL DEF Spec, ReversedLeavesNoTrace
=============================================================================
