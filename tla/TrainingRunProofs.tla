--------------------------- MODULE TrainingRunProofs ---------------------------
(***************************************************************************)
(* Proofs about TrainingRun, for any limits, bounds and commands.          *)
(***************************************************************************)
EXTENDS TrainingRun, FiniteSetTheorems, SequenceTheorems, TLAPS

-----------------------------------------------------------------------------
(* The inductive invariant.                                                 *)

PhaseNames == {"B0", "B1", "B2", "B3", "B4", "B5", "done"}
Stages == {"", "collect", "train", "eval", "selfplay"}
Learners == [kind : {"none", "bc", "rnad"}, pos : Nat, line : Nat, fixed : Seq(Nat)]
Labels == {"none", "b1", "b2", "it"} \X Nat
MarkValues == [phase : PhaseNames, stage : Stages, step : Nat, decisions : Nat]
Versions == {"none", "b0", "b2", "selfplay"} \X Nat
Exports == [kind : {"none", "bc", "rnad"}, line : Nat, round : Nat, epoch : Nat, done : BOOLEAN]
Events == [event : {"bc", "iteration", "saved"}, pos : Nat, line : Nat]
States ==
    [phase : PhaseNames, stage : Stages, round : Nat, start : Nat, began : [round : Nat, pos : Nat],
     bc : Nat, iterations : Nat, hold : BOOLEAN, paused : BOOLEAN, pending : PhaseNames \cup {NoPhase},
     checkpoint : Learners, ladder : SUBSET (Nat \X Nat), queue : Seq(Labels), running : Labels,
     evaluated : SUBSET Labels, final : BOOLEAN,
     fatals : Nat, mark : MarkValues \cup {<<>>}, marks : Seq(MarkValues), starts : Nat]
LoopPlaces == {"down", "enter", "round", "final", "seeded", "events", "phase", "sync", "live", "eval", "end",
           "stopping", "closing"}
Loops == [at : LoopPlaces, then : {"down", "events", "sync", "end"}, exit : {0, 2, 4, 9}, resume : BOOLEAN,
          force : BOOLEAN, live : BOOLEAN, epoch : Nat, stopping : BOOLEAN]
Gpus == [learner : Learners, mode : {"idle", "bc", "rnad"}, paused : BOOLEAN, published : Int,
         games : BOOLEAN]

TypeOK ==
    /\ state \in States /\ saved \in States
    /\ orch \in Loops
    /\ gpu \in Gpus /\ events \in Seq(Events)
    /\ exporter \in [busy : Exports, next : Exports] /\ current \in Exports
    /\ played \in SUBSET Versions /\ actors \in Versions
    /\ budget \in [faults : Nat, commands : Nat]

(* Where the loop is: it has a place to go back to, and no exit status, while it is up. *)
Flow ==
    /\ ~At("down") => orch.exit = 0
    /\ \A p \in {"enter", "round", "final", "seeded"} : At(p) => orch.then # "down"

(* No evaluation is listed twice, and every rung has its own. *)
Evaluations(s) ==
    /\ IsInjective(s.queue) /\ s.running \notin Range(s.queue) /\ NoLabel \notin Range(s.queue)
    /\ \A r \in s.ladder : Queued(s, <<"it", r[1]>>) \/ <<"it", r[1]>> \in s.evaluated

(* The fatal stops counted are the last of the marks, none of which is past the first of them; of
   each mark before there is a later one that is past it. *)
Counted(s) ==
    LET n == Len(s.marks) IN
    /\ s.fatals <= n /\ n <= FatalLimit
    /\ s.fatals = 0 => s.mark = <<>> /\ n = 0
    /\ s.fatals > 0 => s.mark = s.marks[n - s.fatals + 1]
    /\ \A i \in 1..n : i > n - s.fatals => NoFurther(s.marks[i], s.mark)
    /\ \A i \in 1..n : i <= n - s.fatals => \E j \in 1..n : j > i /\ ~NoFurther(s.marks[j], s.marks[i])
FatalCount ==
    /\ Counted(state) /\ Counted(saved)
    /\ orch.exit # 4 => state.fatals < FatalLimit /\ saved.fatals < FatalLimit
    /\ orch.exit = 4 => state.fatals = FatalLimit /\ saved.fatals = FatalLimit

(* Which learner a phase has recorded; the rungs are the recorded learner's, up to its position. *)
Sound(c) == c.kind = "rnad" => Len(c.fixed) = c.pos
Record(s) ==
    /\ Sound(s.checkpoint)
    /\ s.checkpoint.kind = "rnad" => s.phase \in {"B3", "B4", "B5", "done"}
    /\ s.phase \in {"B4", "B5"} => s.checkpoint.kind = "rnad"
    /\ s.stage = "eval" => s.phase \in {"B1", "B2"}
    /\ s.pending # NoPhase => s.phase \in {"B1", "B2"} /\ s.pending = After(s.phase)
    /\ s.ladder # {} => s.checkpoint.kind = "rnad"
    /\ \A r \in s.ladder : r[1] >= 1 /\ (r[1] <= s.checkpoint.pos => r[2] = s.checkpoint.fixed[r[1]])

(* The learner that runs: the recorded one with iterations of its own after it. *)
Extends(l, c) == c.pos <= l.pos /\ \A i \in 1..c.pos : l.fixed[i] = c.fixed[i]
LearnerRuns ==
    /\ At("down") => Model = "none"
    /\ Model = "bc" => state.phase \in {"B1", "B2", "B3"} /\ state.checkpoint.kind # "rnad"
    /\ Model = "rnad" => Sound(gpu.learner) /\ state.phase \in {"B3", "B4", "B5", "done"}
    /\ Model = "rnad" /\ At("seeded") => state.phase = "B3" /\ state.checkpoint.kind # "rnad" /\ gpu.mode = "idle"
    /\ Model = "rnad" /\ ~At("seeded") => state.checkpoint.kind = "rnad" /\ Extends(gpu.learner, state.checkpoint)
    /\ At("round") => Model = "bc" /\ state.phase = "B2" /\ state.stage = "collect"
    /\ At("final") => Model = "bc" /\ state.phase = "B3"
    /\ At("seeded") => Model = "rnad"
    /\ ~At("down") /\ ~At("enter") /\ state.phase \in {"B1", "B2"} => Model = "bc"

(* The events not read are of this learner. *)
Reported ==
    /\ Model = "none" => events = <<>>
    /\ \A i \in 1..Len(events) :
          /\ events[i].event \in {"iteration", "saved"} => Model = "rnad" /\ ~At("seeded")
          /\ events[i].event = "iteration" =>
                events[i].pos \in 1..gpu.learner.pos /\ events[i].line = gpu.learner.fixed[events[i].pos]

(* The exports under way are of epochs in order, those of this one of this learner and round. *)
Fits(x) ==
    /\ x.kind = Model /\ x.line = gpu.learner.line
    /\ At("round") \/ x.round = IF Model = "bc" THEN state.round ELSE 0
Exporting ==
    /\ \A x \in {exporter.busy, exporter.next} :
          x # NoExport => /\ x.kind # "none" /\ x.epoch <= orch.epoch /\ (x.epoch = orch.epoch => Fits(x))
                          /\ orch.live => x.epoch = orch.epoch
    /\ exporter.next # NoExport => exporter.busy # NoExport /\ exporter.busy.epoch <= exporter.next.epoch
    /\ ~exporter.next.done
    /\ exporter.busy.done => current = exporter.busy
    /\ orch.live => Model # "none" /\ Fits(current)
    /\ Model = "none" => exporter.busy = NoExport
Playing ==
    /\ actors[1] = "b2" => /\ orch.live /\ ~At("enter") /\ ~At("round")
                           /\ state.phase = "B2" /\ state.stage = "collect" /\ actors[2] = state.round
    /\ actors[1] = "selfplay" => orch.live /\ state.phase \in {"B4", "B5"} /\ actors[2] = 0

Evaluated == Evaluations(state) /\ Evaluations(saved)
Recorded == Record(state) /\ Record(saved)
IInv ==
    /\ TypeOK /\ Flow /\ Evaluated /\ FatalCount /\ Recorded /\ LearnerRuns /\ Reported
    /\ RungsAreThisLearners /\ Exporting /\ Playing

-----------------------------------------------------------------------------
(* Lists.                                                                   *)

(* What Kept returns: the n-th element kept exists because ranks are distinct and as many as the
   places, so every number up to theirs is a rank. *)
LEMMA KeptProperties ==
    ASSUME NEW D, NEW q \in Seq(D), NEW S
    PROVE  /\ Kept(q, S) \in Seq(D) /\ Range(Kept(q, S)) = Range(q) \cap S
           /\ IsInjective(q) => IsInjective(Kept(q, S))
<1> DEFINE P == Places(q, S)
           N == Cardinality(P)
           R == [i \in P |-> Rank(i, P)]
           C(n) == CHOOSE i \in P : Rank(i, P) = n
<1>1. /\ Len(q) \in Nat /\ DOMAIN q = 1..Len(q) /\ P \subseteq 1..Len(q) /\ IsFiniteSet(P) /\ N \in Nat
      /\ \A i \in P : i \in Int
  <2>1. Len(q) \in Nat /\ DOMAIN q = 1..Len(q) /\ P \subseteq 1..Len(q)
    BY LenProperties DEF Places
  <2>2. IsFiniteSet(1..Len(q))
    BY <2>1, FS_Interval
  <2>3. IsFiniteSet(P)
    BY <2>1, <2>2, FS_Subset
  <2> QED BY <2>1, <2>3, FS_CardinalityType
<1> HIDE DEF P
<1>2. ASSUME NEW i \in P PROVE Rank(i, P) \in 1..N
  <2> DEFINE T == {j \in P : j <= i}
  <2>1. T \in SUBSET P /\ i \in T
    BY <1>1
  <2>2. IsFiniteSet(T) /\ Cardinality(T) <= N /\ Cardinality(T) \in Nat
    BY <1>1, <2>1, FS_Subset, FS_CardinalityType
  <2>3. Cardinality(T) # 0
    BY <2>1, <2>2, FS_EmptySet
  <2> QED BY <2>2, <2>3, <1>1 DEF Rank
<1>3. ASSUME NEW i \in P, NEW k \in P, i < k PROVE Rank(i, P) # Rank(k, P)
  <2> DEFINE T == {j \in P : j <= i}
             U == {j \in P : j <= k}
  <2>1. T \in SUBSET U /\ k \in U /\ k \notin T /\ U \in SUBSET P
    <3>1. i \in Int /\ k \in Int /\ \A j \in P : j \in Int
      BY <1>1
    <3>2. \A j \in P : j <= i => j <= k
      BY <3>1, <1>3
    <3>3. ~(k <= i) /\ k <= k
      BY <3>1, <1>3
    <3>4. T \in SUBSET U
      BY <3>2
    <3> QED BY <3>3, <3>4
  <2>2. IsFiniteSet(U)
    BY <1>1, <2>1, FS_Subset
  <2> HIDE DEF T, U
  <2>3. Cardinality(T) # Cardinality(U)
    BY <2>1, <2>2, FS_Subset
  <2> QED BY <2>3 DEF Rank, T, U
<1>4. \A i, k \in P : Rank(i, P) = Rank(k, P) => i = k
  <2> SUFFICES ASSUME NEW i \in P, NEW k \in P, i # k PROVE Rank(i, P) # Rank(k, P)
    OBVIOUS
  <2>1. i < k \/ k < i
    BY <1>1
  <2> QED BY <2>1, <1>3
<1>5. R \in Injection(P, 1..N)
  BY <1>2, <1>4 DEF Injection, IsInjective
<1>6. R \in Surjection(P, 1..N)
  <2>1. IsFiniteSet(1..N) /\ Cardinality(1..N) = N
    BY <1>1, FS_Interval
  <2> HIDE DEF R
  <2> QED BY <2>1, <1>5, FS_Injection
<1>7. ASSUME NEW n \in 1..N PROVE C(n) \in P /\ Rank(C(n), P) = n
  <2>1. \E i \in P : Rank(i, P) = n
    BY <1>6 DEF Surjection
  <2> QED BY <2>1
<1>8. \A i \in P : C(Rank(i, P)) = i
  BY <1>2, <1>4, <1>7
<1> DEFINE F == [n \in 1..N |-> q[C(n)]]
<1>9. Kept(q, S) = F
  BY DEF Kept, P
<1>10. \A i \in P : q[i] \in D /\ q[i] \in S
  <2>1. \A i \in 1..Len(q) : q[i] \in D
    BY ElementOfSeq
  <2> QED BY <2>1, <1>1 DEF P, Places
<1> HIDE DEF C
<1>11. F \in [1..N -> D]
  BY <1>7, <1>10
<1>12. F \in Seq(D)
  BY <1>1, <1>11, SeqDef
<1>13. Range(F) = Range(q) \cap S
  <2>1. \A n \in 1..N : F[n] \in Range(q) \cap S
    BY <1>7, <1>10, <1>1 DEF Range
  <2>2. ASSUME NEW x \in Range(q) \cap S PROVE x \in Range(F)
    <3>1. PICK i \in DOMAIN q : q[i] = x
      BY DEF Range
    <3>2. i \in P
      BY <3>1 DEF P, Places
    <3>3. Rank(i, P) \in 1..N /\ F[Rank(i, P)] = x
      BY <1>2, <1>8, <3>1, <3>2
    <3> QED BY <3>3 DEF Range
  <2> QED BY <2>1, <2>2 DEF Range
<1>14. IsInjective(q) => IsInjective(F)
  <2> SUFFICES ASSUME IsInjective(q), NEW m \in 1..N, NEW n \in 1..N, F[m] = F[n] PROVE m = n
    BY DEF IsInjective
  <2>1. C(m) \in P /\ C(n) \in P /\ q[C(m)] = q[C(n)]
    BY <1>7
  <2>2. C(m) = C(n)
    BY <2>1, <1>1 DEF IsInjective
  <2> QED BY <2>2, <1>7
<1> QED BY <1>9, <1>12, <1>13, <1>14

LEMMA Appended ==
    ASSUME NEW D, NEW q \in Seq(D), NEW e \in D
    PROVE  /\ Append(q, e) \in Seq(D) /\ Range(Append(q, e)) = Range(q) \cup {e}
           /\ IsInjective(q) /\ e \notin Range(q) => IsInjective(Append(q, e))
<1> DEFINE n == Len(q)
           a == Append(q, e)
<1>1. /\ n \in Nat /\ DOMAIN q = 1..n /\ a \in Seq(D) /\ Len(a) = n + 1
      /\ (\A i \in 1..n : a[i] = q[i]) /\ a[n + 1] = e
  BY LenProperties, AppendProperties
<1>2. DOMAIN a = 1..(n + 1)
  BY <1>1, LenProperties
<1> HIDE DEF n, a
<1>3. Range(a) = Range(q) \cup {e}
  BY <1>1, <1>2 DEF Range
<1>4. IsInjective(q) /\ e \notin Range(q) => IsInjective(a)
  BY <1>1, <1>2 DEF IsInjective, Range
<1> QED BY <1>1, <1>3, <1>4 DEF a

LEMMA Prepended ==
    ASSUME NEW D, NEW q \in Seq(D), NEW e \in D
    PROVE  /\ <<e>> \o q \in Seq(D) /\ Range(<<e>> \o q) = Range(q) \cup {e}
           /\ IsInjective(q) /\ e \notin Range(q) => IsInjective(<<e>> \o q)
<1> DEFINE n == Len(q)
           a == <<e>> \o q
<1>1. <<e>> \in Seq(D) /\ Len(<<e>>) = 1 /\ <<e>>[1] = e
  OBVIOUS
<1>2. /\ n \in Nat /\ DOMAIN q = 1..n /\ a \in Seq(D) /\ Len(a) = 1 + n
      /\ \A i \in 1..(1 + n) : a[i] = IF i <= 1 THEN e ELSE q[i - 1]
  BY <1>1, LenProperties, ConcatProperties
<1>3. DOMAIN a = 1..(1 + n)
  BY <1>2, LenProperties
<1> HIDE DEF n, a
<1>4. 1 \in 1..(1 + n) /\ a[1] = e
  BY <1>2
<1>5. ASSUME NEW i \in 1..(1 + n), i # 1 PROVE i - 1 \in 1..n /\ a[i] = q[i - 1]
  BY <1>2, <1>5
<1>6. ASSUME NEW i \in 1..n PROVE i + 1 \in 1..(1 + n) /\ a[i + 1] = q[i]
  <2>1. i + 1 \in 1..(1 + n) /\ ~(i + 1 <= 1) /\ (i + 1) - 1 = i
    BY <1>2
  <2> QED BY <2>1, <1>2
<1>7. Range(a) = Range(q) \cup {e}
  <2>1. \A i \in 1..(1 + n) : a[i] \in Range(q) \cup {e}
    BY <1>2, <1>4, <1>5 DEF Range
  <2>2. \A i \in 1..n : q[i] \in Range(a)
    BY <1>3, <1>6 DEF Range
  <2>3. e \in Range(a)
    BY <1>3, <1>4 DEF Range
  <2> QED BY <2>1, <2>2, <2>3, <1>2, <1>3 DEF Range
<1>8. IsInjective(q) /\ e \notin Range(q) => IsInjective(a)
  <2> SUFFICES ASSUME IsInjective(q), e \notin Range(q), NEW i \in 1..(1 + n), NEW j \in 1..(1 + n),
                      a[i] = a[j]
               PROVE  i = j
    BY <1>3 DEF IsInjective
  <2>1. \A m \in 1..n : q[m] # e
    BY <1>2 DEF Range
  <2>2. i = 1 <=> j = 1
    BY <2>1, <1>4, <1>5
  <2>3. CASE i # 1 /\ j # 1
    <3>1. i - 1 \in 1..n /\ j - 1 \in 1..n /\ q[i - 1] = q[j - 1]
      BY <2>3, <1>5
    <3>2. i - 1 = j - 1
      BY <3>1, <1>2 DEF IsInjective
    <3> QED BY <3>2, <1>2
  <2> QED BY <2>2, <2>3
<1> QED BY <1>2, <1>7, <1>8 DEF a

LEMMA TakenFirst ==
    ASSUME NEW D, NEW q \in Seq(D), q # <<>>
    PROVE  /\ Head(q) \in D /\ Tail(q) \in Seq(D) /\ Range(q) = Range(Tail(q)) \cup {Head(q)}
           /\ IsInjective(q) => IsInjective(Tail(q)) /\ Head(q) \notin Range(Tail(q))
<1> DEFINE n == Len(q)
           t == Tail(q)
<1>1. n \in Nat \ {0} /\ DOMAIN q = 1..n
  BY LenProperties, EmptySeq
<1>2. Head(q) \in D /\ t \in Seq(D) /\ Len(t) = n - 1 /\ \A i \in 1..Len(t) : t[i] = q[i + 1]
  BY HeadTailProperties
<1>3. DOMAIN t = 1..(n - 1) /\ Head(q) = q[1]
  <2>1. DOMAIN t = 1..Len(t)
    BY <1>2, LenProperties
  <2>2. Head(q) = q[1]
    <3>1. Len(q) \in 1..Len(q) /\ 1 \in 1..Len(q)
      BY <1>1
    <3>2. Head(SubSeq(q, 1, Len(q))) = q[1]
      BY <3>1, HeadTailOfSubSeq
    <3> QED BY <3>2, SubSeqFull
  <2> QED BY <2>1, <2>2, <1>2
<1>4. ASSUME NEW i \in 1..(n - 1) PROVE t[i] = q[i + 1] /\ i + 1 \in 1..n
  BY <1>1, <1>2
<1>5. ASSUME NEW i \in 1..n, i # 1 PROVE i - 1 \in 1..(n - 1) /\ q[i] = t[i - 1]
  <2>1. i - 1 \in 1..(n - 1) /\ (i - 1) + 1 = i
    BY <1>1, <1>5
  <2> QED BY <2>1, <1>4
<1>6. 1 \in 1..n
  BY <1>1
<1> HIDE DEF n, t
<1>7. Range(q) = Range(t) \cup {Head(q)}
  <2>1. \A i \in 1..n : q[i] \in Range(t) \cup {Head(q)}
    BY <1>3, <1>5 DEF Range
  <2>2. \A i \in 1..(n - 1) : t[i] \in Range(q)
    BY <1>1, <1>4 DEF Range
  <2>3. Head(q) \in Range(q)
    BY <1>1, <1>3, <1>6 DEF Range
  <2> QED BY <2>1, <2>2, <2>3, <1>1, <1>3 DEF Range
<1>8. ASSUME IsInjective(q) PROVE IsInjective(t) /\ Head(q) \notin Range(t)
  <2>1. \A i, j \in 1..n : q[i] = q[j] => i = j
    BY <1>1, <1>8 DEF IsInjective
  <2>2. ASSUME NEW i \in 1..(n - 1), NEW j \in 1..(n - 1), t[i] = t[j] PROVE i = j
    <3>1. i + 1 = j + 1
      BY <2>1, <2>2, <1>4
    <3> QED BY <3>1, <1>1
  <2>3. ASSUME NEW i \in 1..(n - 1) PROVE t[i] # q[1]
    <3>1. i + 1 # 1
      BY <1>1
    <3> QED BY <3>1, <2>1, <1>4, <1>6
  <2> QED BY <2>2, <2>3, <1>3 DEF IsInjective, Range
<1> QED BY <1>2, <1>7, <1>8 DEF t

-----------------------------------------------------------------------------
(* What the helpers do to a state, field by field.                          *)

Evals(s) == <<s.queue, s.running, s.ladder, s.evaluated>>
Fatals(s) == <<s.fatals, s.mark, s.marks>>
Stand(s) == <<s.phase, s.stage, s.round, s.pending, s.checkpoint, s.ladder, s.starts>>

LEMMA OfRunningFirst ==
    ASSUME NEW s \in States
    PROVE  /\ RunningFirst(s) \in States
           /\ Fatals(RunningFirst(s)) = Fatals(s) /\ Stand(RunningFirst(s)) = Stand(s)
<1>1. s.queue \in Seq(Labels) /\ s.running \in Labels /\ NoLabel \in Labels
  BY DEF States, Labels, NoLabel
<1>2. <<s.running>> \o s.queue \in Seq(Labels)
  BY <1>1, Prepended
<1> QED BY <1>1, <1>2 DEF RunningFirst, States, Fatals, Stand

LEMMA MarkType ==
    ASSUME NEW s \in States
    PROVE  Mark(s) \in MarkValues
BY DEF Mark, MarkValues, States, Version

LEMMA LastFewType ==
    ASSUME NEW q \in Seq(MarkValues)
    PROVE  /\ LastFew(q) \in Seq(MarkValues)
           /\ Len(q) <= FatalLimit => LastFew(q) = q
           /\ Len(q) > FatalLimit =>
                 /\ Len(LastFew(q)) = FatalLimit
                 /\ \A i \in 1..FatalLimit : LastFew(q)[i] = q[Len(q) - FatalLimit + i]
<1> DEFINE n == Len(q)
<1>1. n \in Nat /\ FatalLimit \in Nat \ {0} /\ \A i \in 1..n : q[i] \in MarkValues
  BY BoundsAssumption, LenProperties, ElementOfSeq
<1>2. CASE n <= FatalLimit
  <2>1. LastFew(q) = SubSeq(q, 1, n)
    <3>1. ~(n > FatalLimit)
      BY <1>1, <1>2
    <3> QED BY <3>1 DEF LastFew
  <2>2. LastFew(q) = q
    BY <2>1, SubSeqFull
  <2> QED BY <1>1, <1>2, <2>2
<1>3. CASE n > FatalLimit
  <2> DEFINE m == n - FatalLimit + 1
  <2>1. LastFew(q) = SubSeq(q, m, n) /\ m \in Int /\ n \in Int /\ m <= n /\ n - m + 1 = FatalLimit /\ m >= 1
    BY <1>1, <1>3 DEF LastFew
  <2>2. \A i \in m..n : i \in 1..n
    BY <1>1, <2>1
  <2>3. \A i \in 1..FatalLimit : m + i - 1 = n - FatalLimit + i
    BY <1>1
  <2> HIDE DEF m, n
  <2>4. \A i \in m..n : q[i] \in MarkValues
    BY <1>1, <2>2
  <2>5. /\ LastFew(q) \in Seq(MarkValues) /\ Len(LastFew(q)) = FatalLimit
        /\ \A i \in 1..FatalLimit : LastFew(q)[i] = q[m + i - 1]
    BY <2>1, <2>4, SubSeqProperties
  <2> QED BY <1>1, <1>3, <2>3, <2>5 DEF n
<1> QED BY <1>1, <1>2, <1>3

LEMMA OfNoted ==
    ASSUME NEW s \in States
    PROVE  /\ Noted(s) \in States
           /\ Evals(Noted(s)) = Evals(s) /\ Stand(Noted(s)) = Stand(s)
           /\ LET m == Mark(s)
                  stalled == s.mark # <<>> /\ NotPast(m, s.mark)
              IN  /\ Noted(s).fatals = IF stalled THEN s.fatals + 1 ELSE 1
                  /\ Noted(s).mark = IF stalled THEN s.mark ELSE m
                  /\ Noted(s).marks = LastFew(Append(s.marks, m))
<1>1. Mark(s) \in MarkValues /\ s.marks \in Seq(MarkValues)
  BY MarkType DEF States
<1>2. LastFew(Append(s.marks, Mark(s))) \in Seq(MarkValues)
  BY <1>1, AppendProperties, LastFewType
<1> DEFINE stalled == s.mark # <<>> /\ NotPast(Mark(s), s.mark)
           f == IF stalled THEN s.fatals + 1 ELSE 1
           k == IF stalled THEN s.mark ELSE Mark(s)
           l == LastFew(Append(s.marks, Mark(s)))
<1>3. f \in Nat /\ k \in MarkValues \cup {<<>>} /\ l \in Seq(MarkValues)
  BY <1>1, <1>2 DEF States
<1>4. Noted(s) = [s EXCEPT !.fatals = f, !.mark = k, !.marks = l]
  BY DEF Noted
<1>5. Noted(s) \in States /\ Evals(Noted(s)) = Evals(s) /\ Stand(Noted(s)) = Stand(s)
      /\ Noted(s).fatals = f /\ Noted(s).mark = k /\ Noted(s).marks = l
  <2> HIDE DEF f, k, l
  <2>1. Noted(s) \in States
    BY <1>3, <1>4 DEF States
  <2>2. Evals(Noted(s)) = Evals(s) /\ Stand(Noted(s)) = Stand(s)
    BY <1>4 DEF States, Evals, Stand
  <2>3. Noted(s).fatals = f /\ Noted(s).mark = k /\ Noted(s).marks = l
    BY <1>4 DEF States
  <2> QED BY <2>1, <2>2, <2>3
<1> QED BY <1>5

LEMMA OfWithEval ==
    ASSUME NEW s \in States, NEW label \in Labels
    PROVE  /\ WithEval(s, label) \in States /\ Requeued(s, label) \in States
           /\ Fatals(WithEval(s, label)) = Fatals(s) /\ Stand(WithEval(s, label)) = Stand(s)
           /\ Requeued(s, label) \in {s, WithEval(s, label)}
<1>1. Append(s.queue, label) \in Seq(Labels)
  BY AppendProperties DEF States
<1> QED BY <1>1 DEF WithEval, Requeued, States, Fatals, Stand

LEMMA OfWithCheckpoint ==
    ASSUME NEW s \in States, TypeOK
    PROVE  /\ WithCheckpoint(s) \in States
           /\ Evals(WithCheckpoint(s)) = Evals(s) /\ Fatals(WithCheckpoint(s)) = Fatals(s)
           /\ Stand(WithCheckpoint(s)) = <<s.phase, s.stage, s.round, s.pending, gpu.learner, s.ladder, s.starts>>
<1> DEFINE k == IF Model = "rnad" THEN gpu.learner.pos ELSE s.iterations
<1>1. gpu.learner \in Learners /\ k \in Nat
  BY DEF TypeOK, Gpus, Learners, States
<1>2. WithCheckpoint(s) = [s EXCEPT !.checkpoint = gpu.learner, !.iterations = k]
  BY DEF WithCheckpoint
<1> HIDE DEF k
<1> QED BY <1>1, <1>2 DEF States, Evals, Fatals, Stand

LEMMA OfRolledBack ==
    ASSUME NEW s \in States, NEW k \in Nat
    PROVE  /\ RolledBack(s, k) \in States
           /\ Fatals(RolledBack(s, k)) = Fatals(s)
           /\ Stand(RolledBack(s, k)) =
                 <<s.phase, s.stage, s.round, s.pending, s.checkpoint, {r \in s.ladder : r[1] <= k}, s.starts>>
<1>1. Kept(s.queue, Standing(Range(s.queue), k)) \in Seq(Labels)
  BY KeptProperties DEF States
<1>2. Standing(s.evaluated, k) \in SUBSET Labels /\ {r \in s.ladder : r[1] <= k} \in SUBSET (Nat \X Nat)
  BY DEF Standing, States
<1> QED BY <1>1, <1>2 DEF RolledBack, States, Fatals, Stand

LEMMA OfWithRung ==
    ASSUME NEW s \in States, NEW k \in Nat, NEW line \in Nat
    PROVE  /\ WithRung(s, k, line) \in States
           /\ Fatals(WithRung(s, k, line)) = Fatals(s)
           /\ Stand(WithRung(s, k, line)) =
                 <<s.phase, s.stage, s.round, s.pending, s.checkpoint,
                   {r \in s.ladder : r[1] # k} \cup {<<k, line>>}, s.starts>>
<1>1. <<"it", k>> \in Labels
  BY DEF Labels
<1>2. WithEval(s, <<"it", k>>).queue \in Seq(Labels)
  BY <1>1, OfWithEval DEF States
<1>3. {r \in s.ladder : r[1] # k} \cup {<<k, line>>} \in SUBSET (Nat \X Nat)
  BY DEF States
<1> QED BY <1>2, <1>3 DEF WithRung, States, Fatals, Stand

LEMMA OfWithoutEval ==
    ASSUME NEW s \in States, NEW label
    PROVE  /\ WithoutEval(s, label) \in States
           /\ Fatals(WithoutEval(s, label)) = Fatals(s) /\ Stand(WithoutEval(s, label)) = Stand(s)
<1>1. Kept(s.queue, Range(s.queue) \ {label}) \in Seq(Labels) /\ NoLabel \in Labels
  BY KeptProperties DEF States, NoLabel, Labels
<1> QED BY <1>1 DEF WithoutEval, States, Fatals, Stand

LEMMA OfEnded ==
    ASSUME NEW s \in States
    PROVE  /\ Ended(s) \in States
           /\ Fatals(Ended(s)) = Fatals(s) /\ Stand(Ended(s)) = Stand(s)
BY DEF Ended, States, Fatals, Stand, Labels, NoLabel

LEMMA OfMovedTo ==
    ASSUME NEW s \in States, NEW to \in PhaseNames
    PROVE  /\ MovedTo(s, to) \in States
           /\ Evals(MovedTo(s, to)) = Evals(s) /\ Fatals(MovedTo(s, to)) = Fatals(s)
           /\ Stand(MovedTo(s, to)) = <<to, "", s.round, NoPhase, s.checkpoint, s.ladder, s.starts>>
BY DEF MovedTo, States, Evals, Fatals, Stand, Stages, NoPhase

-----------------------------------------------------------------------------
(* Types.                                                                   *)

LEMMA MinusOne == -1 \in Int
OBVIOUS

LEMMA DownTypes ==
    ASSUME TypeOK, AllDown
    PROVE  /\ gpu' \in Gpus /\ events' \in Seq(Events) /\ exporter' \in [busy : Exports, next : Exports]
           /\ current' \in Exports /\ played' \in SUBSET Versions /\ actors' \in Versions
<1>1. NoLearner \in Learners /\ NoGpu \in Gpus
  <2>1. <<>> \in Seq(Nat) /\ -1 \in Int
    OBVIOUS
  <2>2. NoLearner \in Learners
    BY <2>1 DEF NoLearner, Learners
  <2> QED BY <2>1, <2>2 DEF NoGpu, Gpus
<1>2. NoExport \in Exports /\ NoVersion \in Versions /\ <<>> \in Seq(Events)
  BY DEF NoExport, Exports, NoVersion, Versions
<1> QED BY <1>1, <1>2 DEF AllDown, TypeOK

LEMMA FatalTypes ==
    ASSUME TypeOK, NEW s \in States, Fatal(s)
    PROVE  TypeOK'
<1>1. RunningFirst(Noted(s)) \in States
  BY OfNoted, OfRunningFirst
<1>2. state' \in States /\ saved' \in States /\ orch' \in Loops /\ budget' \in [faults : Nat, commands : Nat]
  BY <1>1 DEF Fatal, Save, Down, Loops, LoopPlaces, TypeOK
<1> QED BY <1>2, DownTypes DEF Fatal, TypeOK

LEMMA ExportTypes ==
    ASSUME TypeOK, NEW round \in Nat, NEW epoch \in Nat
    PROVE  /\ Export(round, epoch) \in Exports
           /\ Requested(Export(round, epoch)) => exporter' \in [busy : Exports, next : Exports]
<1>1. Export(round, epoch) \in Exports
  BY DEF Export, Exports, TypeOK, Gpus, Learners, Model
<1> QED BY <1>1 DEF Requested, TypeOK

LEMMA LabelTypes ==
    /\ NoLabel \in Labels /\ <<"b1", 0>> \in Labels
    /\ \A n \in Nat : <<"b2", n>> \in Labels /\ <<"it", n>> \in Labels
BY DEF Labels, NoLabel

LEMMA AfterType ==
    ASSUME NEW p \in {"B0", "B1", "B2", "B4", "B5"}
    PROVE  /\ After(p) \in PhaseNames
           /\ After(p) = CASE p = "B0" -> "B1" [] p = "B1" -> "B2" [] p = "B2" -> "B3"
                           [] p = "B4" -> "B5" [] p = "B5" -> "done"
<1> DEFINE Q(q) == \E i \in 1..6 : Phases[i] = p /\ q = (IF p = "B2" THEN "B3" ELSE Phases[i + 1])
           f == CASE p = "B0" -> "B1" [] p = "B1" -> "B2" [] p = "B2" -> "B3"
                  [] p = "B4" -> "B5" [] p = "B5" -> "done"
<1>1. Range(Phases) = {"B0", "B1", "B2", "B3", "B4", "B5", "done"}
  <2>1. DOMAIN Phases = 1..7
    BY DEF Phases
  <2> QED BY <2>1 DEF Range, Phases
<1>2. \A i \in 1..6 : i = 1 \/ i = 2 \/ i = 3 \/ i = 4 \/ i = 5 \/ i = 6
  OBVIOUS
<1>3. /\ Phases[1] = "B0" /\ Phases[2] = "B1" /\ Phases[3] = "B2" /\ Phases[4] = "B3" /\ Phases[5] = "B4"
      /\ Phases[6] = "B5" /\ Phases[7] = "done"
  BY DEF Phases
<1>4. ASSUME NEW q, Q(q) PROVE q = f
  <2>1. PICK i \in 1..6 : Phases[i] = p /\ q = (IF p = "B2" THEN "B3" ELSE Phases[i + 1])
    BY <1>4
  <2> QED BY <2>1, <1>2, <1>3
<1>5. Q(f) /\ f \in Range(Phases)
  BY <1>1, <1>3
<1>6. After(p) = f
  BY <1>4, <1>5 DEF After
<1> QED BY <1>6 DEF PhaseNames

LEMMA EnterTypes ==
    ASSUME TypeOK,
           EnterB0 \/ LoadBc \/ EnterB1 \/ EnterB2 \/ StartRound \/ FinalBc \/ Seed \/ SeedSaved
             \/ SeededBefore \/ LoadRnad \/ EnterSelfplay \/ EnterDone
    PROVE  TypeOK'
<1> USE DEF LoopPlaces
<1>1. state \in States /\ orch \in Loops /\ gpu \in Gpus /\ state.checkpoint \in Learners /\ state.starts \in Nat
      /\ state.checkpoint.pos \in Nat /\ state.round \in Nat /\ gpu.learner.pos \in Nat
  BY DEF TypeOK, States, Gpus, Learners
<1>2. CASE EnterB0
  BY <1>2, <1>1 DEF EnterB0, Entered, Save, Outside, TypeOK, States, Stages, Loops
<1>3. CASE LoadBc
  <2> DEFINE c == IF state.checkpoint.kind = "bc" THEN state.checkpoint ELSE [NoLearner EXCEPT !.kind = "bc"]
  <2>1. c \in Learners /\ c.pos \in Nat /\ [c EXCEPT !.line = state.starts] \in Learners
    <3>1. <<>> \in Seq(Nat)
      OBVIOUS
    <3>2. [NoLearner EXCEPT !.kind = "bc"] \in Learners
      BY <3>1 DEF NoLearner, Learners
    <3>3. c \in Learners
      BY <3>2, <1>1
    <3> HIDE DEF c
    <3> QED BY <3>3, <1>1 DEF Learners
  <2>2. CASE Fatal(state)
    BY <2>2, <1>1, FatalTypes
  <2>3. CASE Loaded(c) /\ state' = [state EXCEPT !.bc = c.pos] /\ UNCHANGED <<saved, orch>>
    <3> HIDE DEF c
    <3>1. state' \in States
      BY <2>1, <2>3, <1>1 DEF States
    <3>2. gpu' \in Gpus
      BY <2>1, <2>3, <1>1, MinusOne DEF Loaded, Gpus
    <3> QED BY <2>3, <3>1, <3>2 DEF Loaded, TypeOK
  <2> QED BY <1>3, <2>2, <2>3 DEF LoadBc
<1>4. CASE EnterB1
  <2> DEFINE s == IF state.stage = "eval" THEN state ELSE [state EXCEPT !.stage = "train"]
  <2>1. s \in States
    BY <1>1 DEF States, Stages
  <2>2. Requeued(s, <<"b1", 0>>) \in States
    BY <2>1, LabelTypes, OfWithEval
  <2> HIDE DEF s
  <2>3. state' \in States /\ saved' = state' /\ orch' = [orch EXCEPT !.at = orch.then] /\ UNCHANGED Outside
    BY <1>4, <2>1, <2>2 DEF EnterB1, Entered, Save, s
  <2> QED BY <2>3, <1>1 DEF TypeOK, Outside, Loops
<1>5. CASE EnterB2
  <2> DEFINE r == IF state.round = 0 THEN 1 ELSE state.round
             s == [state EXCEPT !.round = r,
                                !.stage = IF @ = "eval" /\ state.round > 0 THEN "eval" ELSE "collect"]
  <2>1. s \in States /\ r \in Nat
    <3> DEFINE g == IF state.stage = "eval" /\ state.round > 0 THEN "eval" ELSE "collect"
    <3>1. r \in Nat /\ g \in Stages
      BY <1>1 DEF Stages
    <3>2. s = [state EXCEPT !.round = r, !.stage = g]
      OBVIOUS
    <3> HIDE DEF r, g, s
    <3> QED BY <3>1, <3>2, <1>1 DEF States
  <2>2. Requeued(s, <<"b2", r>>) \in States
    BY <2>1, LabelTypes, OfWithEval
  <2> HIDE DEF s, r
  <2>3. /\ state' \in States /\ saved' \in {saved, state'} /\ UNCHANGED Outside
        /\ orch' \in {[orch EXCEPT !.at = orch.then], [orch EXCEPT !.at = "round"]}
    BY <1>5, <2>1, <2>2 DEF EnterB2, Entered, Goto, Save, s, r
  <2> QED BY <2>3, <1>1 DEF TypeOK, Outside, Loops
<1>6. CASE StartRound
  <2>1. CASE Fatal(state)
    BY <2>1, <1>1, FatalTypes
  <2>2. CASE ~Fatal(state)
    <3>1. /\ Requested(Export(state.round, orch.epoch + 1))
          /\ state' = [state EXCEPT !.start = StartedAt(state),
                          !.began = IF @.round = state.round THEN @
                                    ELSE [round |-> state.round, pos |-> gpu.learner.pos]]
          /\ saved' = state'
          /\ orch' = [orch EXCEPT !.at = orch.then, !.live = FALSE, !.epoch = @ + 1]
          /\ UNCHANGED <<gpu, events, current, played, actors, budget>>
      BY <1>6, <2>2 DEF StartRound, Save
    <3>2. StartedAt(state) \in Nat
      BY <1>1 DEF StartedAt, States
    <3>3. state' \in States
      BY <3>1, <3>2, <1>1 DEF States
    <3>4. orch.epoch + 1 \in Nat /\ orch' \in Loops
      <4>1. orch.epoch + 1 \in Nat /\ orch.then \in LoopPlaces
        BY <1>1 DEF Loops
      <4> QED BY <3>1, <4>1, <1>1 DEF Loops
    <3>5. exporter' \in [busy : Exports, next : Exports]
      BY <3>1, <3>4, <1>1, ExportTypes
    <3> QED BY <3>1, <3>3, <3>4, <3>5 DEF TypeOK
  <2> QED BY <2>1, <2>2
<1>7. CASE FinalBc
  <2>1. CASE Fatal(state)
    BY <2>1, <1>1, FatalTypes
  <2>2. CASE state' = WithCheckpoint(state) /\ Save /\ Goto("final") /\ UNCHANGED Outside
    BY <2>2, <1>1, OfWithCheckpoint DEF Save, Goto, Outside, TypeOK, Loops
  <2> QED BY <1>7, <2>1, <2>2 DEF FinalBc
<1>8. CASE Seed
  <2> DEFINE seeded == [kind |-> "rnad", pos |-> 0, line |-> state.starts, fixed |-> <<>>]
  <2>1. seeded \in Learners
    BY <1>1 DEF Learners
  <2>2. CASE Fatal(state)
    BY <2>2, <1>1, FatalTypes
  <2>3. CASE ~Fatal(state)
    <3>1. /\ gpu' = [gpu EXCEPT !.learner = seeded, !.mode = "idle", !.published = -1]
          /\ orch' = [orch EXCEPT !.at = "seeded", !.live = FALSE, !.epoch = @ + 1]
          /\ state' = [state EXCEPT !.iterations = 0]
          /\ UNCHANGED <<saved, events, exporter, current, played, actors, budget>>
      BY <1>8, <2>3 DEF Seed
    <3> HIDE DEF seeded
    <3>5. state' \in States
      BY <3>1, <1>1 DEF States
    <3>2. gpu' \in Gpus
      BY <3>1, <2>1, <1>1, MinusOne DEF Gpus
    <3>3. orch.epoch + 1 \in Nat
      BY <1>1 DEF Loops
    <3>4. orch' \in Loops
      BY <3>1, <3>3, <1>1 DEF Loops
    <3> QED BY <3>1, <3>5, <3>2, <3>4 DEF TypeOK
  <2> QED BY <2>2, <2>3
<1>9. CASE SeedSaved
  <2>1. CASE Fatal(state)
    BY <2>1, <1>1, FatalTypes
  <2>2. CASE Transition(WithCheckpoint(state), "B4", orch.then) /\ saved' = WithCheckpoint(state)
             /\ UNCHANGED <<Unread, budget>>
    <3>1. WithCheckpoint(state) \in States /\ "B4" \in PhaseNames
      BY <1>1, OfWithCheckpoint DEF PhaseNames
    <3>2. state' \in States
      BY <3>1, <2>2, OfMovedTo DEF Transition
    <3> QED BY <3>1, <3>2, <2>2, <1>1 DEF Transition, Unread, TypeOK, Loops, NoVersion, Versions
  <2> QED BY <1>9, <2>1, <2>2 DEF SeedSaved
<1>10. CASE SeededBefore
  <2>1. state' \in States
    BY <1>10, <1>1, OfMovedTo DEF SeededBefore, Transition, PhaseNames
  <2> QED BY <2>1, <1>10, <1>1 DEF SeededBefore, Transition, Unread, TypeOK, Loops, NoVersion, Versions
<1>11. CASE LoadRnad
  <2>1. CASE Fatal(state)
    BY <2>1, <1>1, FatalTypes
  <2>2. CASE ~Fatal(state)
    <3>1. /\ Loaded(state.checkpoint) /\ state' = RolledBack(state, state.checkpoint.pos)
          /\ orch' = [orch EXCEPT !.live = FALSE, !.epoch = @ + 1] /\ UNCHANGED saved
      BY <1>11, <2>2 DEF LoadRnad
    <3>2. state' \in States
      BY <3>1, <1>1, OfRolledBack
    <3>3. [state.checkpoint EXCEPT !.line = state.starts] \in Learners
      BY <1>1 DEF Learners
    <3>4. gpu' \in Gpus
      BY <3>1, <3>3, <1>1, MinusOne DEF Loaded, Gpus
    <3>5. orch.epoch + 1 \in Nat
      BY <1>1 DEF Loops
    <3>6. orch' \in Loops
      BY <3>1, <3>5, <1>1 DEF Loops
    <3> QED BY <3>1, <3>2, <3>4, <3>6 DEF Loaded, TypeOK
  <2> QED BY <2>1, <2>2
<1>12. CASE EnterSelfplay
  <2>1. [state EXCEPT !.stage = "selfplay"] \in States
    BY <1>1 DEF States, Stages
  <2>2. CASE Fatal([state EXCEPT !.stage = "selfplay"])
    BY <2>1, <2>2, FatalTypes
  <2>3. CASE Entered([state EXCEPT !.stage = "selfplay"]) /\ UNCHANGED Outside
    BY <2>1, <2>3, <1>1 DEF Entered, Save, Outside, TypeOK, Loops
  <2> QED BY <1>12, <2>2, <2>3 DEF EnterSelfplay
<1>13. CASE EnterDone
  <2> DEFINE s == [WithCheckpoint(state) EXCEPT !.final = TRUE]
  <2>1. s \in States
    <3> DEFINE w == WithCheckpoint(state)
    <3>1. w \in States
      BY <1>1, OfWithCheckpoint
    <3> HIDE DEF w
    <3>2. [w EXCEPT !.final = TRUE] \in States
      BY <3>1 DEF States
    <3> QED BY <3>2 DEF w
  <2>2. CASE Fatal(state)
    BY <2>2, <1>1, FatalTypes
  <2>3. CASE ~Fatal(state)
    <3>1. state' \in {s, state} /\ saved' = state' /\ UNCHANGED Outside
          /\ orch' = [orch EXCEPT !.at = orch.then, !.stopping = TRUE]
      BY <1>13, <2>3 DEF EnterDone, Save
    <3> HIDE DEF s
    <3> QED BY <3>1, <2>1, <1>1 DEF TypeOK, Outside, Loops
  <2> QED BY <2>2, <2>3
<1> QED BY <1>2, <1>3, <1>4, <1>5, <1>6, <1>7, <1>8, <1>9, <1>10, <1>11, <1>12, <1>13

LEMMA TickTypes ==
    ASSUME TypeOK,
           ReadEvent \/ EventsRead \/ MovePending \/ (\E p \in Range(Phases) : Move(p)) \/ EndB1 \/ EndRound
             \/ Stay \/ NotTested \/ Sync \/ SyncsNothing \/ LiveTick
    PROVE  TypeOK'
<1> USE DEF LoopPlaces
<1>1. state \in States /\ orch \in Loops /\ gpu \in Gpus /\ state.round \in Nat
  BY DEF TypeOK, States
<1>2. CASE ReadEvent
  <2> DEFINE e == Head(events)
  <2>1. e \in Events /\ Tail(events) \in Seq(Events) /\ e.pos \in Nat /\ e.line \in Nat
    <3>1. events \in Seq(Events) /\ events # <<>>
      BY <1>2 DEF ReadEvent, TypeOK
    <3>2. e \in Events /\ Tail(events) \in Seq(Events)
      BY <3>1, TakenFirst
    <3> QED BY <3>2 DEF Events
  <2>2. events' = Tail(events) /\ UNCHANGED <<orch, gpu, current, played, actors, budget>>
    BY <1>2 DEF ReadEvent
  <2>3. CASE state' = [state EXCEPT !.bc = e.pos] /\ UNCHANGED <<saved, exporter>>
    <3> HIDE DEF e
    <3>1. state' \in States
      BY <2>1, <2>3, <1>1 DEF States
    <3> QED BY <3>1, <2>1, <2>2, <2>3 DEF TypeOK
  <2>4. CASE state' = WithRung(state, e.pos, e.line) /\ Save /\ UNCHANGED exporter
    <3>1. state' \in States
      BY <2>1, <2>4, <1>1, OfWithRung
    <3> QED BY <3>1, <2>1, <2>2, <2>4 DEF TypeOK, Save
  <2>5. CASE Requested(Export(0, orch.epoch)) /\ UNCHANGED <<state, saved>>
    <3>1. orch.epoch \in Nat /\ 0 \in Nat
      BY <1>1 DEF Loops
    <3>2. exporter' \in [busy : Exports, next : Exports]
      BY <3>1, <2>5, ExportTypes
    <3> QED BY <3>2, <2>1, <2>2, <2>5 DEF TypeOK
  <2> QED BY <1>2, <2>3, <2>4, <2>5 DEF ReadEvent
<1>3. CASE EventsRead \/ NotTested \/ SyncsNothing
  BY <1>3, <1>1 DEF EventsRead, NotTested, SyncsNothing, Goto, Outside, TypeOK, Loops
<1>4. CASE Stay
  BY <1>4, <1>1 DEF Stay, ToSync, Outside, TypeOK, Loops
<1>5. ASSUME NEW s \in States, NEW to \in PhaseNames, Transition(s, to, "sync"), UNCHANGED <<saved, Unread, budget>>
      PROVE  TypeOK'
  <2>1. state' \in States
    BY <1>5, OfMovedTo DEF Transition
  <2>2. actors' \in Versions /\ orch' \in Loops
    BY <1>5, <1>1 DEF Transition, TypeOK, Loops, NoVersion, Versions
  <2> QED BY <1>5, <2>1, <2>2 DEF TypeOK, Unread
<1>6. CASE MovePending
  <2>1. state.pending \in PhaseNames
    BY <1>6, <1>1 DEF MovePending, States
  <2> QED BY <2>1, <1>5, <1>6, <1>1 DEF MovePending
<1>7. CASE \E p \in Range(Phases) : Move(p)
  <2>1. PICK p \in Range(Phases) : Move(p)
    BY <1>7
  <2> DEFINE s == IF p \in {"B1", "B2"} THEN WithoutEval(state, StagesLabel) ELSE state
  <2>2. s \in States
    BY <1>1, OfWithoutEval
  <2>3. p \in {"B0", "B1", "B2", "B4", "B5"}
    BY <2>1 DEF Move, Exit
  <2>4. After(p) \in PhaseNames
    BY <2>3, AfterType
  <2>5. Transition(s, After(p), "sync") /\ UNCHANGED <<saved, Unread, budget>>
    BY <2>1 DEF Move
  <2> QED BY <2>2, <2>4, <2>5, <1>5
<1>8. ASSUME NEW label \in Labels, EndStage(label) PROVE TypeOK'
  <2>1. CASE Fatal(state)
    BY <2>1, <1>1, FatalTypes
  <2>2. CASE ~Fatal(state)
    <3> DEFINE w == WithCheckpoint(state)
               s == [w EXCEPT !.stage = "eval"]
    <3>1. w \in States
      BY <1>1, OfWithCheckpoint
    <3>2. s \in States
      <4> HIDE DEF w
      <4> QED BY <3>1 DEF States, Stages
    <3>3. /\ state' = WithEval(s, label) /\ saved' = state' /\ actors' = NoVersion
          /\ orch' = [orch EXCEPT !.at = "sync", !.force = FALSE] /\ UNCHANGED <<Unread, budget>>
      BY <1>8, <2>2 DEF EndStage, Save, ToSync
    <3>4. state' \in States
      BY <3>2, <3>3, <1>8, OfWithEval
    <3> QED BY <3>3, <3>4, <1>1 DEF TypeOK, Unread, Loops, NoVersion, Versions
  <2> QED BY <2>1, <2>2
<1>9. CASE EndB1 \/ EndRound
  BY <1>9, <1>8, <1>1, LabelTypes DEF EndB1, EndRound
<1>10. CASE Sync
  <2>1. actors' \in Versions
    BY <1>10, <1>1 DEF Sync, TypeOK, Wanted, Version, NoVersion, Versions
  <2>2. WantedMode \in {"idle", "bc", "rnad"} /\ state.paused \in BOOLEAN
    BY <1>1 DEF WantedMode, States
  <2>3. gpu' \in Gpus
    <3>1. Synced \in Gpus
      BY <2>2, <1>1 DEF Synced, Gpus
    <3> QED BY <3>1, <1>10, <1>1 DEF Sync
  <2>4. orch' \in Loops
    BY <1>10, <1>1 DEF Sync, Goto, Loops
  <2> QED BY <1>10, <2>1, <2>3, <2>4 DEF Sync, TypeOK
<1>11. CASE LiveTick
  <2>1. CASE Fatal(state)
    BY <2>1, <1>1, FatalTypes
  <2>2. CASE Goto("eval") /\ UNCHANGED <<state, saved, Outside>>
    BY <2>2, <1>1 DEF Goto, Outside, TypeOK, Loops
  <2>3. CASE /\ exporter' = [busy |-> exporter.next, next |-> NoExport]
             /\ orch' = [orch EXCEPT !.at = "eval", !.live = @ \/ OfThisEpoch(exporter.busy)]
             /\ UNCHANGED <<state, saved, gpu, events, current, played, actors, budget>>
    <3>1. exporter' \in [busy : Exports, next : Exports]
      BY <2>3 DEF TypeOK, NoExport, Exports
    <3>2. orch' \in Loops
      BY <2>3, <1>1 DEF Loops, OfThisEpoch
    <3> QED BY <2>3, <3>1, <3>2 DEF TypeOK
  <2> QED BY <1>11, <2>1, <2>2, <2>3 DEF LiveTick
<1> QED BY <1>2, <1>3, <1>4, <1>6, <1>7, <1>9, <1>10, <1>11

LEMMA EvalTypes ==
    ASSUME TypeOK, Recorded,
           EvalPaused \/ EvalGoesOn \/ EvalDone \/ StageEvaluated \/ AnotherRound \/ EvalStarts \/ EvalFails
             \/ TickEnds \/ Shutdown \/ Closed
    PROVE  TypeOK'
<1> USE DEF LoopPlaces
<1>1. /\ state \in States /\ orch \in Loops /\ gpu \in Gpus /\ budget \in [faults : Nat, commands : Nat]
      /\ Ended(state) \in States /\ RunningFirst(state) \in States /\ WithCheckpoint(state) \in States
  BY OfEnded, OfRunningFirst, OfWithCheckpoint DEF TypeOK
<1>2. CASE EvalPaused
  BY <1>2, <1>1 DEF EvalPaused, Goto, Outside, TypeOK, Loops
<1>3. CASE EvalGoesOn
  BY <1>3, <1>1 DEF EvalGoesOn, Goto, Outside, TypeOK, Loops
<1>4. CASE EvalDone
  BY <1>4, <1>1 DEF EvalDone, Goto, Save, Outside, TypeOK, Loops
<1>5. CASE EvalFails
  <2>1. budget' \in [faults : Nat, commands : Nat]
    BY <1>5, <1>1 DEF EvalFails
  <2>2. orch' \in Loops
    BY <1>5, <1>1 DEF EvalFails, Goto, Loops
  <2> QED BY <1>5, <1>1, <2>1, <2>2 DEF EvalFails, Save, TypeOK
<1>6. CASE StageEvaluated
  <2>1. state.phase \in {"B1", "B2"}
    BY <1>6 DEF StageEvaluated, StagesEval, Recorded, Record
  <2>2. After(state.phase) \in PhaseNames
    BY <2>1, AfterType
  <2>3. [Ended(state) EXCEPT !.pending = After(state.phase)] \in States
    <3> DEFINE w == Ended(state)
    <3> HIDE DEF w
    <3>1. w \in States => [w EXCEPT !.pending = After(state.phase)] \in States
      BY <2>2 DEF States
    <3> QED BY <3>1, <1>1 DEF w
  <2>4. state' \in States
    BY <1>6, <1>1, <2>2, <2>3, OfMovedTo DEF StageEvaluated, Transition
  <2>5. orch' \in Loops
    <3>1. \/ orch' = [orch EXCEPT !.at = "end"]
          \/ orch' = [orch EXCEPT !.at = "enter", !.then = "end", !.resume = FALSE, !.force = FALSE]
      BY <1>6 DEF StageEvaluated, Transition, Goto
    <3> QED BY <3>1, <1>1 DEF Loops, LoopPlaces
  <2>6. actors' \in Versions /\ saved' \in States
    BY <1>6, <2>4 DEF StageEvaluated, Transition, Save, TypeOK, NoVersion, Versions
  <2> QED BY <1>6, <2>4, <2>5, <2>6 DEF StageEvaluated, TypeOK, Unread
<1>7. CASE AnotherRound
  <2>1. state' = [Ended(state) EXCEPT !.round = @ + 1, !.stage = "collect"]
    BY <1>7 DEF AnotherRound
  <2>2. state' \in States
    <3> DEFINE w == Ended(state)
    <3> HIDE DEF w
    <3>1. w \in States => [w EXCEPT !.round = @ + 1, !.stage = "collect"] \in States
      <4> SUFFICES ASSUME w \in States PROVE [w EXCEPT !.round = w.round + 1, !.stage = "collect"] \in States
        OBVIOUS
      <4>1. w.round + 1 \in Nat
        BY DEF States
      <4> QED BY <4>1 DEF States, Stages
    <3> QED BY <3>1, <2>1, <1>1 DEF w
  <2>3. orch' \in Loops
    BY <1>7, <1>1 DEF AnotherRound, Loops
  <2> QED BY <1>7, <2>2, <2>3 DEF AnotherRound, Outside, TypeOK
<1>8. CASE EvalStarts
  <2> DEFINE popped == [state EXCEPT !.queue = Tail(@)]
  <2>1. Head(state.queue) \in Labels /\ Tail(state.queue) \in Seq(Labels)
    <3>1. state.queue \in Seq(Labels) /\ state.queue # <<>>
      BY <1>8, <1>1 DEF EvalStarts, States
    <3> QED BY <3>1, TakenFirst
  <2>2. popped \in States /\ [popped EXCEPT !.running = Head(state.queue)] \in States
    BY <2>1, <1>1 DEF States
  <2>3. CASE Fatal(popped)
    BY <2>2, <2>3, FatalTypes
  <2>4. CASE state' = [popped EXCEPT !.running = Head(state.queue)] /\ Goto("end") /\ UNCHANGED <<saved, Outside>>
    BY <2>2, <2>4, <1>1 DEF Goto, Outside, TypeOK, Loops
  <2> QED BY <1>8, <2>3, <2>4 DEF EvalStarts
<1>9. CASE TickEnds
  BY <1>9, <1>1 DEF TickEnds, Goto, LoopsOn, Save, Outside, TypeOK, Loops
<1>10. CASE Shutdown
  <2>1. exporter' \in [busy : Exports, next : Exports] /\ current' \in Exports
    BY <1>10 DEF Shutdown, TypeOK, NoExport, Exports
  <2>2. orch' \in Loops /\ actors' \in Versions
    BY <1>10, <1>1 DEF Shutdown, Goto, Loops, NoVersion, Versions
  <2> QED BY <1>10, <1>1, <2>1, <2>2 DEF Shutdown, TypeOK
<1>11. CASE Closed
  <2>1. AllDown /\ orch' = Down(0) /\ saved' = state' /\ state' \in {state, WithCheckpoint(state)}
    BY <1>11 DEF Closed, Save
  <2>2. budget' \in [faults : Nat, commands : Nat]
    BY <1>11, <1>1 DEF Closed
  <2>3. orch' \in Loops
    BY <2>1 DEF Down, Loops
  <2> QED BY <2>1, <2>2, <2>3, <1>1, DownTypes DEF TypeOK
<1> QED BY <1>2, <1>3, <1>4, <1>5, <1>6, <1>7, <1>8, <1>9, <1>10, <1>11

LEMMA OtherTypes ==
    ASSUME TypeOK,
           Restart \/ Start \/ Command \/ Kill \/ GpuDies \/ SyncFails \/ CheckpointFails
             \/ BcStep \/ Publish \/ Iteration \/ Exported \/ Play \/ Over \/ UNCHANGED vars
    PROVE  TypeOK'
<1> USE DEF LoopPlaces
<1>1. /\ state \in States /\ saved \in States /\ orch \in Loops /\ gpu \in Gpus /\ events \in Seq(Events)
      /\ budget \in [faults : Nat, commands : Nat] /\ gpu.learner \in Learners /\ gpu.learner.pos \in Nat
      /\ gpu.learner.line \in Nat /\ gpu.learner.fixed \in Seq(Nat)
  BY DEF TypeOK, Gpus, Learners
<1>2. ASSUME NEW s \in States, Begin(s), budget' \in [faults : Nat, commands : Nat] PROVE TypeOK'
  <2>1. [s EXCEPT !.starts = @ + 1] \in States
    <3> SUFFICES [s EXCEPT !.starts = s.starts + 1] \in States
      OBVIOUS
    <3>1. s.starts + 1 \in Nat
      BY DEF States
    <3> QED BY <3>1 DEF States
  <2>2. state' \in States
    BY <1>2, <2>1, OfRunningFirst DEF Begin
  <2>3. orch' \in Loops
    BY <1>2 DEF Begin, Down, Loops
  <2> QED BY <1>2, <2>2, <2>3 DEF Begin, Save, TypeOK
<1>3. CASE Restart
  BY <1>3, <1>1, <1>2 DEF Restart
<1>4. CASE Start
  <2>1. Cleared(saved) \in States
    <3>1. <<>> \in Seq(MarkValues)
      OBVIOUS
    <3> QED BY <3>1, <1>1 DEF Cleared, States
  <2>2. budget' \in [faults : Nat, commands : Nat]
    <3>1. saved.starts # 0 => budget.commands - 1 \in Nat
      <4>1. saved.starts = 0 \/ budget.commands > 0
        BY <1>4 DEF Start
      <4>2. budget.commands \in Nat
        BY <1>1
      <4> QED BY <4>1, <4>2
    <3>2. saved.starts = 0 \/ saved.starts # 0
      OBVIOUS
    <3>3. saved.starts = 0 => budget' = [budget EXCEPT !.commands = budget.commands]
      BY <1>4 DEF Start
    <3>4. saved.starts # 0 => budget' = [budget EXCEPT !.commands = budget.commands - 1]
      BY <1>4 DEF Start
    <3> QED BY <3>1, <3>2, <3>3, <3>4, <1>1
  <2> QED BY <2>1, <2>2, <1>4, <1>2 DEF Start
<1>5. CASE Command
  <2>1. budget' \in [faults : Nat, commands : Nat]
    BY <1>5, <1>1 DEF Command
  <2>2. state' \in States
    <3> DEFINE h == ~state.hold
               p == ~state.paused
    <3>1. state' = [state EXCEPT !.hold = h] \/ state' = [state EXCEPT !.paused = p] \/ state' = state
      BY <1>5 DEF Command
    <3>2. h \in BOOLEAN /\ p \in BOOLEAN
      OBVIOUS
    <3> HIDE DEF h, p
    <3>3. [state EXCEPT !.hold = h] \in States
      BY <3>2, <1>1 DEF States
    <3>4. [state EXCEPT !.paused = p] \in States
      BY <3>2, <1>1 DEF States
    <3> QED BY <3>1, <3>3, <3>4, <1>1
  <2>3. orch' \in Loops
    BY <1>5, <1>1 DEF Command, Loops
  <2> QED BY <1>5, <2>1, <2>2, <2>3 DEF Command, Save, TypeOK
<1>6. CASE Kill
  <2>1. budget' \in [faults : Nat, commands : Nat]
    BY <1>6, <1>1 DEF Kill
  <2>2. orch' \in Loops
    BY <1>6 DEF Kill, Down, Loops
  <2> QED BY <1>6, <2>1, <2>2, <1>1, DownTypes DEF Kill, TypeOK
<1>7. CASE GpuDies \/ SyncFails \/ CheckpointFails
  BY <1>7, <1>1, FatalTypes DEF GpuDies, SyncFails, CheckpointFails
<1>8. CASE BcStep
  <2>1. gpu.learner.pos + 1 \in Nat
    BY <1>1
  <2>2. gpu' \in Gpus
    <3>1. gpu' = [gpu EXCEPT !.learner = [gpu.learner EXCEPT !.pos = gpu.learner.pos + 1]]
      BY <1>8 DEF BcStep
    <3>2. [gpu.learner EXCEPT !.pos = gpu.learner.pos + 1] \in Learners
      BY <2>1, <1>1 DEF Learners
    <3> QED BY <3>1, <3>2, <1>1 DEF Gpus
  <2>3. events' \in Seq(Events)
    <3>1. [event |-> "bc", pos |-> gpu.learner.pos + 1, line |-> gpu.learner.line] \in Events
      BY <2>1, <1>1 DEF Events
    <3> QED BY <3>1, <1>8 DEF BcStep
  <2> QED BY <1>8, <2>2, <2>3 DEF BcStep, Running, TypeOK
<1>9. CASE Publish
  <2>1. gpu' \in Gpus
    <3>1. gpu' = [gpu EXCEPT !.published = gpu.learner.pos] /\ gpu.learner.pos \in Int
      BY <1>9, <1>1 DEF Publish
    <3> QED BY <3>1, <1>1 DEF Gpus
  <2>2. events' \in Seq(Events)
    <3>1. [event |-> "saved", pos |-> gpu.learner.pos, line |-> gpu.learner.line] \in Events
      BY <1>1 DEF Events
    <3> QED BY <3>1, <1>9, <1>1, AppendProperties DEF Publish, Emit
  <2> QED BY <1>9, <2>1, <2>2 DEF Publish, Running, TypeOK
<1>10. CASE Iteration
  <2>1. gpu.learner.pos + 1 \in Nat /\ Append(gpu.learner.fixed, gpu.learner.line) \in Seq(Nat)
    BY <1>1, AppendProperties
  <2>2. gpu' \in Gpus
    <3> DEFINE l == [gpu.learner EXCEPT !.pos = gpu.learner.pos + 1,
                                        !.fixed = Append(gpu.learner.fixed, gpu.learner.line)]
    <3>1. gpu' = [gpu EXCEPT !.learner = l, !.games = FALSE]
      BY <1>10, <1>1 DEF Iteration, Gpus, Learners
    <3>2. l \in Learners
      BY <2>1, <1>1 DEF Learners
    <3> QED BY <3>1, <3>2, <1>1 DEF Gpus
  <2>3. events' \in Seq(Events)
    <3>1. [event |-> "iteration", pos |-> gpu.learner.pos + 1, line |-> gpu.learner.line] \in Events
      BY <2>1, <1>1 DEF Events
    <3> QED BY <3>1, <1>10, <1>1, AppendProperties DEF Iteration, Emit
  <2> QED BY <1>10, <2>2, <2>3 DEF Iteration, Running, TypeOK
<1>11. CASE Exported
  <2>1. exporter' \in [busy : Exports, next : Exports] /\ exporter'.busy \in Exports
    BY <1>11 DEF Exported, TypeOK, Exports
  <2> QED BY <1>11, <2>1 DEF Exported, Running, TypeOK
<1>12. CASE Play
  <2>1. gpu' \in Gpus
    BY <1>12, <1>1 DEF Play, Gpus
  <2>2. played' \in SUBSET Versions
    BY <1>12 DEF Play, TypeOK
  <2> QED BY <1>12, <2>1, <2>2 DEF Play, Running, TypeOK
<1>13. CASE Over \/ UNCHANGED vars
  BY <1>13 DEF Over, vars, TypeOK
<1> QED BY <1>3, <1>4, <1>5, <1>6, <1>7, <1>8, <1>9, <1>10, <1>11, <1>12, <1>13

LEMMA TypesKept == TypeOK /\ Recorded /\ [Next]_vars => TypeOK'
BY EnterTypes, TickTypes, EvalTypes, OtherTypes DEF Next, Orchestrator, Faults, Operator

LEMMA TypesAtFirst == Init => TypeOK
<1>1. ASSUME Init PROVE state \in States /\ saved \in States
  <2>1. <<>> \in Seq(Nat) /\ <<>> \in Seq(Labels) /\ <<>> \in Seq(MarkValues)
    OBVIOUS
  <2>2. NoLearner \in Learners
    BY <2>1 DEF NoLearner, Learners
  <2>3. NewState \in States
    BY <2>1, <2>2, LabelTypes DEF NewState, States, PhaseNames, Stages, NoPhase
  <2> QED BY <1>1, <2>3 DEF Init
<1>2. ASSUME Init PROVE gpu \in Gpus /\ events \in Seq(Events)
  <2>1. <<>> \in Seq(Nat)
    OBVIOUS
  <2>2. NoLearner \in Learners
    BY <2>1 DEF NoLearner, Learners
  <2> QED BY <1>2, <2>2, MinusOne DEF Init, NoGpu, Gpus
<1>3. ASSUME Init
      PROVE  /\ orch \in Loops /\ exporter \in [busy : Exports, next : Exports] /\ current \in Exports
             /\ played \in SUBSET Versions /\ actors \in Versions /\ budget \in [faults : Nat, commands : Nat]
  BY <1>3, BoundsAssumption DEF Init, Down, Loops, LoopPlaces, NoExport, Exports, NoVersion, Versions
<1> QED BY <1>1, <1>2, <1>3 DEF TypeOK

-----------------------------------------------------------------------------
(* Where the loop is.                                                       *)

LEMMA FlowKept ==
    ASSUME TypeOK, Flow, [Next]_vars
    PROVE  Flow'
<1> DEFINE Jumps == {"enter", "round", "final", "seeded"}
<1>1. orch \in Loops
  BY DEF TypeOK
<1>2. ASSUME NEW x, orch' = Down(x) PROVE Flow'
  BY <1>2 DEF Flow, At, Down
<1>3. ASSUME NEW s, Fatal(s) PROVE Flow'
  BY <1>2, <1>3 DEF Fatal
<1>4. ASSUME ~At("down"), orch'.exit = orch.exit, orch'.at \in Jumps => orch'.then # "down" PROVE Flow'
  BY <1>4 DEF Flow, At
<1>5. ASSUME NEW p, ~At("down"), Goto(p), p \in Jumps => orch.then # "down" PROVE Flow'
  <2>1. orch'.exit = orch.exit /\ orch'.at = p /\ orch'.then = orch.then
    BY <1>5, <1>1 DEF Goto, Loops
  <2> QED BY <1>4, <1>5, <2>1
<1>6. ASSUME ~At("down"), orch'.at = orch.then, orch'.exit = orch.exit PROVE Flow'
  <2>1. orch.then \notin Jumps
    BY <1>1 DEF Loops
  <2> QED BY <1>4, <1>6, <2>1
<1>7. ASSUME NEW s, NEW to, NEW then, Transition(s, to, then), then # "down", ~At("down") PROVE Flow'
  <2>1. orch'.exit = orch.exit /\ orch'.at = "enter" /\ orch'.then = then
    BY <1>7, <1>1 DEF Transition, Loops
  <2> QED BY <1>4, <1>7, <2>1
<1>8. CASE UNCHANGED orch
  BY <1>8 DEF Flow, At
<1>9. CASE EnterB0 \/ EnterB1 \/ EnterB2 \/ EnterSelfplay \/ EnterDone
  <2>1. At("enter") /\ ~At("down") /\ orch.then # "down"
    BY <1>9 DEF EnterB0, EnterB1, EnterB2, EnterSelfplay, EnterDone, Entering, At, Flow
  <2>2. CASE \E s : Fatal(s)
    BY <2>2, <1>3
  <2>3. CASE Goto("round")
    BY <2>1, <2>3, <1>5
  <2>4. CASE orch' = [orch EXCEPT !.at = orch.then] \/ orch' = [orch EXCEPT !.at = orch.then, !.stopping = TRUE]
    BY <2>1, <2>4, <1>1, <1>6 DEF Loops
  <2> QED BY <1>9, <2>2, <2>3, <2>4 DEF EnterB0, EnterB1, EnterB2, EnterSelfplay, EnterDone, Entered
<1>10. CASE LoadBc \/ LoadRnad
  <2>1. At("enter") /\ ~At("down") /\ orch.then # "down"
    BY <1>10 DEF LoadBc, LoadRnad, Entering, At, Flow
  <2>2. CASE Fatal(state)
    BY <2>2, <1>3
  <2>3. CASE orch' = [orch EXCEPT !.live = FALSE, !.epoch = @ + 1]
    BY <2>1, <2>3, <1>1, <1>4 DEF Loops
  <2> QED BY <1>10, <1>8, <2>2, <2>3 DEF LoadBc, LoadRnad
<1>11. CASE StartRound
  <2>1. At("round") /\ ~At("down") /\ orch.then # "down"
    BY <1>11 DEF StartRound, At, Flow
  <2>2. CASE Fatal(state)
    BY <2>2, <1>3
  <2>3. CASE orch' = [orch EXCEPT !.at = orch.then, !.live = FALSE, !.epoch = @ + 1]
    BY <2>1, <2>3, <1>1, <1>6 DEF Loops
  <2> QED BY <1>11, <2>2, <2>3 DEF StartRound
<1>12. CASE FinalBc \/ Seed \/ SeedSaved \/ SeededBefore
  <2>1. (At("enter") \/ At("final") \/ At("seeded")) /\ ~At("down") /\ orch.then # "down"
    BY <1>12 DEF FinalBc, Seed, SeedSaved, SeededBefore, Entering, At, Flow
  <2>2. CASE Fatal(state)
    BY <2>2, <1>3
  <2>3. CASE Goto("final")
    BY <2>1, <2>3, <1>5
  <2>4. CASE orch' = [orch EXCEPT !.at = "seeded", !.live = FALSE, !.epoch = @ + 1]
    BY <2>1, <2>4, <1>1, <1>4 DEF Loops
  <2>5. CASE \E s : Transition(s, "B4", orch.then)
    BY <2>1, <2>5, <1>7
  <2> QED BY <1>12, <2>2, <2>3, <2>4, <2>5 DEF FinalBc, Seed, SeedSaved, SeededBefore
<1>13. CASE EventsRead \/ NotTested \/ SyncsNothing \/ EvalPaused \/ EvalGoesOn \/ EvalFails \/ EvalDone
            \/ TickEnds \/ Shutdown \/ Sync
  <2>1. PICK p \in {"phase", "sync", "live", "end", "events", "stopping", "closing"} : Goto(p) /\ ~At("down")
    BY <1>13 DEF EventsRead, NotTested, SyncsNothing, EvalPaused, EvalGoesOn, EvalFails, EvalDone, TickEnds,
                 LoopsOn, Shutdown, Sync, At
  <2> QED BY <2>1, <1>5
<1>14. CASE ReadEvent \/ BcStep \/ Publish \/ Iteration \/ Exported \/ Play \/ Over \/ UNCHANGED vars
  BY <1>14, <1>8 DEF ReadEvent, BcStep, Publish, Iteration, Exported, Play, Running, Over, vars
<1>15. CASE Command
  <2>1. ~At("down") /\ orch' \in {orch, [orch EXCEPT !.force = TRUE], [orch EXCEPT !.stopping = TRUE]}
        /\ orch.at = "phase"
    BY <1>15 DEF Command, At
  <2> QED BY <2>1, <1>1, <1>4 DEF Loops
<1>16. CASE MovePending \/ (\E p \in Range(Phases) : Move(p)) \/ StageEvaluated
  <2>1. ~At("down")
    BY <1>16 DEF MovePending, Move, Testing, StageEvaluated, At
  <2>2. CASE Goto("end")
    BY <2>1, <2>2, <1>5
  <2>3. CASE \E s, to, then : Transition(s, to, then) /\ then # "down"
    BY <2>1, <2>3, <1>7
  <2>4. Goto("end") \/ \E s, to, then : Transition(s, to, then) /\ then # "down"
    <3>1. CASE MovePending
      BY <3>1 DEF MovePending
    <3>2. CASE \E p \in Range(Phases) : Move(p)
      BY <3>2 DEF Move
    <3>3. CASE StageEvaluated
      BY <3>3 DEF StageEvaluated
    <3> QED BY <1>16, <3>1, <3>2, <3>3
  <2> QED BY <2>2, <2>3, <2>4
<1>17. CASE EndB1 \/ EndRound \/ Stay
  <2>1. ~At("down")
    BY <1>17 DEF EndB1, EndRound, Stay, Testing, At
  <2>2. CASE Fatal(state)
    BY <2>2, <1>3
  <2>3. CASE ToSync
    BY <2>1, <2>3, <1>1, <1>4 DEF ToSync, Loops
  <2> QED BY <1>17, <2>2, <2>3 DEF EndB1, EndRound, EndStage, Stay
<1>18. CASE LiveTick \/ EvalStarts
  <2>1. ~At("down")
    BY <1>18 DEF LiveTick, EvalStarts, At
  <2>2. CASE \E s : Fatal(s)
    BY <2>2, <1>3
  <2>3. CASE Goto("eval") \/ Goto("end")
    BY <2>1, <2>3, <1>5
  <2>4. CASE orch' = [orch EXCEPT !.at = "eval", !.live = @ \/ OfThisEpoch(exporter.busy)]
    BY <2>1, <2>4, <1>1, <1>4 DEF Loops
  <2> QED BY <1>18, <2>2, <2>3, <2>4 DEF LiveTick, EvalStarts
<1>19. CASE AnotherRound
  BY <1>19, <1>1, <1>4 DEF AnotherRound, Loops, At
<1>20. CASE Restart \/ Start
  <2>1. orch' = [Down(0) EXCEPT !.at = "enter", !.then = "events", !.resume = TRUE]
    BY <1>20 DEF Restart, Start, Begin
  <2> QED BY <2>1 DEF Down, Flow, At
<1>21. CASE Kill \/ Closed
  BY <1>21, <1>2 DEF Kill, Closed
<1>22. CASE GpuDies \/ SyncFails \/ CheckpointFails
  BY <1>22, <1>3 DEF GpuDies, SyncFails, CheckpointFails
<1> QED
  BY <1>9, <1>10, <1>11, <1>12, <1>13, <1>14, <1>15, <1>16, <1>17, <1>18, <1>19, <1>20, <1>21, <1>22
     DEF Next, Orchestrator, Faults, Operator

-----------------------------------------------------------------------------
(* Evaluations: queued once, none of a rung lost.                           *)

LEMMA SameEvaluations ==
    ASSUME NEW s, NEW t, Evals(t) = Evals(s), Evaluations(s)
    PROVE  Evaluations(t)
<1>1. t.queue = s.queue /\ t.running = s.running /\ t.ladder = s.ladder /\ t.evaluated = s.evaluated
  BY DEF Evals
<1> QED BY <1>1 DEF Evaluations, Queued

LEMMA EvaluationsRunningFirst ==
    ASSUME NEW s \in States, Evaluations(s)
    PROVE  Evaluations(RunningFirst(s))
<1> DEFINE t == RunningFirst(s)
<1>1. CASE s.running = NoLabel
  BY <1>1 DEF RunningFirst
<1>2. CASE s.running # NoLabel
  <2>1. s.queue \in Seq(Labels) /\ s.running \in Labels
    BY DEF States
  <2>2. t.queue = <<s.running>> \o s.queue /\ t.running = NoLabel /\ t.ladder = s.ladder /\ t.evaluated = s.evaluated
    BY <1>2 DEF RunningFirst, States
  <2>3. Range(t.queue) = Range(s.queue) \cup {s.running} /\ IsInjective(t.queue)
    BY <2>1, <2>2, Prepended DEF Evaluations
  <2> HIDE DEF t
  <2>4. ASSUME NEW r \in t.ladder PROVE Queued(t, <<"it", r[1]>>) \/ <<"it", r[1]>> \in t.evaluated
    <3>1. Queued(s, <<"it", r[1]>>) \/ <<"it", r[1]>> \in s.evaluated
      BY <2>2 DEF Evaluations
    <3> QED BY <3>1, <2>2, <2>3 DEF Queued
  <2>5. t.running \notin Range(t.queue) /\ NoLabel \notin Range(t.queue)
    BY <1>2, <2>2, <2>3 DEF Evaluations
  <2>6. Evaluations(t)
    BY <2>3, <2>4, <2>5 DEF Evaluations
  <2> QED BY <2>6 DEF t
<1> QED BY <1>1, <1>2

LEMMA EvaluationsWithEval ==
    ASSUME NEW s \in States, Evaluations(s), NEW label \in Labels \ {NoLabel}
    PROVE  Evaluations(WithEval(s, label)) /\ Queued(WithEval(s, label), label)
<1> DEFINE t == WithEval(s, label)
<1>1. CASE Queued(s, label)
  BY <1>1 DEF WithEval
<1>2. CASE ~Queued(s, label)
  <2>1. s.queue \in Seq(Labels)
    BY DEF States
  <2>2. t.queue = Append(s.queue, label) /\ t.running = s.running /\ t.ladder = s.ladder /\ t.evaluated = s.evaluated
    BY <1>2 DEF WithEval, States
  <2>3. Range(t.queue) = Range(s.queue) \cup {label} /\ IsInjective(t.queue)
    BY <1>2, <2>1, <2>2, Appended DEF Evaluations, Queued
  <2> HIDE DEF t
  <2>4. ASSUME NEW r \in t.ladder PROVE Queued(t, <<"it", r[1]>>) \/ <<"it", r[1]>> \in t.evaluated
    <3>1. Queued(s, <<"it", r[1]>>) \/ <<"it", r[1]>> \in s.evaluated
      BY <2>2 DEF Evaluations
    <3> QED BY <3>1, <2>2, <2>3 DEF Queued
  <2>5. t.running \notin Range(t.queue) /\ NoLabel \notin Range(t.queue)
    BY <1>2, <2>2, <2>3 DEF Evaluations, Queued
  <2>6. Queued(t, label)
    BY <2>3 DEF Queued
  <2>7. Evaluations(t)
    BY <2>3, <2>4, <2>5 DEF Evaluations
  <2> QED BY <2>6, <2>7 DEF t
<1> QED BY <1>1, <1>2

LEMMA EvaluationsRolledBack ==
    ASSUME NEW s \in States, Evaluations(s), NEW k \in Nat
    PROVE  Evaluations(RolledBack(s, k))
<1> DEFINE t == RolledBack(s, k)
           kept == Standing(Range(s.queue), k)
<1>1. s.queue \in Seq(Labels)
  BY DEF States
<1>2. /\ t.queue = Kept(s.queue, kept) /\ t.running = s.running /\ t.evaluated = Standing(s.evaluated, k)
      /\ t.ladder = {r \in s.ladder : r[1] <= k}
  BY DEF RolledBack, States
<1>3. Range(t.queue) = kept /\ IsInjective(t.queue)
  BY <1>1, <1>2, KeptProperties DEF Evaluations, Standing
<1> HIDE DEF t
<1>4. ASSUME NEW r \in t.ladder PROVE Queued(t, <<"it", r[1]>>) \/ <<"it", r[1]>> \in t.evaluated
  <2> DEFINE l == <<"it", r[1]>>
  <2>1. r \in s.ladder /\ r[1] <= k
    BY <1>2
  <2>2. s.running = l \/ l \in Range(s.queue) \/ l \in s.evaluated
    BY <2>1 DEF Evaluations, Queued
  <2>3. l[2] <= k
    BY <2>1
  <2> HIDE DEF l
  <2>4. (l \in Range(s.queue) => l \in kept) /\ (l \in s.evaluated => l \in t.evaluated)
    BY <1>2, <2>3 DEF Standing
  <2> QED BY <2>2, <2>4, <1>2, <1>3 DEF Queued, l
<1>5. kept \subseteq Range(s.queue)
  BY DEF Standing
<1>6. t.running \notin Range(t.queue) /\ NoLabel \notin Range(t.queue)
  BY <1>2, <1>3, <1>5 DEF Evaluations
<1>7. Evaluations(t)
  BY <1>3, <1>4, <1>6 DEF Evaluations
<1> QED BY <1>7 DEF t

LEMMA EvaluationsWithRung ==
    ASSUME NEW s \in States, Evaluations(s), NEW k \in Nat, NEW line \in Nat
    PROVE  Evaluations(WithRung(s, k, line))
<1> DEFINE t == WithRung(s, k, line)
           w == WithEval(s, <<"it", k>>)
<1>1. <<"it", k>> \in Labels \ {NoLabel}
  BY LabelTypes DEF NoLabel
<1>2. Evaluations(w) /\ Queued(w, <<"it", k>>) /\ w.running = s.running /\ w.ladder = s.ladder /\ w.evaluated = s.evaluated
  BY <1>1, EvaluationsWithEval DEF WithEval, States
<1>3. /\ t.queue = w.queue /\ t.running = s.running /\ t.evaluated = s.evaluated
      /\ t.ladder = {r \in s.ladder : r[1] # k} \cup {<<k, line>>}
  BY DEF WithRung, States
<1> HIDE DEF t, w
<1>4. ASSUME NEW r \in t.ladder PROVE Queued(t, <<"it", r[1]>>) \/ <<"it", r[1]>> \in t.evaluated
  <2>1. CASE r \in s.ladder
    <3>1. Queued(w, <<"it", r[1]>>) \/ <<"it", r[1]>> \in w.evaluated
      BY <2>1, <1>2 DEF Evaluations
    <3> QED BY <3>1, <1>2, <1>3 DEF Queued
  <2>2. CASE r = <<k, line>>
    <3>1. r[1] = k
      BY <2>2
    <3> QED BY <3>1, <1>2, <1>3 DEF Queued
  <2> QED BY <1>3, <2>1, <2>2
<1>5. IsInjective(t.queue) /\ t.running \notin Range(t.queue) /\ NoLabel \notin Range(t.queue)
  BY <1>2, <1>3 DEF Evaluations
<1>6. Evaluations(t)
  BY <1>4, <1>5 DEF Evaluations
<1> QED BY <1>6 DEF t

LEMMA EvaluationsWithoutEval ==
    ASSUME NEW s \in States, Evaluations(s), NEW label, label[1] # "it"
    PROVE  Evaluations(WithoutEval(s, label))
<1> DEFINE t == WithoutEval(s, label)
<1>1. s.queue \in Seq(Labels)
  BY DEF States
<1>2. /\ t.queue = Kept(s.queue, Range(s.queue) \ {label}) /\ t.evaluated = s.evaluated /\ t.ladder = s.ladder
      /\ t.running = IF s.running = label THEN NoLabel ELSE s.running
  BY DEF WithoutEval, States
<1>3. Range(t.queue) = Range(s.queue) \ {label} /\ IsInjective(t.queue)
  BY <1>1, <1>2, KeptProperties DEF Evaluations
<1> HIDE DEF t
<1>4. ASSUME NEW r \in t.ladder PROVE Queued(t, <<"it", r[1]>>) \/ <<"it", r[1]>> \in t.evaluated
  <2> DEFINE l == <<"it", r[1]>>
  <2>1. s.running = l \/ l \in Range(s.queue) \/ l \in s.evaluated
    BY <1>2 DEF Evaluations, Queued
  <2>2. l # label
    OBVIOUS
  <2> HIDE DEF l
  <2> QED BY <2>1, <2>2, <1>2, <1>3 DEF Queued, l
<1>5. t.running \notin Range(t.queue) /\ NoLabel \notin Range(t.queue)
  BY <1>2, <1>3 DEF Evaluations
<1>6. Evaluations(t)
  BY <1>3, <1>4, <1>5 DEF Evaluations
<1> QED BY <1>6 DEF t

LEMMA EvaluationsEnded ==
    ASSUME NEW s \in States, Evaluations(s)
    PROVE  Evaluations(Ended(s))
<1> DEFINE t == Ended(s)
<1>1. t.queue = s.queue /\ t.running = NoLabel /\ t.ladder = s.ladder /\ t.evaluated = s.evaluated \cup {s.running}
  BY DEF Ended, States
<1> HIDE DEF t
<1>2. ASSUME NEW r \in t.ladder PROVE Queued(t, <<"it", r[1]>>) \/ <<"it", r[1]>> \in t.evaluated
  <2>1. Queued(s, <<"it", r[1]>>) \/ <<"it", r[1]>> \in s.evaluated
    BY <1>1 DEF Evaluations
  <2> QED BY <2>1, <1>1 DEF Queued
<1>3. IsInjective(t.queue) /\ t.running \notin Range(t.queue) /\ NoLabel \notin Range(t.queue)
  BY <1>1 DEF Evaluations
<1>4. Evaluations(t)
  BY <1>2, <1>3 DEF Evaluations
<1> QED BY <1>4 DEF t

(* The first of the queue taken out of it: it runs, or it is none of a rung's and is lost. *)
LEMMA EvaluationsTaken ==
    ASSUME NEW s \in States, Evaluations(s), s.queue # <<>>, s.running = NoLabel, NEW t,
           t.queue = Tail(s.queue), t.ladder = s.ladder, t.evaluated = s.evaluated,
           t.running = Head(s.queue) \/ (t.running = NoLabel /\ Head(s.queue)[1] # "it")
    PROVE  Evaluations(t)
<1>1. /\ Range(s.queue) = Range(t.queue) \cup {Head(s.queue)}
      /\ IsInjective(t.queue) /\ Head(s.queue) \notin Range(t.queue)
  BY TakenFirst DEF Evaluations, States
<1>2. \A n : <<"it", n>> # NoLabel
  BY DEF NoLabel
<1>3. ASSUME NEW r \in s.ladder PROVE Queued(t, <<"it", r[1]>>) \/ <<"it", r[1]>> \in t.evaluated
  <2>1. <<"it", r[1]>> \in Range(s.queue) \/ <<"it", r[1]>> \in s.evaluated
    BY <1>2 DEF Evaluations, Queued
  <2>2. CASE <<"it", r[1]>> = Head(s.queue)
    <3>1. t.running = Head(s.queue)
      <4>1. Head(s.queue)[1] = "it"
        <5>1. <<"it", r[1]>>[1] = "it"
          OBVIOUS
        <5> QED BY <5>1, <2>2
      <4> QED BY <4>1
    <3> QED BY <2>2, <3>1 DEF Queued
  <2> QED BY <2>1, <2>2, <1>1 DEF Queued
<1> QED BY <1>1, <1>3 DEF Evaluations

LEMMA EvaluationsKept ==
    ASSUME TypeOK, Evaluated, [Next]_vars
    PROVE  Evaluated'
<1>1. state \in States /\ saved \in States /\ Evaluations(state) /\ Evaluations(saved) /\ state.round \in Nat
  BY DEF TypeOK, Evaluated, States
<1>2. ASSUME NEW s \in States, Evaluations(s), Fatal(s) PROVE Evaluated'
  <2>1. Noted(s) \in States /\ Evaluations(Noted(s))
    BY <1>2, OfNoted, SameEvaluations
  <2>2. Evaluations(RunningFirst(Noted(s)))
    BY <2>1, EvaluationsRunningFirst
  <2> QED BY <1>2, <2>2 DEF Fatal, Save, Evaluated
<1>3. ASSUME NEW s, Evaluations(s), Evals(state') = Evals(s), saved' = saved \/ Evals(saved') = Evals(s)
      PROVE  Evaluated'
  <2>1. Evaluations(state')
    BY <1>3, SameEvaluations
  <2>2. Evaluations(saved')
    BY <1>3, <1>1, SameEvaluations
  <2> QED BY <2>1, <2>2 DEF Evaluated
<1>4. CASE \E s \in {state, [state EXCEPT !.stage = "selfplay"]} : Fatal(s)
  <2>1. [state EXCEPT !.stage = "selfplay"] \in States
    BY <1>1 DEF States, Stages
  <2>2. Evaluations([state EXCEPT !.stage = "selfplay"])
    BY <1>1, SameEvaluations DEF Evals, States
  <2> QED BY <1>1, <1>2, <1>4, <2>1, <2>2
<1>5. CASE EnterB0 \/ LoadBc \/ StartRound \/ FinalBc \/ Seed \/ SeedSaved \/ SeededBefore \/ EnterSelfplay
           \/ EnterDone
  <2>1. CASE EnterB0 \/ EnterSelfplay \/ LoadBc \/ StartRound \/ Seed
    <3>1. CASE ~\E s \in {state, [state EXCEPT !.stage = "selfplay"]} : Fatal(s)
      <4>1. Evals(state') = Evals(state) /\ saved' \in {saved, state'}
        BY <2>1, <3>1, <1>1 DEF EnterB0, EnterSelfplay, LoadBc, Loaded, StartRound, Seed, Entered, Save, Evals, States
      <4> QED BY <4>1, <1>1, <1>3
    <3> QED BY <3>1, <1>4
  <2>2. CASE FinalBc \/ SeedSaved \/ SeededBefore \/ EnterDone
    <3>1. CASE Fatal(state)
      BY <3>1, <1>4
    <3>2. CASE ~Fatal(state)
      <4> DEFINE w == WithCheckpoint(state)
      <4>1. w \in States /\ Evals(w) = Evals(state) /\ "B4" \in PhaseNames
        BY <1>1, OfWithCheckpoint DEF PhaseNames
      <4>2. Evals(MovedTo(w, "B4")) = Evals(w) /\ Evals(MovedTo(state, "B4")) = Evals(state)
        BY <4>1, <1>1, OfMovedTo
      <4>3. Evals([w EXCEPT !.final = TRUE]) = Evals(w)
        <5> HIDE DEF w
        <5> QED BY <4>1 DEF Evals, States
      <4>4. state' \in {w, MovedTo(w, "B4"), MovedTo(state, "B4"), [w EXCEPT !.final = TRUE], state}
            /\ saved' \in {saved, w, state'}
        BY <2>2, <3>2 DEF FinalBc, SeedSaved, SeededBefore, EnterDone, Transition, Save
      <4>5. Evals(state') = Evals(state) /\ (saved' = saved \/ Evals(saved') = Evals(state))
        <5> HIDE DEF w
        <5> QED BY <4>1, <4>2, <4>3, <4>4
      <4> QED BY <4>5, <1>1, <1>3
    <3> QED BY <3>1, <3>2
  <2> QED BY <1>5, <2>1, <2>2
<1>6. ASSUME NEW s \in States, Evals(s) = Evals(state), NEW label \in Labels \ {NoLabel},
             state' \in {s, Requeued(s, label), WithEval(s, label)}, saved' \in {saved, state'}
      PROVE  Evaluated'
  <2>1. Evaluations(s)
    BY <1>1, <1>6, SameEvaluations
  <2>2. Evaluations(WithEval(s, label)) /\ Requeued(s, label) \in {s, WithEval(s, label)}
    BY <2>1, <1>6, EvaluationsWithEval, OfWithEval
  <2> QED BY <2>1, <2>2, <1>6, <1>1 DEF Evaluated
<1>7. <<"b1", 0>> \in Labels \ {NoLabel} /\ \A n \in Nat : <<"b2", n>> \in Labels \ {NoLabel}
  BY LabelTypes DEF NoLabel
<1>8. CASE EnterB1
  <2> DEFINE s == IF state.stage = "eval" THEN state ELSE [state EXCEPT !.stage = "train"]
  <2>1. s \in States /\ Evals(s) = Evals(state)
    BY <1>1 DEF States, Stages, Evals
  <2> HIDE DEF s
  <2>2. state' \in {s, Requeued(s, <<"b1", 0>>)} /\ saved' = state'
    BY <1>8 DEF EnterB1, Entered, Save, s
  <2> QED BY <2>1, <2>2, <1>6, <1>7
<1>9. CASE EnterB2
  <2> DEFINE r == IF state.round = 0 THEN 1 ELSE state.round
             g == IF state.stage = "eval" /\ state.round > 0 THEN "eval" ELSE "collect"
             s == [state EXCEPT !.round = r, !.stage = g]
  <2>1. r \in Nat /\ g \in Stages
    BY <1>1 DEF Stages
  <2>2. state' \in {s, Requeued(s, <<"b2", r>>)} /\ saved' \in {saved, state'}
    BY <1>9 DEF EnterB2, Entered, Save
  <2> HIDE DEF r, g
  <2>3. s \in States /\ Evals(s) = Evals(state)
    BY <2>1, <1>1 DEF States, Evals
  <2> HIDE DEF s
  <2> QED BY <2>1, <2>2, <2>3, <1>6, <1>7
<1>10. CASE EndB1 \/ EndRound
  <2>1. PICK label \in Labels \ {NoLabel} : EndStage(label)
    BY <1>1, <1>7, <1>10 DEF EndB1, EndRound
  <2>2. CASE Fatal(state)
    BY <2>2, <1>4
  <2>3. CASE ~Fatal(state)
    <3> DEFINE w == WithCheckpoint(state)
               s == [w EXCEPT !.stage = "eval"]
    <3>1. w \in States /\ Evals(w) = Evals(state)
      BY <1>1, OfWithCheckpoint
    <3>2. s \in States /\ Evals(s) = Evals(state)
      <4> HIDE DEF w
      <4> QED BY <3>1 DEF States, Stages, Evals
    <3>3. state' = WithEval(s, label) /\ saved' = state'
      BY <2>1, <2>3 DEF EndStage, Save
    <3> HIDE DEF s
    <3> QED BY <3>2, <3>3, <1>6
  <2> QED BY <2>2, <2>3
<1>11. CASE LoadRnad
  <2>1. CASE Fatal(state)
    BY <2>1, <1>4
  <2>2. CASE ~Fatal(state)
    <3>1. state' = RolledBack(state, state.checkpoint.pos) /\ saved' = saved /\ state.checkpoint.pos \in Nat
      BY <1>11, <2>2, <1>1 DEF LoadRnad, States, Learners
    <3> QED BY <3>1, <1>1, EvaluationsRolledBack DEF Evaluated
  <2> QED BY <2>1, <2>2
<1>12. CASE ReadEvent
  <2> DEFINE e == Head(events)
  <2>1. e \in Events /\ e.pos \in Nat /\ e.line \in Nat
    <3>1. events \in Seq(Events) /\ events # <<>>
      BY <1>12 DEF ReadEvent, TypeOK
    <3>2. e \in Events
      BY <3>1, TakenFirst
    <3> QED BY <3>2 DEF Events
  <2>2. \/ state' = [state EXCEPT !.bc = e.pos] /\ saved' = saved
        \/ state' = WithRung(state, e.pos, e.line) /\ saved' = state'
        \/ state' = state /\ saved' = saved
    BY <1>12 DEF ReadEvent, Save
  <2> HIDE DEF e
  <2>3. Evals([state EXCEPT !.bc = e.pos]) = Evals(state)
    BY <1>1 DEF Evals, States
  <2> QED BY <2>1, <2>2, <2>3, <1>1, <1>3, EvaluationsWithRung DEF Evaluated
<1>13. CASE UNCHANGED <<state, saved>>
  BY <1>1, <1>13 DEF Evaluated
<1>14. CASE EventsRead \/ Stay \/ NotTested \/ Sync \/ SyncsNothing \/ LiveTick \/ EvalGoesOn \/ BcStep \/ Publish
            \/ Iteration \/ Exported \/ Play \/ Over \/ GpuDies \/ SyncFails \/ CheckpointFails \/ UNCHANGED vars
  BY <1>14, <1>13, <1>4
     DEF EventsRead, Stay, NotTested, Sync, SyncsNothing, LiveTick, EvalGoesOn, BcStep, Publish, Iteration, Exported,
         Play, Running, Over, GpuDies, SyncFails, CheckpointFails, vars
<1>15. CASE Command
  <2>1. Evals(state') = Evals(state) /\ saved' = state'
    BY <1>15, <1>1 DEF Command, Save, Evals, States
  <2> QED BY <2>1, <1>1, <1>3
<1>16. ASSUME NEW s \in States, Evaluations(s), NEW to, state' = MovedTo(s, to), saved' = saved PROVE Evaluated'
  <2>1. Evals(MovedTo(s, to)) = Evals(s)
    BY DEF MovedTo, Evals, States
  <2> QED BY <2>1, <1>16, <1>3
<1>17. CASE MovePending
  BY <1>17, <1>16, <1>1 DEF MovePending, Transition
<1>18. CASE \E p \in Range(Phases) : Move(p)
  <2>1. PICK p \in Range(Phases) : Move(p)
    BY <1>18
  <2> DEFINE s == IF p \in {"B1", "B2"} THEN WithoutEval(state, StagesLabel) ELSE state
  <2>2. StagesLabel[1] # "it"
    BY DEF StagesLabel
  <2>3. s \in States /\ Evaluations(s)
    BY <2>2, <1>1, OfWithoutEval, EvaluationsWithoutEval
  <2>4. state' = MovedTo(s, After(p)) /\ saved' = saved
    BY <2>1 DEF Move, Transition
  <2> QED BY <2>3, <2>4, <1>16
<1>19. Ended(state) \in States /\ Evaluations(Ended(state))
  BY <1>1, OfEnded, EvaluationsEnded
<1>20. CASE EvalDone \/ EvalFails
  BY <1>20, <1>19 DEF EvalDone, EvalFails, Save, Evaluated
<1>21. CASE StageEvaluated \/ AnotherRound
  <2> DEFINE w == Ended(state)
  <2>1. w \in States => /\ Evals([w EXCEPT !.pending = After(state.phase)]) = Evals(w)
                        /\ Evals([w EXCEPT !.round = @ + 1, !.stage = "collect"]) = Evals(w)
    <3> HIDE DEF w
    <3> QED BY DEF Evals, States
  <2>2. \/ state' = [w EXCEPT !.pending = After(state.phase)] /\ saved' = state'
        \/ state' = [w EXCEPT !.round = @ + 1, !.stage = "collect"] /\ saved' = saved
        \/ state' = MovedTo(w, After(state.phase)) /\ saved' = saved
    BY <1>21 DEF StageEvaluated, AnotherRound, Transition, Save
  <2> HIDE DEF w
  <2>3. w \in States /\ Evaluations(w)
    BY <1>19 DEF w
  <2> QED BY <2>1, <2>2, <2>3, <1>3, <1>16
<1>22. CASE EvalPaused \/ Shutdown
  BY <1>22, <1>1, EvaluationsRunningFirst DEF EvalPaused, Shutdown, Evaluated
<1>23. CASE EvalStarts
  <2> DEFINE popped == [state EXCEPT !.queue = Tail(@)]
             s == [popped EXCEPT !.running = Head(state.queue)]
  <2>1. state.queue # <<>> /\ state.running = NoLabel
    BY <1>23 DEF EvalStarts, JobRuns
  <2>2. Tail(state.queue) \in Seq(Labels) /\ Head(state.queue) \in Labels
    BY <2>1, <1>1, TakenFirst DEF States
  <2>3. /\ popped \in States /\ popped.queue = Tail(state.queue) /\ popped.ladder = state.ladder
        /\ popped.evaluated = state.evaluated /\ popped.running = NoLabel
        /\ s.queue = Tail(state.queue) /\ s.ladder = state.ladder
        /\ s.evaluated = state.evaluated /\ s.running = Head(state.queue)
    BY <2>1, <2>2, <1>1 DEF States
  <2>4. (state' = s /\ saved' = saved) \/ (Head(state.queue)[1] # "it" /\ Fatal(popped))
    BY <1>23 DEF EvalStarts
  <2> HIDE DEF popped, s
  <2>5. Evaluations(s)
    BY <2>1, <2>3, <1>1, EvaluationsTaken
  <2>6. Head(state.queue)[1] # "it" => Evaluations(popped)
    BY <2>1, <2>3, <1>1, EvaluationsTaken
  <2> QED BY <2>3, <2>4, <2>5, <2>6, <1>1, <1>2 DEF Evaluated
<1>24. CASE TickEnds \/ Closed
  <2>1. state' \in {state, WithCheckpoint(state)} /\ saved' \in {saved, state'}
    BY <1>24 DEF TickEnds, Closed, Save
  <2>2. Evals(WithCheckpoint(state)) = Evals(state)
    BY <1>1, OfWithCheckpoint
  <2> QED BY <2>1, <2>2, <1>1, <1>3
<1>25. CASE Kill
  BY <1>25, <1>1 DEF Kill, Evaluated
<1>26. ASSUME NEW s \in States, Evaluations(s), Begin(s) PROVE Evaluated'
  <2> DEFINE t == [s EXCEPT !.starts = @ + 1]
  <2>1. t \in States /\ Evals(t) = Evals(s)
    <3>1. s.starts + 1 \in Nat
      BY DEF States
    <3>2. [s EXCEPT !.starts = s.starts + 1] \in States /\ Evals([s EXCEPT !.starts = s.starts + 1]) = Evals(s)
      BY <3>1 DEF States, Evals
    <3> QED BY <3>2
  <2>2. state' = RunningFirst(t) /\ saved' = state'
    BY <1>26 DEF Begin, Save
  <2> HIDE DEF t
  <2>3. Evaluations(RunningFirst(t))
    BY <2>1, <1>26, SameEvaluations, EvaluationsRunningFirst
  <2> QED BY <2>2, <2>3 DEF Evaluated
<1>27. CASE Restart
  BY <1>27, <1>26, <1>1 DEF Restart
<1>28. CASE Start
  <2>1. Cleared(saved) \in States /\ Evals(Cleared(saved)) = Evals(saved)
    <3>1. <<>> \in Seq(MarkValues)
      OBVIOUS
    <3> QED BY <3>1, <1>1 DEF Cleared, States, Evals
  <2>2. Evaluations(Cleared(saved))
    BY <2>1, <1>1, SameEvaluations
  <2> QED BY <1>28, <2>1, <2>2, <1>26 DEF Start
<1> QED
  BY <1>5, <1>8, <1>9, <1>10, <1>11, <1>12, <1>14, <1>15, <1>17, <1>18, <1>20, <1>21, <1>22, <1>23, <1>24, <1>25,
     <1>27, <1>28
     DEF Next, Orchestrator, Faults, Operator

-----------------------------------------------------------------------------
(* The count of fatal stops.                                                *)

LEMMA MarksAreRecords ==
    ASSUME NEW m \in MarkValues
    PROVE  m # <<>> /\ m.step \in Nat /\ m.decisions \in Nat /\ NoFurther(m, m)
<1>1. DOMAIN m = {"phase", "stage", "step", "decisions"} /\ m.step \in Nat /\ m.decisions \in Nat
  BY DEF MarkValues
<1>2. "phase" \in DOMAIN m /\ DOMAIN <<>> = {}
  BY <1>1
<1>3. m # <<>>
  BY <1>2
<1> QED BY <1>1, <1>3 DEF NoFurther

LEMMA NoFurtherIsTransitive ==
    ASSUME NEW a \in MarkValues, NEW b \in MarkValues, NEW c \in MarkValues, NoFurther(a, b), NoFurther(b, c)
    PROVE  NoFurther(a, c)
<1>1. a.step \in Nat /\ b.step \in Nat /\ c.step \in Nat /\ a.decisions \in Nat /\ b.decisions \in Nat
      /\ c.decisions \in Nat
  BY MarksAreRecords
<1> QED BY <1>1 DEF NoFurther

(* The marks after a stop: the new one is the last, and the first is dropped when there were FatalLimit. *)
LEMMA MarksNoted ==
    ASSUME NEW s \in States, Len(s.marks) <= FatalLimit
    PROVE  \E d \in {0, 1} :
             /\ d = 1 <=> Len(s.marks) = FatalLimit
             /\ Len(Noted(s).marks) = Len(s.marks) + 1 - d
             /\ \A i \in 1..Len(s.marks) + 1 - d :
                  Noted(s).marks[i] = IF i + d <= Len(s.marks) THEN s.marks[i + d] ELSE Mark(s)
<1> DEFINE n == Len(s.marks)
           a == Append(s.marks, Mark(s))
           t == Noted(s).marks
<1>1. n \in Nat /\ FatalLimit \in Nat /\ Mark(s) \in MarkValues /\ s.marks \in Seq(MarkValues)
  BY BoundsAssumption, MarkType, LenProperties DEF States
<1>2. a \in Seq(MarkValues) /\ Len(a) = n + 1 /\ (\A i \in 1..n : a[i] = s.marks[i]) /\ a[n + 1] = Mark(s)
  BY <1>1, AppendProperties
<1>3. t = LastFew(a)
  BY OfNoted
<1>4. CASE n = FatalLimit
  <2>1. Len(t) = n /\ \A i \in 1..n : t[i] = a[n + 1 - n + i]
    <3>1. Len(a) > FatalLimit /\ Len(a) = n + 1
      BY <1>1, <1>2, <1>4
    <3>2. Len(t) = FatalLimit /\ \A i \in 1..FatalLimit : t[i] = a[Len(a) - FatalLimit + i]
      <4> HIDE DEF a, t
      <4> QED BY <3>1, <1>2, <1>3, LastFewType
    <3> HIDE DEF n, a, t
    <3> QED BY <3>1, <3>2, <1>4
  <2>2. \A i \in 1..n : n + 1 - n + i = i + 1 /\ (i + 1 <= n => i + 1 \in 1..n) /\ (~(i + 1 <= n) => i + 1 = n + 1)
    BY <1>1
  <2> HIDE DEF n, a, t
  <2>3. \A i \in 1..n : t[i] = IF i + 1 <= n THEN s.marks[i + 1] ELSE Mark(s)
    BY <2>1, <2>2, <1>2
  <2>4. n + 1 - 1 = n
    BY <1>1
  <2> QED BY <2>1, <2>3, <2>4, <1>4 DEF n, t
<1>5. CASE n # FatalLimit
  <2>1. n + 1 <= FatalLimit
    <3>1. n <= FatalLimit
      OBVIOUS
    <3> QED BY <3>1, <1>1, <1>5
  <2>2. t = a
    BY <2>1, <1>2, <1>3, LastFewType
  <2>3. \A i \in 1..n + 1 : i + 0 = i /\ (i <= n => i \in 1..n) /\ (~(i <= n) => i = n + 1)
    BY <1>1
  <2> HIDE DEF n, a, t
  <2>4. \A i \in 1..n + 1 : t[i] = IF i + 0 <= n THEN s.marks[i + 0] ELSE Mark(s)
    BY <2>2, <2>3, <1>2
  <2>5. n + 1 - 0 = n + 1
    BY <1>1
  <2> QED BY <2>2, <2>4, <2>5, <1>2, <1>5 DEF n, t
<1> QED BY <1>4, <1>5

LEMMA CountedNoted ==
    ASSUME NEW s \in States, Counted(s), s.fatals < FatalLimit
    PROVE  Counted(Noted(s)) /\ Noted(s).fatals \in 1..FatalLimit
<1> DEFINE n == Len(s.marks)
           f == s.fatals
           m == Mark(s)
           t == Noted(s)
           q == s.marks
           p == t.marks
           stalled == s.mark # <<>> /\ NotPast(m, s.mark)
<1>1. /\ n \in Nat /\ f \in Nat /\ FatalLimit \in Nat \ {0} /\ f <= n /\ n <= FatalLimit /\ f < FatalLimit
      /\ m \in MarkValues /\ \A i \in 1..n : q[i] \in MarkValues
  BY BoundsAssumption, MarkType, LenProperties, ElementOfSeq DEF States, Counted
<1>2. PICK d \in {0, 1} :
         /\ d = 1 <=> n = FatalLimit
         /\ Len(p) = n + 1 - d
         /\ \A i \in 1..n + 1 - d : p[i] = IF i + d <= n THEN q[i + d] ELSE m
  BY <1>1, MarksNoted
<1>3. /\ t.fatals = IF stalled THEN f + 1 ELSE 1
      /\ t.mark = IF stalled THEN s.mark ELSE m
  BY OfNoted
<1>4. /\ f = 0 => s.mark = <<>> /\ n = 0
      /\ f > 0 => s.mark = q[n - f + 1]
      /\ \A i \in 1..n : i > n - f => NoFurther(q[i], s.mark)
      /\ \A i \in 1..n : i <= n - f => \E j \in 1..n : j > i /\ ~NoFurther(q[j], q[i])
  BY DEF Counted
<1>5. stalled <=> f > 0 /\ NoFurther(m, s.mark)
  <2>1. f > 0 => s.mark # <<>>
    <3>1. f > 0 => n - f + 1 \in 1..n
      BY <1>1
    <3>2. f > 0 => q[n - f + 1] \in MarkValues
      BY <3>1, <1>1
    <3> QED BY <3>2, <1>4, MarksAreRecords
  <2>2. f > 0 \/ f = 0
    BY <1>1
  <2> QED BY <2>1, <2>2, <1>4 DEF NotPast, NoFurther
<1>6. f > 0 => s.mark \in MarkValues
  <2>1. f > 0 => n - f + 1 \in 1..n
    BY <1>1
  <2> QED BY <2>1, <1>1, <1>4
<1> DEFINE u == n + 1 - d
           g == t.fatals
<1>7. u \in Nat /\ u <= FatalLimit /\ u >= 1 /\ g \in Nat /\ g >= 1 /\ g <= u /\ g <= FatalLimit
  <2>1. g \in 1..f + 1
    BY <1>1, <1>3
  <2>2. n = FatalLimit \/ n < FatalLimit
    BY <1>1
  <2> HIDE DEF stalled, n, f, g
  <2> QED BY <1>1, <1>2, <2>1, <2>2
<1>8. \A i \in 1..u : (i + d <= n => i + d \in 1..n /\ p[i] = q[i + d]) /\ (~(i + d <= n) => p[i] = m /\ i = u)
  <2> HIDE DEF n, f, g, m, q, p
  <2> QED BY <1>1, <1>2
<1>9. p[u] = m /\ u \in 1..u
  <2> HIDE DEF n, f, g, m, q, p
  <2> QED BY <1>1, <1>2, <1>7, <1>8
<1>10. CASE stalled
  <2>1. f > 0 /\ g = f + 1 /\ t.mark = s.mark /\ NoFurther(m, s.mark) /\ s.mark = q[n - f + 1]
    BY <1>10, <1>3, <1>4, <1>5
  <2> HIDE DEF n, f, g, m, q, p, t, stalled
  <2>2. u - g + 1 \in 1..u /\ u - g + 1 + d = n - f + 1 /\ n - f + 1 <= n
    BY <2>1, <1>1, <1>7
  <2>3. t.mark = p[u - g + 1]
    BY <2>1, <2>2, <1>8
  <2>4. ASSUME NEW i \in 1..u, i > u - g PROVE NoFurther(p[i], t.mark)
    <3>1. CASE i + d <= n
      <4>1. i + d > n - f
        BY <2>1, <2>4, <1>1
      <4> QED BY <3>1, <4>1, <2>1, <1>4, <1>8
    <3>2. CASE ~(i + d <= n)
      BY <3>2, <2>1, <1>8
    <3> QED BY <3>1, <3>2
  <2>5. ASSUME NEW i \in 1..u, i <= u - g PROVE \E j \in 1..u : j > i /\ ~NoFurther(p[j], p[i])
    <3>1. i + d \in 1..n /\ i + d <= n - f
      BY <2>1, <2>5, <1>1
    <3>2. PICK j \in 1..n : j > i + d /\ ~NoFurther(q[j], q[i + d])
      BY <3>1, <1>4
    <3>3. j - d \in 1..u /\ j - d > i /\ (j - d) + d = j /\ j <= n
      BY <3>2, <1>1
    <3>4. p[j - d] = q[j] /\ p[i] = q[i + d]
      BY <3>1, <3>3, <1>8
    <3> QED BY <3>2, <3>3, <3>4
  <2>6. Len(t.marks) = u /\ t.marks = p /\ t.fatals = g
    BY <1>2 DEF p, g
  <2>7. Counted(t)
    <3>1. g <= u /\ u <= FatalLimit /\ g # 0
      BY <1>7
    <3>2. \A i \in 1..u : i > u - g => NoFurther(p[i], t.mark)
      BY <2>4
    <3>3. \A i \in 1..u : i <= u - g => \E j \in 1..u : j > i /\ ~NoFurther(p[j], p[i])
      BY <2>5
    <3> HIDE DEF u
    <3> QED BY <2>3, <2>6, <3>1, <3>2, <3>3 DEF Counted
  <2> QED BY <2>7, <2>6, <1>7 DEF t
<1>11. CASE ~stalled
  <2>1. g = 1 /\ t.mark = m /\ (f > 0 => ~NoFurther(m, s.mark))
    BY <1>11, <1>3, <1>5
  <2> HIDE DEF n, f, g, m, q, p, t, stalled
  <2>3. t.mark = p[u - g + 1] /\ NoFurther(m, m)
    <3>1. u - g + 1 = u
      BY <2>1, <1>7
    <3> QED BY <2>1, <3>1, <1>1, <1>9, MarksAreRecords
  <2>4. ASSUME NEW i \in 1..u, i > u - g PROVE NoFurther(p[i], t.mark)
    <3>1. i = u
      BY <2>1, <2>4, <1>7
    <3> QED BY <3>1, <2>1, <2>3, <1>9
  <2>5. ASSUME NEW i \in 1..u, i <= u - g PROVE \E j \in 1..u : j > i /\ ~NoFurther(p[j], p[i])
    <3>1. i + d \in 1..n /\ p[i] = q[i + d] /\ i < u
      <4>1. i + d <= n /\ i < u
        BY <2>1, <2>5, <1>1, <1>7
      <4> QED BY <4>1, <1>8
    <3>2. CASE i + d <= n - f
      <4>1. PICK j \in 1..n : j > i + d /\ ~NoFurther(q[j], q[i + d])
        BY <3>1, <3>2, <1>4
      <4>2. j - d \in 1..u /\ j - d > i /\ (j - d) + d = j /\ j <= n
        BY <4>1, <1>1
      <4>3. p[j - d] = q[j]
        BY <4>2, <1>8
      <4> QED BY <3>1, <4>1, <4>2, <4>3
    <3>3. CASE ~(i + d <= n - f)
      <4>1. i + d > n - f /\ f > 0
        BY <3>1, <3>3, <1>1
      <4>2. NoFurther(q[i + d], s.mark) /\ ~NoFurther(m, s.mark) /\ s.mark \in MarkValues /\ q[i + d] \in MarkValues
        BY <3>1, <4>1, <2>1, <1>1, <1>4, <1>6
      <4>3. ~NoFurther(m, q[i + d])
        BY <4>2, <1>1, NoFurtherIsTransitive
      <4>4. u > i /\ u \in 1..u
        BY <3>1, <1>7
      <4> QED BY <3>1, <4>3, <4>4, <1>9
    <3> QED BY <3>2, <3>3
  <2>6. Len(t.marks) = u /\ t.marks = p /\ t.fatals = g
    BY <1>2 DEF p, g
  <2>7. Counted(t)
    <3>1. g <= u /\ u <= FatalLimit /\ g # 0
      BY <1>7
    <3>2. \A i \in 1..u : i > u - g => NoFurther(p[i], t.mark)
      BY <2>4
    <3>3. \A i \in 1..u : i <= u - g => \E j \in 1..u : j > i /\ ~NoFurther(p[j], p[i])
      BY <2>5
    <3> HIDE DEF u
    <3> QED BY <2>3, <2>6, <3>1, <3>2, <3>3 DEF Counted
  <2> QED BY <2>7, <2>6, <1>7 DEF t
<1> QED BY <1>10, <1>11

(* How the count changes: by a fatal stop of a state with the same count, by the few actions named, or
   not at all. *)
LEMMA CountSteps ==
    ASSUME TypeOK, Flow, [Next]_vars
    PROVE  \/ \E s \in States : Fatals(s) = Fatals(state) /\ Fatal(s) /\ orch.exit = 0
           \/ /\ orch'.exit = orch.exit /\ Fatals(state') = Fatals(state)
              /\ saved' = saved \/ Fatals(saved') = Fatals(state)
           \/ Kill \/ Restart \/ Start \/ Closed
<1> DEFINE Stops == \E s \in States : Fatals(s) = Fatals(state) /\ Fatal(s) /\ orch.exit = 0
           Same == /\ orch'.exit = orch.exit /\ Fatals(state') = Fatals(state)
                   /\ saved' = saved \/ Fatals(saved') = Fatals(state)
<1>1. state \in States /\ orch \in Loops /\ state.round \in Nat /\ gpu \in Gpus /\ gpu.learner.pos \in Nat
  BY DEF TypeOK, States, Gpus, Learners
<1>2. ASSUME NEW s \in States, Fatals(s) = Fatals(state), Fatal(s), ~At("down") PROVE Stops
  BY <1>2 DEF Flow
<1>3. ASSUME NEW s, Fatals(s) = Fatals(state), state' = s, saved' \in {saved, state'}, orch'.exit = orch.exit PROVE Same
  BY <1>3
<1>4. ASSUME NEW p, Goto(p) \/ ToSync PROVE orch'.exit = orch.exit
  BY <1>4, <1>1 DEF Goto, ToSync, Loops
<1> SUFFICES Stops \/ Same \/ Kill \/ Restart \/ Start \/ Closed
  OBVIOUS
<1> HIDE DEF Stops, Same
<1>5. CASE EnterB0 \/ LoadBc \/ StartRound \/ Seed \/ EnterSelfplay
  <2>1. ~At("down")
    BY <1>5 DEF EnterB0, LoadBc, StartRound, Seed, EnterSelfplay, Entering, At
  <2>2. CASE \E s \in {state, [state EXCEPT !.stage = "selfplay"]} : Fatal(s)
    <3>1. [state EXCEPT !.stage = "selfplay"] \in States /\ Fatals([state EXCEPT !.stage = "selfplay"]) = Fatals(state)
      BY <1>1 DEF States, Stages, Fatals
    <3> QED BY <2>1, <2>2, <3>1, <1>1, <1>2
  <2>3. CASE ~\E s \in {state, [state EXCEPT !.stage = "selfplay"]} : Fatal(s)
    <3>1. Fatals(state') = Fatals(state) /\ saved' \in {saved, state'}
      BY <1>5, <2>3, <1>1 DEF EnterB0, EnterSelfplay, LoadBc, Loaded, StartRound, Seed, Entered, Save, Fatals, States
    <3>2. orch'.exit = orch.exit
      BY <1>5, <2>3, <1>1 DEF EnterB0, EnterSelfplay, LoadBc, StartRound, Seed, Entered, Loops
    <3> QED BY <3>1, <3>2, <1>3
  <2> QED BY <2>2, <2>3
<1>6. CASE FinalBc \/ SeedSaved \/ SeededBefore \/ EnterDone
  <2>1. ~At("down")
    BY <1>6 DEF FinalBc, SeedSaved, SeededBefore, EnterDone, Entering, At
  <2>2. CASE Fatal(state)
    BY <2>1, <2>2, <1>1, <1>2
  <2>3. CASE ~Fatal(state)
    <3> DEFINE w == WithCheckpoint(state)
    <3>1. w \in States /\ Fatals(w) = Fatals(state) /\ "B4" \in PhaseNames
      BY <1>1, OfWithCheckpoint DEF PhaseNames
    <3>2. Fatals(MovedTo(w, "B4")) = Fatals(w) /\ Fatals(MovedTo(state, "B4")) = Fatals(state)
      BY <3>1, <1>1, OfMovedTo
    <3>3. Fatals([w EXCEPT !.final = TRUE]) = Fatals(w)
      <4> HIDE DEF w
      <4> QED BY <3>1 DEF Fatals, States
    <3>4. state' \in {w, MovedTo(w, "B4"), MovedTo(state, "B4"), [w EXCEPT !.final = TRUE], state}
          /\ saved' \in {saved, w, state'}
      BY <1>6, <2>3 DEF FinalBc, SeedSaved, SeededBefore, EnterDone, Transition, Save
    <3>5. orch'.exit = orch.exit
      BY <1>6, <2>3, <1>1 DEF FinalBc, SeedSaved, SeededBefore, EnterDone, Transition, Goto, Loops
    <3>6. Fatals(state') = Fatals(state) /\ (saved' = saved \/ Fatals(saved') = Fatals(state))
      <4> HIDE DEF w
      <4> QED BY <3>1, <3>2, <3>3, <3>4
    <3> QED BY <3>5, <3>6 DEF Same
  <2> QED BY <2>2, <2>3
<1>7. ASSUME NEW s \in States, Fatals(s) = Fatals(state), NEW label \in Labels,
             state' \in {s, Requeued(s, label), WithEval(s, label)}, saved' \in {saved, state'},
             orch'.exit = orch.exit
      PROVE  Same
  <2>1. Fatals(WithEval(s, label)) = Fatals(s) /\ Requeued(s, label) \in {s, WithEval(s, label)}
    BY <1>7, OfWithEval
  <2> QED BY <2>1, <1>7 DEF Same
<1>8. CASE EnterB1
  <2> DEFINE s == IF state.stage = "eval" THEN state ELSE [state EXCEPT !.stage = "train"]
  <2>1. s \in States /\ Fatals(s) = Fatals(state)
    BY <1>1 DEF States, Stages, Fatals
  <2> HIDE DEF s
  <2>2. state' \in {s, Requeued(s, <<"b1", 0>>)} /\ saved' = state' /\ orch'.exit = orch.exit
    BY <1>8, <1>1 DEF EnterB1, Entered, Save, s, Loops
  <2> QED BY <2>1, <2>2, <1>7, LabelTypes
<1>9. CASE EnterB2
  <2> DEFINE r == IF state.round = 0 THEN 1 ELSE state.round
             g == IF state.stage = "eval" /\ state.round > 0 THEN "eval" ELSE "collect"
             s == [state EXCEPT !.round = r, !.stage = g]
  <2>1. r \in Nat /\ g \in Stages
    BY <1>1 DEF Stages
  <2>2. state' \in {s, Requeued(s, <<"b2", r>>)} /\ saved' \in {saved, state'}
    BY <1>9 DEF EnterB2, Entered, Save
  <2>3. orch'.exit = orch.exit
    BY <1>9, <1>1 DEF EnterB2, Entered, Goto, Loops
  <2> HIDE DEF r, g
  <2>4. s \in States /\ Fatals(s) = Fatals(state)
    BY <2>1, <1>1 DEF States, Fatals
  <2> HIDE DEF s
  <2> QED BY <2>1, <2>2, <2>3, <2>4, <1>7, LabelTypes
<1>10. CASE EndB1 \/ EndRound
  <2>1. PICK label \in Labels : EndStage(label)
    BY <1>1, LabelTypes, <1>10 DEF EndB1, EndRound
  <2>2. ~At("down")
    BY <1>10 DEF EndB1, EndRound, Testing, At
  <2>3. CASE Fatal(state)
    BY <2>2, <2>3, <1>1, <1>2
  <2>4. CASE ~Fatal(state)
    <3> DEFINE w == WithCheckpoint(state)
               s == [w EXCEPT !.stage = "eval"]
    <3>1. w \in States /\ Fatals(w) = Fatals(state)
      BY <1>1, OfWithCheckpoint
    <3>2. s \in States /\ Fatals(s) = Fatals(state)
      <4> HIDE DEF w
      <4> QED BY <3>1 DEF States, Stages, Fatals
    <3>3. state' = WithEval(s, label) /\ saved' = state' /\ ToSync
      BY <2>1, <2>4 DEF EndStage, Save
    <3> HIDE DEF s
    <3> QED BY <3>2, <3>3, <1>4, <1>7
  <2> QED BY <2>3, <2>4
<1>11. CASE LoadRnad
  <2>1. CASE Fatal(state)
    BY <1>11, <2>1, <1>1, <1>2 DEF LoadRnad, Entering, At
  <2>2. CASE ~Fatal(state)
    <3>1. state' = RolledBack(state, state.checkpoint.pos) /\ saved' = saved /\ state.checkpoint.pos \in Nat
          /\ orch'.exit = orch.exit
      BY <1>11, <2>2, <1>1 DEF LoadRnad, States, Learners, Loops
    <3> QED BY <3>1, <1>1, OfRolledBack, <1>3
  <2> QED BY <2>1, <2>2
<1>12. CASE ReadEvent
  <2> DEFINE e == Head(events)
  <2>1. e \in Events /\ e.pos \in Nat /\ e.line \in Nat
    <3>1. events \in Seq(Events) /\ events # <<>>
      BY <1>12 DEF ReadEvent, TypeOK
    <3>2. e \in Events
      BY <3>1, TakenFirst
    <3> QED BY <3>2 DEF Events
  <2>2. /\ \/ state' = [state EXCEPT !.bc = e.pos] /\ saved' = saved
           \/ state' = WithRung(state, e.pos, e.line) /\ saved' = state'
           \/ state' = state /\ saved' = saved
        /\ orch' = orch
    BY <1>12 DEF ReadEvent, Save
  <2> HIDE DEF e
  <2>3. Fatals([state EXCEPT !.bc = e.pos]) = Fatals(state)
    BY <1>1 DEF Fatals, States
  <2>4. Fatals(WithRung(state, e.pos, e.line)) = Fatals(state)
    BY <2>1, <1>1, OfWithRung
  <2> QED BY <2>2, <2>3, <2>4, <1>3
<1>13. CASE EventsRead \/ Stay \/ NotTested \/ Sync \/ SyncsNothing \/ EvalGoesOn \/ BcStep \/ Publish
            \/ Iteration \/ Exported \/ Play \/ Over \/ UNCHANGED vars
  <2>1. state' = state /\ saved' = saved
    BY <1>13
       DEF EventsRead, Stay, NotTested, Sync, SyncsNothing, EvalGoesOn, BcStep, Publish, Iteration, Exported,
           Play, Running, Over, vars
  <2>2. orch' = orch \/ ToSync \/ \E p : Goto(p)
    BY <1>13
       DEF EventsRead, Stay, NotTested, Sync, SyncsNothing, EvalGoesOn, BcStep, Publish, Iteration, Exported,
           Play, Running, Over, vars
  <2> QED BY <2>1, <2>2, <1>3, <1>4
<1>14. CASE GpuDies \/ SyncFails \/ CheckpointFails
  BY <1>14, <1>1, <1>2 DEF GpuDies, SyncFails, CheckpointFails, At
<1>15. CASE LiveTick
  <2>1. CASE Fatal(state)
    BY <1>15, <2>1, <1>1, <1>2 DEF LiveTick, At
  <2>2. CASE ~Fatal(state)
    BY <1>15, <2>2, <1>1, <1>3 DEF LiveTick, Goto, Loops
  <2> QED BY <2>1, <2>2
<1>16. CASE Command
  <2>1. Fatals(state') = Fatals(state) /\ saved' = state' /\ orch'.exit = orch.exit
    BY <1>16, <1>1 DEF Command, Save, Fatals, States, Loops
  <2> QED BY <2>1, <1>3
<1>17. ASSUME NEW s \in States, Fatals(s) = Fatals(state), NEW to, NEW then, Transition(s, to, then), saved' = saved
       PROVE  Same
  <2>1. Fatals(MovedTo(s, to)) = Fatals(s)
    BY DEF MovedTo, Fatals, States
  <2> QED BY <2>1, <1>17, <1>1, <1>3 DEF Transition, Loops
<1>18. CASE MovePending
  BY <1>18, <1>17, <1>1 DEF MovePending
<1>19. CASE \E p \in Range(Phases) : Move(p)
  <2>1. PICK p \in Range(Phases) : Move(p)
    BY <1>19
  <2> DEFINE s == IF p \in {"B1", "B2"} THEN WithoutEval(state, StagesLabel) ELSE state
  <2>2. s \in States /\ Fatals(s) = Fatals(state)
    BY <1>1, OfWithoutEval
  <2>3. Transition(s, After(p), "sync") /\ saved' = saved
    BY <2>1 DEF Move
  <2> HIDE DEF s
  <2> QED BY <2>2, <2>3, <1>17
<1>20. Ended(state) \in States /\ Fatals(Ended(state)) = Fatals(state)
  BY <1>1, OfEnded
<1>21. CASE EvalDone \/ EvalFails
  BY <1>21, <1>20, <1>3, <1>4 DEF EvalDone, EvalFails, Save
<1>22. CASE StageEvaluated \/ AnotherRound
  <2> DEFINE w == Ended(state)
  <2>1. w \in States => /\ Fatals([w EXCEPT !.pending = After(state.phase)]) = Fatals(w)
                        /\ Fatals([w EXCEPT !.round = @ + 1, !.stage = "collect"]) = Fatals(w)
    <3> HIDE DEF w
    <3> QED BY DEF Fatals, States
  <2>2. \/ state' = [w EXCEPT !.pending = After(state.phase)] /\ saved' = state' /\ Goto("end")
        \/ state' = [w EXCEPT !.round = @ + 1, !.stage = "collect"] /\ saved' = saved
           /\ orch' = [orch EXCEPT !.at = "round", !.then = "end", !.resume = FALSE]
        \/ Transition(w, After(state.phase), "end") /\ saved' = saved
    BY <1>22 DEF StageEvaluated, AnotherRound, Save
  <2>3. orch' = [orch EXCEPT !.at = "round", !.then = "end", !.resume = FALSE] => orch'.exit = orch.exit
    BY <1>1 DEF Loops
  <2> HIDE DEF w
  <2>4. w \in States /\ Fatals(w) = Fatals(state)
    BY <1>20 DEF w
  <2> QED BY <2>1, <2>2, <2>3, <2>4, <1>3, <1>4, <1>17
<1>23. CASE EvalPaused \/ Shutdown
  <2>1. state' = RunningFirst(state) /\ saved' = saved /\ \E p : Goto(p)
    BY <1>23 DEF EvalPaused, Shutdown
  <2> QED BY <2>1, <1>1, <1>3, <1>4, OfRunningFirst
<1>24. CASE EvalStarts
  <2> DEFINE popped == [state EXCEPT !.queue = Tail(@)]
             s == [popped EXCEPT !.running = Head(state.queue)]
  <2>1. state.queue # <<>>
    BY <1>24 DEF EvalStarts
  <2>2. Tail(state.queue) \in Seq(Labels) /\ Head(state.queue) \in Labels
    BY <2>1, <1>1, TakenFirst DEF States
  <2>3. popped \in States /\ Fatals(popped) = Fatals(state) /\ Fatals(s) = Fatals(state)
    BY <2>1, <2>2, <1>1 DEF States, Fatals
  <2>4. (state' = s /\ saved' = saved /\ Goto("end")) \/ Fatal(popped)
    BY <1>24 DEF EvalStarts
  <2>5. ~At("down")
    BY <1>24 DEF EvalStarts, At
  <2> HIDE DEF popped, s
  <2> QED BY <2>3, <2>4, <2>5, <1>2, <1>3, <1>4
<1>25. CASE TickEnds
  <2>1. state' \in {state, WithCheckpoint(state)} /\ saved' \in {saved, state'} /\ \E p : Goto(p)
    BY <1>25 DEF TickEnds, Save
  <2>2. Fatals(WithCheckpoint(state)) = Fatals(state)
    BY <1>1, OfWithCheckpoint
  <2> QED BY <2>1, <2>2, <1>3, <1>4
<1> QED
  BY <1>5, <1>6, <1>8, <1>9, <1>10, <1>11, <1>12, <1>13, <1>14, <1>15, <1>16, <1>18, <1>19, <1>21, <1>22,
     <1>23, <1>24, <1>25
     DEF Next, Orchestrator, Faults, Operator

LEMMA SameCount ==
    ASSUME NEW s, NEW t, Fatals(t) = Fatals(s)
    PROVE  t.fatals = s.fatals /\ (Counted(s) => Counted(t))
<1>1. t.fatals = s.fatals /\ t.mark = s.mark /\ t.marks = s.marks
  BY DEF Fatals
<1> QED BY <1>1 DEF Counted

LEMMA FatalCountKept ==
    ASSUME TypeOK, Flow, FatalCount, [Next]_vars
    PROVE  FatalCount'
<1>1. state \in States /\ saved \in States /\ FatalLimit \in Nat \ {0} /\ Counted(state) /\ Counted(saved)
      /\ orch \in Loops
  BY BoundsAssumption DEF TypeOK, FatalCount
<1>2. CASE \E s \in States : Fatals(s) = Fatals(state) /\ Fatal(s) /\ orch.exit = 0
  <2>1. PICK s \in States : Fatals(s) = Fatals(state) /\ Fatal(s) /\ orch.exit = 0
    BY <1>2
  <2>2. Counted(s) /\ s.fatals < FatalLimit
    BY <2>1, <1>1, SameCount DEF FatalCount
  <2> DEFINE t == Noted(s)
  <2>3. Counted(t) /\ t.fatals \in 1..FatalLimit /\ t \in States
    BY <2>2, CountedNoted, OfNoted
  <2>4. state' = RunningFirst(t) /\ saved' = state' /\ orch' = Down(IF t.fatals >= FatalLimit THEN 4 ELSE 2)
    BY <2>1 DEF Fatal, Save
  <2> HIDE DEF t
  <2>5. Counted(state') /\ state'.fatals = t.fatals
    BY <2>3, <2>4, OfRunningFirst, SameCount
  <2>6. orch'.exit = IF t.fatals >= FatalLimit THEN 4 ELSE 2
    BY <2>4 DEF Down
  <2>7. IF t.fatals >= FatalLimit THEN t.fatals = FatalLimit ELSE t.fatals < FatalLimit
    BY <2>3, <1>1
  <2> QED BY <2>4, <2>5, <2>6, <2>7 DEF FatalCount
<1>3. CASE /\ orch'.exit = orch.exit /\ Fatals(state') = Fatals(state)
           /\ saved' = saved \/ Fatals(saved') = Fatals(state)
  <2>1. Counted(state') /\ state'.fatals = state.fatals
    BY <1>1, <1>3, SameCount
  <2>2. Counted(saved') /\ saved'.fatals \in {saved.fatals, state.fatals}
    BY <1>1, <1>3, SameCount
  <2> QED BY <2>1, <2>2, <1>3 DEF FatalCount
<1>4. CASE Kill
  <2>1. orch.exit = 0 /\ orch'.exit = 9 /\ state' = saved /\ saved' = saved
    BY <1>4 DEF Kill, Flow, Down
  <2> QED BY <2>1 DEF FatalCount
<1>5. CASE Closed
  <2>1. orch.exit = 0 /\ orch'.exit = 0 /\ saved' = state' /\ state' \in {state, WithCheckpoint(state)}
    BY <1>5 DEF Closed, Flow, Down, Save, At
  <2>2. Fatals(state') = Fatals(state)
    BY <2>1, <1>1, OfWithCheckpoint
  <2>3. Counted(state') /\ state'.fatals = state.fatals
    BY <1>1, <2>2, SameCount
  <2> QED BY <2>1, <2>3 DEF FatalCount
<1>6. ASSUME NEW s \in States, Begin(s), Counted(s), s.fatals < FatalLimit PROVE FatalCount'
  <2> DEFINE t == [s EXCEPT !.starts = @ + 1]
  <2>1. t \in States /\ Fatals(t) = Fatals(s)
    <3>1. s.starts + 1 \in Nat
      BY DEF States
    <3>2. [s EXCEPT !.starts = s.starts + 1] \in States /\ Fatals([s EXCEPT !.starts = s.starts + 1]) = Fatals(s)
      BY <3>1 DEF States, Fatals
    <3> QED BY <3>2
  <2>2. state' = RunningFirst(t) /\ saved' = state' /\ orch'.exit = 0
    BY <1>6 DEF Begin, Save, Down
  <2> HIDE DEF t
  <2>3. Fatals(state') = Fatals(s)
    BY <2>1, <2>2, OfRunningFirst
  <2>4. Counted(state') /\ state'.fatals = s.fatals
    BY <2>3, <1>6, SameCount
  <2> QED BY <2>2, <2>4, <1>6 DEF FatalCount
<1>7. CASE Restart
  <2>1. orch.exit # 4 /\ Begin(saved)
    BY <1>7 DEF Restart
  <2> QED BY <2>1, <1>1, <1>6 DEF FatalCount
<1>8. CASE Start
  <2> DEFINE s == Cleared(saved)
  <2>1. s \in States /\ s.fatals = 0 /\ s.mark = <<>> /\ s.marks = <<>>
    <3>1. <<>> \in Seq(MarkValues)
      OBVIOUS
    <3> QED BY <3>1, <1>1 DEF Cleared, States
  <2>2. Begin(s)
    BY <1>8 DEF Start
  <2> HIDE DEF s
  <2>3. Len(s.marks) = 0
    BY <2>1
  <2>4. Counted(s) /\ s.fatals < FatalLimit
    BY <2>1, <2>3, <1>1 DEF Counted
  <2> QED BY <2>1, <2>2, <2>4, <1>6
<1> QED BY <1>2, <1>3, <1>4, <1>5, <1>7, <1>8, CountSteps

-----------------------------------------------------------------------------
(* What a step does to the phase, the learner recorded and the one that runs, the exports and the actors. *)

Inside == {"events", "phase", "sync", "live", "eval", "end", "stopping", "closing"}
SameLearner == gpu'.learner = gpu.learner /\ gpu'.mode = gpu.mode /\ events' = events
Stands(t, phase, stage, round, pending, checkpoint, ladder) ==
    Stand(t) = <<phase, stage, round, pending, checkpoint, ladder, state.starts>>
SameStand == Stand(state') = Stand(state) /\ (saved' = saved \/ Stand(saved') = Stand(state))
Aside == UNCHANGED <<exporter, current>> /\ orch'.live = orch.live /\ orch'.epoch = orch.epoch
NewEpoch == UNCHANGED <<exporter, current, actors>> /\ orch'.live = FALSE /\ orch'.epoch = orch.epoch + 1

Quiet ==
    /\ SameStand /\ gpu'.learner = gpu.learner /\ events' = events
    /\ \/ Aside /\ (actors' = actors \/ Sync) /\ (orch'.at = orch.at \/ orch.at \in Inside)
       \/ At("round") /\ Requested(Export(state.round, orch.epoch + 1)) /\ current' = current /\ actors' = actors
          /\ orch'.live = FALSE /\ orch'.epoch = orch.epoch + 1
       \/ LiveTick /\ exporter.busy.done
       \/ Exported \/ Shutdown
    /\ \/ orch'.at = orch.at /\ gpu'.mode = gpu.mode
       \/ orch'.at \in Inside /\ orch.at \in Inside \cup {"round"}
PhaseEntered ==
    /\ At("enter") /\ SameLearner /\ saved' \in {saved, state'} /\ Aside /\ actors' = actors
    /\ state.phase \in {"B1", "B2"} => Model = "bc"
    /\ \E stage \in Stages, round \in Nat :
          /\ Stands(state', state.phase, stage, round, state.pending, state.checkpoint, state.ladder)
          /\ stage = "eval" => state.phase \in {"B1", "B2"}
          /\ \/ orch'.at \in Inside /\ round = state.round
             \/ orch'.at = "round" /\ state.phase = "B2" /\ stage = "collect"
BcLoaded ==
    /\ At("enter") /\ state.phase \in {"B1", "B2"} /\ Model = "none"
    /\ Stand(state') = Stand(state) /\ saved' = saved
    /\ gpu'.learner.kind = "bc" /\ events' = events /\ orch'.at = "enter" /\ Aside /\ actors' = actors
Checkpointed ==
    /\ SameLearner /\ saved' = state' /\ Aside
    /\ \E stage \in Stages :
          /\ Stands(state', state.phase, stage, state.round, state.pending, gpu.learner, state.ladder)
          /\ \/ stage = state.stage /\ actors' = actors
             \/ stage = "eval" /\ state.phase \in {"B1", "B2"} /\ actors' = NoVersion
    /\ Model # "none" \/ state.phase \in {"B1", "B2"}
    /\ \/ orch.at \in Inside /\ orch'.at \in Inside
       \/ At("enter") /\ state.phase = "done" /\ orch'.at \in Inside
       \/ At("enter") /\ state.phase = "B3" /\ Model = "bc" /\ orch'.at = "final"
Seeds ==
    /\ Stand(state') = Stand(state) /\ saved' = saved /\ state.phase = "B3" /\ state.checkpoint.kind # "rnad"
    /\ At("final") \/ (At("enter") /\ Model = "none")
    /\ gpu'.learner = [kind |-> "rnad", pos |-> 0, line |-> state.starts, fixed |-> <<>>]
    /\ gpu'.mode = "idle" /\ events' = events /\ orch'.at = "seeded" /\ NewEpoch
SeedRecorded ==
    /\ At("seeded") /\ SameLearner /\ orch'.at = "enter" /\ Aside /\ actors' = actors
    /\ Stands(state', "B4", "", state.round, NoPhase, gpu.learner, state.ladder)
    /\ Stands(saved', state.phase, state.stage, state.round, state.pending, gpu.learner, state.ladder)
Moved ==
    /\ SameLearner /\ saved' = saved /\ orch'.at = "enter" /\ Aside
    /\ \E to \in PhaseNames :
          /\ actors' = IF to \in {"B1", "B3", "done"} THEN NoVersion ELSE actors
          /\ Stands(state', to, "", state.round, NoPhase, state.checkpoint, state.ladder)
          /\ \/ <<state.phase, to>> \in {<<"B0", "B1">>, <<"B1", "B2">>, <<"B2", "B3">>, <<"B4", "B5">>,
                                         <<"B5", "done">>} /\ orch.at \in Inside
             \/ state.phase = "B3" /\ to = "B4" /\ state.checkpoint.kind = "rnad" /\ At("enter") /\ Model = "none"
Pends ==
    /\ SameLearner /\ saved' = state' /\ orch.at \in Inside /\ orch'.at \in Inside /\ state.phase \in {"B1", "B2"}
    /\ Aside /\ actors' = actors
    /\ Stands(state', state.phase, state.stage, state.round, After(state.phase), state.checkpoint, state.ladder)
RoundBegins ==
    /\ SameLearner /\ saved' = saved /\ orch.at \in Inside /\ orch'.at = "round" /\ state.phase = "B2"
    /\ state.stage = "eval" /\ Aside /\ actors' = actors
    /\ Stands(state', "B2", "collect", state.round + 1, state.pending, state.checkpoint, state.ladder)
RnadLoaded ==
    /\ At("enter") /\ state.phase \in {"B4", "B5"} /\ Model = "none" /\ orch'.at = "enter"
    /\ gpu'.learner = [state.checkpoint EXCEPT !.line = state.starts] /\ events' = events /\ saved' = saved
    /\ NewEpoch
    /\ Stands(state', state.phase, state.stage, state.round, state.pending, state.checkpoint,
              {r \in state.ladder : r[1] <= state.checkpoint.pos})
Reads ==
    LET e == Head(events) IN
    /\ At("events") /\ events # <<>>
    /\ gpu' = gpu /\ events' = Tail(events) /\ orch' = orch /\ UNCHANGED <<current, actors>>
    /\ \/ SameStand /\ (exporter' = exporter \/ (e.event = "saved" /\ Requested(Export(0, orch.epoch))))
       \/ /\ e.event = "iteration" /\ saved' = state' /\ exporter' = exporter
          /\ Stands(state', state.phase, state.stage, state.round, state.pending, state.checkpoint,
                    {r \in state.ladder : r[1] # e.pos} \cup {<<e.pos, e.line>>})
Stops ==
    /\ AllDown /\ orch'.at = "down" /\ orch'.live = FALSE
    /\ \A t \in {state', saved'} :
          \/ Stand(t) = Stand(saved)
          \/ \E stage \in {state.stage, "selfplay"}, checkpoint \in {state.checkpoint, gpu.learner} :
               /\ Stands(t, state.phase, stage, state.round, state.pending, checkpoint, state.ladder)
               /\ checkpoint = state.checkpoint \/ (Model # "none" /\ ~At("seeded"))
Begins ==
    /\ At("down") /\ gpu' = gpu /\ events' = events /\ orch'.at = "enter" /\ saved' = state'
    /\ UNCHANGED <<exporter, current, actors>> /\ orch'.live = FALSE
    /\ Stand(state') = <<saved.phase, saved.stage, saved.round, saved.pending, saved.checkpoint, saved.ladder,
                         saved.starts + 1>>
Learns == (BcStep \/ Publish \/ Iteration) /\ UNCHANGED <<state, saved, orch, exporter, current, actors>>

(* Every step is one of these. *)
LEMMA StandSteps ==
    ASSUME TypeOK, Flow, Recorded, LearnerRuns, [Next]_vars
    PROVE  \/ Quiet \/ PhaseEntered \/ BcLoaded \/ Checkpointed \/ Seeds \/ SeedRecorded \/ Moved \/ Pends
           \/ RoundBegins \/ RnadLoaded \/ Reads \/ Stops \/ Begins \/ Learns
<1> DEFINE Goal == \/ Quiet \/ PhaseEntered \/ BcLoaded \/ Checkpointed \/ Seeds \/ SeedRecorded \/ Moved \/ Pends
                   \/ RoundBegins \/ RnadLoaded \/ Reads \/ Stops \/ Begins \/ Learns
<1> SUFFICES Goal
  OBVIOUS
<1>1. /\ state \in States /\ saved \in States /\ orch \in Loops /\ gpu \in Gpus /\ state.round \in Nat
      /\ state.stage \in Stages /\ state.phase \in PhaseNames /\ "selfplay" \in Stages /\ "collect" \in Stages
      /\ "eval" \in Stages /\ "train" \in Stages
  BY DEF TypeOK, States, Stages
<1>2. \A s : Stand(s) = <<s.phase, s.stage, s.round, s.pending, s.checkpoint, s.ladder, s.starts>>
  BY DEF Stand
<1>3. \A s \in States : Stand(WithCheckpoint(s)) =
                          <<s.phase, s.stage, s.round, s.pending, gpu.learner, s.ladder, s.starts>>
  BY OfWithCheckpoint
<1>4. ~At("down") /\ orch.then # "down" => orch.then \in Inside
  BY <1>1 DEF Loops, Inside
<1>5. ASSUME NEW p \in Inside, Goto(p) \/ (p = "sync" /\ ToSync) PROVE orch'.at \in Inside
  BY <1>5, <1>1 DEF Goto, ToSync, Loops
<1>6. \A p \in Inside : At(p) => orch.at \in Inside
  BY DEF At
<1> HIDE DEF Goal
<1>7. ASSUME NEW s \in States, Stand(s) = Stand(state) \/ Stand(s) = Stand([state EXCEPT !.stage = "selfplay"]), Fatal(s)
      PROVE  Goal
  <2>1. Stand(RunningFirst(Noted(s))) = Stand(s)
    BY OfNoted, OfRunningFirst
  <2>2. state' = RunningFirst(Noted(s)) /\ saved' = state' /\ AllDown /\ orch'.at = "down" /\ orch'.live = FALSE
    BY <1>7 DEF Fatal, Save, Down
  <2>3. Stand([state EXCEPT !.stage = "selfplay"]) =
          <<state.phase, "selfplay", state.round, state.pending, state.checkpoint, state.ladder, state.starts>>
    BY <1>1 DEF Stand, States
  <2>4. \E stage \in {state.stage, "selfplay"} :
          Stands(state', state.phase, stage, state.round, state.pending, state.checkpoint, state.ladder)
    BY <1>2, <1>7, <2>1, <2>2, <2>3 DEF Stands
  <2>5. Stops
    BY <2>2, <2>4 DEF Stops
  <2> QED BY <2>5 DEF Goal
<1>8. CASE EnterB0 \/ EnterB1 \/ EnterSelfplay
  <2>1. At("enter") /\ orch.then \in Inside /\ (state.phase \in {"B1", "B2"} => Model = "bc")
    <3>1. At("enter") /\ ~At("down") /\ (state.phase \in {"B1", "B2"} => Model = "bc")
      BY <1>8 DEF EnterB0, EnterB1, EnterSelfplay, Entering, At
    <3> QED BY <3>1, <1>4 DEF Flow
  <2>2. CASE Fatal([state EXCEPT !.stage = "selfplay"])
    <3>1. [state EXCEPT !.stage = "selfplay"] \in States
      BY <1>1 DEF States
    <3> QED BY <2>2, <3>1, <1>7
  <2>3. CASE ~Fatal([state EXCEPT !.stage = "selfplay"])
    <3>1. saved' = state' /\ UNCHANGED Outside /\ orch' = [orch EXCEPT !.at = orch.then]
      BY <1>8, <2>3 DEF EnterB0, EnterB1, EnterSelfplay, Entered, Save
    <3>2. orch'.at \in Inside /\ SameLearner /\ Aside /\ actors' = actors
      BY <3>1, <2>1, <1>1 DEF Loops, Outside, SameLearner, Aside
    <3>3. \E stage \in Stages :
            /\ Stands(state', state.phase, stage, state.round, state.pending, state.checkpoint, state.ladder)
            /\ stage = "eval" => state.phase \in {"B1", "B2"}
      <4>1. CASE EnterB0 \/ EnterSelfplay
        <5>1. PICK stage \in {"collect", "selfplay"} : state' = [state EXCEPT !.stage = stage]
          BY <4>1, <2>3 DEF EnterB0, EnterSelfplay, Entered
        <5>2. Stands(state', state.phase, stage, state.round, state.pending, state.checkpoint, state.ladder)
          BY <5>1, <1>1 DEF Stands, Stand, States
        <5> QED BY <5>2, <1>1
      <4>2. CASE EnterB1
        <5> DEFINE g == IF state.stage = "eval" THEN "eval" ELSE "train"
                   s == IF state.stage = "eval" THEN state ELSE [state EXCEPT !.stage = "train"]
        <5>1. s \in States /\ Stands(s, state.phase, g, state.round, state.pending, state.checkpoint, state.ladder)
          BY <1>1 DEF States, Stands, Stand
        <5>2. state' \in {s, Requeued(s, <<"b1", 0>>)} /\ state.phase = "B1"
          BY <4>2 DEF EnterB1, Entered, Entering
        <5> HIDE DEF s
        <5>3. Stand(state') = Stand(s)
          BY <5>1, <5>2, LabelTypes, OfWithEval
        <5> QED BY <5>1, <5>2, <5>3, <1>1 DEF Stands
      <4> QED BY <1>8, <4>1, <4>2
    <3>4. PhaseEntered
      BY <3>1, <3>2, <3>3, <2>1, <1>1 DEF PhaseEntered
    <3> QED BY <3>4 DEF Goal
  <2> QED BY <2>2, <2>3
<1>9. CASE EnterB2
  <2> DEFINE r == IF state.round = 0 THEN 1 ELSE state.round
             g == IF state.stage = "eval" /\ state.round > 0 THEN "eval" ELSE "collect"
             s == [state EXCEPT !.round = r, !.stage = g]
  <2>1. r \in Nat /\ g \in Stages
    BY <1>1
  <2>2. /\ state' \in {s, Requeued(s, <<"b2", r>>)} /\ saved' \in {saved, state'} /\ UNCHANGED Outside
        /\ \/ orch' = [orch EXCEPT !.at = orch.then]
           \/ orch' = [orch EXCEPT !.at = "round"] /\ g = "collect"
        /\ orch' = [orch EXCEPT !.at = "round"] \/ r = state.round
        /\ At("enter") /\ ~At("down") /\ state.phase = "B2" /\ Model = "bc"
    BY <1>9 DEF EnterB2, Entered, Entering, Goto, Save, At
  <2> HIDE DEF r, g
  <2>3. s \in States /\ Stands(s, state.phase, g, r, state.pending, state.checkpoint, state.ladder)
    BY <2>1, <1>1 DEF States, Stands, Stand
  <2> HIDE DEF s
  <2>4. Stand(state') = Stand(s)
    BY <2>1, <2>2, <2>3, LabelTypes, OfWithEval
  <2>5. SameLearner /\ Aside /\ actors' = actors
        /\ ((orch'.at \in Inside /\ r = state.round) \/ (orch'.at = "round" /\ g = "collect"))
    <3>1. orch.then \in Inside
      BY <2>2, <1>4 DEF Flow
    <3> QED BY <2>2, <3>1, <1>1 DEF Loops, Outside, SameLearner, Aside
  <2>6. PhaseEntered
    BY <2>1, <2>2, <2>3, <2>4, <2>5 DEF PhaseEntered, Stands
  <2> QED BY <2>6 DEF Goal
<1>10. CASE LoadBc
  <2> DEFINE c == IF state.checkpoint.kind = "bc" THEN state.checkpoint ELSE [NoLearner EXCEPT !.kind = "bc"]
  <2>1. CASE Fatal(state)
    BY <2>1, <1>1, <1>7
  <2>2. CASE ~Fatal(state)
    <3>1. /\ Loaded(c) /\ state' = [state EXCEPT !.bc = c.pos] /\ UNCHANGED <<saved, orch>>
          /\ At("enter") /\ state.phase \in {"B1", "B2"} /\ Model = "none"
      BY <1>10, <2>2 DEF LoadBc, Entering
    <3>2. c \in Learners /\ c.kind = "bc"
      <4>1. <<>> \in Seq(Nat) /\ state.checkpoint \in Learners
        BY <1>1 DEF States
      <4> QED BY <4>1 DEF NoLearner, Learners
    <3> HIDE DEF c
    <3>3. [c EXCEPT !.line = state.starts].kind = "bc"
      BY <3>2 DEF Learners
    <3>4. gpu'.learner.kind = "bc" /\ events' = events
      BY <3>1, <3>3, <1>1 DEF Loaded, Gpus
    <3>5. Stand(state') = Stand(state)
      BY <3>1, <1>1 DEF Stand, States
    <3>6. BcLoaded
      BY <3>1, <3>4, <3>5 DEF BcLoaded, At, Loaded, Aside
    <3> QED BY <3>6 DEF Goal
  <2> QED BY <2>1, <2>2
<1>11. CASE StartRound
  <2>1. CASE Fatal(state)
    BY <2>1, <1>1, <1>7
  <2>2. CASE ~Fatal(state)
    <3>1. At("round") /\ orch.then \in Inside
      BY <1>11, <1>4 DEF StartRound, Flow, At
    <3>2. Stand(state') = Stand(state) /\ saved' = state' /\ gpu' = gpu /\ events' = events
      BY <1>11, <2>2, <1>1 DEF StartRound, Save, Stand, States
    <3>3. orch'.at = orch.then /\ orch'.live = FALSE /\ orch'.epoch = orch.epoch + 1
          /\ Requested(Export(state.round, orch.epoch + 1)) /\ current' = current /\ actors' = actors
      BY <1>11, <2>2, <1>1 DEF StartRound, Loops
    <3>4. Quiet
      BY <3>1, <3>2, <3>3 DEF Quiet, SameStand, At
    <3> QED BY <3>4 DEF Goal
  <2> QED BY <2>1, <2>2
<1>12. CASE FinalBc \/ EnterDone
  <2>1. CASE Fatal(state)
    BY <2>1, <1>1, <1>7
  <2>2. CASE ~Fatal(state)
    <3> DEFINE w == WithCheckpoint(state)
    <3>1. w \in States /\ Stands(w, state.phase, state.stage, state.round, state.pending, gpu.learner, state.ladder)
      BY <1>1, <1>3, OfWithCheckpoint DEF Stands
    <3>2. Stand([w EXCEPT !.final = TRUE]) = Stand(w)
      <4> HIDE DEF w
      <4> QED BY <3>1 DEF Stand, States
    <3>3. At("enter") /\ ~At("down") /\ orch.then \in Inside
      <4>1. At("enter") /\ ~At("down")
        BY <1>12 DEF FinalBc, EnterDone, Entering, At
      <4> QED BY <4>1, <1>4 DEF Flow
    <3>4. SameLearner /\ saved' = state' /\ Aside /\ actors' = actors
      <4>1. orch'.live = orch.live /\ orch'.epoch = orch.epoch
        BY <1>12, <2>2, <1>1 DEF FinalBc, EnterDone, Goto, Loops
      <4> QED BY <4>1, <1>12, <2>2 DEF FinalBc, EnterDone, Save, Outside, SameLearner, Aside
    <3>5. CASE FinalBc
      <4>1. state' = w /\ state.phase = "B3" /\ Model = "bc" /\ orch'.at = "final"
        BY <2>2, <3>5, <1>1 DEF FinalBc, Entering, Goto, Loops
      <4>2. Checkpointed
        BY <4>1, <3>1, <3>3, <3>4, <1>1 DEF Checkpointed
      <4> QED BY <4>2 DEF Goal
    <3>6. CASE EnterDone /\ Model = "rnad"
      <4>1. state' = [w EXCEPT !.final = TRUE] /\ state.phase = "done"
        BY <2>2, <3>6 DEF EnterDone, Entering
      <4>2. orch'.at \in Inside
        BY <2>2, <3>3, <3>6, <1>1 DEF EnterDone, Loops
      <4>3. Checkpointed
        BY <4>1, <4>2, <3>1, <3>2, <3>3, <3>4, <3>6, <1>1 DEF Checkpointed, Stands
      <4> QED BY <4>3 DEF Goal
    <3>7. CASE EnterDone /\ Model # "rnad"
      <4>1. state' = state /\ state.phase = "done"
        BY <2>2, <3>7 DEF EnterDone, Entering
      <4>2. orch'.at \in Inside
        BY <2>2, <3>3, <3>7, <1>1 DEF EnterDone, Loops
      <4>3. Stands(state', state.phase, state.stage, state.round, state.pending, state.checkpoint, state.ladder)
            /\ state.stage # "eval"
        BY <4>1, <1>2 DEF Stands, Recorded, Record
      <4>4. PhaseEntered
        BY <4>1, <4>2, <4>3, <3>3, <3>4, <1>1 DEF PhaseEntered
      <4> QED BY <4>4 DEF Goal
    <3> QED BY <1>12, <3>5, <3>6, <3>7
  <2> QED BY <2>1, <2>2
<1>13. CASE Seed
  <2>1. CASE Fatal(state)
    BY <2>1, <1>1, <1>7
  <2>2. CASE ~Fatal(state)
    <3>1. /\ gpu' = [gpu EXCEPT !.learner = [kind |-> "rnad", pos |-> 0, line |-> state.starts, fixed |-> <<>>],
                                !.mode = "idle", !.published = -1]
          /\ orch' = [orch EXCEPT !.at = "seeded", !.live = FALSE, !.epoch = @ + 1]
          /\ state' = [state EXCEPT !.iterations = 0] /\ saved' = saved /\ events' = events
          /\ UNCHANGED <<exporter, current, actors>>
      BY <1>13, <2>2 DEF Seed
    <3>2. state.phase = "B3" /\ state.checkpoint.kind # "rnad" /\ (At("final") \/ (At("enter") /\ Model = "none"))
      BY <1>13 DEF Seed, Entering, LearnerRuns
    <3>3. Stand(state') = Stand(state)
      BY <3>1, <1>1 DEF Stand, States
    <3>4. gpu'.learner = [kind |-> "rnad", pos |-> 0, line |-> state.starts, fixed |-> <<>>] /\ gpu'.mode = "idle"
      BY <3>1, <1>1 DEF Gpus
    <3>5. orch'.at = "seeded" /\ NewEpoch
      BY <3>1, <1>1 DEF Loops, NewEpoch
    <3>6. Seeds
      BY <3>1, <3>2, <3>3, <3>4, <3>5 DEF Seeds
    <3> QED BY <3>6 DEF Goal
  <2> QED BY <2>1, <2>2
<1>14. CASE SeedSaved
  <2>1. CASE Fatal(state)
    BY <2>1, <1>1, <1>7
  <2>2. CASE ~Fatal(state)
    <3> DEFINE w == WithCheckpoint(state)
    <3>1. w \in States /\ "B4" \in PhaseNames
      BY <1>1, OfWithCheckpoint DEF PhaseNames
    <3>2. Stands(w, state.phase, state.stage, state.round, state.pending, gpu.learner, state.ladder)
      BY <1>1, <1>3 DEF Stands
    <3>3. At("seeded") /\ Transition(w, "B4", orch.then) /\ saved' = w /\ UNCHANGED <<Unread, budget>>
      BY <1>14, <2>2 DEF SeedSaved
    <3> HIDE DEF w
    <3>4. Stands(state', "B4", "", state.round, NoPhase, gpu.learner, state.ladder)
      <4>1. Stand(state') = <<"B4", "", w.round, NoPhase, w.checkpoint, w.ladder, w.starts>>
        BY <3>1, <3>3, OfMovedTo DEF Transition
      <4> QED BY <4>1, <3>2 DEF Stands, Stand
    <3>5. orch'.at = "enter" /\ SameLearner /\ Aside /\ actors' = actors
      BY <3>3, <1>1 DEF Transition, Loops, Unread, SameLearner, Aside
    <3>6. SeedRecorded
      BY <3>2, <3>3, <3>4, <3>5 DEF SeedRecorded
    <3> QED BY <3>6 DEF Goal
  <2> QED BY <2>1, <2>2
<1>15. CASE LoadRnad
  <2>1. CASE Fatal(state)
    BY <2>1, <1>1, <1>7
  <2>2. CASE ~Fatal(state)
    <3>1. /\ Loaded(state.checkpoint) /\ state' = RolledBack(state, state.checkpoint.pos) /\ saved' = saved
          /\ orch' = [orch EXCEPT !.live = FALSE, !.epoch = @ + 1]
          /\ At("enter") /\ state.phase \in {"B4", "B5"} /\ Model = "none"
      BY <1>15, <2>2 DEF LoadRnad, Entering
    <3>2. state.checkpoint.pos \in Nat
      BY <1>1 DEF States, Learners
    <3>3. Stands(state', state.phase, state.stage, state.round, state.pending, state.checkpoint,
                 {r \in state.ladder : r[1] <= state.checkpoint.pos})
      BY <3>1, <3>2, <1>1, OfRolledBack DEF Stands
    <3>4. gpu'.learner = [state.checkpoint EXCEPT !.line = state.starts] /\ events' = events
      BY <3>1, <1>1 DEF Loaded, Gpus
    <3>5. orch'.at = "enter" /\ NewEpoch
      BY <3>1, <1>1 DEF Loops, At, Loaded, NewEpoch
    <3>6. RnadLoaded
      BY <3>1, <3>3, <3>4, <3>5 DEF RnadLoaded
    <3> QED BY <3>6 DEF Goal
  <2> QED BY <2>1, <2>2
<1>16. ASSUME NEW s \in States, Stand(s) = Stand(state), NEW to \in PhaseNames, NEW then, Transition(s, to, then),
              saved' = saved, UNCHANGED Unread,
              \/ <<state.phase, to>> \in {<<"B0", "B1">>, <<"B1", "B2">>, <<"B2", "B3">>, <<"B4", "B5">>,
                                          <<"B5", "done">>} /\ orch.at \in Inside
              \/ state.phase = "B3" /\ to = "B4" /\ state.checkpoint.kind = "rnad" /\ At("enter") /\ Model = "none"
       PROVE  Goal
  <2>1. Stand(state') = <<to, "", s.round, NoPhase, s.checkpoint, s.ladder, s.starts>>
    BY <1>16, OfMovedTo DEF Transition
  <2>2. Stands(state', to, "", state.round, NoPhase, state.checkpoint, state.ladder)
    BY <2>1, <1>16 DEF Stands, Stand
  <2>3. /\ orch'.at = "enter" /\ SameLearner /\ Aside
        /\ actors' = IF to \in {"B1", "B3", "done"} THEN NoVersion ELSE actors
    BY <1>16, <1>1 DEF Transition, Loops, SameLearner, Aside, Unread
  <2>4. Moved
    BY <2>2, <2>3, <1>16 DEF Moved
  <2> QED BY <2>4 DEF Goal
<1>17. CASE SeededBefore
  <2>1. Transition(state, "B4", orch.then) /\ UNCHANGED <<saved, Unread>> /\ "B4" \in PhaseNames
    BY <1>17 DEF SeededBefore, PhaseNames
  <2>2. state.phase = "B3" /\ state.checkpoint.kind = "rnad" /\ At("enter") /\ Model = "none"
    BY <1>17 DEF SeededBefore, Entering
  <2> QED BY <2>1, <2>2, <1>1, <1>16
<1>18. CASE MovePending
  <2>1. state.phase \in {"B1", "B2"} /\ state.pending = After(state.phase)
    BY <1>18 DEF MovePending, Recorded, Record
  <2>2. <<state.phase, state.pending>> \in {<<"B1", "B2">>, <<"B2", "B3">>} /\ state.pending \in PhaseNames
    BY <2>1, AfterType DEF PhaseNames
  <2>3. Transition(state, state.pending, "sync") /\ UNCHANGED <<saved, Unread>> /\ orch.at \in Inside
    BY <1>18, <1>6 DEF MovePending, Inside
  <2> QED BY <2>2, <2>3, <1>1, <1>16
<1>19. CASE \E p \in Range(Phases) : Move(p)
  <2>1. PICK p \in Range(Phases) : Move(p)
    BY <1>19
  <2> DEFINE s == IF p \in {"B1", "B2"} THEN WithoutEval(state, StagesLabel) ELSE state
  <2>2. s \in States /\ Stand(s) = Stand(state)
    BY <1>1, OfWithoutEval
  <2>3. p \in {"B0", "B1", "B2", "B4", "B5"} /\ state.phase = p /\ orch.at \in Inside
    BY <2>1, <1>6 DEF Move, Exit, Testing, Inside
  <2>4. After(p) \in PhaseNames /\ <<p, After(p)>> \in {<<"B0", "B1">>, <<"B1", "B2">>, <<"B2", "B3">>,
                                                        <<"B4", "B5">>, <<"B5", "done">>}
    BY <2>3, AfterType
  <2>5. Transition(s, After(p), "sync") /\ UNCHANGED <<saved, Unread>>
    BY <2>1 DEF Move
  <2> HIDE DEF s
  <2> QED BY <2>2, <2>3, <2>4, <2>5, <1>16
<1>20. CASE ReadEvent
  <2> DEFINE e == Head(events)
  <2>1. e \in Events /\ e.pos \in Nat /\ e.line \in Nat
    <3>1. events \in Seq(Events) /\ events # <<>>
      BY <1>20 DEF ReadEvent, TypeOK
    <3>2. e \in Events
      BY <3>1, TakenFirst
    <3> QED BY <3>2 DEF Events
  <2>2. /\ \/ state' = [state EXCEPT !.bc = e.pos] /\ saved' = saved /\ exporter' = exporter
           \/ e.event = "iteration" /\ state' = WithRung(state, e.pos, e.line) /\ saved' = state'
              /\ exporter' = exporter
           \/ state' = state /\ saved' = saved /\ e.event = "saved" /\ Requested(Export(0, orch.epoch))
        /\ At("events") /\ events # <<>> /\ events' = Tail(events) /\ gpu' = gpu /\ orch' = orch
        /\ UNCHANGED <<current, actors>>
    BY <1>20 DEF ReadEvent, Save
  <2>3. Stand([state EXCEPT !.bc = e.pos]) = Stand(state)
    BY <1>1 DEF Stand, States
  <2>4. Stands(WithRung(state, e.pos, e.line), state.phase, state.stage, state.round, state.pending,
               state.checkpoint, {r \in state.ladder : r[1] # e.pos} \cup {<<e.pos, e.line>>})
    BY <2>1, <1>1, OfWithRung DEF Stands
  <2>5. Reads
    BY <2>2, <2>3, <2>4 DEF Reads, SameStand
  <2> QED BY <2>5 DEF Goal
<1>21. ASSUME orch.at \in Inside, orch'.at \in Inside, gpu'.learner = gpu.learner, events' = events, SameStand,
              (Aside /\ (actors' = actors \/ Sync)) \/ (LiveTick /\ exporter.busy.done) \/ Shutdown
       PROVE  Goal
  <2>1. Quiet
    BY <1>21 DEF Quiet
  <2> QED BY <2>1 DEF Goal
<1>22. CASE EventsRead \/ Stay \/ NotTested \/ SyncsNothing \/ EvalGoesOn \/ Sync
  <2>1. /\ orch.at \in Inside
        /\ ToSync \/ \E p \in {"phase", "sync", "live", "end"} : Goto(p)
        /\ state' = state /\ saved' = saved /\ events' = events /\ gpu' \in {gpu, Synced}
    BY <1>22, <1>6 DEF EventsRead, Stay, NotTested, SyncsNothing, EvalGoesOn, Sync, Testing, Outside, Inside, At
  <2>2. orch'.at \in Inside
    <3>1. {"phase", "sync", "live", "end"} \subseteq Inside
      BY DEF Inside
    <3> QED BY <2>1, <3>1, <1>5
  <2>3. gpu'.learner = gpu.learner
    BY <2>1, <1>1 DEF Synced, Gpus
  <2>4. SameStand
    BY <2>1 DEF SameStand
  <2>5. Aside /\ (actors' = actors \/ Sync)
    <3>1. orch'.live = orch.live /\ orch'.epoch = orch.epoch
      BY <2>1, <1>1 DEF ToSync, Goto, Loops
    <3> QED BY <3>1, <1>22 DEF EventsRead, Stay, NotTested, SyncsNothing, EvalGoesOn, Sync, Outside, Aside
  <2> QED BY <2>1, <2>2, <2>3, <2>4, <2>5, <1>21
<1>23. CASE GpuDies \/ SyncFails \/ CheckpointFails
  BY <1>23, <1>1, <1>7 DEF GpuDies, SyncFails, CheckpointFails
<1>24. CASE LiveTick
  <2>1. CASE Fatal(state)
    BY <2>1, <1>1, <1>7
  <2>2. CASE ~Fatal(state)
    <3>1. orch.at \in Inside /\ state' = state /\ saved' = saved /\ events' = events /\ gpu' = gpu
      BY <1>24, <2>2, <1>6 DEF LiveTick, Outside, Inside
    <3>2. orch'.at = "eval"
      BY <1>24, <2>2, <1>1 DEF LiveTick, Goto, Loops
    <3>3. (Aside /\ actors' = actors) \/ exporter.busy.done
      BY <1>24, <2>2, <1>1 DEF LiveTick, Goto, Loops, Outside, Aside
    <3> QED BY <3>1, <3>2, <3>3, <1>21, <1>24 DEF SameStand, Inside
  <2> QED BY <2>1, <2>2
<1>25. CASE EvalPaused \/ EvalDone \/ EvalFails \/ Shutdown
  <2>1. orch.at \in Inside /\ events' = events /\ gpu' = gpu /\ saved' \in {saved, state'}
        /\ state' \in {RunningFirst(state), Ended(state)}
    BY <1>25, <1>6 DEF EvalPaused, EvalDone, EvalFails, Shutdown, Outside, Save, Inside
  <2>2. orch'.at \in Inside
    <3>1. PICK p \in {"end", "closing"} : Goto(p)
      BY <1>25 DEF EvalPaused, EvalDone, EvalFails, Shutdown
    <3> QED BY <3>1, <1>5 DEF Inside
  <2>3. SameStand
    BY <2>1, <1>1, OfRunningFirst, OfEnded DEF SameStand
  <2>4. (Aside /\ actors' = actors) \/ Shutdown
    BY <1>25, <1>1 DEF EvalPaused, EvalDone, EvalFails, Goto, Loops, Outside, Aside
  <2> QED BY <2>1, <2>2, <2>3, <2>4, <1>21
<1>26. CASE EndB1 \/ EndRound
  <2>1. PICK label \in Labels : EndStage(label)
    BY <1>1, LabelTypes, <1>26 DEF EndB1, EndRound
  <2>2. CASE Fatal(state)
    BY <2>2, <1>1, <1>7
  <2>3. CASE ~Fatal(state)
    <3> DEFINE w == WithCheckpoint(state)
               s == [w EXCEPT !.stage = "eval"]
    <3>1. w \in States /\ Stands(w, state.phase, state.stage, state.round, state.pending, gpu.learner, state.ladder)
      BY <1>1, <1>3, OfWithCheckpoint DEF Stands
    <3>2. s \in States /\ Stands(s, state.phase, "eval", state.round, state.pending, gpu.learner, state.ladder)
      <4> HIDE DEF w
      <4> QED BY <3>1, <1>1 DEF States, Stands, Stand
    <3>3. state' = WithEval(s, label) /\ saved' = state' /\ ToSync /\ SameLearner /\ Aside
          /\ actors' = NoVersion
      BY <2>1, <2>3, <1>1 DEF EndStage, Save, Unread, SameLearner, Aside, ToSync, Loops
    <3> HIDE DEF s
    <3>4. Stand(state') = Stand(s)
      BY <3>2, <3>3, OfWithEval
    <3>5. orch.at \in Inside /\ orch'.at \in Inside /\ state.phase \in {"B1", "B2"}
      BY <1>26, <3>3, <1>5, <1>6 DEF EndB1, EndRound, Testing, Inside
    <3>6. Checkpointed
      BY <3>2, <3>3, <3>4, <3>5, <1>1 DEF Checkpointed, Stands
    <3> QED BY <3>6 DEF Goal
  <2> QED BY <2>2, <2>3
<1>27. Ended(state) \in States /\ Stand(Ended(state)) = Stand(state)
  BY <1>1, OfEnded
<1>28. CASE StageEvaluated \/ AnotherRound
  <2> DEFINE w == Ended(state)
  <2>1. state.phase \in {"B1", "B2"} /\ orch.at \in Inside /\ After(state.phase) \in PhaseNames
        /\ <<state.phase, After(state.phase)>> \in {<<"B1", "B2">>, <<"B2", "B3">>}
    <3>1. state.phase \in {"B1", "B2"} /\ orch.at \in Inside
      BY <1>28, <1>6 DEF StageEvaluated, AnotherRound, StagesEval, Recorded, Record, Inside
    <3> QED BY <3>1, AfterType
  <2>2. /\ \/ state' = [w EXCEPT !.pending = After(state.phase)] /\ saved' = state' /\ Goto("end")
           \/ state' = [w EXCEPT !.round = @ + 1, !.stage = "collect"] /\ saved' = saved /\ state.phase = "B2"
              /\ orch' = [orch EXCEPT !.at = "round", !.then = "end", !.resume = FALSE]
           \/ Transition(w, After(state.phase), "end") /\ saved' = saved
        /\ UNCHANGED Unread /\ state.stage = "eval"
        /\ Transition(w, After(state.phase), "end") \/ actors' = actors
    BY <1>28 DEF StageEvaluated, AnotherRound, StagesEval, Save, Unread, Outside
  <2> HIDE DEF w
  <2>3. w \in States /\ Stand(w) = Stand(state)
    BY <1>27 DEF w
  <2>4. CASE Transition(w, After(state.phase), "end") /\ saved' = saved
    BY <2>1, <2>2, <2>3, <2>4, <1>16
  <2>5. CASE state' = [w EXCEPT !.pending = After(state.phase)] /\ saved' = state' /\ Goto("end")
    <3>1. Stands(state', state.phase, state.stage, state.round, After(state.phase), state.checkpoint, state.ladder)
      BY <2>3, <2>5 DEF Stands, Stand, States
    <3>2. orch'.at \in Inside
      BY <2>5, <1>5 DEF Inside
    <3>3. Aside /\ actors' = actors
      <4>1. orch'.live = orch.live /\ orch'.epoch = orch.epoch /\ orch'.at # "enter"
        BY <2>5, <1>1 DEF Goto, Loops
      <4> QED BY <2>2, <4>1, <1>1 DEF Aside, Unread, Transition, Loops
    <3>4. Pends
      BY <2>1, <2>2, <2>5, <3>1, <3>2, <3>3 DEF Pends, SameLearner, Unread
    <3> QED BY <3>4 DEF Goal
  <2>6. CASE state' = [w EXCEPT !.round = @ + 1, !.stage = "collect"] /\ saved' = saved /\ state.phase = "B2"
             /\ orch' = [orch EXCEPT !.at = "round", !.then = "end", !.resume = FALSE]
    <3>1. state' = [w EXCEPT !.round = w.round + 1, !.stage = "collect"]
      BY <2>6
    <3>2. Stands(state', "B2", "collect", state.round + 1, state.pending, state.checkpoint, state.ladder)
      BY <2>3, <2>6, <3>1 DEF Stands, Stand, States
    <3>3. orch'.at = "round"
      BY <2>6, <1>1 DEF Loops
    <3>4. Aside /\ actors' = actors
      <4>1. orch'.live = orch.live /\ orch'.epoch = orch.epoch
        BY <2>6, <1>1 DEF Loops
      <4> QED BY <2>2, <3>3, <4>1, <1>1 DEF Aside, Unread, Transition, Loops
    <3>5. RoundBegins
      BY <2>1, <2>2, <2>6, <3>2, <3>3, <3>4 DEF RoundBegins, SameLearner, Unread
    <3> QED BY <3>5 DEF Goal
  <2> QED BY <2>2, <2>4, <2>5, <2>6
<1>29. CASE EvalStarts
  <2> DEFINE popped == [state EXCEPT !.queue = Tail(@)]
             s == [popped EXCEPT !.running = Head(state.queue)]
  <2>1. Tail(state.queue) \in Seq(Labels) /\ Head(state.queue) \in Labels /\ orch.at \in Inside
    <3>1. state.queue # <<>> /\ orch.at \in Inside
      BY <1>29, <1>6 DEF EvalStarts, Inside
    <3> QED BY <3>1, <1>1, TakenFirst DEF States
  <2>2. popped \in States /\ Stand(popped) = Stand(state) /\ Stand(s) = Stand(state)
    BY <2>1, <1>1 DEF States, Stand
  <2>3. (state' = s /\ saved' = saved /\ Goto("end") /\ UNCHANGED <<gpu, events>>) \/ Fatal(popped)
    BY <1>29 DEF EvalStarts, Outside
  <2> HIDE DEF popped, s
  <2>4. CASE Fatal(popped)
    BY <2>2, <2>4, <1>7
  <2>5. CASE ~Fatal(popped)
    <3>1. orch'.at \in Inside
      BY <2>3, <2>5, <1>5 DEF Inside
    <3>2. Aside /\ actors' = actors
      <4>1. Goto("end") /\ UNCHANGED Outside
        BY <1>29, <2>5 DEF EvalStarts, popped
      <4> QED BY <4>1, <1>1 DEF Goto, Loops, Outside, Aside
    <3> QED BY <2>1, <2>2, <2>3, <2>5, <3>1, <3>2, <1>21 DEF SameStand
  <2> QED BY <2>4, <2>5
<1>30. CASE TickEnds
  <2>1. orch.at \in Inside /\ UNCHANGED Outside /\ Aside /\ actors' = actors
    <3>1. orch.at \in Inside /\ UNCHANGED Outside
      BY <1>30, <1>6 DEF TickEnds, Inside
    <3>2. orch'.live = orch.live /\ orch'.epoch = orch.epoch
      BY <1>30, <1>1 DEF TickEnds, Goto, Loops
    <3> QED BY <3>1, <3>2 DEF Outside, Aside
  <2>2. orch'.at \in Inside
    <3>1. LoopsOn \in Inside /\ Goto(LoopsOn)
      BY <1>30 DEF TickEnds, LoopsOn, Inside
    <3> QED BY <3>1, <1>5
  <2>3. (state' = state /\ saved' \in {saved, state'})
        \/ (Model # "none" /\ state' = WithCheckpoint(state) /\ saved' = state')
    BY <1>30 DEF TickEnds, Save
  <2>4. CASE state' = state /\ saved' \in {saved, state'}
    BY <2>1, <2>2, <2>4, <1>21 DEF SameStand, Outside
  <2>5. CASE Model # "none" /\ state' = WithCheckpoint(state) /\ saved' = state'
    <3>1. Stands(state', state.phase, state.stage, state.round, state.pending, gpu.learner, state.ladder)
      BY <2>5, <1>1, <1>3 DEF Stands
    <3>2. Checkpointed
      BY <2>1, <2>2, <2>5, <3>1, <1>1 DEF Checkpointed, Outside, SameLearner
    <3> QED BY <3>2 DEF Goal
  <2> QED BY <2>3, <2>4, <2>5
<1>31. CASE Closed
  <2>1. AllDown /\ orch'.at = "down" /\ orch'.live = FALSE /\ saved' = state' /\ ~At("seeded")
        /\ (state' = state \/ (Model # "none" /\ state' = WithCheckpoint(state)))
    BY <1>31 DEF Closed, Down, Save, At
  <2>2. \E checkpoint \in {state.checkpoint, gpu.learner} :
          /\ Stands(state', state.phase, state.stage, state.round, state.pending, checkpoint, state.ladder)
          /\ checkpoint = state.checkpoint \/ (Model # "none" /\ ~At("seeded"))
    BY <2>1, <1>1, <1>2, <1>3 DEF Stands
  <2>3. Stops
    BY <2>1, <2>2 DEF Stops
  <2> QED BY <2>3 DEF Goal
<1>32. CASE Kill
  <2>1. AllDown /\ orch'.at = "down" /\ orch'.live = FALSE /\ state' = saved /\ saved' = saved
    BY <1>32 DEF Kill, Down
  <2>2. Stops
    BY <2>1 DEF Stops
  <2> QED BY <2>2 DEF Goal
<1>33. ASSUME NEW s \in States, At("down"), Begin(s),
              Stand(s) = Stand(saved)
       PROVE  Goal
  <2> DEFINE t == [s EXCEPT !.starts = @ + 1]
  <2>1. t \in States /\ Stand(t) = <<s.phase, s.stage, s.round, s.pending, s.checkpoint, s.ladder, s.starts + 1>>
    <3>1. s.starts + 1 \in Nat
      BY DEF States
    <3>2. LET u == [s EXCEPT !.starts = s.starts + 1] IN
          /\ u \in States
          /\ Stand(u) = <<s.phase, s.stage, s.round, s.pending, s.checkpoint, s.ladder, s.starts + 1>>
      BY <3>1 DEF States, Stand
    <3> QED BY <3>2
  <2>2. state' = RunningFirst(t) /\ saved' = state' /\ orch'.at = "enter" /\ gpu' = gpu /\ events' = events
        /\ UNCHANGED <<exporter, current, actors>> /\ orch'.live = FALSE
    BY <1>33 DEF Begin, Save, Down
  <2> HIDE DEF t
  <2>3. Stand(state') = <<s.phase, s.stage, s.round, s.pending, s.checkpoint, s.ladder, s.starts + 1>>
    BY <2>1, <2>2, OfRunningFirst
  <2>4. Stand(state') = <<saved.phase, saved.stage, saved.round, saved.pending, saved.checkpoint, saved.ladder,
                          saved.starts + 1>>
    BY <2>3, <1>33 DEF Stand
  <2>5. Begins
    BY <2>2, <2>4, <1>33 DEF Begins
  <2> QED BY <2>5 DEF Goal
<1>34. CASE Restart
  BY <1>34, <1>1, <1>33 DEF Restart
<1>35. CASE Start
  <2> DEFINE s == Cleared(saved)
  <2>1. s \in States /\ Stand(s) = Stand(saved)
    <3>1. <<>> \in Seq(MarkValues)
      OBVIOUS
    <3> QED BY <3>1, <1>1 DEF Cleared, States, Stand
  <2>2. Begin(s) /\ At("down")
    BY <1>35 DEF Start
  <2> HIDE DEF s
  <2> QED BY <2>1, <2>2, <1>33
<1>36. CASE BcStep \/ Publish \/ Iteration
  BY <1>36 DEF BcStep, Publish, Iteration, Running, Learns, Goal
<1>37. CASE Exported \/ Play \/ Over \/ Command \/ UNCHANGED vars
  <2>1. events' = events /\ gpu'.learner = gpu.learner /\ gpu'.mode = gpu.mode
    BY <1>37, <1>1 DEF Exported, Play, Over, Command, vars, Gpus
  <2>2. orch'.at = orch.at /\ (Exported \/ (Aside /\ actors' = actors))
    BY <1>37, <1>1 DEF Exported, Play, Over, Command, Running, vars, Loops, Aside
  <2>3. SameStand
    <3>1. CASE Command
      <4>1. Stand(state') = Stand(state) /\ saved' = state'
        BY <3>1, <1>1 DEF Command, Save, Stand, States
      <4> QED BY <4>1 DEF SameStand
    <3>2. CASE Exported \/ Play \/ Over \/ UNCHANGED vars
      BY <3>2 DEF Exported, Play, Over, Running, vars, SameStand
    <3> QED BY <1>37, <3>1, <3>2
  <2>4. Quiet
    BY <2>1, <2>2, <2>3 DEF Quiet
  <2> QED BY <2>4 DEF Goal
<1> QED
  BY <1>8, <1>9, <1>10, <1>11, <1>12, <1>13, <1>14, <1>15, <1>17, <1>18, <1>19, <1>20, <1>22, <1>23, <1>24, <1>25,
     <1>26, <1>28, <1>29, <1>30, <1>31, <1>32, <1>34, <1>35, <1>36, <1>37
     DEF Next, Orchestrator, Faults, Operator

-----------------------------------------------------------------------------
(* What the phases have recorded, and the learner that runs.                *)

LEMMA StandsFor ==
    ASSUME NEW t, NEW ph, NEW st, NEW rd, NEW pd, NEW ck, NEW ld, Stands(t, ph, st, rd, pd, ck, ld)
    PROVE  t.phase = ph /\ t.stage = st /\ t.round = rd /\ t.pending = pd /\ t.checkpoint = ck /\ t.ladder = ld
BY DEF Stands, Stand

LEMMA SameRecord ==
    ASSUME NEW s, NEW t, Stand(t) = Stand(s), Record(s)
    PROVE  Record(t)
<1>1. t.phase = s.phase /\ t.stage = s.stage /\ t.pending = s.pending /\ t.checkpoint = s.checkpoint /\ t.ladder = s.ladder
  BY DEF Stand
<1> QED BY <1>1 DEF Record

(* The learner is recorded: the rungs are its own. *)
LEMMA RecordOfLearner ==
    ASSUME TypeOK, Recorded, LearnerRuns, RungsAreThisLearners, Model # "none" \/ state.phase \in {"B1", "B2"},
           NEW t, NEW stage \in Stages, stage \in {state.stage, "selfplay"} \/ (stage = "eval" /\ state.phase \in {"B1", "B2"}),
           At("seeded") => state.phase = "B3",
           Stands(t, state.phase, stage, state.round, state.pending, gpu.learner, state.ladder)
    PROVE  Record(t)
<1>1. /\ t.phase = state.phase /\ t.stage = stage /\ t.pending = state.pending /\ t.checkpoint = gpu.learner
      /\ t.ladder = state.ladder
  BY StandsFor
<1>2. Record(state) /\ state.ladder \in SUBSET (Nat \X Nat) /\ gpu.learner.kind \in {"none", "bc", "rnad"}
  BY DEF Recorded, TypeOK, States, Gpus, Learners
<1>3. CASE Model = "rnad"
  BY <1>1, <1>2, <1>3 DEF LearnerRuns, Record, RungsAreThisLearners, Model
<1>4. CASE Model # "rnad"
  <2>1. state.ladder = {} /\ state.phase \notin {"B4", "B5"}
    BY <1>2, <1>4 DEF LearnerRuns, Record, Model
  <2> QED BY <1>1, <1>2, <1>4, <2>1 DEF Record, Sound, Model
<1> QED BY <1>3, <1>4

LEMMA RecordedKept ==
    ASSUME TypeOK, Flow, Recorded, LearnerRuns, Reported, RungsAreThisLearners, [Next]_vars
    PROVE  Recorded'
<1>1. Record(state) /\ Record(saved) /\ state.phase \in PhaseNames /\ state.ladder \in SUBSET (Nat \X Nat)
  BY DEF Recorded, TypeOK, States
<1>2. ASSUME SameStand PROVE Recorded'
  BY <1>1, <1>2, SameRecord DEF SameStand, Recorded
<1>3. CASE Quiet \/ BcLoaded \/ Seeds
  BY <1>2, <1>3 DEF Quiet, BcLoaded, Seeds, SameStand
<1>4. CASE PhaseEntered
  <2>1. PICK stage \in Stages, round \in Nat :
          /\ Stands(state', state.phase, stage, round, state.pending, state.checkpoint, state.ladder)
          /\ stage = "eval" => state.phase \in {"B1", "B2"}
    BY <1>4 DEF PhaseEntered
  <2>2. /\ state'.phase = state.phase /\ state'.stage = stage /\ state'.pending = state.pending
        /\ state'.checkpoint = state.checkpoint /\ state'.ladder = state.ladder
    BY <2>1, StandsFor
  <2>3. Record(state')
    BY <1>1, <2>1, <2>2 DEF Record
  <2> QED BY <1>1, <1>4, <2>3 DEF PhaseEntered, Recorded
<1>5. CASE Checkpointed
  <2>1. PICK stage \in Stages :
          /\ Stands(state', state.phase, stage, state.round, state.pending, gpu.learner, state.ladder)
          /\ stage = state.stage \/ (stage = "eval" /\ state.phase \in {"B1", "B2"})
    BY <1>5 DEF Checkpointed
  <2>2. ~At("seeded") /\ saved' = state' /\ (Model # "none" \/ state.phase \in {"B1", "B2"})
    BY <1>5 DEF Checkpointed, At, Inside
  <2>3. Record(state')
    BY <2>1, <2>2, RecordOfLearner
  <2> QED BY <2>2, <2>3 DEF Recorded
<1>6. CASE SeedRecorded
  <2>1. At("seeded") /\ Model = "rnad" /\ state.phase = "B3" /\ state.stage \in Stages /\ state.ladder = {}
        /\ Sound(gpu.learner)
    BY <1>6, <1>1 DEF SeedRecorded, LearnerRuns, Record, TypeOK, States
  <2>2. Record(saved')
    BY <1>6, <2>1, RecordOfLearner DEF SeedRecorded
  <2>3. /\ state'.phase = "B4" /\ state'.stage = "" /\ state'.pending = NoPhase /\ state'.checkpoint = gpu.learner
        /\ state'.ladder = state.ladder
    BY <1>6 DEF SeedRecorded, Stands, Stand
  <2>4. Record(state')
    BY <2>1, <2>3 DEF Record, Model
  <2> QED BY <2>2, <2>4 DEF Recorded
<1>7. CASE Moved
  <2>1. PICK to \in PhaseNames :
          /\ Stands(state', to, "", state.round, NoPhase, state.checkpoint, state.ladder)
          /\ \/ <<state.phase, to>> \in {<<"B0", "B1">>, <<"B1", "B2">>, <<"B2", "B3">>, <<"B4", "B5">>,
                                         <<"B5", "done">>}
             \/ state.phase = "B3" /\ to = "B4" /\ state.checkpoint.kind = "rnad"
    BY <1>7 DEF Moved
  <2>2. /\ state'.phase = to /\ state'.stage = "" /\ state'.pending = NoPhase
        /\ state'.checkpoint = state.checkpoint /\ state'.ladder = state.ladder
    BY <2>1 DEF Stands, Stand
  <2>3. to \in {"B4", "B5"} => state.checkpoint.kind = "rnad"
    BY <2>1, <1>1 DEF Record
  <2>4. state.checkpoint.kind = "rnad" => to \in {"B3", "B4", "B5", "done"}
    BY <2>1, <1>1 DEF Record
  <2>5. Record(state')
    BY <2>2, <2>3, <2>4, <1>1 DEF Record
  <2> QED BY <1>1, <1>7, <2>5 DEF Moved, Recorded
<1>8. CASE Pends
  <2>1. /\ state'.phase = state.phase /\ state'.stage = state.stage /\ state'.pending = After(state.phase)
        /\ state'.checkpoint = state.checkpoint /\ state'.ladder = state.ladder /\ state.phase \in {"B1", "B2"}
    BY <1>8, StandsFor DEF Pends
  <2>2. Record(state')
    BY <2>1, <1>1 DEF Record
  <2> QED BY <1>8, <2>2 DEF Pends, Recorded
<1>9. CASE RoundBegins
  <2>1. /\ state'.phase = state.phase /\ state'.stage = "collect" /\ state'.pending = state.pending
        /\ state'.checkpoint = state.checkpoint /\ state'.ladder = state.ladder
    BY <1>9, StandsFor DEF RoundBegins
  <2>2. Record(state')
    BY <2>1, <1>1 DEF Record
  <2> QED BY <1>9, <1>1, <2>2 DEF RoundBegins, Recorded
<1>10. CASE RnadLoaded
  <2>1. /\ state'.phase = state.phase /\ state'.stage = state.stage /\ state'.pending = state.pending
        /\ state'.checkpoint = state.checkpoint
        /\ state'.ladder = {r \in state.ladder : r[1] <= state.checkpoint.pos}
    BY <1>10, StandsFor DEF RnadLoaded
  <2>2. state'.ladder \subseteq state.ladder
    BY <2>1
  <2>3. Record(state')
    BY <2>1, <2>2, <1>1 DEF Record
  <2> QED BY <1>10, <1>1, <2>3 DEF RnadLoaded, Recorded
<1>11. CASE Reads
  <2> DEFINE e == Head(events)
  <2>1. CASE SameStand
    BY <2>1, <1>2
  <2>2. CASE /\ e.event = "iteration" /\ saved' = state'
             /\ Stands(state', state.phase, state.stage, state.round, state.pending, state.checkpoint,
                       {r \in state.ladder : r[1] # e.pos} \cup {<<e.pos, e.line>>})
    <3>1. 1 \in 1..Len(events) /\ e = events[1]
      <4>1. events \in Seq(Events) /\ events # <<>>
        BY <1>11 DEF Reads, TypeOK
      <4> QED BY <4>1
    <3>2. /\ Model = "rnad" /\ ~At("seeded")
          /\ e.pos \in 1..gpu.learner.pos /\ e.line = gpu.learner.fixed[e.pos]
      <4>1. events[1].event = "iteration"
        BY <2>2, <3>1
      <4> QED BY <3>1, <4>1 DEF Reported
    <3>3. state.checkpoint.kind = "rnad" /\ Extends(gpu.learner, state.checkpoint) /\ state.checkpoint.pos \in Nat
          /\ gpu.learner.pos \in Nat
      BY <3>2 DEF LearnerRuns, TypeOK, States, Learners, Gpus
    <3> HIDE DEF e
    <3>4. /\ state'.phase = state.phase /\ state'.stage = state.stage /\ state'.pending = state.pending
          /\ state'.checkpoint = state.checkpoint
          /\ state'.ladder = {r \in state.ladder : r[1] # e.pos} \cup {<<e.pos, e.line>>}
      BY <2>2, StandsFor
    <3>5. ASSUME NEW r \in state'.ladder
          PROVE  r[1] >= 1 /\ (r[1] <= state.checkpoint.pos => r[2] = state.checkpoint.fixed[r[1]])
      <4>1. CASE r \in state.ladder
        BY <4>1, <1>1 DEF Record
      <4>2. CASE r = <<e.pos, e.line>>
        <5>1. r[1] = e.pos /\ r[2] = e.line
          BY <4>2
        <5>2. e.pos >= 1 /\ (e.pos <= state.checkpoint.pos => e.pos \in 1..state.checkpoint.pos)
          BY <3>2, <3>3
        <5> QED BY <5>1, <5>2, <3>2, <3>3 DEF Extends
      <4> QED BY <3>4, <4>1, <4>2
    <3>6. Record(state')
      <4>1. \A r \in state'.ladder : r[1] >= 1 /\ (r[1] <= state'.checkpoint.pos => r[2] = state'.checkpoint.fixed[r[1]])
        BY <3>4, <3>5
      <4> HIDE DEF e
      <4>2. /\ state'.phase = state.phase /\ state'.stage = state.stage /\ state'.pending = state.pending
            /\ state'.checkpoint = state.checkpoint
        BY <3>4
      <4> QED BY <4>1, <4>2, <3>3, <1>1 DEF Record
    <3> QED BY <2>2, <3>6 DEF Recorded
  <2> QED BY <1>11, <2>1, <2>2 DEF Reads
<1>12. CASE Stops
  <2>1. ASSUME NEW t \in {state', saved'} PROVE Record(t)
    <3>1. CASE Stand(t) = Stand(saved)
      BY <3>1, <1>1, SameRecord
    <3>2. CASE \E stage \in {state.stage, "selfplay"}, checkpoint \in {state.checkpoint, gpu.learner} :
                 /\ Stands(t, state.phase, stage, state.round, state.pending, checkpoint, state.ladder)
                 /\ checkpoint = state.checkpoint \/ (Model # "none" /\ ~At("seeded"))
      <4>1. PICK stage \in {state.stage, "selfplay"}, checkpoint \in {state.checkpoint, gpu.learner} :
                 /\ Stands(t, state.phase, stage, state.round, state.pending, checkpoint, state.ladder)
                 /\ checkpoint = state.checkpoint \/ (Model # "none" /\ ~At("seeded"))
        BY <3>2
      <4>2. CASE checkpoint = state.checkpoint
        <5>1. /\ t.phase = state.phase /\ t.stage = stage /\ t.pending = state.pending
              /\ t.checkpoint = state.checkpoint /\ t.ladder = state.ladder
          BY <4>1, <4>2, StandsFor
        <5>2. stage = "eval" => state.stage = "eval"
          OBVIOUS
        <5> QED BY <5>1, <5>2, <1>1 DEF Record
      <4>3. CASE checkpoint = gpu.learner /\ Model # "none" /\ ~At("seeded")
        <5>1. stage \in Stages
          BY DEF TypeOK, States, Stages
        <5> QED BY <4>1, <4>3, <5>1, RecordOfLearner
      <4> QED BY <4>1, <4>2, <4>3
    <3> QED BY <1>12, <3>1, <3>2 DEF Stops
  <2> QED BY <2>1 DEF Recorded
<1>13. CASE Begins
  <2>1. state'.phase = saved.phase /\ state'.stage = saved.stage /\ state'.pending = saved.pending
        /\ state'.checkpoint = saved.checkpoint /\ state'.ladder = saved.ladder /\ saved' = state'
    BY <1>13 DEF Begins, Stand
  <2>2. Record(state')
    BY <2>1, <1>1 DEF Record
  <2> QED BY <2>1, <2>2 DEF Recorded
<1>14. CASE Learns
  BY <1>14, <1>1 DEF Learns, Recorded
<1> QED
  BY <1>3, <1>4, <1>5, <1>6, <1>7, <1>8, <1>9, <1>10, <1>11, <1>12, <1>13, <1>14, StandSteps

LEMMA LearnerRunsKept ==
    ASSUME TypeOK, Flow, Recorded, LearnerRuns, Reported, RungsAreThisLearners, [Next]_vars
    PROVE  LearnerRuns'
<1>1. /\ Record(state) /\ Record(saved) /\ state.phase \in PhaseNames /\ gpu.learner \in Learners
      /\ state.checkpoint \in Learners /\ state.checkpoint.pos \in Nat /\ gpu.learner.pos \in Nat
  BY DEF Recorded, TypeOK, States, Gpus, Learners
<1>2. \A p \in Inside : p \notin {"down", "enter", "round", "final", "seeded"}
  BY DEF Inside
<1>3. ASSUME Model' = "none", orch'.at \in {"down", "enter"} PROVE LearnerRuns'
  BY <1>3 DEF LearnerRuns, At
<1>4. Extends(gpu.learner, gpu.learner)
  BY <1>1 DEF Extends
<1>5. CASE Stops
  BY <1>5, <1>3 DEF Stops, AllDown, NoGpu, NoLearner, Model
<1>6. CASE Begins
  BY <1>6, <1>3 DEF Begins, LearnerRuns, Model
<1>7. CASE Quiet
  <2>1. /\ state'.phase = state.phase /\ state'.stage = state.stage /\ state'.checkpoint = state.checkpoint
        /\ gpu'.learner = gpu.learner
    BY <1>7 DEF Quiet, SameStand, Stand
  <2>2. CASE orch'.at = orch.at /\ gpu'.mode = gpu.mode
    BY <2>1, <2>2 DEF LearnerRuns, Model, At
  <2>3. CASE orch'.at \in Inside /\ orch.at \in Inside \cup {"round"}
    BY <2>1, <2>3, <1>2 DEF LearnerRuns, Model, At
  <2> QED BY <1>7, <2>2, <2>3 DEF Quiet
<1>8. CASE PhaseEntered
  <2>1. PICK stage \in Stages, round \in Nat :
          /\ Stands(state', state.phase, stage, round, state.pending, state.checkpoint, state.ladder)
          /\ \/ orch'.at \in Inside
             \/ orch'.at = "round" /\ state.phase = "B2" /\ stage = "collect"
    BY <1>8 DEF PhaseEntered
  <2>2. state'.phase = state.phase /\ state'.stage = stage /\ state'.checkpoint = state.checkpoint
    BY <2>1, StandsFor
  <2>3. gpu'.learner = gpu.learner /\ orch.at = "enter" /\ (state.phase \in {"B1", "B2"} => Model = "bc")
    BY <1>8 DEF PhaseEntered, SameLearner, At
  <2> QED BY <2>1, <2>2, <2>3, <1>2 DEF LearnerRuns, Model, At
<1>9. CASE BcLoaded
  <2>1. state'.phase = state.phase /\ state'.stage = state.stage /\ state'.checkpoint = state.checkpoint
    BY <1>9 DEF BcLoaded, Stand
  <2>2. state.checkpoint.kind # "rnad"
    BY <1>9, <1>1 DEF BcLoaded, Record
  <2> QED BY <1>9, <2>1, <2>2 DEF BcLoaded, LearnerRuns, Model, At
<1>10. CASE Checkpointed
  <2>1. PICK stage \in Stages :
          Stands(state', state.phase, stage, state.round, state.pending, gpu.learner, state.ladder)
    BY <1>10 DEF Checkpointed
  <2>2. state'.phase = state.phase /\ state'.stage = stage /\ state'.checkpoint = gpu.learner
        /\ gpu'.learner = gpu.learner
    BY <1>10, <2>1, StandsFor DEF Checkpointed, SameLearner
  <2>3. CASE orch.at \in Inside /\ orch'.at \in Inside
    BY <2>2, <2>3, <1>2, <1>4 DEF LearnerRuns, Model, At
  <2>4. CASE At("enter") /\ state.phase = "done" /\ orch'.at \in Inside
    BY <2>2, <2>4, <1>2, <1>4 DEF LearnerRuns, Model, At
  <2>5. CASE At("enter") /\ state.phase = "B3" /\ Model = "bc" /\ orch'.at = "final"
    BY <2>2, <2>5 DEF LearnerRuns, Model, At
  <2> QED BY <1>10, <2>3, <2>4, <2>5 DEF Checkpointed
<1>11. CASE Seeds
  <2>1. state'.phase = "B3" /\ state'.checkpoint.kind # "rnad"
    BY <1>11 DEF Seeds, Stand
  <2>2. Model' = "rnad" /\ Sound(gpu'.learner) /\ gpu'.mode = "idle" /\ orch'.at = "seeded"
    <3>1. Len(<<>>) = 0
      OBVIOUS
    <3> QED BY <3>1, <1>11 DEF Seeds, Model, Sound
  <2> QED BY <2>1, <2>2 DEF LearnerRuns, At
<1>12. CASE SeedRecorded
  <2>1. state'.phase = "B4" /\ state'.checkpoint = gpu.learner
    BY <1>12 DEF SeedRecorded, Stands, Stand
  <2>2. Model = "rnad" /\ Sound(gpu.learner) /\ gpu'.learner = gpu.learner /\ orch'.at = "enter"
    BY <1>12 DEF SeedRecorded, LearnerRuns, SameLearner
  <2> QED BY <2>1, <2>2, <1>4 DEF LearnerRuns, Model, At
<1>13. CASE Moved
  <2>1. PICK to \in PhaseNames :
          /\ Stands(state', to, "", state.round, NoPhase, state.checkpoint, state.ladder)
          /\ \/ <<state.phase, to>> \in {<<"B0", "B1">>, <<"B1", "B2">>, <<"B2", "B3">>, <<"B4", "B5">>,
                                         <<"B5", "done">>} /\ orch.at \in Inside
             \/ state.phase = "B3" /\ to = "B4" /\ state.checkpoint.kind = "rnad" /\ At("enter") /\ Model = "none"
    BY <1>13 DEF Moved
  <2>2. state'.phase = to /\ state'.checkpoint = state.checkpoint
    BY <2>1 DEF Stands, Stand
  <2>3. gpu'.learner = gpu.learner /\ orch'.at = "enter"
    BY <1>13 DEF Moved, SameLearner
  <2>4. CASE Model = "none"
    BY <2>3, <2>4, <1>3 DEF Model
  <2>5. CASE Model # "none"
    <3>1. Model \in {"bc", "rnad"} /\ orch.at \in Inside
      BY <2>1, <2>5, <1>1 DEF Model, Learners
    <3>2. (Model = "bc" => to \in {"B1", "B2", "B3"}) /\ (Model = "rnad" => to \in {"B3", "B4", "B5", "done"})
      BY <2>1, <2>5 DEF LearnerRuns
    <3> QED BY <2>2, <2>3, <3>1, <3>2, <1>2 DEF LearnerRuns, Model, At
  <2> QED BY <2>4, <2>5
<1>14. CASE Pends \/ RoundBegins
  <2>1. /\ state'.phase = state.phase /\ state'.checkpoint = state.checkpoint
        /\ state'.stage = IF RoundBegins THEN "collect" ELSE state.stage
    BY <1>14, StandsFor DEF Pends, RoundBegins
  <2>2. gpu'.learner = gpu.learner /\ orch.at \in Inside /\ state.phase \in {"B1", "B2"}
        /\ (orch'.at \in Inside \/ (orch'.at = "round" /\ RoundBegins /\ state.phase = "B2"))
    BY <1>14 DEF Pends, RoundBegins, SameLearner
  <2>3. Model = "bc"
    BY <2>2, <1>2 DEF LearnerRuns, At
  <2> QED BY <2>1, <2>2, <2>3, <1>2 DEF LearnerRuns, Model, At
<1>15. CASE RnadLoaded
  <2>1. state'.phase = state.phase /\ state'.checkpoint = state.checkpoint
    BY <1>15, StandsFor DEF RnadLoaded
  <2>2. state.checkpoint.kind = "rnad" /\ Sound(state.checkpoint)
    BY <1>15, <1>1 DEF RnadLoaded, Record
  <2>3. /\ gpu'.learner.kind = "rnad" /\ gpu'.learner.pos = state.checkpoint.pos
        /\ gpu'.learner.fixed = state.checkpoint.fixed /\ orch'.at = "enter" /\ state.phase \in {"B4", "B5"}
    BY <1>15, <1>1, <2>2 DEF RnadLoaded, Learners
  <2>4. Sound(gpu'.learner) /\ Extends(gpu'.learner, state.checkpoint)
    BY <2>2, <2>3, <1>1 DEF Sound, Extends
  <2> QED BY <2>1, <2>2, <2>3, <2>4 DEF LearnerRuns, Model, At
<1>16. CASE Reads
  <2>1. state'.phase = state.phase /\ state'.stage = state.stage /\ state'.checkpoint = state.checkpoint
        /\ gpu' = gpu /\ orch' = orch
    <3>1. CASE SameStand
      BY <3>1, <1>16 DEF SameStand, Stand, Reads
    <3>2. CASE ~SameStand
      BY <3>2, <1>16, StandsFor DEF Reads
    <3> QED BY <3>1, <3>2
  <2> QED BY <2>1 DEF LearnerRuns, Model, At
<1>17. CASE Learns
  <2>1. state' = state /\ orch' = orch
    BY <1>17 DEF Learns
  <2>2. CASE BcStep
    <3>1. Model = "bc" /\ gpu'.learner.kind = "bc"
      BY <2>2, <1>1 DEF BcStep, Learning, Model, TypeOK, Gpus, Learners
    <3> QED BY <2>1, <3>1 DEF LearnerRuns, Model, At
  <2>3. CASE Publish
    <3>1. gpu'.learner = gpu.learner /\ gpu'.mode = gpu.mode
      BY <2>3 DEF Publish, TypeOK, Gpus
    <3> QED BY <2>1, <3>1 DEF LearnerRuns, Model, At
  <2>4. CASE Iteration
    <3> DEFINE l == [gpu.learner EXCEPT !.pos = gpu.learner.pos + 1,
                                        !.fixed = Append(gpu.learner.fixed, gpu.learner.line)]
    <3>1. Model = "rnad" /\ gpu.mode = "rnad" /\ ~At("seeded") /\ Sound(gpu.learner)
      BY <2>4 DEF Iteration, Learning, LearnerRuns
    <3>2. gpu'.learner = l
      BY <2>4 DEF Iteration, TypeOK, Gpus, Learners
    <3>3. /\ l.kind = "rnad" /\ l.pos = gpu.learner.pos + 1 /\ Len(gpu.learner.fixed) = gpu.learner.pos
          /\ l.fixed = Append(gpu.learner.fixed, gpu.learner.line) /\ gpu.learner.fixed \in Seq(Nat)
          /\ gpu.learner.line \in Nat
      BY <3>1, <1>1 DEF Learners, Model, Sound
    <3> HIDE DEF l
    <3>4. Sound(l) /\ \A i \in 1..gpu.learner.pos : l.fixed[i] = gpu.learner.fixed[i]
      BY <3>3, AppendProperties DEF Sound
    <3>5. Extends(gpu.learner, state.checkpoint)
      BY <3>1 DEF LearnerRuns
    <3>6. Extends(l, state.checkpoint)
      <4>1. state.checkpoint.pos <= gpu.learner.pos /\ \A i \in 1..state.checkpoint.pos : i \in 1..gpu.learner.pos
        BY <3>5, <1>1 DEF Extends
      <4>2. state.checkpoint.pos <= l.pos
        BY <4>1, <3>3, <1>1
      <4> QED BY <4>1, <4>2, <3>4, <3>5 DEF Extends
    <3> QED BY <2>1, <3>1, <3>2, <3>3, <3>4, <3>6 DEF LearnerRuns, Model, At
  <2> QED BY <1>17, <2>2, <2>3, <2>4 DEF Learns
<1> QED
  BY <1>5, <1>6, <1>7, <1>8, <1>9, <1>10, <1>11, <1>12, <1>13, <1>14, <1>15, <1>16, <1>17, StandSteps

LEMMA ReportedKept ==
    ASSUME TypeOK, Flow, Recorded, LearnerRuns, Reported, [Next]_vars
    PROVE  Reported'
<1>1. gpu.learner \in Learners /\ events \in Seq(Events) /\ gpu.learner.pos \in Nat /\ Len(events) \in Nat
  BY LenProperties DEF TypeOK, Gpus, Learners
<1>2. \A p \in Inside : p \notin {"down", "enter", "round", "final", "seeded"}
  BY DEF Inside
<1>3. ASSUME events' = <<>> PROVE Reported'
  <2>1. Len(events') = 0
    BY <1>3
  <2> QED BY <2>1, <1>3 DEF Reported
<1>4. ASSUME gpu'.learner = gpu.learner, events' = events, At("seeded")' => At("seeded") \/ Model # "rnad" PROVE Reported'
  BY <1>4 DEF Reported, Model, At
<1>5. CASE Quiet
  <2>1. At("seeded")' => At("seeded")
    BY <1>5, <1>2 DEF Quiet, At
  <2> QED BY <1>5, <2>1, <1>4 DEF Quiet
<1>6. CASE PhaseEntered \/ Checkpointed \/ SeedRecorded \/ Moved \/ Pends \/ RoundBegins
  <2>1. ~At("seeded")'
    BY <1>6, <1>2 DEF PhaseEntered, Checkpointed, SeedRecorded, Moved, Pends, RoundBegins, At
  <2> QED BY <1>6, <2>1, <1>4 DEF PhaseEntered, Checkpointed, SeedRecorded, Moved, Pends, RoundBegins, SameLearner
<1>7. CASE BcLoaded \/ RnadLoaded
  <2>1. events' = <<>>
    BY <1>7 DEF BcLoaded, RnadLoaded, Reported
  <2> QED BY <2>1, <1>3
<1>8. CASE Seeds
  <2>1. Model # "rnad" /\ events' = events /\ Model' = "rnad"
    BY <1>8 DEF Seeds, LearnerRuns, Model
  <2> QED BY <2>1 DEF Reported
<1>9. CASE Stops
  BY <1>9, <1>3 DEF Stops, AllDown
<1>10. CASE Begins
  BY <1>10, <1>4 DEF Begins, At
<1>11. CASE Reads
  <2>1. events # <<>> /\ gpu' = gpu /\ events' = Tail(events) /\ orch' = orch
    BY <1>11 DEF Reads
  <2>2. Len(events') = Len(events) - 1 /\ \A i \in 1..Len(events') : events'[i] = events[i + 1]
    BY <2>1, <1>1, HeadTailProperties
  <2>3. \A i \in 1..Len(events') : i + 1 \in 1..Len(events)
    BY <2>2, <1>1
  <2>4. Model # "none"
    BY <2>1 DEF Reported
  <2> QED BY <2>1, <2>2, <2>3, <2>4 DEF Reported, Model, At
<1>12. CASE Learns
  <2>1. orch' = orch
    BY <1>12 DEF Learns
  <2>2. CASE BcStep
    <3>1. Model' = "bc"
      BY <2>2, <1>1 DEF BcStep, Learning, Model, TypeOK, Gpus, Learners
    <3> DEFINE e == [event |-> "bc", pos |-> gpu.learner.pos + 1, line |-> gpu.learner.line]
    <3>2. events' = <<e>> /\ e.event = "bc"
      BY <2>2 DEF BcStep
    <3> HIDE DEF e
    <3>3. \A i \in 1..Len(events') : events'[i].event = "bc"
      BY <3>2
    <3> QED BY <3>1, <3>3 DEF Reported
  <2>3. CASE Publish
    <3> DEFINE e == [event |-> "saved", pos |-> gpu.learner.pos, line |-> gpu.learner.line]
    <3>1. gpu'.learner = gpu.learner /\ events' = Append(events, e) /\ e \in Events /\ e.event = "saved"
      BY <2>3, <1>1 DEF Publish, Emit, TypeOK, Gpus, Learners, Events
    <3>2. Model = "rnad" /\ ~At("seeded")
      BY <2>3 DEF Publish, Learning, LearnerRuns
    <3> HIDE DEF e
    <3>3. Len(events') = Len(events) + 1 /\ (\A i \in 1..Len(events) : events'[i] = events[i])
          /\ events'[Len(events) + 1] = e
      BY <3>1, <1>1, AppendProperties
    <3>4. \A i \in 1..Len(events') : i \in 1..Len(events) \/ i = Len(events) + 1
      BY <3>3, <1>1
    <3> QED BY <2>1, <3>1, <3>2, <3>3, <3>4 DEF Reported, Model, At
  <2>4. CASE Iteration
    <3> DEFINE e == [event |-> "iteration", pos |-> gpu.learner.pos + 1, line |-> gpu.learner.line]
               l == [gpu.learner EXCEPT !.pos = gpu.learner.pos + 1,
                                        !.fixed = Append(gpu.learner.fixed, gpu.learner.line)]
    <3>1. Model = "rnad" /\ gpu.mode = "rnad" /\ ~At("seeded") /\ Sound(gpu.learner)
      BY <2>4 DEF Iteration, Learning, LearnerRuns
    <3>2. gpu'.learner = l /\ events' = Append(events, e) /\ e \in Events
          /\ e.event = "iteration" /\ e.pos = gpu.learner.pos + 1 /\ e.line = gpu.learner.line
      BY <2>4, <1>1 DEF Iteration, Emit, TypeOK, Gpus, Learners, Events
    <3>3. /\ l.kind = "rnad" /\ l.pos = gpu.learner.pos + 1 /\ Len(gpu.learner.fixed) = gpu.learner.pos
          /\ l.fixed = Append(gpu.learner.fixed, gpu.learner.line) /\ gpu.learner.fixed \in Seq(Nat)
          /\ gpu.learner.line \in Nat
      BY <3>1, <1>1 DEF Learners, Model, Sound
    <3> HIDE DEF e, l
    <3>4. /\ \A i \in 1..gpu.learner.pos : l.fixed[i] = gpu.learner.fixed[i]
          /\ l.fixed[gpu.learner.pos + 1] = gpu.learner.line
      BY <3>3, AppendProperties
    <3>5. Len(events') = Len(events) + 1 /\ (\A i \in 1..Len(events) : events'[i] = events[i])
          /\ events'[Len(events) + 1] = e
      BY <3>2, <1>1, AppendProperties
    <3>6. ASSUME NEW i \in 1..Len(events')
          PROVE  events'[i].event = "iteration" =>
                    events'[i].pos \in 1..l.pos /\ events'[i].line = l.fixed[events'[i].pos]
      <4>1. CASE i \in 1..Len(events)
        <5>1. events'[i] = events[i]
          BY <3>5, <4>1
        <5>2. events[i].event = "iteration" =>
                 events[i].pos \in 1..gpu.learner.pos /\ events[i].line = gpu.learner.fixed[events[i].pos]
          BY <4>1 DEF Reported
        <5>3. \A p \in 1..gpu.learner.pos : p \in 1..l.pos
          BY <3>3, <1>1
        <5> QED BY <5>1, <5>2, <5>3, <3>4
      <4>2. CASE i = Len(events) + 1
        <5>1. l.pos \in 1..l.pos
          BY <3>3, <1>1
        <5> QED BY <4>2, <5>1, <3>2, <3>3, <3>4, <3>5
      <4> QED BY <4>1, <4>2, <3>5, <1>1
    <3> QED BY <2>1, <3>1, <3>2, <3>3, <3>6 DEF Reported, Model, At
  <2> QED BY <1>12, <2>2, <2>3, <2>4 DEF Learns
<1> QED BY <1>5, <1>6, <1>7, <1>8, <1>9, <1>10, <1>11, <1>12, StandSteps

LEMMA RungsKept ==
    ASSUME TypeOK, Flow, Recorded, LearnerRuns, Reported, RungsAreThisLearners, [Next]_vars
    PROVE  RungsAreThisLearners'
<1>1. /\ Record(state) /\ gpu.learner \in Learners /\ gpu.learner.pos \in Nat /\ state.ladder \in SUBSET (Nat \X Nat)
      /\ state.checkpoint \in Learners /\ state.checkpoint.pos \in Nat
  BY DEF Recorded, TypeOK, States, Gpus, Learners
<1>2. ASSUME gpu'.learner = gpu.learner, state'.ladder = state.ladder PROVE RungsAreThisLearners'
  BY <1>2 DEF RungsAreThisLearners, Model
<1>3. ASSUME Model' # "rnad" PROVE RungsAreThisLearners'
  BY <1>3 DEF RungsAreThisLearners
<1>4. CASE Quiet
  BY <1>4, <1>2 DEF Quiet, SameStand, Stand
<1>5. CASE PhaseEntered \/ Checkpointed \/ SeedRecorded \/ Moved \/ Pends \/ RoundBegins
  BY <1>5, <1>2 DEF PhaseEntered, Checkpointed, SeedRecorded, Moved, Pends, RoundBegins, SameLearner, Stands, Stand
<1>6. CASE BcLoaded
  BY <1>6, <1>3 DEF BcLoaded, Model
<1>7. CASE Seeds
  <2>1. state'.ladder = {}
    BY <1>7, <1>1 DEF Seeds, Stand, Record
  <2> QED BY <2>1 DEF RungsAreThisLearners
<1>8. CASE Stops
  BY <1>8, <1>3 DEF Stops, AllDown, NoGpu, NoLearner, Model
<1>9. CASE Begins
  BY <1>9, <1>3 DEF Begins, LearnerRuns, Model
<1>10. CASE RnadLoaded
  <2>1. state'.ladder = {r \in state.ladder : r[1] <= state.checkpoint.pos}
    BY <1>10, StandsFor DEF RnadLoaded
  <2>2. gpu'.learner.pos = state.checkpoint.pos /\ gpu'.learner.fixed = state.checkpoint.fixed
    BY <1>10, <1>1 DEF RnadLoaded, Learners
  <2> QED BY <2>1, <2>2, <1>1 DEF RungsAreThisLearners, Record
<1>11. CASE Reads
  <2> DEFINE e == Head(events)
  <2>1. CASE SameStand
    BY <2>1, <1>2, <1>11 DEF SameStand, Stand, Reads
  <2>2. CASE /\ e.event = "iteration"
             /\ Stands(state', state.phase, state.stage, state.round, state.pending, state.checkpoint,
                       {r \in state.ladder : r[1] # e.pos} \cup {<<e.pos, e.line>>})
    <3>1. 1 \in 1..Len(events) /\ e = events[1]
      <4>1. events \in Seq(Events) /\ events # <<>>
        BY <1>11 DEF Reads, TypeOK
      <4> QED BY <4>1
    <3>2. Model = "rnad" /\ e.pos \in 1..gpu.learner.pos /\ e.line = gpu.learner.fixed[e.pos]
      <4>1. events[1].event = "iteration"
        BY <2>2, <3>1
      <4> QED BY <3>1, <4>1 DEF Reported
    <3> HIDE DEF e
    <3>3. state'.ladder = {r \in state.ladder : r[1] # e.pos} \cup {<<e.pos, e.line>>} /\ gpu' = gpu
      BY <1>11, <2>2, StandsFor DEF Reads
    <3>4. ASSUME NEW r \in state'.ladder PROVE r[1] <= gpu.learner.pos /\ r[2] = gpu.learner.fixed[r[1]]
      <4>1. CASE r \in state.ladder
        BY <4>1, <3>2 DEF RungsAreThisLearners
      <4>2. CASE r = <<e.pos, e.line>>
        <5>1. r[1] = e.pos /\ r[2] = e.line
          BY <4>2
        <5> QED BY <5>1, <3>2, <1>1
      <4> QED BY <3>3, <4>1, <4>2
    <3> QED BY <3>3, <3>4 DEF RungsAreThisLearners, Model
  <2> QED BY <1>11, <2>1, <2>2 DEF Reads
<1>12. CASE Learns
  <2>1. state' = state
    BY <1>12 DEF Learns
  <2>2. CASE BcStep
    <3>1. Model' = "bc"
      BY <2>2, <1>1 DEF BcStep, Learning, Model, TypeOK, Gpus, Learners
    <3> QED BY <3>1, <1>3
  <2>3. CASE Publish
    BY <2>1, <2>3, <1>2 DEF Publish, TypeOK, Gpus
  <2>4. CASE Iteration
    <3> DEFINE l == [gpu.learner EXCEPT !.pos = gpu.learner.pos + 1,
                                        !.fixed = Append(gpu.learner.fixed, gpu.learner.line)]
    <3>1. Model = "rnad" /\ Sound(gpu.learner)
      BY <2>4 DEF Iteration, Learning, LearnerRuns
    <3>2. gpu'.learner = l
      BY <2>4 DEF Iteration, TypeOK, Gpus, Learners
    <3>3. /\ l.pos = gpu.learner.pos + 1 /\ Len(gpu.learner.fixed) = gpu.learner.pos
          /\ l.fixed = Append(gpu.learner.fixed, gpu.learner.line) /\ gpu.learner.fixed \in Seq(Nat)
          /\ gpu.learner.line \in Nat
      BY <3>1, <1>1 DEF Learners, Model, Sound
    <3> HIDE DEF l
    <3>4. \A i \in 1..gpu.learner.pos : l.fixed[i] = gpu.learner.fixed[i]
      BY <3>3, AppendProperties
    <3>5. ASSUME NEW r \in state.ladder PROVE r[1] <= l.pos /\ r[2] = l.fixed[r[1]]
      <4>1. r[1] <= gpu.learner.pos /\ r[2] = gpu.learner.fixed[r[1]] /\ r[1] >= 1 /\ r[1] \in Nat
        BY <3>1, <1>1 DEF RungsAreThisLearners, Record
      <4>2. r[1] \in 1..gpu.learner.pos /\ r[1] <= l.pos
        BY <4>1, <3>3, <1>1
      <4> QED BY <4>1, <4>2, <3>4
    <3> QED BY <2>1, <3>2, <3>5 DEF RungsAreThisLearners
  <2> QED BY <1>12, <2>2, <2>3, <2>4 DEF Learns
<1> QED BY <1>4, <1>5, <1>6, <1>7, <1>8, <1>9, <1>10, <1>11, <1>12, StandSteps

-----------------------------------------------------------------------------
(* The exports, and what the actors play.                                   *)

LEMMA NoExportIs ==
    /\ NoExport.kind = "none" /\ NoExport.done = FALSE /\ NoExport.epoch = 0
    /\ exporter.busy # NoExport /\ Exporting => Model # "none"
    /\ Model = "none" /\ Exporting => exporter.busy = NoExport /\ exporter.next = NoExport /\ ~orch.live
BY DEF NoExport, Exporting

LEMMA ExportingKept ==
    ASSUME TypeOK, Flow, Recorded, LearnerRuns, Reported, Exporting, [Next]_vars
    PROVE  Exporting'
<1>1. /\ exporter \in [busy : Exports, next : Exports] /\ orch.epoch \in Nat /\ current \in Exports
      /\ exporter.busy \in Exports /\ exporter.next \in Exports /\ exporter.busy.epoch \in Nat
      /\ exporter.next.epoch \in Nat /\ gpu.learner.line \in Nat /\ gpu.learner.kind \in {"none", "bc", "rnad"}
  BY DEF TypeOK, Loops, Exports, Gpus, Learners
<1>2. \A p \in Inside : p \notin {"down", "enter", "round", "final", "seeded"}
  BY DEF Inside
<1>3. ASSUME UNCHANGED <<exporter, current>>, orch'.live = orch.live, orch'.epoch = orch.epoch,
             gpu'.learner.kind = gpu.learner.kind, gpu'.learner.line = gpu.learner.line,
             orch'.at = "round" \/ (~At("round") /\ state'.round = state.round)
      PROVE  Exporting'
  <2>1. ASSUME NEW x \in Exports, Fits(x)
        PROVE  /\ x.kind = gpu'.learner.kind /\ x.line = gpu'.learner.line
               /\ orch'.at = "round" \/ x.round = IF gpu'.learner.kind = "bc" THEN state'.round ELSE 0
    BY <1>3, <2>1 DEF Fits, Model
  <2> QED BY <1>1, <1>3, <2>1 DEF Exporting, Fits, Model, At
<1>4. ASSUME NewEpoch, gpu'.learner.kind # "none" PROVE Exporting'
  <2>1. \A x \in {exporter.busy, exporter.next} :
          x # NoExport => x.kind # "none" /\ x.epoch <= orch'.epoch /\ x.epoch # orch'.epoch
    BY <1>1, <1>4 DEF NewEpoch, Exporting
  <2> QED BY <1>4, <2>1 DEF NewEpoch, Exporting, Model
<1>5. ASSUME exporter' = [busy |-> NoExport, next |-> NoExport], orch'.live = FALSE PROVE Exporting'
  BY <1>5, NoExportIs DEF Exporting
<1>6. ASSUME NEW x \in Exports, Requested(x), x.kind = Model, Model # "none", ~x.done, x.epoch = orch'.epoch,
             Fits(x)', gpu'.learner.kind = gpu.learner.kind,
             \/ orch'.live = FALSE /\ orch'.epoch = orch.epoch + 1
             \/ /\ orch' = orch /\ ~At("round") /\ gpu' = gpu /\ state'.round = state.round,
             current' = current
      PROVE  Exporting'
  <2>1. \A y \in {exporter.busy, exporter.next} :
          y # NoExport => /\ y.kind # "none" /\ y.epoch <= orch'.epoch /\ (y.epoch = orch'.epoch => Fits(y)')
                          /\ orch'.live => y.epoch = orch'.epoch
    <3>1. CASE orch'.live = FALSE /\ orch'.epoch = orch.epoch + 1
      BY <3>1, <1>1 DEF Exporting
    <3>2. CASE orch' = orch /\ ~At("round") /\ gpu' = gpu /\ state'.round = state.round
      BY <3>2, <1>1 DEF Exporting, Fits, Model, At
    <3> QED BY <1>6, <3>1, <3>2
  <2>2. x # NoExport
    BY <1>6, NoExportIs
  <2>3. orch'.live => Model' # "none" /\ Fits(current)'
    BY <1>6 DEF Exporting, Fits, Model, At
  <2>4. CASE exporter.busy = NoExport
    <3>1. exporter.next = NoExport
      BY <2>4 DEF Exporting
    <3>2. exporter'.busy = x /\ exporter'.next = NoExport
      BY <1>1, <1>6, <2>4, <3>1 DEF Requested
    <3>3. Model' = Model /\ x.epoch <= orch'.epoch /\ ~NoExport.done
      BY <1>1, <1>6, NoExportIs DEF Model
    <3> QED BY <1>6, <2>2, <2>3, <3>2, <3>3 DEF Exporting, Fits, Model
  <2>5. CASE exporter.busy # NoExport
    <3>1. exporter'.busy = exporter.busy /\ exporter'.next = x
      BY <1>1, <1>6, <2>5 DEF Requested
    <3>2. exporter.busy.epoch <= x.epoch
      BY <1>6, <2>1, <2>5
    <3>3. Model' = Model /\ x.epoch <= orch'.epoch
      BY <1>1, <1>6 DEF Model
    <3>4. exporter.busy.done => current' = exporter.busy
      BY <1>6 DEF Exporting
    <3> QED BY <1>6, <2>1, <2>2, <2>3, <2>5, <3>1, <3>2, <3>3, <3>4 DEF Exporting, Fits, Model
  <2> QED BY <2>4, <2>5
<1>7. CASE Quiet
  <2>1. state'.round = state.round /\ gpu'.learner = gpu.learner /\ state'.phase = state.phase
    BY <1>7 DEF Quiet, SameStand, Stand
  <2>2. CASE Aside /\ (orch'.at = orch.at \/ orch.at \in Inside)
    <3>1. orch'.at = "round" \/ ~At("round")
      BY <2>2, <1>2 DEF At
    <3> QED BY <1>3, <2>1, <2>2, <3>1 DEF Aside
  <2>3. CASE /\ At("round") /\ Requested(Export(state.round, orch.epoch + 1)) /\ current' = current
             /\ orch'.live = FALSE /\ orch'.epoch = orch.epoch + 1
    <3>1. Model = "bc" /\ state.round \in Nat
      BY <2>3 DEF LearnerRuns, TypeOK, States
    <3>2. PICK x \in Exports :
            /\ x = Export(state.round, orch.epoch + 1)
            /\ x.kind = Model /\ ~x.done /\ x.epoch = orch'.epoch /\ x.line = gpu.learner.line
            /\ x.round = state.round
      <4> DEFINE y == Export(state.round, orch.epoch + 1)
      <4>1. y = [kind |-> "bc", line |-> gpu.learner.line, round |-> state.round,
                 epoch |-> orch'.epoch, done |-> FALSE]
        BY <3>1, <2>3 DEF Export
      <4> HIDE DEF y
      <4>2. y \in Exports /\ y.kind = Model /\ ~y.done /\ y.epoch = orch'.epoch
            /\ y.line = gpu.learner.line /\ y.round = state.round
        BY <3>1, <4>1, <1>1, <2>3 DEF Exports
      <4> QED BY <4>2 DEF y
    <3>3. Fits(x)'
      BY <2>1, <3>1, <3>2 DEF Fits, Model
    <3>4. Requested(x)
      BY <2>3, <3>2
    <3> QED BY <1>6, <2>1, <2>3, <3>1, <3>2, <3>3, <3>4
  <2>4. CASE LiveTick /\ exporter.busy.done
    <3>1. exporter.busy # NoExport /\ Model # "none" /\ current = exporter.busy /\ ~At("round")
      BY <2>4, NoExportIs DEF Exporting, LiveTick, At
    <3>2. /\ exporter'.busy = exporter.next /\ exporter'.next = NoExport /\ current' = current
          /\ orch'.live = (orch.live \/ exporter.busy.epoch = orch.epoch) /\ orch'.epoch = orch.epoch
          /\ state' = state /\ gpu' = gpu /\ orch'.at = "eval"
      <4>1. /\ exporter' = [busy |-> exporter.next, next |-> NoExport] /\ current' = current
            /\ orch' = [orch EXCEPT !.at = "eval", !.live = @ \/ OfThisEpoch(exporter.busy)]
            /\ state' = state /\ gpu' = gpu
        BY <2>4 DEF LiveTick
      <4>2. orch \in Loops
        BY DEF TypeOK
      <4> QED BY <4>1, <4>2 DEF OfThisEpoch, Loops
    <3>3. \A x \in Exports : Fits(x) => Fits(x)'
      BY <3>1, <3>2 DEF Fits, Model, At
    <3>4. orch'.live => Fits(current)
      BY <3>1, <3>2 DEF Exporting
    <3>5. exporter.next # NoExport =>
             /\ exporter.next.kind # "none" /\ exporter.next.epoch <= orch.epoch
             /\ (exporter.next.epoch = orch.epoch => Fits(exporter.next))
             /\ orch'.live => exporter.next.epoch = orch.epoch
      <4>1. exporter.next # NoExport =>
               /\ exporter.next.kind # "none" /\ exporter.next.epoch <= orch.epoch
               /\ (exporter.next.epoch = orch.epoch => Fits(exporter.next))
               /\ orch.live => exporter.next.epoch = orch.epoch
               /\ exporter.busy.epoch <= exporter.next.epoch
        BY DEF Exporting
      <4> HIDE DEF Fits
      <4>2. exporter.next # NoExport /\ exporter.busy.epoch = orch.epoch => exporter.next.epoch = orch.epoch
        BY <1>1, <4>1
      <4> QED BY <4>1, <4>2, <3>2
    <3>6. Model' = Model /\ ~exporter.next.done
      BY <3>2 DEF Model, Exporting
    <3> HIDE DEF Fits, Model
    <3>7. orch'.live => Fits(current)'
      BY <3>2, <3>3, <3>4, <1>1 DEF Fits, Model
    <3>8. exporter.next.epoch = orch.epoch => (Fits(exporter.next) => Fits(exporter.busy)')
      BY <3>1, <3>2 DEF Fits, Model, At
    <3> QED BY <3>1, <3>2, <3>5, <3>6, <3>7, <3>8, NoExportIs DEF Exporting
  <2>5. CASE Exported
    <3> DEFINE x == exporter.busy
               y == [exporter.busy EXCEPT !.done = TRUE]
    <3>1. /\ x # NoExport /\ exporter' = [exporter EXCEPT !.busy.done = TRUE]
          /\ current' = exporter'.busy /\ gpu' = gpu /\ state' = state /\ orch' = orch
      BY <2>5 DEF Exported, Running
    <3>2. exporter'.busy = y /\ exporter'.next = exporter.next /\ current' = y
      BY <1>1, <3>1
    <3>3. /\ y \in Exports /\ y.done /\ y.kind = x.kind /\ y.line = x.line /\ y.round = x.round
          /\ y.epoch = x.epoch
      BY <1>1 DEF Exports
    <3> HIDE DEF y, x
    <3>4. y # NoExport
      BY <3>3, NoExportIs
    <3>5. Fits(x) => Fits(y)
      BY <3>3 DEF Fits
    <3>6. /\ y.kind # "none" /\ y.epoch <= orch.epoch /\ (y.epoch = orch.epoch => Fits(y))
          /\ orch.live => y.epoch = orch.epoch /\ Fits(y)
      BY <3>1, <3>3, <3>5 DEF Exporting, x
    <3>7. /\ exporter.next # NoExport =>
               /\ exporter.next.kind # "none" /\ exporter.next.epoch <= orch.epoch
               /\ (exporter.next.epoch = orch.epoch => Fits(exporter.next))
               /\ orch.live => exporter.next.epoch = orch.epoch
               /\ y.epoch <= exporter.next.epoch
          /\ ~exporter.next.done /\ Model # "none"
      BY <3>1, <3>3, NoExportIs DEF Exporting, x
    <3> QED BY <3>1, <3>2, <3>3, <3>4, <3>6, <3>7 DEF Exporting, Fits, Model, At
  <2>6. CASE Shutdown
    <3>1. /\ exporter' = [busy |-> NoExport, next |-> NoExport] /\ orch'.live = orch.live
          /\ current' = IF exporter.busy = NoExport THEN current ELSE [exporter.busy EXCEPT !.done = TRUE]
          /\ state'.round = state.round /\ gpu' = gpu /\ ~At("round")
      BY <2>1, <2>6, <1>1 DEF Shutdown, Goto, TypeOK, Loops, At
    <3>2. orch.live => Model # "none" /\ Fits(current)'
      <4>1. CASE exporter.busy = NoExport
        BY <3>1, <4>1 DEF Exporting, Fits, Model, At
      <4>2. CASE exporter.busy # NoExport
        <5>1. orch.live => Fits(exporter.busy) /\ Model # "none"
          BY <4>2 DEF Exporting
        <5>2. /\ current'.kind = exporter.busy.kind /\ current'.line = exporter.busy.line
              /\ current'.round = exporter.busy.round
          BY <1>1, <3>1, <4>2 DEF Exports
        <5> QED BY <3>1, <5>1, <5>2 DEF Fits, Model, At
      <4> QED BY <4>1, <4>2
    <3>3. Model' = Model
      BY <3>1 DEF Model
    <3> QED BY <3>1, <3>2, <3>3, NoExportIs DEF Exporting
  <2> QED BY <1>7, <2>2, <2>3, <2>4, <2>5, <2>6 DEF Quiet
<1>8. CASE PhaseEntered
  <2>1. orch'.at = "round" \/ state'.round = state.round
    BY <1>8, StandsFor DEF PhaseEntered
  <2> QED BY <1>3, <1>8, <2>1 DEF PhaseEntered, Aside, SameLearner, At
<1>9. CASE BcLoaded
  <2>1. /\ exporter.busy = NoExport /\ exporter.next = NoExport /\ ~orch.live /\ UNCHANGED exporter
        /\ orch'.live = orch.live
    BY <1>9, NoExportIs DEF BcLoaded, Aside
  <2> QED BY <2>1, NoExportIs DEF Exporting
<1>10. CASE Checkpointed
  <2>1. state'.round = state.round /\ ~At("round")
    BY <1>10, <1>2, StandsFor DEF Checkpointed, At
  <2> QED BY <1>3, <1>10, <2>1 DEF Checkpointed, Aside, SameLearner
<1>11. CASE Seeds
  BY <1>11, <1>4 DEF Seeds
<1>12. CASE SeedRecorded
  <2>1. state'.round = state.round
    BY <1>12 DEF SeedRecorded, Stands, Stand
  <2> QED BY <1>3, <1>12, <2>1 DEF SeedRecorded, Aside, SameLearner, At
<1>13. CASE Moved
  <2>1. state'.round = state.round /\ ~At("round")
    BY <1>13, <1>2 DEF Moved, Stands, Stand, At
  <2> QED BY <1>3, <1>13, <2>1 DEF Moved, Aside, SameLearner
<1>14. CASE Pends
  <2>1. state'.round = state.round /\ ~At("round")
    BY <1>14, <1>2, StandsFor DEF Pends, At
  <2> QED BY <1>3, <1>14, <2>1 DEF Pends, Aside, SameLearner
<1>15. CASE RoundBegins
  BY <1>3, <1>15 DEF RoundBegins, Aside, SameLearner
<1>16. CASE RnadLoaded
  <2>1. gpu'.learner.kind = "rnad"
    <3>1. state.checkpoint \in Learners /\ state.checkpoint.kind = "rnad"
      BY <1>16 DEF RnadLoaded, Recorded, Record, TypeOK, States
    <3> QED BY <3>1, <1>16 DEF RnadLoaded, Learners
  <2> QED BY <1>4, <1>16, <2>1 DEF RnadLoaded
<1>17. CASE Reads
  <2> DEFINE e == Head(events)
  <2>1. state'.round = state.round /\ ~At("round") /\ orch' = orch /\ gpu' = gpu
    BY <1>17, StandsFor DEF Reads, SameStand, Stand, At
  <2>2. CASE exporter' = exporter
    BY <1>3, <1>17, <2>1, <2>2 DEF Reads
  <2>3. CASE e.event = "saved" /\ Requested(Export(0, orch.epoch))
    <3>1. 1 \in 1..Len(events) /\ e = events[1]
      <4>1. events \in Seq(Events) /\ events # <<>>
        BY <1>17 DEF Reads, TypeOK
      <4> QED BY <4>1
    <3>2. Model = "rnad"
      <4>1. events[1].event = "saved"
        BY <2>3, <3>1
      <4> QED BY <3>1, <4>1 DEF Reported
    <3>3. PICK x \in Exports :
            /\ x = Export(0, orch.epoch)
            /\ x.kind = Model /\ ~x.done /\ x.epoch = orch.epoch /\ x.line = gpu.learner.line /\ x.round = 0
      <4> DEFINE y == Export(0, orch.epoch)
      <4>1. y = [kind |-> "rnad", line |-> gpu.learner.line, round |-> 0, epoch |-> orch.epoch, done |-> FALSE]
        BY <3>2 DEF Export
      <4> HIDE DEF y
      <4>2. y \in Exports /\ y.kind = Model /\ ~y.done /\ y.epoch = orch.epoch
            /\ y.line = gpu.learner.line /\ y.round = 0
        BY <3>2, <4>1, <1>1 DEF Exports
      <4> QED BY <4>2 DEF y
    <3> HIDE DEF e
    <3>4. Fits(x)'
      BY <2>1, <3>2, <3>3 DEF Fits, Model
    <3>5. Requested(x)
      BY <2>3, <3>3
    <3>6. current' = current
      BY <1>17 DEF Reads
    <3> QED BY <1>6, <2>1, <3>2, <3>3, <3>4, <3>5, <3>6
  <2> QED BY <1>17, <2>2, <2>3 DEF Reads
<1>18. CASE Stops
  BY <1>18, <1>5 DEF Stops, AllDown
<1>19. CASE Begins
  <2>1. exporter.busy = NoExport /\ exporter.next = NoExport /\ exporter' = exporter /\ orch'.live = FALSE
    BY <1>19, NoExportIs DEF Begins, LearnerRuns
  <2> QED BY <2>1, NoExportIs DEF Exporting
<1>20. CASE Learns
  <2>1. gpu'.learner.kind = gpu.learner.kind /\ gpu'.learner.line = gpu.learner.line
    <3>1. gpu \in Gpus /\ gpu.learner \in Learners
      BY DEF TypeOK, Gpus
    <3>2. CASE BcStep
      BY <3>1, <3>2 DEF BcStep, Gpus, Learners
    <3>3. CASE Publish
      BY <3>1, <3>3 DEF Publish, Gpus
    <3>4. CASE Iteration
      BY <3>1, <3>4 DEF Iteration, Gpus, Learners
    <3> QED BY <1>20, <3>2, <3>3, <3>4 DEF Learns
  <2>2. orch'.at = "round" \/ ~At("round")
    BY <1>20 DEF Learns, At
  <2> QED BY <1>3, <1>20, <2>1, <2>2 DEF Learns
<1> QED BY <1>7, <1>8, <1>9, <1>10, <1>11, <1>12, <1>13, <1>14, <1>15, <1>16, <1>17, <1>18, <1>19, <1>20, StandSteps

LEMMA PlayingKept ==
    ASSUME TypeOK, Flow, Recorded, LearnerRuns, Exporting, Playing, [Next]_vars
    PROVE  Playing'
<1>1. \A p \in Inside : p \notin {"down", "enter", "round", "final", "seeded"}
  BY DEF Inside
<1>2. ASSUME actors' = NoVersion PROVE Playing'
  BY <1>2 DEF Playing, NoVersion
<1>3. ASSUME actors' = actors, actors[1] \notin {"b2", "selfplay"} PROVE Playing'
  BY <1>3 DEF Playing
<1>4. ASSUME actors' = actors, orch.live => orch'.live, state'.phase = state.phase, state'.stage = state.stage,
             state'.round = state.round, orch'.at \in {"enter", "round"} => orch.at \in {"enter", "round"}
      PROVE  Playing'
  BY <1>4 DEF Playing, At
<1>5. Model = "none" => actors[1] \notin {"b2", "selfplay"}
  BY NoExportIs DEF Playing
<1>6. state.phase \notin {"B2", "B4", "B5"} => actors[1] \notin {"b2", "selfplay"}
  BY DEF Playing
<1>7. CASE Quiet
  <2>1. state'.phase = state.phase /\ state'.stage = state.stage /\ state'.round = state.round
    BY <1>7 DEF Quiet, SameStand, Stand
  <2>2. CASE Aside /\ (actors' = actors \/ Sync) /\ (orch'.at = orch.at \/ orch.at \in Inside)
    <3>1. orch'.at \in {"enter", "round"} => orch.at \in {"enter", "round"}
      BY <1>1, <1>7 DEF Quiet
    <3>2. CASE actors' = actors
      BY <1>4, <2>1, <2>2, <3>1, <3>2 DEF Aside
    <3>3. CASE Sync
      <4>1. orch'.at = "live"
        BY <3>3 DEF Sync, Goto, TypeOK, Loops
      <4>2. CASE ~WantsActors \/ state.paused
        BY <1>2, <3>3, <4>2 DEF Sync
      <4>3. CASE WantsActors /\ ~state.paused /\ WaitsForPolicy
        <5>1. actors' = actors
          BY <3>3, <4>3 DEF Sync
        <5> QED BY <5>1, <1>4, <2>1, <2>2, <3>1 DEF Aside
      <4>4. CASE WantsActors /\ ~state.paused /\ ~WaitsForPolicy
        <5>1. actors' = Wanted /\ orch'.live = orch.live
          BY <2>2, <3>3, <4>4 DEF Sync, Aside
        <5>2. CASE state.phase = "B0"
          <6>1. actors'[1] = "b0"
            BY <5>1, <5>2 DEF Wanted, Version
          <6> QED BY <6>1 DEF Playing
        <5>3. CASE state.phase = "B2" /\ state.stage = "collect"
          <6>1. actors' = <<"b2", state.round>> /\ orch.live
            BY <4>4, <5>1, <5>3 DEF Wanted, Version, WaitsForPolicy
          <6>2. actors'[1] = "b2" /\ actors'[2] = state.round
            BY <6>1
          <6> QED BY <6>1, <6>2, <5>1, <5>3, <2>1, <4>1 DEF Playing, At
        <5>4. CASE state.phase \in {"B4", "B5"}
          <6>1. actors' = <<"selfplay", 0>> /\ orch.live
            BY <4>4, <5>1, <5>4 DEF Wanted, WaitsForPolicy
          <6>2. actors'[1] = "selfplay" /\ actors'[2] = 0
            BY <6>1
          <6> QED BY <6>1, <6>2, <5>1, <5>4, <2>1 DEF Playing
        <5> QED BY <4>4, <5>2, <5>3, <5>4 DEF WantsActors
      <4> QED BY <4>2, <4>3, <4>4
    <3> QED BY <2>2, <3>2, <3>3
  <2>3. CASE At("round") /\ actors' = actors
    <3>1. actors[1] \notin {"b2", "selfplay"}
      BY <2>3 DEF Playing, LearnerRuns
    <3> QED BY <2>3, <3>1, <1>3
  <2>4. CASE LiveTick /\ exporter.busy.done
    <3>1. orch' = [orch EXCEPT !.at = "eval", !.live = @ \/ OfThisEpoch(exporter.busy)] /\ actors' = actors
      BY <2>4 DEF LiveTick
    <3>2. orch \in Loops
      BY DEF TypeOK
    <3>3. orch'.at = "eval" /\ (orch.live => orch'.live)
      BY <3>1, <3>2 DEF Loops
    <3> QED BY <3>1, <3>3, <1>4, <2>1
  <2>5. CASE Exported
    BY <2>1, <2>5, <1>4 DEF Exported, Running
  <2>6. CASE Shutdown
    BY <2>6, <1>2 DEF Shutdown
  <2> QED BY <1>7, <2>2, <2>3, <2>4, <2>5, <2>6 DEF Quiet
<1>8. CASE PhaseEntered
  <2>1. state'.phase = state.phase
    BY <1>8, StandsFor DEF PhaseEntered
  <2> QED BY <1>8, <2>1 DEF PhaseEntered, Aside, Playing
<1>9. CASE BcLoaded
  BY <1>9, <1>3, <1>5 DEF BcLoaded
<1>10. CASE Checkpointed
  <2>1. PICK stage \in Stages :
          /\ Stands(state', state.phase, stage, state.round, state.pending, gpu.learner, state.ladder)
          /\ \/ stage = state.stage /\ actors' = actors
             \/ stage = "eval" /\ actors' = NoVersion
    BY <1>10 DEF Checkpointed
  <2>2. state'.phase = state.phase /\ state'.stage = stage /\ state'.round = state.round
    BY <2>1, StandsFor
  <2>3. orch'.at \notin {"enter", "round"} /\ orch'.live = orch.live
    BY <1>1, <1>10 DEF Checkpointed, Aside
  <2>4. CASE stage = state.stage /\ actors' = actors
    BY <1>4, <2>2, <2>3, <2>4
  <2> QED BY <2>1, <2>4, <1>2
<1>11. CASE Seeds
  BY <1>11, <1>3, <1>6 DEF Seeds, NewEpoch
<1>12. CASE SeedRecorded
  <2>1. state.phase = "B3"
    BY <1>12 DEF SeedRecorded, LearnerRuns
  <2> QED BY <1>12, <2>1, <1>3, <1>6 DEF SeedRecorded
<1>13. CASE Moved
  <2>1. PICK to \in PhaseNames :
          /\ actors' = IF to \in {"B1", "B3", "done"} THEN NoVersion ELSE actors
          /\ Stands(state', to, "", state.round, NoPhase, state.checkpoint, state.ladder)
          /\ \/ <<state.phase, to>> \in {<<"B0", "B1">>, <<"B1", "B2">>, <<"B2", "B3">>, <<"B4", "B5">>,
                                         <<"B5", "done">>}
             \/ state.phase = "B3" /\ to = "B4"
    BY <1>13 DEF Moved
  <2>2. CASE to \in {"B1", "B3", "done"}
    BY <2>1, <2>2, <1>2
  <2>3. CASE to \notin {"B1", "B3", "done"} /\ state.phase \in {"B1", "B3"}
    BY <2>1, <2>3, <1>3, <1>6
  <2>4. CASE state.phase = "B4" /\ to = "B5"
    <3>1. state'.phase = "B5" /\ actors' = actors /\ orch'.live = orch.live
      BY <1>13, <2>1, <2>4 DEF Moved, Stands, Stand, Aside
    <3> QED BY <2>4, <3>1 DEF Playing
  <2> QED BY <2>1, <2>2, <2>3, <2>4
<1>14. CASE Pends
  <2>1. state'.phase = state.phase /\ state'.stage = state.stage /\ state'.round = state.round
    BY <1>14, StandsFor DEF Pends
  <2> QED BY <1>1, <1>4, <1>14, <2>1 DEF Pends, Aside
<1>15. CASE RoundBegins
  <2>1. actors[1] \notin {"b2", "selfplay"}
    BY <1>15 DEF RoundBegins, Playing
  <2> QED BY <2>1, <1>3, <1>15 DEF RoundBegins
<1>16. CASE RnadLoaded
  BY <1>16, <1>3, <1>5 DEF RnadLoaded, NewEpoch
<1>17. CASE Reads
  <2>1. state'.phase = state.phase /\ state'.stage = state.stage /\ state'.round = state.round
    <3>1. CASE SameStand
      BY <3>1 DEF SameStand, Stand
    <3>2. CASE ~SameStand
      BY <1>17, <3>2, StandsFor DEF Reads
    <3> QED BY <3>1, <3>2
  <2> QED BY <1>4, <1>17, <2>1 DEF Reads
<1>18. CASE Stops
  BY <1>18, <1>2 DEF Stops, AllDown
<1>19. CASE Begins
  BY <1>19, <1>3, <1>5 DEF Begins, LearnerRuns
<1>20. CASE Learns
  BY <1>20, <1>4 DEF Learns
<1> QED BY <1>7, <1>8, <1>9, <1>10, <1>11, <1>12, <1>13, <1>14, <1>15, <1>16, <1>17, <1>18, <1>19, <1>20, StandSteps

-----------------------------------------------------------------------------
(* The invariant.                                                           *)

LEMMA HoldsAtFirst == Init => IInv
<1> SUFFICES ASSUME Init PROVE IInv
  OBVIOUS
<1>1. TypeOK
  BY TypesAtFirst
<1>2. /\ state = NewState /\ saved = NewState /\ orch = Down(0) /\ gpu = NoGpu /\ events = <<>>
      /\ exporter.busy = NoExport /\ exporter.next = NoExport /\ actors = NoVersion
  BY DEF Init
<1>3. Model = "none" /\ orch.at = "down" /\ orch.exit = 0 /\ orch.live = FALSE
  BY <1>2 DEF Model, NoGpu, NoLearner, Down
<1>4. Flow
  BY <1>3 DEF Flow, At
<1>5. Evaluated
  <2>1. Range(<<>>) = {} /\ IsInjective(<<>>)
    BY DEF Range, IsInjective
  <2>2. NewState.queue = <<>> /\ NewState.ladder = {}
    BY DEF NewState
  <2> QED BY <1>2, <2>1, <2>2 DEF Evaluated, Evaluations
<1>6. FatalCount
  <2>1. NewState.fatals = 0 /\ NewState.mark = <<>> /\ NewState.marks = <<>>
    BY DEF NewState
  <2>2. FatalLimit \in Nat \ {0}
    BY BoundsAssumption
  <2>3. Len(<<>>) = 0
    OBVIOUS
  <2> QED BY <1>2, <1>3, <2>1, <2>2, <2>3 DEF FatalCount, Counted
<1>7. Recorded
  BY <1>2 DEF Recorded, Record, NewState, NoLearner, Sound, NoPhase
<1>8. LearnerRuns /\ Reported
  <2>1. Len(<<>>) = 0
    OBVIOUS
  <2> QED BY <1>2, <1>3, <2>1 DEF LearnerRuns, Reported, At
<1>9. RungsAreThisLearners
  BY <1>3 DEF RungsAreThisLearners
<1>10. Exporting
  BY <1>2, <1>3, NoExportIs DEF Exporting
<1>11. Playing
  BY <1>2 DEF Playing, NoVersion
<1> QED BY <1>1, <1>4, <1>5, <1>6, <1>7, <1>8, <1>9, <1>10, <1>11 DEF IInv

(* What the run keeps in memory, in state.json and about its processes fits together in every state,
   whatever stops it and however often it is started again. *)
THEOREM Invariant == Spec => []IInv
<1>1. IInv /\ [Next]_vars => IInv'
  <2> SUFFICES ASSUME TypeOK, Flow, Evaluated, FatalCount, Recorded, LearnerRuns, Reported,
                      RungsAreThisLearners, Exporting, Playing, [Next]_vars
               PROVE  IInv'
    BY DEF IInv
  <2>1. TypeOK' /\ Flow' /\ Evaluated' /\ FatalCount'
    BY TypesKept, FlowKept, EvaluationsKept, FatalCountKept
  <2>2. Recorded' /\ LearnerRuns' /\ Reported' /\ RungsAreThisLearners'
    BY RecordedKept, LearnerRunsKept, ReportedKept, RungsKept
  <2>3. Exporting' /\ Playing'
    BY ExportingKept, PlayingKept
  <2> QED BY <2>1, <2>2, <2>3 DEF IInv
<1> QED BY <1>1, HoldsAtFirst, PTL DEF Spec

(* An evaluation waits for its turn once and not while it runs, in memory and in state.json, whatever
   queues it: a stage's end, a rung, an evaluation put back by a restart. *)
THEOREM EvaluationsOnce == Spec => []EvaluationsQueuedOnce
<1>1. IInv => EvaluationsQueuedOnce
  BY DEF IInv, Evaluated, Evaluations, EvaluationsQueuedOnce
<1> QED BY <1>1, Invariant, PTL

(* Every rung of the ladder is queued for evaluation, under evaluation or evaluated, also after the
   evaluation was interrupted and after steps were lost. *)
THEOREM RungsEvaluated == Spec => []EveryRungEvaluated
<1>1. IInv => EveryRungEvaluated
  BY DEF IInv, Evaluated, Evaluations, EveryRungEvaluated
<1> QED BY <1>1, Invariant, PTL

(* The run gives up after a fatal stop when, and only when, its last FatalLimit ones made no progress
   past the first of them. *)
THEOREM GivingUp == Spec => []GivesUp
<1>1. IInv => GivesUp
  <2> SUFFICES ASSUME IInv, orch.exit \in {2, 4} PROVE
        orch.exit = 4 <=> /\ Len(state.marks) = FatalLimit
                          /\ \A m \in Range(state.marks) : NoFurther(m, state.marks[1])
    BY DEF GivesUp
  <2> DEFINE marks == state.marks
             n == Len(marks)
             f == state.fatals
  <2>1. /\ marks \in Seq(MarkValues) /\ n \in Nat /\ DOMAIN marks = 1..n /\ f \in Nat /\ FatalLimit \in Nat \ {0}
    BY BoundsAssumption, LenProperties DEF IInv, TypeOK, States
  <2>2. /\ f <= n /\ n <= FatalLimit /\ (f > 0 => state.mark = marks[n - f + 1])
        /\ \A i \in 1..n : i > n - f => NoFurther(marks[i], state.mark)
        /\ \A i \in 1..n : i <= n - f => \E j \in 1..n : j > i /\ ~NoFurther(marks[j], marks[i])
    BY DEF IInv, FatalCount, Counted
  <2>3. Range(marks) = {marks[i] : i \in 1..n}
    BY <2>1 DEF Range
  <2> HIDE DEF marks, n, f
  <2>4. CASE orch.exit = 4
    <3>1. f = FatalLimit /\ n = FatalLimit /\ state.mark = marks[1]
      <4>1. f = FatalLimit
        BY <2>4 DEF IInv, FatalCount, f
      <4>2. n = FatalLimit /\ n - f + 1 = 1
        BY <2>1, <2>2, <4>1
      <4> QED BY <2>1, <2>2, <4>1, <4>2
    <3>2. \A i \in 1..n : NoFurther(marks[i], marks[1])
      BY <2>1, <2>2, <3>1
    <3> QED BY <2>3, <2>4, <3>1, <3>2 DEF marks, n
  <2>5. CASE orch.exit = 2
    <3> SUFFICES ASSUME n = FatalLimit PROVE \E m \in Range(marks) : ~NoFurther(m, marks[1])
      BY <2>5 DEF marks, n
    <3>1. f < FatalLimit
      BY <2>5 DEF IInv, FatalCount, f
    <3>2. 1 \in 1..n /\ 1 <= n - f
      BY <2>1, <3>1
    <3> QED BY <2>2, <2>3, <3>2
  <2> QED BY <2>4, <2>5
<1> QED BY <1>1, Invariant, PTL

(* A rung of the ladder is a fixed point that a step of the learner which runs made, also after a
   restart went back to the recorded checkpoint and steps were taken anew. *)
THEOREM LadderIsTheLearners == Spec => []RungsAreThisLearners
<1>1. IInv => RungsAreThisLearners
  BY DEF IInv
<1> QED BY <1>1, Invariant, PTL

(* Actors that play the network play the policy of the learner that runs, of its start and of its
   round, however late the export of an earlier one ends. *)
THEOREM ActorsPlayTheLearner == Spec => []ActorsPlayThisLearner
<1>1. IInv => ActorsPlayThisLearner
  <2> SUFFICES ASSUME IInv, actors[1] \in {"b2", "selfplay"} PROVE
        /\ current.kind = IF actors[1] = "b2" THEN "bc" ELSE "rnad"
        /\ current.line = gpu.learner.line /\ current.round = actors[2]
    BY DEF ActorsPlayThisLearner
  <2>1. /\ orch.live => Model # "none" /\ Fits(current)
        /\ actors[1] = "b2" => orch.live /\ ~At("round") /\ state.phase = "B2" /\ actors[2] = state.round
        /\ actors[1] = "selfplay" => orch.live /\ state.phase \in {"B4", "B5"} /\ actors[2] = 0
        /\ Model \in {"none", "bc", "rnad"}
    BY DEF IInv, Exporting, Playing, TypeOK, Gpus, Learners, Model
  <2>2. CASE actors[1] = "b2"
    <3>1. Model = "bc"
      BY <2>1, <2>2 DEF IInv, LearnerRuns
    <3> QED BY <2>1, <2>2, <3>1 DEF Fits
  <2>3. CASE actors[1] = "selfplay"
    <3>1. Model = "rnad" /\ ~At("round")
      BY <2>1, <2>3 DEF IInv, LearnerRuns
    <3> QED BY <2>1, <2>3, <3>1 DEF Fits
  <2> QED BY <2>2, <2>3
<1> QED BY <1>1, Invariant, PTL
=============================================================================
