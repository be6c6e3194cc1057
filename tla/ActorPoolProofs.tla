-------------------------- MODULE ActorPoolProofs --------------------------
(***************************************************************************)
(* The pool's safety for any number of actors, games, matches and crashes. *)
(* The inductive invariant relates, for one actor, its last process and    *)
(* its three files (Ledger): the files never claim more than the process   *)
(* did, and together they never claim less than it was started at.         *)
(***************************************************************************)
EXTENDS ActorPool, TLAPS

(* p: the actor's last process; s: its status file; r: its results lines; l: its logs. *)
Ledger(p, s, r, l) ==
    /\ p.at = "booting" => ~p.in_match
    /\ s.next <= p.match /\ (s.current /\ s.next = p.match => p.in_match)
    /\ p.match <= Shown(s) \/ \E i \in 1..Len(r) : p.match <= r[i].match + 1
    /\ \A i \in 1..Len(r) : \/ r[i].match < p.match
                            \/ r[i].match = p.match /\ p.in_match /\ r[i].game <= p.played
    /\ \A i, j \in 1..Len(r) : i <= j => r[i].match <= r[j].match
    /\ \A i, j \in 1..Len(r) : r[i] = r[j] => i = j
    /\ \A j \in Nat : j < p.match => j \in l
    /\ \A j \in l : j <= p.match
    /\ p.in_match => p.match \in l

Statuses == [next : Nat, current : BOOLEAN]
Lines == [match : Nat, game : Nat]
LedgerOf(k) == Ledger(procs[k], status[k], results[k], logs[k])
IInv == TypeOK /\ NoOrphan /\ \A k \in Actors : LedgerOf(k)

(* A process that dies or is signalled leaves the ledger as it was. *)
LEMMA LedgerOfChanged ==
    ASSUME NEW p \in Procs, NEW q \in Procs, NEW s \in Statuses, NEW r \in Seq(Lines),
           NEW l \in SUBSET Nat, Ledger(p, s, r, l),
           q.match = p.match, q.in_match = p.in_match, q.played = p.played,
           q.at = "booting" => p.at = "booting"
    PROVE  Ledger(q, s, r, l)
BY DEF Ledger, Procs, Statuses, Lines

(* Writing the status claims exactly what the process does. *)
LEMMA LedgerOfWritten ==
    ASSUME NEW p \in Procs, NEW s \in Statuses, NEW r \in Seq(Lines), NEW l \in SUBSET Nat,
           Ledger(p, s, r, l)
    PROVE  Ledger(p, [next |-> p.match, current |-> p.in_match], r, l)
BY DEF Ledger, Procs, Statuses, Lines, Shown

(* first_match is one of the floors and not below any of them. *)
LEMMA FirstMatchIsMax ==
    ASSUME NEW k \in Actors, TypeOK, LedgerOf(k)
    PROVE  /\ FirstMatch(k) \in Floors(k)
           /\ \A f \in Floors(k) : f <= FirstMatch(k)
           /\ FirstMatch(k) \in Nat
<1> DEFINE r == results[k]
           n == Len(r)
           a == Shown(status[k])
           b == r[n].match + 1
<1>1. r \in Seq(Lines) /\ status[k] \in Statuses /\ n \in Nat /\ a \in Nat
  BY DEF TypeOK, Lines, Statuses, Shown
<1>2. \A i \in 1..n : r[i] \in Lines /\ r[i].match \in Nat /\ r[i].match + 1 \in Nat
  <2> TAKE i \in 1..n
  <2>1. r[i] \in Lines
    BY <1>1
  <2> QED BY <2>1 DEF Lines
<1>3. \E m \in Floors(k) : \A f \in Floors(k) : f <= m
  <2>1. CASE n = 0
    BY <2>1, <1>1 DEF Floors
  <2>2. CASE n > 0
    <3>1. n \in 1..n /\ b \in Nat /\ b \in Floors(k)
      BY <2>2, <1>1, <1>2 DEF Floors
    <3>2. \A i \in 1..n : r[i].match + 1 <= b
      <4>1. \A i \in 1..n : i <= n
        BY <1>1
      <4>2. \A i \in 1..n : r[i].match <= r[n].match
        BY <4>1, <3>1 DEF LedgerOf, Ledger
      <4>3. ASSUME NEW i \in 1..n PROVE r[i].match + 1 <= b
        <5>1. r[i].match \in Nat /\ r[n].match \in Nat
          BY <1>2, <3>1
        <5>2. r[i].match <= r[n].match
          BY <4>2
        <5> HIDE DEF r, n
        <5> QED BY <5>1, <5>2
      <4> QED BY <4>3
    <3>3. CASE a <= b
      <4>1. \A f \in Floors(k) : f <= b
        BY <3>3, <3>2, <3>1, <1>1 DEF Floors
      <4> QED BY <4>1, <3>1
    <3>4. CASE b <= a
      <4>1. \A f \in Floors(k) : f <= a
        <5> SUFFICES ASSUME NEW f \in Floors(k) PROVE f <= a
          OBVIOUS
        <5>1. CASE f = a
          BY <5>1, <1>1
        <5>2. CASE \E i \in 1..n : f = r[i].match + 1
          BY <5>2, <3>4, <3>2, <3>1, <1>1, <1>2
        <5> QED BY <5>1, <5>2 DEF Floors
      <4>2. a \in Floors(k)
        BY DEF Floors
      <4> QED BY <4>1, <4>2
    <3> QED BY <3>1, <3>3, <3>4, <1>1
  <2> QED BY <2>1, <2>2, <1>1
<1>4. FirstMatch(k) \in Floors(k) /\ \A f \in Floors(k) : f <= FirstMatch(k)
  BY <1>3 DEF FirstMatch
<1>5. Floors(k) \subseteq Nat
  BY <1>1, <1>2 DEF Floors
<1> QED BY <1>4, <1>5

(* An actor started at first_match starts with a sound ledger, and starts past what its status
   shows and no earlier than its last process was. *)
LEMMA LedgerOfStarted ==
    ASSUME NEW k \in Actors, TypeOK, LedgerOf(k)
    PROVE  /\ Fresh(FirstMatch(k)) \in Procs
           /\ Ledger(Fresh(FirstMatch(k)), status[k], results[k], logs[k])
           /\ FirstMatch(k) \in Nat /\ Shown(status[k]) <= FirstMatch(k)
           /\ procs[k].match <= FirstMatch(k)
<1> DEFINE m == FirstMatch(k)
           p == procs[k]
           s == status[k]
           r == results[k]
           l == logs[k]
           q == Fresh(m)
<1>1. m \in Floors(k) /\ (\A f \in Floors(k) : f <= m) /\ m \in Nat
  BY FirstMatchIsMax
<1>2. p \in Procs /\ s \in Statuses /\ r \in Seq(Lines) /\ l \in SUBSET Nat
  BY DEF TypeOK, Lines, Statuses
<1>3. q \in Procs /\ q.match = m /\ q.in_match = FALSE /\ q.played = 0
  BY <1>1 DEF Fresh, Unborn, Procs
<1>4. Shown(s) <= m /\ Shown(s) \in Nat /\ \A i \in 1..Len(r) : r[i].match + 1 <= m
  <2>1. Shown(s) \in Floors(k) /\ \A i \in 1..Len(r) : r[i].match + 1 \in Floors(k)
    BY DEF Floors
  <2>2. Shown(s) \in Nat
    BY <1>2 DEF Shown, Statuses
  <2> QED BY <2>1, <2>2, <1>1
<1>5. s.next <= m /\ (s.current => s.next < m)
  BY <1>4, <1>2, <1>1 DEF Shown, Statuses
<1>6. m <= Shown(s) \/ \E i \in 1..Len(r) : m <= r[i].match + 1
  BY <1>1, <1>2 DEF Floors
<1>7. \A i \in 1..Len(r) : r[i] \in Lines /\ r[i].match \in Nat /\ r[i].match < m
  <2> TAKE i \in 1..Len(r)
  <2>1. r[i] \in Lines
    BY <1>2
  <2> QED BY <2>1, <1>4, <1>1 DEF Lines
<1>8. p.match <= m
  <2>1. p.match <= Shown(s) \/ \E i \in 1..Len(r) : p.match <= r[i].match + 1
    BY DEF LedgerOf, Ledger
  <2>2. p.match \in Nat
    BY <1>2 DEF Procs
  <2>3. CASE p.match <= Shown(s)
    BY <2>2, <2>3, <1>4, <1>1
  <2>4. ASSUME NEW i \in 1..Len(r), p.match <= r[i].match + 1 PROVE p.match <= m
    <3>1. r[i].match \in Nat /\ r[i].match < m
      BY <1>7
    <3> QED BY <3>1, <2>2, <2>4, <1>1
  <2> QED BY <2>1, <2>3, <2>4
<1>9. m <= p.match \/ (m = p.match + 1 /\ p.in_match)
  <2>1. CASE m = Shown(s)
    BY <2>1, <1>2 DEF LedgerOf, Ledger, Shown, Statuses, Procs
  <2>2. CASE \E i \in 1..Len(r) : m = r[i].match + 1
    BY <2>2, <1>2, <1>7 DEF LedgerOf, Ledger, Lines, Procs
  <2> QED BY <2>1, <2>2, <1>1 DEF Floors
<1>10. (\A j \in Nat : j < m => j \in l) /\ (\A j \in l : j <= m)
  BY <1>8, <1>9, <1>2, <1>1 DEF LedgerOf, Ledger, Procs
<1>11. (\A i, j \in 1..Len(r) : i <= j => r[i].match <= r[j].match)
       /\ (\A i, j \in 1..Len(r) : r[i] = r[j] => i = j)
  BY DEF LedgerOf, Ledger
<1>12. Ledger(q, s, r, l)
  BY <1>3, <1>5, <1>6, <1>7, <1>10, <1>11, <1>1, <1>2 DEF Ledger, Statuses
<1> QED BY <1>12, <1>1, <1>3, <1>4, <1>8

LEMMA Init_IInv == Init => IInv
<1> SUFFICES ASSUME Init PROVE IInv
  OBVIOUS
<1>1. TypeOK /\ NoOrphan
  BY DEF Init, TypeOK, NoOrphan, Alive, Idle, Unborn, Slots, Procs
<1>2. ASSUME NEW k \in Actors PROVE LedgerOf(k)
  <2>1. /\ procs[k] = Unborn /\ results[k] = <<>> /\ logs[k] = {}
        /\ status[k] = [next |-> 0, current |-> FALSE]
    BY DEF Init
  <2> QED BY <2>1 DEF LedgerOf, Ledger, Unborn, Shown
<1> QED BY <1>1, <1>2 DEF IInv

(* What is left to show of a step of one actor, which changes nothing of the others. *)
LEMMA OneActorStep ==
    ASSUME IInv, NEW k \in Actors, NEW q \in Procs, NEW s \in Statuses, NEW r \in Seq(Lines),
           NEW l \in SUBSET Nat,
           procs' = [procs EXCEPT ![k] = q], status' = [status EXCEPT ![k] = s],
           results' = [results EXCEPT ![k] = r], logs' = [logs EXCEPT ![k] = l],
           UNCHANGED Pool, crashes' \in Nat,
           Ledger(q, s, r, l), q.at # "down" => Alive(k)
    PROVE  IInv'
<1>1. TypeOK'
  BY DEF IInv, TypeOK, Pool, Statuses, Lines
<1>2. NoOrphan'
  BY DEF IInv, TypeOK, NoOrphan, Alive, Pool
<1>3. ASSUME NEW j \in Actors PROVE LedgerOf(j)'
  <2>1. CASE j = k
    BY <2>1 DEF IInv, TypeOK, LedgerOf
  <2>2. CASE j # k
    BY <2>2 DEF IInv, TypeOK, LedgerOf
  <2> QED BY <2>1, <2>2
<1> QED BY <1>1, <1>2, <1>3 DEF IInv

LEMMA ActorStep ==
    ASSUME IInv, NEW k \in Actors, Actor(k)
    PROVE  IInv'
<1> DEFINE p == procs[k]
           s == status[k]
           r == results[k]
           l == logs[k]
           w == [next |-> p.match, current |-> p.in_match]
<1>1. /\ p \in Procs /\ s \in Statuses /\ r \in Seq(Lines) /\ l \in SUBSET Nat
      /\ Ledger(p, s, r, l) /\ crashes \in Nat
  BY DEF IInv, TypeOK, LedgerOf, Statuses, Lines
<1>2. /\ status = [status EXCEPT ![k] = s] /\ results = [results EXCEPT ![k] = r]
      /\ logs = [logs EXCEPT ![k] = l] /\ procs = [procs EXCEPT ![k] = p]
  BY DEF IInv, TypeOK
<1>3. w \in Statuses /\ Ledger(p, w, r, l)
  BY <1>1, LedgerOfWritten DEF Procs, Statuses
<1>4. \A code \in {"stopped", "failed", "killed"} :
         /\ Dead(p, code) \in Procs /\ Dead(p, code).at = "down"
         /\ Ledger(Dead(p, code), s, r, l) /\ Ledger(Dead(p, code), w, r, l)
  <2> TAKE code \in {"stopped", "failed", "killed"}
  <2> DEFINE q == Dead(p, code)
  <2>1. q \in Procs /\ q.at = "down" /\ q.match = p.match /\ q.in_match = p.in_match
        /\ q.played = p.played
    BY <1>1 DEF Dead, Procs
  <2> QED BY <2>1, <1>1, <1>3, LedgerOfChanged
<1>5. CASE Boot(k)
  <2> DEFINE q == [p EXCEPT !.at = "running"]
  <2>1. q \in Procs /\ q.match = p.match /\ q.in_match = p.in_match /\ q.played = p.played
        /\ q.at = "running"
    BY <1>1 DEF Procs
  <2>2. Ledger(q, w, r, l)
    BY <2>1, <1>1, <1>3, LedgerOfChanged
  <2>3. Alive(k)
    BY <1>5 DEF Boot, Alive
  <2>4. /\ procs' = [procs EXCEPT ![k] = q] /\ status' = [status EXCEPT ![k] = w]
        /\ results' = [results EXCEPT ![k] = r] /\ logs' = [logs EXCEPT ![k] = l]
        /\ UNCHANGED Pool /\ crashes' \in Nat
    BY <1>5, <1>1, <1>2 DEF Boot, WriteStatus
  <2> QED BY <2>4, <1>1, <1>3, <2>1, <2>2, <2>3, OneActorStep
<1>6. CASE BeginMatch(k)
  <2> DEFINE q == [p EXCEPT !.in_match = TRUE, !.played = 0]
             m == l \cup {p.match}
  <2>1. q \in Procs /\ m \in SUBSET Nat /\ q.match = p.match /\ q.in_match /\ q.at = "running"
    BY <1>1, <1>6 DEF Procs, BeginMatch, Running
  <2>2. ~p.in_match /\ Alive(k)
    BY <1>6 DEF BeginMatch, Running, Alive
  <2>3. Ledger(q, s, r, m)
    BY <1>1, <2>1, <2>2 DEF Ledger, Procs, Statuses, Lines
  <2>4. /\ procs' = [procs EXCEPT ![k] = q] /\ status' = [status EXCEPT ![k] = s]
        /\ results' = [results EXCEPT ![k] = r] /\ logs' = [logs EXCEPT ![k] = m]
        /\ UNCHANGED Pool /\ crashes' \in Nat
    BY <1>6, <1>1, <1>2 DEF BeginMatch
  <2> QED BY <2>4, <1>1, <2>1, <2>2, <2>3, OneActorStep
<1>7. CASE RefreshStatus(k)
  <2>1. Alive(k)
    BY <1>7 DEF RefreshStatus, Running, Alive
  <2>2. /\ procs' = [procs EXCEPT ![k] = p] /\ status' = [status EXCEPT ![k] = w]
        /\ results' = [results EXCEPT ![k] = r] /\ logs' = [logs EXCEPT ![k] = l]
        /\ UNCHANGED Pool /\ crashes' \in Nat
    BY <1>7, <1>1, <1>2 DEF RefreshStatus, WriteStatus
  <2> QED BY <2>2, <1>1, <1>3, <2>1, OneActorStep
<1>8. CASE GameEnded(k)
  <2> DEFINE line == [match |-> p.match, game |-> p.played + 1]
             q == [p EXCEPT !.played = @ + 1]
             t == Append(r, line)
  <2>1. /\ q \in Procs /\ q.match = p.match /\ q.in_match = p.in_match /\ q.at = "running"
        /\ q.played = p.played + 1 /\ p.in_match /\ Alive(k) /\ line \in Lines
        /\ line.match = p.match /\ line.game = p.played + 1
    <3>1. Running(k) /\ p.in_match /\ Alive(k)
      BY <1>8 DEF GameEnded, Running, Alive
    <3>2. q \in Procs /\ q.match = p.match /\ q.in_match = p.in_match /\ q.at = p.at
          /\ q.played = p.played + 1
      BY <1>1 DEF Procs
    <3>3. line \in Lines /\ line.match = p.match /\ line.game = p.played + 1
      BY <1>1 DEF Procs, Lines
    <3> QED BY <3>1, <3>2, <3>3 DEF Running
  <2>2. /\ t \in Seq(Lines) /\ Len(t) = Len(r) + 1 /\ t[Len(t)] = line /\ Len(r) \in Nat
        /\ \A i \in 1..Len(r) : t[i] = r[i]
    BY <1>1, <2>1
  <2>3. \A i \in 1..Len(t) : i \in 1..Len(r) \/ (i = Len(t) /\ t[i] = line)
    BY <2>2
  <2>4. \A i \in 1..Len(r) : r[i].match \in Nat /\ r[i].game \in Nat
    <3> TAKE i \in 1..Len(r)
    <3>1. r[i] \in Lines
      BY <1>1
    <3> QED BY <3>1 DEF Lines
  <2>5. \A i \in 1..Len(r) : /\ r[i].match <= p.match
                             /\ r[i].match = p.match => r[i].game <= p.played
    BY <1>1, <2>4 DEF Ledger, Procs
  <2>6. \A i \in 1..Len(t) : /\ t[i].match <= p.match
                             /\ t[i].match = p.match => t[i].game <= q.played
    <3>1. p.match \in Nat /\ p.played \in Nat
      BY <1>1 DEF Procs
    <3> HIDE DEF line, q, t
    <3>2. ASSUME NEW i \in 1..Len(r)
          PROVE  t[i].match <= p.match /\ (t[i].match = p.match => t[i].game <= q.played)
      <4>1. t[i] = r[i] /\ r[i].match \in Nat /\ r[i].game \in Nat
        BY <2>2, <2>4
      <4>2. r[i].match <= p.match /\ (r[i].match = p.match => r[i].game <= p.played)
        BY <2>5
      <4>3. q.played = p.played + 1
        BY <2>1
      <4> QED BY <3>1, <4>1, <4>2, <4>3
    <3>3. line.match <= p.match /\ line.game <= q.played
      BY <2>1, <3>1
    <3> QED BY <2>2, <2>3, <3>2, <3>3
  <2>7. \A i \in 1..Len(t) : \/ t[i].match < q.match
                             \/ t[i].match = q.match /\ q.in_match /\ t[i].game <= q.played
    BY <2>6, <2>1, <2>2, <2>3, <2>4, <1>1 DEF Procs
  <2>8. \A i, j \in 1..Len(t) : i <= j => t[i].match <= t[j].match
    <3> TAKE i, j \in 1..Len(t)
    <3> HAVE i <= j
    <3>1. CASE j = Len(t)
      BY <3>1, <2>6, <2>2, <2>1
    <3>2. CASE j # Len(t)
      <4>1. i \in 1..Len(r) /\ j \in 1..Len(r)
        BY <3>2, <2>2
      <4> QED BY <4>1, <2>2, <1>1 DEF Ledger
    <3> QED BY <3>1, <3>2
  <2>9. \A i, j \in 1..Len(t) : t[i] = t[j] => i = j
    <3>1. \A i \in 1..Len(r) : r[i] # line
      BY <2>5, <2>1, <2>4, <1>1 DEF Procs
    <3> QED BY <3>1, <2>2, <2>3, <1>1 DEF Ledger
  <2>10. p.match <= Shown(s) \/ \E i \in 1..Len(t) : p.match <= t[i].match + 1
    BY <1>1, <2>2 DEF Ledger
  <2>11. Ledger(q, s, t, l) /\ Ledger(q, w, t, l)
    <3>1. p.match <= Shown(w)
      BY <1>1 DEF Shown, Procs
    <3>2. Ledger(q, s, t, l)
      BY <2>1, <2>7, <2>8, <2>9, <2>10, <1>1 DEF Ledger
    <3>3. Ledger(q, w, t, l)
      BY <2>1, <2>7, <2>8, <2>9, <3>1, <1>1, <1>3 DEF Ledger
    <3> QED BY <3>2, <3>3
  <2>12. results' = [results EXCEPT ![k] = t] /\ procs' = [procs EXCEPT ![k] = q]
    BY <1>8, <1>1 DEF GameEnded
  <2>13. CASE UNCHANGED status
    <3>1. /\ status' = [status EXCEPT ![k] = s] /\ logs' = [logs EXCEPT ![k] = l]
          /\ UNCHANGED Pool /\ crashes' \in Nat
      BY <1>8, <1>1, <1>2, <2>13 DEF GameEnded
    <3> QED BY <3>1, <1>1, <2>1, <2>2, <2>11, <2>12, OneActorStep
  <2>14. CASE WriteStatus(k, p)
    <3>1. /\ status' = [status EXCEPT ![k] = w] /\ logs' = [logs EXCEPT ![k] = l]
          /\ UNCHANGED Pool /\ crashes' \in Nat
      BY <1>8, <1>1, <1>2, <2>14 DEF GameEnded, WriteStatus
    <3> QED BY <3>1, <1>1, <1>3, <2>1, <2>2, <2>11, <2>12, OneActorStep
  <2> QED BY <1>8, <2>13, <2>14 DEF GameEnded
<1>9. CASE MatchEnded(k)
  <2> DEFINE q == Over(p)
             v == [next |-> q.match, current |-> q.in_match]
  <2>1. /\ q \in Procs /\ q.match = p.match + 1 /\ q.in_match = FALSE /\ q.at = "running"
        /\ p.in_match /\ Alive(k) /\ v \in Statuses
    <3>1. Running(k) /\ p.in_match /\ Alive(k)
      BY <1>9 DEF MatchEnded, Running, Alive
    <3>2. q \in Procs /\ q.match = p.match + 1 /\ q.in_match = FALSE /\ q.at = p.at
      <4>1. q = [p EXCEPT !.match = p.match + 1, !.in_match = FALSE, !.played = 0]
        BY <1>1 DEF Over
      <4>2. p.match + 1 \in Nat
        BY <1>1 DEF Procs
      <4> HIDE DEF q
      <4> QED BY <4>1, <4>2, <1>1 DEF Procs
    <3>3. v \in Statuses
      BY <3>2 DEF Procs, Statuses
    <3> QED BY <3>1, <3>2, <3>3 DEF Running
  <2>2. \A i \in 1..Len(r) : r[i].match \in Nat
    <3> TAKE i \in 1..Len(r)
    <3>1. r[i] \in Lines
      BY <1>1
    <3> QED BY <3>1 DEF Lines
  <2>3. Ledger(q, v, r, l)
    <3>1. v.next = q.match /\ v.current = FALSE /\ Shown(v) = q.match
      BY <2>1 DEF Shown
    <3>2. (\A j \in Nat : j < q.match => j \in l) /\ \A j \in l : j <= q.match
      BY <2>1, <1>1 DEF Ledger, Procs
    <3>3. \A i \in 1..Len(r) : r[i].match < q.match
      BY <2>1, <2>2, <1>1 DEF Ledger, Procs
    <3>4. (\A i, j \in 1..Len(r) : i <= j => r[i].match <= r[j].match)
          /\ (\A i, j \in 1..Len(r) : r[i] = r[j] => i = j)
      BY <1>1 DEF Ledger
    <3> QED BY <3>1, <3>2, <3>3, <3>4, <2>1 DEF Ledger, Procs
  <2>4. /\ procs' = [procs EXCEPT ![k] = q] /\ status' = [status EXCEPT ![k] = v]
        /\ results' = [results EXCEPT ![k] = r] /\ logs' = [logs EXCEPT ![k] = l]
        /\ UNCHANGED Pool /\ crashes' \in Nat
    BY <1>9, <1>1, <1>2 DEF MatchEnded, WriteStatus
  <2> QED BY <2>4, <1>1, <2>1, <2>3, OneActorStep
<1>10. CASE StopOnSignal(k)
  <2> DEFINE q == Dead(p, "stopped")
  <2>1. /\ procs' = [procs EXCEPT ![k] = q] /\ status' = [status EXCEPT ![k] = w]
        /\ results' = [results EXCEPT ![k] = r] /\ logs' = [logs EXCEPT ![k] = l]
        /\ UNCHANGED Pool /\ crashes' \in Nat
    BY <1>10, <1>1, <1>2 DEF StopOnSignal, Exits, WriteStatus
  <2> QED BY <2>1, <1>1, <1>3, <1>4, OneActorStep
<1>11. CASE Fail(k)
  <2> DEFINE q == Dead(p, "failed")
  <2>1. /\ procs' = [procs EXCEPT ![k] = q] /\ status' = [status EXCEPT ![k] = w]
        /\ results' = [results EXCEPT ![k] = r] /\ logs' = [logs EXCEPT ![k] = l]
        /\ UNCHANGED Pool /\ crashes' \in Nat
    BY <1>11, <1>1, <1>2 DEF Fail, Exits, WriteStatus
  <2> QED BY <2>1, <1>1, <1>3, <1>4, OneActorStep
<1>12. CASE Die(k)
  <2> DEFINE q == Dead(p, "killed")
  <2>1. /\ procs' = [procs EXCEPT ![k] = q] /\ status' = [status EXCEPT ![k] = s]
        /\ results' = [results EXCEPT ![k] = r] /\ logs' = [logs EXCEPT ![k] = l]
        /\ UNCHANGED Pool /\ crashes' \in Nat
    BY <1>12, <1>1, <1>2 DEF Die, Exits, disk
  <2> QED BY <2>1, <1>1, <1>3, <1>4, OneActorStep
<1>13. CASE FailOpening(k)
  <2> DEFINE q == Dead(p, "failed")
             m == l \cup {p.match}
  <2>1. q \in Procs /\ q.at = "down" /\ Ledger(q, w, r, l) /\ m \in SUBSET Nat
        /\ q.match = p.match
    BY <1>1, <1>4 DEF Procs, Dead
  <2>2. Ledger(q, w, r, m)
    <3> HIDE DEF q, w
    <3> QED BY <2>1, <1>1 DEF Ledger, Procs
  <2>3. /\ procs' = [procs EXCEPT ![k] = q] /\ status' = [status EXCEPT ![k] = w]
        /\ results' = [results EXCEPT ![k] = r] /\ logs' = [logs EXCEPT ![k] = m]
        /\ UNCHANGED Pool /\ crashes' \in Nat
    BY <1>13, <1>1, <1>2 DEF FailOpening, Exits, WriteStatus
  <2> QED BY <2>1, <2>2, <2>3, <1>1, <1>3, OneActorStep
<1> QED BY <1>5, <1>6, <1>7, <1>8, <1>9, <1>10, <1>11, <1>12, <1>13 DEF Actor

(* A step of the pool leaves the files alone and, of each process, starts it at first_match,
   signals or kills it, or leaves it alone too. *)
PoolChange(k) ==
    \/ procs'[k] = procs[k]
    \/ procs'[k] = Fresh(FirstMatch(k))
    \/ procs'[k] = Dead(procs[k], "killed")
    \/ procs'[k] = [procs[k] EXCEPT !.term = TRUE]

LEMMA PoolStep ==
    ASSUME IInv, UNCHANGED disk, DOMAIN procs' = Actors, procs' = [k \in Actors |-> procs'[k]],
           \A k \in Actors : PoolChange(k),
           mode' \in {"serving", "stopping"}, count' \in Nat, crashes' \in Nat,
           slots' \in [Actors -> Slots],
           \A k \in Actors : procs'[k].at # "down" => slots'[k].proc
    PROVE  IInv'
<1>1. ASSUME NEW k \in Actors PROVE procs'[k] \in Procs /\ LedgerOf(k)'
  <2> DEFINE p == procs[k]
             s == status[k]
             r == results[k]
             l == logs[k]
  <2>1. /\ p \in Procs /\ s \in Statuses /\ r \in Seq(Lines) /\ l \in SUBSET Nat
        /\ Ledger(p, s, r, l)
    BY DEF IInv, TypeOK, LedgerOf, Statuses, Lines
  <2>2. SUFFICES procs'[k] \in Procs /\ Ledger(procs'[k], s, r, l)
    BY DEF LedgerOf, disk
  <2>3. CASE procs'[k] = p
    BY <2>3, <2>1
  <2>4. CASE procs'[k] = Fresh(FirstMatch(k))
    BY <2>4, LedgerOfStarted DEF IInv
  <2>5. Dead(p, "killed") \in Procs /\ Ledger(Dead(p, "killed"), s, r, l)
    <3> DEFINE q == Dead(p, "killed")
    <3>1. q \in Procs /\ q.at = "down" /\ q.match = p.match /\ q.in_match = p.in_match
          /\ q.played = p.played
      BY <2>1 DEF Dead, Procs
    <3> QED BY <3>1, <2>1, LedgerOfChanged
  <2>6. [p EXCEPT !.term = TRUE] \in Procs /\ Ledger([p EXCEPT !.term = TRUE], s, r, l)
    <3> DEFINE q == [p EXCEPT !.term = TRUE]
    <3>1. q \in Procs /\ q.at = p.at /\ q.match = p.match /\ q.in_match = p.in_match
          /\ q.played = p.played
      BY <2>1 DEF Procs
    <3> HIDE DEF q
    <3>2. Ledger(q, s, r, l)
      BY <3>1, <2>1, LedgerOfChanged
    <3> QED BY <3>1, <3>2 DEF q
  <2>7. CASE procs'[k] = Dead(p, "killed")
    BY <2>7, <2>5
  <2>8. CASE procs'[k] = [p EXCEPT !.term = TRUE]
    BY <2>8, <2>6
  <2>9. PoolChange(k)
    OBVIOUS
  <2> QED BY <2>3, <2>4, <2>7, <2>8, <2>9 DEF PoolChange
<1>2. procs' \in [Actors -> Procs]
  BY <1>1
<1>3. TypeOK'
  BY <1>2 DEF IInv, TypeOK, disk
<1>4. NoOrphan'
  BY DEF NoOrphan, Alive
<1> QED BY <1>1, <1>3, <1>4 DEF IInv

LEMMA SetCountStep ==
    ASSUME IInv, NEW n \in 1..NActors, SetCount(n)
    PROVE  IInv'
<1>1. TypeOK /\ NoOrphan /\ n \in Nat
  BY NActorsAssumption DEF IInv
<1>2. PICK early \in SUBSET Actors :
         procs' = [k \in Actors |-> IF ToStart(k, n) THEN Fresh(FirstMatch(k))
                                    ELSE IF ToStop(k, n) THEN Signalled(procs[k], k \in early)
                                    ELSE procs[k]]
  BY DEF SetCount
<1>3. \A k \in Actors : PoolChange(k)
  BY <1>2 DEF PoolChange, Signalled
<1>4. slots' \in [Actors -> Slots]
  <2>1. ASSUME NEW k \in Actors
        PROVE  /\ Watched \in Slots
               /\ [slots[k] EXCEPT !.stopping = @ \/ ToStop(k, n), !.due = FALSE] \in Slots
               /\ slots[k] \in Slots
    BY <1>1 DEF TypeOK, Slots, Watched, Idle
  <2> QED BY <2>1 DEF SetCount
<1>5. ASSUME NEW k \in Actors, procs'[k].at # "down" PROVE slots'[k].proc
  <2>1. slots[k] \in Slots
    BY <1>1 DEF TypeOK
  <2>2. CASE ToStart(k, n)
    BY <2>2 DEF SetCount, Watched, Idle
  <2>3. CASE ~ToStart(k, n)
    <3>1. Alive(k)
      BY <2>3, <1>2, <1>5 DEF Signalled, Dead, Alive, ToStop
    <3>2. slots[k].proc
      BY <3>1, <1>1 DEF NoOrphan
    <3> QED BY <3>2, <2>3, <2>1 DEF SetCount, Slots
  <2> QED BY <2>2, <2>3
<1>6. UNCHANGED disk /\ mode' \in {"serving", "stopping"} /\ count' \in Nat /\ crashes' \in Nat
  BY <1>1 DEF SetCount, TypeOK
<1>7. DOMAIN procs' = Actors /\ procs' = [k \in Actors |-> procs'[k]]
  BY <1>2
<1> QED BY <1>3, <1>4, <1>5, <1>6, <1>7, PoolStep

LEMMA StopAllStep ==
    ASSUME IInv, StopAll
    PROVE  IInv'
<1>1. TypeOK /\ NoOrphan
  BY DEF IInv
<1>2. PICK early \in SUBSET Actors :
         procs' = [k \in Actors |-> IF ToStop(k, 0) THEN Signalled(procs[k], k \in early)
                                    ELSE procs[k]]
  BY DEF StopAll
<1>3. \A k \in Actors : PoolChange(k)
  BY <1>2 DEF PoolChange, Signalled
<1>4. slots' \in [Actors -> Slots]
  <2>1. ASSUME NEW k \in Actors
        PROVE  [slots[k] EXCEPT !.stopping = @ \/ ToStop(k, 0), !.due = FALSE] \in Slots
    BY <1>1 DEF TypeOK, Slots
  <2> QED BY <2>1 DEF StopAll
<1>5. ASSUME NEW k \in Actors, procs'[k].at # "down" PROVE slots'[k].proc
  <2>1. Alive(k)
    BY <1>2, <1>5 DEF Signalled, Dead, Alive, ToStop
  <2>2. slots[k].proc /\ slots[k] \in Slots
    BY <2>1, <1>1 DEF NoOrphan, TypeOK
  <2> QED BY <2>2 DEF StopAll, Slots
<1>6. UNCHANGED disk /\ mode' \in {"serving", "stopping"} /\ count' \in Nat /\ crashes' \in Nat
  BY <1>1 DEF StopAll, TypeOK
<1>7. DOMAIN procs' = Actors /\ procs' = [k \in Actors |-> procs'[k]]
  BY <1>2
<1> QED BY <1>3, <1>4, <1>5, <1>6, <1>7, PoolStep

LEMMA TickStep ==
    ASSUME IInv, NEW k \in Actors, Tick(k)
    PROVE  IInv'
<1>1. TypeOK /\ NoOrphan
  BY DEF IInv
<1>2. CASE Reap(k)
  <2>1. UNCHANGED <<disk, procs, mode, count, crashes>> /\ ~Alive(k)
    BY <1>2 DEF Reap
  <2>2. slots' \in [Actors -> Slots]
    BY <1>2, <1>1 DEF Reap, TypeOK, Slots, Idle
  <2>3. \A j \in Actors : PoolChange(j)
    BY <2>1 DEF PoolChange
  <2>4. \A j \in Actors : procs'[j].at # "down" => slots'[j].proc
    BY <1>2, <2>1, <1>1 DEF Reap, NoOrphan, Alive, TypeOK
  <2>5. DOMAIN procs' = Actors /\ procs' = [j \in Actors |-> procs'[j]]
    BY <2>1, <1>1 DEF TypeOK
  <2>6. mode' \in {"serving", "stopping"} /\ count' \in Nat /\ crashes' \in Nat /\ UNCHANGED disk
    BY <2>1, <1>1 DEF TypeOK
  <2> QED BY <2>2, <2>3, <2>4, <2>5, <2>6, PoolStep
<1>3. CASE Restart(k)
  <2>1. /\ UNCHANGED <<disk, mode, count, crashes>>
        /\ procs' = [procs EXCEPT ![k] = Fresh(FirstMatch(k))]
        /\ slots' = [slots EXCEPT ![k] = Watched]
    BY <1>3 DEF Restart
  <2>2. slots' \in [Actors -> Slots]
    BY <2>1, <1>1 DEF TypeOK, Slots, Idle, Watched
  <2>3. \A j \in Actors : PoolChange(j)
    BY <2>1, <1>1 DEF PoolChange, TypeOK
  <2>4. \A j \in Actors : procs'[j].at # "down" => slots'[j].proc
    BY <2>1, <1>1 DEF NoOrphan, Alive, TypeOK, Watched, Idle
  <2>5. DOMAIN procs' = Actors /\ procs' = [j \in Actors |-> procs'[j]]
    BY <2>1, <1>1 DEF TypeOK
  <2>6. mode' \in {"serving", "stopping"} /\ count' \in Nat /\ crashes' \in Nat /\ UNCHANGED disk
    BY <2>1, <1>1 DEF TypeOK
  <2> QED BY <2>2, <2>3, <2>4, <2>5, <2>6, PoolStep
<1> QED BY <1>2, <1>3 DEF Tick

LEMMA StopTimedOutStep ==
    ASSUME IInv, NEW k \in Actors, StopTimedOut(k)
    PROVE  IInv'
<1>1. TypeOK /\ NoOrphan
  BY DEF IInv
<1>2. /\ UNCHANGED <<disk, mode, count, slots, crashes>>
      /\ procs' = [procs EXCEPT ![k] = Dead(procs[k], "killed")]
  BY DEF StopTimedOut, Exits, Pool
<1>3. \A j \in Actors : PoolChange(j)
  BY <1>2, <1>1 DEF PoolChange, TypeOK
<1>4. \A j \in Actors : procs'[j].at # "down" => slots'[j].proc
  BY <1>2, <1>1 DEF NoOrphan, Alive, TypeOK, Dead
<1>5. DOMAIN procs' = Actors /\ procs' = [j \in Actors |-> procs'[j]]
  BY <1>2, <1>1 DEF TypeOK
<1>6. /\ mode' \in {"serving", "stopping"} /\ count' \in Nat /\ crashes' \in Nat
      /\ UNCHANGED disk /\ slots' \in [Actors -> Slots]
  BY <1>2, <1>1 DEF TypeOK
<1> QED BY <1>3, <1>4, <1>5, <1>6, PoolStep

LEMMA AllStoppedStep ==
    ASSUME IInv, AllStopped
    PROVE  IInv'
<1>1. TypeOK /\ NoOrphan
  BY DEF IInv
<1>2. /\ UNCHANGED <<disk, count, procs, crashes>> /\ mode' = "serving"
      /\ slots' = [k \in Actors |-> Idle] /\ \A k \in Actors : ~Alive(k)
  BY DEF AllStopped, EveryActorGone
<1>3. \A j \in Actors : PoolChange(j)
  BY <1>2 DEF PoolChange
<1>4. \A j \in Actors : procs'[j].at # "down" => slots'[j].proc
  BY <1>2 DEF Alive
<1>5. DOMAIN procs' = Actors /\ procs' = [j \in Actors |-> procs'[j]]
  BY <1>2, <1>1 DEF TypeOK
<1>6. /\ mode' \in {"serving", "stopping"} /\ count' \in Nat /\ crashes' \in Nat
      /\ UNCHANGED disk /\ slots' \in [Actors -> Slots]
  BY <1>2, <1>1 DEF TypeOK, Slots, Idle
<1> QED BY <1>3, <1>4, <1>5, <1>6, PoolStep

LEMMA KillRunStep ==
    ASSUME IInv, KillRun
    PROVE  IInv'
<1>1. TypeOK /\ NoOrphan
  BY DEF IInv
<1>2. /\ UNCHANGED disk /\ mode' = "serving" /\ count' = 0 /\ crashes' = crashes + 1
      /\ slots' = [k \in Actors |-> Idle]
      /\ procs' = [k \in Actors |-> IF Alive(k) THEN Dead(procs[k], "killed") ELSE procs[k]]
  BY DEF KillRun
<1>3. \A j \in Actors : PoolChange(j)
  BY <1>2 DEF PoolChange
<1>4. \A j \in Actors : procs'[j].at = "down"
  BY <1>2, <1>1 DEF Alive, Dead, TypeOK, Procs
<1>5. DOMAIN procs' = Actors /\ procs' = [j \in Actors |-> procs'[j]]
  BY <1>2
<1>6. /\ mode' \in {"serving", "stopping"} /\ count' \in Nat /\ crashes' \in Nat
      /\ UNCHANGED disk /\ slots' \in [Actors -> Slots]
  BY <1>2, <1>1 DEF TypeOK, Slots, Idle
<1> QED BY <1>3, <1>4, <1>5, <1>6, PoolStep

LEMMA Next_IInv == IInv /\ [Next]_vars => IInv'
<1> SUFFICES ASSUME IInv, [Next]_vars PROVE IInv'
  OBVIOUS
<1>1. CASE UNCHANGED vars
  BY <1>1 DEF vars, IInv, TypeOK, NoOrphan, Alive, LedgerOf
<1>2. CASE \E k \in Actors : Actor(k) \/ Tick(k) \/ StopTimedOut(k)
  BY <1>2, ActorStep, TickStep, StopTimedOutStep
<1>3. CASE \E n \in 1..NActors : SetCount(n)
  BY <1>3, SetCountStep
<1>4. CASE StopAll \/ AllStopped \/ KillRun
  BY <1>4, StopAllStep, AllStoppedStep, KillRunStep
<1> QED BY <1>1, <1>2, <1>3, <1>4 DEF Next

LEMMA PoolInvariant == Spec => []IInv
BY Init_IInv, Next_IInv, PTL DEF Spec

(* The types of the pool's state and of what is on the disk. *)
THEOREM PoolTypes == Spec => []TypeOK
<1>1. IInv => TypeOK
  BY DEF IInv
<1> QED BY <1>1, PoolInvariant, PTL

(* No actor is started while its last process runs, whatever exits, signals and kills come
   between: set_count, tick and stop_all (actors.py). *)
THEOREM NoOrphanEver == Spec => []NoOrphan
<1>1. IInv => NoOrphan
  BY DEF IInv
<1> QED BY <1>1, PoolInvariant, PTL

(* However an actor ends and wherever it is started again, the results file it appends to
   (write_results_line, actor.cpp) has each game once: first_match is past every line. *)
THEOREM ResultsOnce == Spec => []NoResultTwice
<1>1. IInv => NoResultTwice
  BY DEF IInv, LedgerOf, Ledger, NoResultTwice
<1> QED BY <1>1, PoolInvariant, PTL

(* first_match (actors.py) writes off at most the match that was begun: no index is passed over. *)
THEOREM NoIndexSkipped == Spec => []NoMatchSkipped
<1>1. ASSUME IInv, NEW k \in Actors, NEW i \in logs[k], NEW j \in 0..i
      PROVE  j \in logs[k]
  <2>1. procs[k].match \in Nat /\ i \in Nat /\ j \in Nat
    BY <1>1 DEF IInv, TypeOK, Procs
  <2>2. i <= procs[k].match /\ \A m \in Nat : m < procs[k].match => m \in logs[k]
    BY <1>1 DEF IInv, LedgerOf, Ledger
  <2>3. j = i \/ j < procs[k].match
    BY <2>1, <2>2
  <2> QED BY <2>1, <2>2, <2>3
<1>2. IInv => NoMatchSkipped
  BY <1>1 DEF NoMatchSkipped
<1> QED BY <1>2, PoolInvariant, PTL
-----------------------------------------------------------------------------
(* A match written off stays written off.                                   *)

(* An actor's own step changes no other actor, and its process is alive when it takes it: it
   stays where it is or moves on to the next match, and one that ends by itself has told the
   status file of the match it was in. *)
Told(k) ==
    ~Alive(k) /\ procs[k].code \in {"stopped", "failed"} /\ procs[k].in_match
      => status[k].next = procs[k].match /\ status[k].current

LEMMA ActorChange ==
    ASSUME TypeOK, NEW k \in Actors, Actor(k)
    PROVE  /\ Alive(k) /\ procs[k].match <= procs'[k].match /\ Told(k)'
           /\ \A j \in Actors \ {k} : procs'[j] = procs[j] /\ status'[j] = status[j]
<1> DEFINE p == procs[k]
           w == [next |-> p.match, current |-> p.in_match]
<1>1. /\ procs \in [Actors -> Procs] /\ status \in [Actors -> Statuses] /\ p \in Procs
      /\ p.match \in Nat
  BY DEF TypeOK, Statuses, Procs
<1>2. Alive(k)
  BY DEF Actor, Alive, Running, Boot, BeginMatch, RefreshStatus, GameEnded, MatchEnded,
         StopOnSignal, Fail, FailOpening, Die
<1>3. CASE Boot(k) \/ BeginMatch(k) \/ RefreshStatus(k) \/ GameEnded(k)
  <2>1. /\ \/ procs' = procs
           \/ procs' = [procs EXCEPT ![k].at = "running"]
           \/ procs' = [procs EXCEPT ![k].in_match = TRUE, ![k].played = 0]
           \/ procs' = [procs EXCEPT ![k].played = @ + 1]
        /\ status' = status \/ status' = [status EXCEPT ![k] = w]
    BY <1>3 DEF Boot, BeginMatch, RefreshStatus, GameEnded, WriteStatus
  <2>2. Alive(k)' /\ procs'[k].match = p.match
    <3>1. procs'[k].match = p.match /\ procs'[k].at \in {p.at, "running"}
      BY <2>1, <1>1 DEF Procs
    <3> QED BY <3>1, <1>2 DEF Alive
  <2>3. \A j \in Actors \ {k} : procs'[j] = procs[j] /\ status'[j] = status[j]
    BY <2>1, <1>1
  <2> QED BY <1>1, <1>2, <2>2, <2>3 DEF Told
<1>4. CASE MatchEnded(k)
  <2>1. procs' = [procs EXCEPT ![k] = Over(p)] /\ p.at = "running"
        /\ \E v : status' = [status EXCEPT ![k] = v]
    BY <1>4 DEF MatchEnded, WriteStatus, Running
  <2>2. procs'[k].match = p.match + 1 /\ procs'[k].at = "running"
    <3>1. procs'[k] = [p EXCEPT !.match = p.match + 1, !.in_match = FALSE, !.played = 0]
      BY <2>1, <1>1 DEF Over
    <3> QED BY <3>1, <2>1, <1>1 DEF Procs
  <2>3. Alive(k)'
    BY <2>2 DEF Alive
  <2>4. \A j \in Actors \ {k} : procs'[j] = procs[j] /\ status'[j] = status[j]
    BY <2>1, <1>1
  <2> QED BY <1>1, <1>2, <2>2, <2>3, <2>4 DEF Told
<1>5. CASE StopOnSignal(k) \/ Fail(k) \/ FailOpening(k) \/ Die(k)
  <2>1. PICK c \in {"stopped", "failed", "killed"} :
           /\ procs' = [procs EXCEPT ![k] = Dead(p, c)]
           /\ \/ c = "killed" /\ status' = status
              \/ status' = [status EXCEPT ![k] = w]
    BY <1>5, <1>1 DEF StopOnSignal, Fail, FailOpening, Die, Exits, WriteStatus, disk
  <2>2. procs'[k].match = p.match /\ procs'[k].in_match = p.in_match /\ procs'[k].code = c
    BY <2>1, <1>1 DEF Dead, Procs
  <2>3. c = "killed" \/ (status'[k].next = p.match /\ status'[k].current = p.in_match)
    BY <2>1, <1>1
  <2>4. Told(k)'
    BY <2>2, <2>3 DEF Told
  <2>5. \A j \in Actors \ {k} : procs'[j] = procs[j] /\ status'[j] = status[j]
    BY <2>1, <1>1
  <2> QED BY <1>1, <1>2, <2>2, <2>4, <2>5
<1> QED BY <1>3, <1>4, <1>5 DEF Actor

LEMMA PoolChanges ==
    ASSUME TypeOK,
           \/ \E k \in Actors : Tick(k) \/ StopTimedOut(k)
           \/ \E n \in 1..NActors : SetCount(n)
           \/ StopAll \/ AllStopped \/ KillRun
    PROVE  UNCHANGED disk /\ \A k \in Actors : PoolChange(k)
<1>1. CASE \E k \in Actors : Tick(k) \/ StopTimedOut(k)
  BY <1>1 DEF Tick, Reap, Restart, StopTimedOut, Exits, PoolChange, TypeOK
<1>2. CASE \E n \in 1..NActors : SetCount(n)
  BY <1>2 DEF SetCount, PoolChange, Signalled
<1>3. CASE StopAll \/ AllStopped \/ KillRun
  BY <1>3 DEF StopAll, AllStopped, KillRun, PoolChange, Signalled
<1> QED BY <1>1, <1>2, <1>3

(* The actor is past match i: playing a later one, or ended with a status file that makes the
   pool start it at a later one. *)
Past(k, i) == i < procs[k].match \/ (~Alive(k) /\ i < Shown(status[k]))

LEMMA PastAndTold ==
    ASSUME IInv, [Next]_vars, NEW k \in Actors, NEW i \in Nat
    PROVE  (Told(k) => Told(k)') /\ (Past(k, i) => Past(k, i)')
<1>1. TypeOK /\ procs[k] \in Procs /\ procs[k].match \in Nat /\ status[k] \in Statuses
  BY DEF IInv, TypeOK, Procs, Statuses
<1>2. CASE UNCHANGED vars
  BY <1>2 DEF vars, Told, Past, Alive, Shown
<1>3. CASE \E j \in Actors : Actor(j)
  <2>1. PICK j \in Actors : Actor(j)
    BY <1>3
  <2>2. /\ Alive(j) /\ procs[j].match <= procs'[j].match /\ Told(j)'
        /\ \A m \in Actors \ {j} : procs'[m] = procs[m] /\ status'[m] = status[m]
    BY <1>1, <2>1, ActorChange
  <2>3. CASE j = k
    <3>1. Actor(k) /\ IInv'
      BY <2>1, <2>3, ActorStep
    <3>2. procs'[k].match \in Nat
      BY <3>1 DEF IInv, TypeOK, Procs
    <3> QED BY <2>2, <2>3, <3>2, <1>1 DEF Past
  <2>4. CASE j # k
    BY <2>2, <2>4 DEF Told, Past, Alive, Shown
  <2> QED BY <2>3, <2>4
<1>4. CASE \/ \E j \in Actors : Tick(j) \/ StopTimedOut(j)
           \/ \E n \in 1..NActors : SetCount(n)
           \/ StopAll \/ AllStopped \/ KillRun
  <2>1. status' = status /\ PoolChange(k)
    BY <1>1, <1>4, PoolChanges DEF disk
  <2>2. CASE procs'[k] = procs[k]
    BY <2>1, <2>2 DEF Told, Past, Alive, Shown
  <2>3. CASE procs'[k] = Fresh(FirstMatch(k))
    <3>1. procs'[k].match = FirstMatch(k) /\ procs'[k].at = "booting"
      BY <2>3 DEF Fresh, Unborn
    <3>2. FirstMatch(k) \in Nat /\ Shown(status[k]) <= FirstMatch(k) /\ procs[k].match <= FirstMatch(k)
      BY LedgerOfStarted DEF IInv
    <3> QED BY <1>1, <3>1, <3>2 DEF Told, Past, Alive, Shown, Statuses
  <2>4. CASE procs'[k] = Dead(procs[k], "killed")
    <3>1. procs'[k].match = procs[k].match /\ procs'[k].at = "down" /\ procs'[k].code = "killed"
      BY <1>1, <2>4 DEF Dead, Procs
    <3> QED BY <2>1, <3>1 DEF Told, Past, Alive, Shown
  <2>5. CASE procs'[k] = [procs[k] EXCEPT !.term = TRUE]
    <3>1. /\ procs'[k].match = procs[k].match /\ procs'[k].at = procs[k].at
          /\ procs'[k].code = procs[k].code /\ procs'[k].in_match = procs[k].in_match
      BY <1>1, <2>5 DEF Procs
    <3> QED BY <2>1, <3>1 DEF Told, Past, Alive, Shown
  <2> QED BY <2>1, <2>2, <2>3, <2>4, <2>5 DEF PoolChange
<1> QED BY <1>2, <1>3, <1>4 DEF Next

(* A match its actor was stopped in, or failed in, is never played again: the status the actor
   leaves (write_status, actor.cpp) counts it, first_match (actors.py) starts every later process
   past it, and no process goes back. *)
THEOREM NoMatchPlayedAgain == Spec => WrittenOffForGood
<1>1. ASSUME NEW k \in Actors, NEW i \in 0..MaxMatch
      PROVE  Spec => [](WrittenOff(k, i) => []~Plays(k, i))
  <2>1. i \in Nat
    BY MaxMatchAssumption
  <2>2. Init => Told(k)
    BY DEF Init, Told, Unborn
  <2>3. IInv /\ [Next]_vars => (Told(k) => Told(k)') /\ (Past(k, i) => Past(k, i)')
    BY <2>1, PastAndTold
  <2>4. IInv /\ Told(k) /\ WrittenOff(k, i) => Past(k, i)
    BY <2>1 DEF Told, WrittenOff, Past, Shown
  <2>5. Past(k, i) => ~Plays(k, i)
    BY <2>1 DEF Past, Plays, Running, Alive
  <2> QED BY <2>2, <2>3, <2>4, <2>5, PoolInvariant, PTL DEF Spec
<1> QED BY <1>1 DEF WrittenOffForGood
=============================================================================
