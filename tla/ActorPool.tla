----------------------------- MODULE ActorPool -----------------------------
(***************************************************************************)
(* The training actors of a run and the pool that keeps them running:      *)
(* ActorPool (learn/rmlearn/orchestrator/actors.py), ticked by the         *)
(* orchestrator's loop, and the life of one actor process, actor_main and  *)
(* run_match (src/agents/actor.cpp).                                       *)
(*                                                                         *)
(* They share nothing but the disk: an actor that ends, however it ends,   *)
(* is started again at the match index its status file and its results     *)
(* file give, and its decision logs are named after that index.            *)
(***************************************************************************)
EXTENDS Integers, Sequences

CONSTANTS
    NActors,     \* the largest actor count the configuration asks for
    Games,       \* the most games a match has: 1, or 3 in a best of three
    MaxMatch,    \* bound: match indices an actor plays
    MaxCrashes   \* bound: processes that die unasked, and kills of the whole run

ASSUME NActorsAssumption == NActors \in Nat
ASSUME GamesAssumption == Games \in Nat \ {0}
ASSUME MaxMatchAssumption == MaxMatch \in Nat
ASSUME MaxCrashesAssumption == MaxCrashes \in Nat

VARIABLES
    mode,        \* "serving" (the tick loop) or "stopping" (inside stop_all)
    count,       \* ActorPool.count
    slots,       \* ActorPool.actors: what the pool knows of each process
    procs,       \* the processes
    status,      \* a<k>.status.json: next_match, and whether a match is "current"
    results,     \* a<k>.results.jsonl: one line per finished game
    logs,        \* the match indices whose decision log a<k>-m<i>.rmlog exists
    crashes      \* how many bounded failures there have been

disk == <<status, results, logs>>
vars == <<mode, count, slots, procs, status, results, logs, crashes>>

Actors == 0..(NActors - 1)

(* proc: an unreaped process; stopping: it was sent SIGTERM; due: a restart is scheduled. *)
Idle == [proc |-> FALSE, stopping |-> FALSE, due |-> FALSE]
Watched == [Idle EXCEPT !.proc = TRUE]

Unborn == [at |-> "down", match |-> 0, in_match |-> FALSE, played |-> 0, term |-> FALSE,
           code |-> "none"]
Fresh(i) == [Unborn EXCEPT !.at = "booting", !.match = i]
Dead(p, code) == [p EXCEPT !.at = "down", !.code = code]
Alive(k) == procs[k].at # "down"
Running(k) == procs[k].at = "running"

Init ==
    /\ mode = "serving" /\ count = 0
    /\ slots = [k \in Actors |-> Idle]
    /\ procs = [k \in Actors |-> Unborn]
    /\ status = [k \in Actors |-> [next |-> 0, current |-> FALSE]]
    /\ results = [k \in Actors |-> <<>>]
    /\ logs = [k \in Actors |-> {}]
    /\ crashes = 0

-----------------------------------------------------------------------------
(* The actor process.                                                       *)

(* write_status(): next_match is the index of the match in progress, or of the next one. *)
WriteStatus(k, p) == status' = [status EXCEPT ![k] = [next |-> p.match, current |-> p.in_match]]
Exits(k, code) == procs' = [procs EXCEPT ![k] = Dead(@, code)]
Pool == <<mode, count, slots>>

Boot(k) ==
    /\ procs[k].at = "booting"
    /\ procs' = [procs EXCEPT ![k].at = "running"]
    /\ WriteStatus(k, procs[k])
    /\ UNCHANGED <<Pool, results, logs, crashes>>

BeginMatch(k) ==
    /\ Running(k) /\ ~procs[k].in_match /\ ~procs[k].term
    /\ procs[k].match < MaxMatch
    /\ procs' = [procs EXCEPT ![k].in_match = TRUE, ![k].played = 0]
    /\ logs' = [logs EXCEPT ![k] = @ \cup {procs[k].match}]
    /\ UNCHANGED <<Pool, status, results, crashes>>

(* maybe_write_status(), on a decision more than STATUS_INTERVAL_S after the last write. *)
RefreshStatus(k) ==
    /\ Running(k) /\ procs[k].in_match
    /\ WriteStatus(k, procs[k])
    /\ UNCHANGED <<Pool, procs, results, logs, crashes>>

GameEnded(k) ==
    /\ Running(k) /\ procs[k].in_match /\ procs[k].played < Games
    /\ procs' = [procs EXCEPT ![k].played = @ + 1]
    /\ results' = [results EXCEPT ![k] =
                      Append(@, [match |-> procs[k].match, game |-> procs[k].played + 1])]
    /\ UNCHANGED status \/ WriteStatus(k, procs[k])
    /\ UNCHANGED <<Pool, logs, crashes>>

Over(p) == [p EXCEPT !.match = @ + 1, !.in_match = FALSE, !.played = 0]
MatchEnded(k) ==
    /\ Running(k) /\ procs[k].in_match /\ procs[k].played > 0
    /\ procs' = [procs EXCEPT ![k] = Over(@)]
    /\ WriteStatus(k, Over(procs[k]))
    /\ UNCHANGED <<Pool, results, logs, crashes>>

(* The stop signal is looked at before a decision is read and between matches. *)
StopOnSignal(k) ==
    /\ Running(k) /\ procs[k].term
    /\ Exits(k, "stopped")
    /\ WriteStatus(k, procs[k])
    /\ UNCHANGED <<Pool, results, logs, crashes>>

(* fatal_error, a schedule that cannot be read at the start included: the error hook writes the
   status before the process exits. *)
Fail(k) ==
    /\ Alive(k) /\ crashes < MaxCrashes
    /\ Exits(k, "failed")
    /\ WriteStatus(k, procs[k])
    /\ crashes' = crashes + 1
    /\ UNCHANGED <<Pool, results, logs>>

(* A match is in progress only once its decision log is open and its agents have begun it: an
   agent that cannot leaves the log of a match the status does not show. *)
FailOpening(k) ==
    /\ Running(k) /\ ~procs[k].in_match /\ ~procs[k].term
    /\ procs[k].match < MaxMatch /\ crashes < MaxCrashes
    /\ logs' = [logs EXCEPT ![k] = @ \cup {procs[k].match}]
    /\ Exits(k, "failed")
    /\ WriteStatus(k, procs[k])
    /\ crashes' = crashes + 1
    /\ UNCHANGED <<Pool, results>>

(* SIGKILL, a segmentation fault, the memory limit: nothing is written. *)
Die(k) ==
    /\ Alive(k) /\ crashes < MaxCrashes
    /\ Exits(k, "killed")
    /\ crashes' = crashes + 1
    /\ UNCHANGED <<Pool, disk>>

-----------------------------------------------------------------------------
(* The pool.                                                                *)

(* first_match: status next_match, one more when a match was in progress, and never below the
   last match with a results line + 1. *)
ShownWithoutCurrent(s) == s.next                   \* mutant: the match in progress is taken up again
ShownAlwaysPast(s) == s.next + 1                   \* mutant: a match is written off at every start
Shown(s) == IF s.current THEN s.next + 1 ELSE s.next
FloorsOfStatus(k) == {Shown(status[k])}            \* mutant: the results file is not consulted
Floors(k) == {Shown(status[k])} \cup {results[k][i].match + 1 : i \in 1..Len(results[k])}
FirstMatch(k) == CHOOSE m \in Floors(k) : \A f \in Floors(k) : f <= m

(* SIGTERM sets stop_signal once the handler is installed; before that, and the second time
   (SA_RESETHAND), it kills. *)
Signalled(p, early) ==
    IF p.term \/ (p.at = "booting" /\ early) THEN Dead(p, "killed") ELSE [p EXCEPT !.term = TRUE]

(* set_count(n), from sync when the phase wants another count than the pool has. *)
ToStart(k, n) == k < n /\ ~slots[k].proc /\ ~slots[k].due
ToStop(k, n) == k >= n /\ slots[k].proc /\ Alive(k)
SetCount(n) ==
    /\ mode = "serving" /\ n # count
    /\ count' = n
    /\ \E early \in SUBSET Actors :
          procs' = [k \in Actors |-> IF ToStart(k, n) THEN Fresh(FirstMatch(k))
                                     ELSE IF ToStop(k, n) THEN Signalled(procs[k], k \in early)
                                     ELSE procs[k]]
    /\ slots' = [k \in Actors |-> IF ToStart(k, n) THEN Watched
                                  ELSE IF k < n THEN slots[k]
                                  ELSE [slots[k] EXCEPT !.stopping = @ \/ ToStop(k, n), !.due = FALSE]]
    /\ UNCHANGED <<mode, disk, crashes>>

(* tick(): an exit is reaped; one nobody asked for schedules a restart. *)
UnaskedExit(k) ==                                   \* mutant: an exit by a signal was asked for
    ~slots[k].stopping /\ k < count /\ procs[k].code # "killed"
Unasked(k) == ~slots[k].stopping /\ k < count
Reap(k) ==
    /\ mode = "serving" /\ slots[k].proc /\ ~Alive(k)
    /\ slots' = [slots EXCEPT ![k] = IF Unasked(k) THEN [Idle EXCEPT !.due = TRUE] ELSE Idle]
    /\ UNCHANGED <<mode, count, procs, disk, crashes>>

(* tick(): the restart delay has passed. *)
Restart(k) ==
    /\ mode = "serving" /\ ~slots[k].proc /\ slots[k].due /\ k < count
    /\ procs' = [procs EXCEPT ![k] = Fresh(FirstMatch(k))]
    /\ slots' = [slots EXCEPT ![k] = Watched]
    /\ UNCHANGED <<mode, count, disk, crashes>>

(* stop_all(), at a pause, a phase that plays no training matches and the run's stop: SIGTERM,
   then SIGKILL to what has not exited after the timeout. *)
StopAll ==
    /\ mode = "serving" /\ (count > 0 \/ \E k \in Actors : slots[k].proc /\ Alive(k))
    /\ mode' = "stopping" /\ count' = 0
    /\ \E early \in SUBSET Actors :
          procs' = [k \in Actors |-> IF ToStop(k, 0) THEN Signalled(procs[k], k \in early)
                                     ELSE procs[k]]
    /\ slots' = [k \in Actors |-> [slots[k] EXCEPT !.stopping = @ \/ ToStop(k, 0), !.due = FALSE]]
    /\ UNCHANGED <<disk, crashes>>

UnresponsiveBetween(k) == Alive(k) /\ ~procs[k].in_match     \* mutant: a match is waited for
Unresponsive(k) == Alive(k)
StopTimedOut(k) ==
    /\ mode = "stopping" /\ Unresponsive(k)
    /\ Exits(k, "killed")
    /\ UNCHANGED <<Pool, disk, crashes>>

EveryActorTold == \A k \in Actors : slots[k].proc => slots[k].stopping \* mutant: no wait
EveryActorGone == \A k \in Actors : ~Alive(k)
AllStopped ==
    /\ mode = "stopping" /\ EveryActorGone
    /\ mode' = "serving"
    /\ slots' = [k \in Actors |-> Idle]
    /\ UNCHANGED <<count, procs, disk, crashes>>

(* kill -9 of the run: the orchestrator and every actor die; a new pool starts with none. *)
KillRun ==
    /\ crashes < MaxCrashes
    /\ procs' = [k \in Actors |-> IF Alive(k) THEN Dead(procs[k], "killed") ELSE procs[k]]
    /\ mode' = "serving" /\ count' = 0
    /\ slots' = [k \in Actors |-> Idle]
    /\ crashes' = crashes + 1
    /\ UNCHANGED disk

Actor(k) ==
    \/ Boot(k) \/ BeginMatch(k) \/ RefreshStatus(k) \/ GameEnded(k) \/ MatchEnded(k)
    \/ StopOnSignal(k) \/ Fail(k) \/ FailOpening(k) \/ Die(k)
Tick(k) == Reap(k) \/ Restart(k)
Next ==
    \/ \E k \in Actors : Actor(k) \/ Tick(k) \/ StopTimedOut(k)
    \/ \E n \in 1..NActors : SetCount(n)
    \/ StopAll \/ AllStopped \/ KillRun

Spec == Init /\ [][Next]_vars

(* The loop ticks every half second and stop_all's wait has a timeout.  Of an actor nothing is
   assumed: it may be stuck in a match or before its first, and never answer a signal. *)
FairSpec ==
    /\ Spec
    /\ WF_vars(AllStopped)
    /\ \A k \in Actors : WF_vars(Tick(k)) /\ WF_vars(StopTimedOut(k))
-----------------------------------------------------------------------------
(* Properties.                                                              *)

Slots == [proc : BOOLEAN, stopping : BOOLEAN, due : BOOLEAN]
Procs == [at : {"down", "booting", "running"}, match : Nat, in_match : BOOLEAN, played : Nat,
          term : BOOLEAN, code : {"none", "stopped", "failed", "killed"}]

(* Types, and: every process that is alive is one the pool will reap. *)
TypeOK ==
    /\ mode \in {"serving", "stopping"} /\ count \in Nat /\ crashes \in Nat
    /\ slots \in [Actors -> Slots]
    /\ procs \in [Actors -> Procs]
    /\ status \in [Actors -> [next : Nat, current : BOOLEAN]]
    /\ results \in [Actors -> Seq([match : Nat, game : Nat])]
    /\ logs \in [Actors -> SUBSET Nat]

(* A process that is alive has a slot that knows it: no actor is started while its last process
   still runs, and none is left behind when the pool is emptied. *)
NoOrphan == \A k \in Actors : Alive(k) => slots[k].proc

(* No game of a match is in the results twice, however often its actor was killed, stopped or
   restarted. *)
NoResultTwice ==
    \A k \in Actors : \A i, j \in 1..Len(results[k]) :
        results[k][i] = results[k][j] => i = j

(* No match index is passed over: the matches begun are those below some index. *)
NoMatchSkipped == \A k \in Actors : \A i \in logs[k] : \A j \in 0..i : j \in logs[k]

(* A match its actor was stopped in, or failed in, is written off for good. *)
WrittenOff(k, i) == ~Alive(k) /\ procs[k].code \in {"stopped", "failed"}
                    /\ procs[k].in_match /\ procs[k].match = i
Plays(k, i) == Running(k) /\ procs[k].in_match /\ procs[k].match = i
WrittenOffForGood ==
    \A k \in Actors, i \in 0..MaxMatch : [](WrittenOff(k, i) => []~Plays(k, i))

(* An actor that dies unasked is started again, unless the count is lowered below it or the pool
   is stopped meanwhile. *)
CrashedActorReturns ==
    \A k \in Actors :
        slots[k].proc /\ ~Alive(k) /\ ~slots[k].stopping /\ k < count ~> Alive(k) \/ k >= count

(* stop_all returns with every actor gone, however an actor behaves. *)
StopEnds == mode = "stopping" ~> \A k \in Actors : ~Alive(k)

(* The statements below are made by comments of the repository and do not hold.

   actors.py, the module's docstring: a restarted actor never replays a match index it used. *)
NeverReplayed ==
    [][\A k \in Actors : ~procs[k].in_match /\ procs'[k].in_match => procs[k].match \notin logs[k]]_vars

(* actors.py, set_count: runs actors 0..n-1, starts the missing ones. *)
WantedActorRuns == \A k \in Actors : k < count ~> Alive(k) \/ k >= count
=============================================================================
