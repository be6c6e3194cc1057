------------------------------ MODULE TrainingRun ------------------------------
(***************************************************************************)
(* One training run (learn/rmlearn/orchestrator): the orchestrator's loop  *)
(* over the phases B0 to B5, its GPU process (gpu.py), the live exporter   *)
(* (live.py) and the actors, through fatal stops, kills, restarts by       *)
(* systemd or by the operator, and the operator's commands. The actors'    *)
(* processes are ActorPool's; here they play or they do not.               *)
(*                                                                         *)
(* What is durable is state.json, the checkpoint it records and the files  *)
(* of results. A learner's position is its step (BC) or its iteration      *)
(* (R-NaD); the start at which it was loaded, its line, tells its weights  *)
(* from those an earlier start had at the same position.                   *)
(***************************************************************************)
EXTENDS Integers, Sequences, FiniteSets, Functions, SequencesExt

CONSTANTS
    B1Steps,        \* b1.max_steps
    Rounds,         \* b2.rounds_max; rounds_min is 1
    RoundSteps,     \* b2.min_steps_per_round
    B4Iterations,   \* b4.iterations
    B5Iterations,   \* the iteration at which b5.max_learner_steps is reached
    FatalLimit,     \* run.crash_loop_fatals
    MaxAhead,       \* bound: steps or iterations the GPU process takes beyond those the phase waits for
    MaxFaults,      \* bound: kills, and calls, processes or evaluations that fail
    MaxCommands     \* bound: the operator's commands

ASSUME BoundsAssumption ==
    /\ {B1Steps, Rounds, RoundSteps, B4Iterations, B5Iterations, FatalLimit} \subseteq Nat \ {0}
    /\ {MaxAhead, MaxFaults, MaxCommands} \subseteq Nat

VARIABLES
    state,      \* Orchestrator.state
    saved,      \* state.json
    orch,       \* the rest of the orchestrator: where its thread is, and what it forgets when it ends
    gpu,        \* the GPU process: its learner, mode, window (has it games?) and what it published
    events,     \* its events the orchestrator has not read
    exporter,   \* the live exporter: the job it runs and the one queued
    current,    \* exports/live/current.ts.pt: the policy the local actors load
    played,     \* the schedule versions with decisions enough in the results files
    actors,     \* the schedule version the actors play
    budget      \* faults and commands left

vars == <<state, saved, orch, gpu, events, exporter, current, played, actors, budget>>

Phases == <<"B0", "B1", "B2", "B3", "B4", "B5", "done">>
NoLearner == [kind |-> "none", pos |-> 0, line |-> 0, fixed |-> <<>>]
NoPhase == "none"
NoLabel == <<"none", 0>>
NoVersion == <<"none", 0>>
NoExport == [kind |-> "none", line |-> 0, round |-> 0, epoch |-> 0, done |-> FALSE]
NewState ==
    [phase |-> "B0", stage |-> "", round |-> 0, start |-> 0, began |-> [round |-> 0, pos |-> 0],
     bc |-> 0, iterations |-> 0, hold |-> FALSE, paused |-> FALSE, pending |-> NoPhase,
     checkpoint |-> NoLearner, ladder |-> {}, queue |-> <<>>, running |-> NoLabel, evaluated |-> {},
     final |-> FALSE,
     fatals |-> 0, mark |-> <<>>, marks |-> <<>>, starts |-> 0]
NoGpu == [learner |-> NoLearner, mode |-> "idle", paused |-> FALSE, published |-> -1, games |-> FALSE]
Down(exit) == [at |-> "down", then |-> "down", exit |-> exit, resume |-> FALSE, force |-> FALSE,
               live |-> FALSE, epoch |-> 0, stopping |-> FALSE]

Init ==
    /\ state = NewState /\ saved = NewState
    /\ orch = Down(0)
    /\ gpu = NoGpu /\ events = <<>>
    /\ exporter = [busy |-> NoExport, next |-> NoExport]
    /\ current = NoExport
    /\ played = {} /\ actors = NoVersion
    /\ budget = [faults |-> MaxFaults, commands |-> MaxCommands]

-----------------------------------------------------------------------------
(* Starting and ending.                                                     *)

At(p) == orch.at = p
Goto(p) == orch' = [orch EXCEPT !.at = p]
Model == gpu.learner.kind
Save == saved' = state'
Unread == <<gpu, events, exporter, current, played>>
Outside == <<gpu, events, exporter, current, played, actors, budget>>

RunningForgotten(s) == [s EXCEPT !.running = NoLabel]    \* mutant
RunningFirst(s) ==                          \* an evaluation that was running is queued again, in front
    IF s.running = NoLabel THEN s
    ELSE [s EXCEPT !.queue = <<s.running>> \o @, !.running = NoLabel]

(* main(): state.json is read, the phase is entered again. *)
Begin(s) ==
    /\ state' = RunningFirst([s EXCEPT !.starts = @ + 1])
    /\ Save
    /\ orch' = [Down(0) EXCEPT !.at = "enter", !.then = "events", !.resume = TRUE]
    /\ UNCHANGED <<gpu, events, exporter, current, played, actors>>

(* systemd restarts a unit that failed or was killed, but not one that gave up. *)
Restart ==
    /\ At("down") /\ orch.exit \in {2, 9}
    /\ Begin(saved)
    /\ UNCHANGED budget

Cleared(s) == [s EXCEPT !.fatals = 0, !.mark = <<>>, !.marks = <<>>]
(* rmtrain start: an explicit start clears the count of fatal stops. *)
Start ==
    /\ At("down") /\ orch.exit \in {0, 4} /\ saved.phase # "done"
    /\ saved.starts = 0 \/ budget.commands > 0
    /\ Begin(Cleared(saved))
    /\ budget' = [budget EXCEPT !.commands = IF saved.starts = 0 THEN @ ELSE @ - 1]

(* Every process of the run ends with the orchestrator; what was not written is lost. *)
AllDown ==
    /\ gpu' = NoGpu /\ events' = <<>> /\ exporter' = [busy |-> NoExport, next |-> NoExport]
    /\ actors' = NoVersion
    /\ UNCHANGED <<current, played>>

Kill ==
    /\ ~At("down") /\ budget.faults > 0
    /\ budget' = [budget EXCEPT !.faults = @ - 1]
    /\ orch' = Down(9) /\ state' = saved
    /\ AllDown
    /\ UNCHANGED saved

Version(s) == IF s.phase = "B0" THEN <<"b0", 0>> ELSE <<"b2", s.round>>
(* progress_mark() *)
Mark(s) ==
    [phase |-> s.phase, stage |-> s.stage,
     step |-> IF s.phase \in {"B4", "B5", "done"} THEN s.iterations ELSE s.bc,
     decisions |-> IF s.phase \in {"B0", "B2"} /\ Version(s) \in played THEN 1 ELSE 0]
NoMoreSteps(m, last) ==                      \* mutant: another stage is no progress
    m.step <= last.step /\ m.decisions <= last.decisions
NotPast(m, last) ==
    /\ m.phase = last.phase /\ m.stage = last.stage
    /\ m.step <= last.step /\ m.decisions <= last.decisions
LastFew(seq) == SubSeq(seq, IF Len(seq) > FatalLimit THEN Len(seq) - FatalLimit + 1 ELSE 1, Len(seq))

(* note_fatal(): a fatal stop that made no progress since the mark counts on. marks is a history of
   them for the properties. *)
Noted(s) ==
    LET m == Mark(s)
        stalled == s.mark # <<>> /\ NotPast(m, s.mark)
    IN  [s EXCEPT !.fatals = IF stalled THEN @ + 1 ELSE 1,
                  !.mark = IF stalled THEN @ ELSE m,
                  !.marks = LastFew(Append(@, m))]

(* A call to the GPU process that fails, or its end: the run stops without a checkpoint, in state s. *)
Fatal(s) ==
    /\ budget.faults > 0
    /\ budget' = [budget EXCEPT !.faults = @ - 1]
    /\ state' = RunningFirst(Noted(s)) /\ Save
    /\ orch' = Down(IF Noted(s).fatals >= FatalLimit THEN 4 ELSE 2)
    /\ AllDown

GpuDies == At("events") /\ Model # "none" /\ Fatal(state)

-----------------------------------------------------------------------------
(* Entering a phase.                                                        *)

(* A list without the elements that are not in S: its n-th is the one with n of S up to it. *)
Places(seq, S) == {i \in DOMAIN seq : seq[i] \in S}
Rank(i, places) == Cardinality({j \in places : j <= i})
Kept(seq, S) ==
    [n \in 1..Cardinality(Places(seq, S)) |->
        seq[CHOOSE i \in Places(seq, S) : Rank(i, Places(seq, S)) = n]]

Queued(s, label) == s.running = label \/ label \in Range(s.queue)
QueuedAgain(s, label) == [s EXCEPT !.queue = Append(@, label)]   \* mutant
WithEval(s, label) == IF Queued(s, label) THEN s ELSE [s EXCEPT !.queue = Append(@, label)]
(* A stage's evaluation that a fatal stop lost is queued again by enter_phase(). *)
LostForGood(s, label) == s                   \* mutant
Requeued(s, label) == IF s.pending = NoPhase THEN WithEval(s, label) ELSE s
Entering(p) == At("enter") /\ state.phase = p
(* enter_phase() ends, and its caller goes on. *)
Entered(s) ==
    /\ state' = s /\ Save
    /\ orch' = [orch EXCEPT !.at = orch.then]

(* transition(): a phase that plays no training matches stops the actors. *)
MovedTo(s, to) == [s EXCEPT !.phase = to, !.stage = "", !.pending = NoPhase]
Transition(s, to, then) ==
    /\ state' = MovedTo(s, to)
    /\ actors' = IF to \in {"B1", "B3", "done"} THEN NoVersion ELSE actors
    /\ orch' = [orch EXCEPT !.at = "enter", !.then = then, !.resume = FALSE, !.force = FALSE]

EnterB0 ==
    /\ Entering("B0")
    /\ Entered([state EXCEPT !.stage = "collect"])
    /\ UNCHANGED Outside

(* ensure_bc_model(), ensure_rnad_model(): the recorded checkpoint is loaded, once a start. *)
Loaded(c) ==
    /\ gpu' = [gpu EXCEPT !.learner = [c EXCEPT !.line = state.starts], !.published = -1]
    /\ UNCHANGED <<events, exporter, current, played, actors, budget>>

LoadBc ==
    /\ \E p \in {"B1", "B2"} : Entering(p)
    /\ Model = "none"
    /\ LET c == IF state.checkpoint.kind = "bc" THEN state.checkpoint ELSE [NoLearner EXCEPT !.kind = "bc"]
       IN  \/ /\ Loaded(c)
              /\ state' = [state EXCEPT !.bc = c.pos]
              /\ UNCHANGED <<saved, orch>>
           \/ Fatal(state)

EnterB1 ==
    /\ Entering("B1") /\ Model = "bc"
    /\ LET s == IF state.stage = "eval" THEN state ELSE [state EXCEPT !.stage = "train"]
       IN  Entered(IF s.stage = "eval" THEN Requeued(s, <<"b1", 0>>) ELSE s)
    /\ UNCHANGED Outside

EnterB2 ==
    /\ Entering("B2") /\ Model = "bc"
    /\ LET r == IF state.round = 0 THEN 1 ELSE state.round
           s == [state EXCEPT !.round = r,
                              !.stage = IF @ = "eval" /\ state.round > 0 THEN "eval" ELSE "collect"]
       IN  IF s.stage = "collect"
           THEN state' = s /\ Goto("round") /\ UNCHANGED saved
           ELSE Entered(Requeued(s, <<"b2", r>>))
    /\ UNCHANGED Outside

(* live_reset() and live_export(): a new epoch, whose export replaces a queued one. *)
Export(round, epoch) == [kind |-> Model, line |-> gpu.learner.line, round |-> round,
                         epoch |-> epoch, done |-> FALSE]
Requested(x) ==
    exporter' = IF exporter.busy = NoExport THEN [exporter EXCEPT !.busy = x] ELSE [exporter EXCEPT !.next = x]

(* start_round(): the round's policy is frozen, exported anew, and its first step noted. *)
StartedAt(s) == IF orch.resume /\ s.start # 0 THEN s.start ELSE gpu.learner.pos
StartRound ==
    /\ At("round")
    /\ \/ /\ Requested(Export(state.round, orch.epoch + 1))
          /\ state' = [state EXCEPT !.start = StartedAt(state),
                          !.began = IF @.round = state.round THEN @
                                    ELSE [round |-> state.round, pos |-> gpu.learner.pos]]
          /\ Save
          /\ orch' = [orch EXCEPT !.at = orch.then, !.live = FALSE, !.epoch = @ + 1]
          /\ UNCHANGED <<gpu, events, current, played, actors, budget>>
       \/ Fatal(state)

(* checkpoint(): the learner is written by the GPU process, then recorded in state.json. *)
WithCheckpoint(s) ==
    [s EXCEPT !.checkpoint = gpu.learner,
              !.iterations = IF Model = "rnad" THEN gpu.learner.pos ELSE @]

(* seed_rnad(): from bc-final.pt, or after a restart from the recorded checkpoint; done already when
   that is an R-NaD one. *)
FinalBc ==
    /\ Entering("B3") /\ Model = "bc"
    /\ \/ /\ state' = WithCheckpoint(state) /\ Save
          /\ Goto("final")
          /\ UNCHANGED Outside
       \/ Fatal(state)

Seed ==
    /\ At("final") \/ (Entering("B3") /\ Model = "none" /\ state.checkpoint.kind = "bc")
    /\ \/ LET seeded == [kind |-> "rnad", pos |-> 0, line |-> state.starts, fixed |-> <<>>]
          IN  /\ gpu' = [gpu EXCEPT !.learner = seeded, !.mode = "idle", !.published = -1]
              /\ orch' = [orch EXCEPT !.at = "seeded", !.live = FALSE, !.epoch = @ + 1]
              /\ state' = [state EXCEPT !.iterations = 0]
              /\ UNCHANGED <<saved, events, exporter, current, played, actors, budget>>
       \/ Fatal(state)

SeedSaved ==
    /\ At("seeded")
    /\ \/ /\ Transition(WithCheckpoint(state), "B4", orch.then)
          /\ saved' = WithCheckpoint(state)
          /\ UNCHANGED <<Unread, budget>>
       \/ Fatal(state)

SeededBefore ==
    /\ Entering("B3") /\ Model = "none" /\ state.checkpoint.kind = "rnad"
    /\ Transition(state, "B4", orch.then)
    /\ UNCHANGED <<saved, Unread, budget>>

(* roll_back(): what the lost steps made is dropped. *)
Standing(labels, k) == {l \in labels : l[1] # "it" \/ l[2] <= k}
NothingDropped(s, k) == s                    \* mutant
RolledBack(s, k) ==
    [s EXCEPT !.iterations = k,
              !.ladder = {r \in @ : r[1] <= k},
              !.queue = Kept(@, Standing(Range(@), k)),
              !.evaluated = Standing(@, k)]

LoadRnad ==
    /\ \E p \in {"B4", "B5"} : Entering(p)
    /\ Model = "none"
    /\ \/ /\ Loaded(state.checkpoint)
          /\ state' = RolledBack(state, state.checkpoint.pos)
          /\ orch' = [orch EXCEPT !.live = FALSE, !.epoch = @ + 1]
          /\ UNCHANGED saved
       \/ Fatal(state)

EnterSelfplay ==
    /\ \E p \in {"B4", "B5"} : Entering(p)
    /\ Model = "rnad"
    /\ \/ /\ Entered([state EXCEPT !.stage = "selfplay"])
          /\ UNCHANGED Outside
       \/ /\ state.phase = "B5"
          /\ Fatal([state EXCEPT !.stage = "selfplay"])

EnterDone ==
    /\ Entering("done")
    /\ \/ /\ state' = IF Model = "rnad" THEN [WithCheckpoint(state) EXCEPT !.final = TRUE] ELSE state
          /\ Save
          /\ orch' = [orch EXCEPT !.at = orch.then, !.stopping = TRUE]
          /\ UNCHANGED Outside
       \/ Model = "rnad" /\ Fatal(state)

-----------------------------------------------------------------------------
(* tick(): the events, the operator's requests, the phase's test, then the   *)
(* processes, the live export, the evaluations and the periodic checkpoint.  *)

(* on_gpu_event(), on_iteration(): a boundary's fixed point is a rung, and is evaluated. *)
WithRung(s, k, line) ==
    [s EXCEPT !.iterations = k,
              !.ladder = {r \in @ : r[1] # k} \cup {<<k, line>>},
              !.queue = WithEval(s, <<"it", k>>).queue]

ReadEvent ==
    /\ At("events") /\ events # <<>>
    /\ LET e == Head(events) IN
       /\ events' = Tail(events)
       /\ \/ /\ e.event = "bc"
             /\ state' = [state EXCEPT !.bc = e.pos]
             /\ UNCHANGED <<saved, exporter>>
          \/ /\ e.event = "iteration"
             /\ state' = WithRung(state, e.pos, e.line) /\ Save
             /\ UNCHANGED exporter
          \/ /\ e.event = "saved"
             /\ Requested(Export(0, orch.epoch))
             /\ UNCHANGED <<state, saved>>
    /\ UNCHANGED <<orch, gpu, current, played, actors, budget>>

EventsRead ==
    /\ At("events") /\ events = <<>>
    /\ Goto("phase")
    /\ UNCHANGED <<state, saved, Outside>>

(* command(): hold, release, pause, resume, next and stop. *)
Command ==
    /\ At("phase") /\ budget.commands > 0
    /\ budget' = [budget EXCEPT !.commands = @ - 1]
    /\ \/ /\ \/ state' = [state EXCEPT !.hold = ~@]
             \/ state' = [state EXCEPT !.paused = ~@]
          /\ UNCHANGED orch
       \/ /\ \/ orch' = [orch EXCEPT !.force = TRUE]
             \/ orch' = [orch EXCEPT !.stopping = TRUE]
          /\ UNCHANGED state
    /\ Save
    /\ UNCHANGED <<gpu, events, exporter, current, played, actors>>

Testing(p) ==
    /\ At("phase") /\ state.phase = p /\ ~state.paused /\ ~orch.stopping
    /\ state.pending = NoPhase \/ (state.hold /\ ~orch.force)
ToSync == orch' = [orch EXCEPT !.at = "sync", !.force = FALSE]
Forced == orch.force
MayMove == ~state.hold \/ orch.force

(* A transition an evaluation's result decided while transitions were held: released, or forced. *)
MovePending ==
    /\ At("phase") /\ ~state.paused /\ ~orch.stopping
    /\ state.pending # NoPhase /\ MayMove
    /\ Transition(state, state.pending, "sync")
    /\ UNCHANGED <<saved, Unread, budget>>

(* The tests of B0, B4 and B5, and the ends of the evaluation stages that the operator forces. *)
Exit(p) ==
    \/ p \in {"B0", "B4", "B5"} /\ Forced
    \/ p \in {"B1", "B2"} /\ Forced /\ state.stage = "eval"
    \/ p = "B0" /\ <<"b0", 0>> \in played
    \/ p = "B4" /\ state.iterations >= B4Iterations
    \/ p = "B5" /\ state.iterations >= B5Iterations
After(p) == CHOOSE q \in Range(Phases) : \E i \in 1..6 :
    Phases[i] = p /\ q = (IF p = "B2" THEN "B3" ELSE Phases[i + 1])
(* cancel_eval() *)
WithoutEval(s, label) ==
    [s EXCEPT !.queue = Kept(@, Range(@) \ {label}), !.running = IF @ = label THEN NoLabel ELSE @]

StagesLabel == IF state.phase = "B1" THEN <<"b1", 0>> ELSE <<"b2", state.round>>
Move(p) ==
    /\ Testing(p) /\ Exit(p) /\ MayMove
    /\ Transition(IF p \in {"B1", "B2"} THEN WithoutEval(state, StagesLabel) ELSE state, After(p), "sync")
    /\ UNCHANGED <<saved, Unread, budget>>

(* end_b1(), end_round(): a checkpoint, the actors stopped, the stage's evaluation queued. *)
EndStage(label) ==
    \/ /\ state' = WithEval([WithCheckpoint(state) EXCEPT !.stage = "eval"], label) /\ Save
       /\ actors' = NoVersion
       /\ ToSync
       /\ UNCHANGED <<Unread, budget>>
    \/ Fatal(state)

TrainingOver == Forced \/ state.bc >= B1Steps
EndB1 ==
    /\ Testing("B1") /\ state.stage = "train"
    /\ TrainingOver /\ MayMove
    /\ EndStage(<<"b1", 0>>)

RoundOver == <<"b2", state.round>> \in played /\ state.bc - state.start >= RoundSteps
EndRound ==
    /\ Testing("B2") /\ state.stage = "collect"
    /\ Forced \/ RoundOver
    /\ EndStage(<<"b2", state.round>>)

Stays(p) ==
    \/ /\ p = "B1" /\ state.stage = "train"
       /\ ~(TrainingOver /\ MayMove)
    \/ /\ p = "B2" /\ state.stage = "collect"
       /\ ~(Forced \/ RoundOver)
    \/ /\ <<p, state.stage>> \notin {<<"B1", "train">>, <<"B2", "collect">>}
       /\ ~(Exit(p) /\ MayMove)
Stay ==
    /\ \E p \in Range(Phases) : Testing(p) /\ Stays(p)
    /\ ToSync
    /\ UNCHANGED <<state, saved, Outside>>

(* Neither tested while paused nor once a stop is asked for. *)
NotTested ==
    /\ At("phase") /\ (state.paused \/ orch.stopping)
    /\ Goto("sync")
    /\ UNCHANGED <<state, saved, Outside>>

(* sync(): wanted(), the schedule and the actors, then the GPU process's mode. *)
WantsActors ==
    \/ state.phase \in {"B0", "B4", "B5"}
    \/ state.phase = "B2" /\ state.stage = "collect"
Wanted == IF state.phase \in {"B0", "B2"} THEN Version(state) ELSE <<"selfplay", 0>>
WantedMode ==
    CASE state.phase \in {"B4", "B5"} -> "rnad"
      [] state.phase = "B2" \/ (state.phase = "B1" /\ state.stage = "train") -> "bc"
      [] OTHER -> "idle"
WaitsForPolicy == state.phase \in {"B2", "B4", "B5"} /\ ~orch.live
Synced == [gpu EXCEPT !.mode = WantedMode, !.paused = state.paused]

Sync ==
    /\ At("sync") /\ ~orch.stopping
    /\ actors' = IF ~WantsActors \/ state.paused THEN NoVersion
                 ELSE IF WaitsForPolicy THEN actors ELSE Wanted
    /\ gpu' = IF Model = "none" THEN gpu ELSE Synced
    /\ Goto("live")
    /\ UNCHANGED <<state, saved, events, exporter, current, played, budget>>

SyncFails ==
    /\ At("sync") /\ ~orch.stopping
    /\ Model # "none" /\ Synced # gpu
    /\ Fatal(state)

SyncsNothing ==
    /\ At("sync") /\ orch.stopping
    /\ Goto("live")
    /\ UNCHANGED <<state, saved, Outside>>

-----------------------------------------------------------------------------
(* The rest of a tick, and the end.                                         *)

OfAnyEpoch(x) == TRUE                       \* mutant
OfThisEpoch(x) == x.epoch = orch.epoch
(* live_tick() *)
LiveTick ==
    /\ At("live")
    /\ LET x == exporter.busy IN
       \/ /\ ~x.done
          /\ Goto("eval")
          /\ UNCHANGED <<state, saved, Outside>>
       \/ /\ x.done
          /\ exporter' = [busy |-> exporter.next, next |-> NoExport]
          /\ orch' = [orch EXCEPT !.at = "eval", !.live = @ \/ OfThisEpoch(x)]
          /\ UNCHANGED <<state, saved, gpu, events, current, played, actors, budget>>
       \/ /\ x # NoExport /\ ~x.done
          /\ Fatal(state)

(* eval_tick(). While the orchestrator is up its evaluation job is the one state.running names. *)
JobRuns == state.running # NoLabel
Ended(s) == [s EXCEPT !.running = NoLabel, !.evaluated = @ \cup {s.running}]
StagesEval ==
    /\ state.stage = "eval"
    /\ state.running = StagesLabel

EvalPaused ==                               \* queued again, in front
    /\ At("eval") /\ JobRuns /\ state.paused
    /\ state' = RunningFirst(state)
    /\ Goto("end")
    /\ UNCHANGED <<saved, Outside>>

EvalGoesOn ==
    /\ At("eval")
    /\ IF JobRuns THEN ~state.paused
       ELSE state.paused \/ orch.stopping \/ state.queue = <<>> \/ Model = "none"
    /\ Goto("end")
    /\ UNCHANGED <<state, saved, Outside>>

(* fail_eval(): an export it waits for failed; the stage stays. *)
EvalFails ==
    /\ At("eval") /\ JobRuns /\ ~state.paused
    /\ budget.faults > 0
    /\ budget' = [budget EXCEPT !.faults = @ - 1]
    /\ state' = Ended(state) /\ Save
    /\ Goto("end")
    /\ UNCHANGED <<gpu, events, exporter, current, played, actors>>

(* finish_eval(): the result of the stage's own evaluation moves the run on, once transitions are
   not held. *)
EvalDone ==
    /\ At("eval") /\ JobRuns /\ ~state.paused
    /\ ~StagesEval
    /\ state' = Ended(state) /\ Save
    /\ Goto("end")
    /\ UNCHANGED Outside

StageEvaluated ==
    /\ At("eval") /\ StagesEval /\ ~state.paused
    /\ IF state.hold
       THEN /\ state' = [Ended(state) EXCEPT !.pending = After(state.phase)] /\ Save
            /\ Goto("end")
            /\ UNCHANGED actors
       ELSE /\ Transition(Ended(state), After(state.phase), "end")
            /\ UNCHANGED saved
    /\ UNCHANGED <<Unread, budget>>

(* after_round_eval(): while the win rate improves, another round, up to the cap. *)
AnotherRound ==
    /\ At("eval") /\ StagesEval /\ ~state.paused
    /\ state.phase = "B2" /\ state.round < Rounds
    /\ state' = [Ended(state) EXCEPT !.round = @ + 1, !.stage = "collect"]
    /\ orch' = [orch EXCEPT !.at = "round", !.then = "end", !.resume = FALSE]
    /\ UNCHANGED <<saved, Outside>>

(* Without a fixed point of its own it plays the current network, which save_model writes. *)
EvalStarts ==
    /\ At("eval") /\ ~JobRuns
    /\ ~state.paused /\ ~orch.stopping /\ state.queue # <<>> /\ Model # "none"
    /\ LET popped == [state EXCEPT !.queue = Tail(@)]
       IN  \/ /\ state' = [popped EXCEPT !.running = Head(state.queue)]
              /\ Goto("end")
              /\ UNCHANGED <<saved, Outside>>
           \/ /\ Head(state.queue)[1] # "it"
              /\ Fatal(popped)

(* The periodic checkpoint, or only the periodic save, or neither. *)
LoopsOn == IF orch.stopping THEN "stopping" ELSE "events"
TickEnds ==
    /\ At("end")
    /\ \/ UNCHANGED <<state, saved>>
       \/ /\ Model # "none" /\ ~state.paused
          /\ state' = WithCheckpoint(state) /\ Save
       \/ UNCHANGED state /\ Save
    /\ Goto(LoopsOn)
    /\ UNCHANGED Outside

CheckpointFails ==
    /\ At("end") /\ Model # "none" /\ ~state.paused
    /\ Fatal(state)

(* shutdown(): the evaluation is queued again, the actors stop and the exporter ends ... *)
Shutdown ==
    /\ At("stopping")
    /\ state' = RunningFirst(state)
    /\ actors' = NoVersion
    /\ exporter' = [busy |-> NoExport, next |-> NoExport]
    /\ current' = IF exporter.busy = NoExport THEN current ELSE [exporter.busy EXCEPT !.done = TRUE]
    /\ Goto("closing")
    /\ UNCHANGED <<saved, gpu, events, played, budget>>

(* ... then a last checkpoint; one that fails is only logged. *)
Closed ==
    /\ At("closing")
    /\ IF Model = "none" \/ state.phase \in {"B3", "done"}
       THEN UNCHANGED <<state, budget>>
       ELSE \/ state' = WithCheckpoint(state) /\ UNCHANGED budget
            \/ /\ budget.faults > 0 /\ budget' = [budget EXCEPT !.faults = @ - 1]
               /\ UNCHANGED state
    /\ Save
    /\ orch' = Down(0)
    /\ AllDown

-----------------------------------------------------------------------------
(* The other processes.                                                      *)

Learning(kind) == Model = kind /\ gpu.mode = kind /\ ~gpu.paused
Awaited ==
    CASE state.phase = "B1" -> B1Steps
      [] state.phase = "B2" -> state.start + RoundSteps
      [] state.phase = "B4" -> B4Iterations
      [] OTHER -> B5Iterations
InBounds == gpu.learner.pos < Awaited + MaxAhead
Emit(e) == events' = Append(events, e)
Running == UNCHANGED <<state, saved, orch, actors, budget>>

(* bc_unit(). A report the orchestrator has not read is replaced by the next: it reads all of them
   and keeps the last one's step. *)
BcStep ==
    /\ Learning("bc") /\ InBounds
    /\ gpu' = [gpu EXCEPT !.learner.pos = @ + 1]
    /\ events' = <<[event |-> "bc", pos |-> gpu.learner.pos + 1, line |-> gpu.learner.line]>>
    /\ UNCHANGED <<exporter, current, played>> /\ Running

(* maybe_publish(): at first and when due, at most once a position. *)
Publish ==
    /\ Learning("rnad") /\ gpu.published < gpu.learner.pos
    /\ gpu' = [gpu EXCEPT !.published = gpu.learner.pos]
    /\ Emit([event |-> "saved", pos |-> gpu.learner.pos, line |-> gpu.learner.line])
    /\ UNCHANGED <<exporter, current, played>> /\ Running

(* rnad_unit(), over the steps of one iteration: it takes games of the window. *)
Iteration ==
    /\ Learning("rnad") /\ gpu.published >= 0 /\ gpu.games /\ InBounds
    /\ LET l == gpu.learner IN
       /\ gpu' = [gpu EXCEPT !.learner.pos = @ + 1, !.learner.fixed = Append(@, l.line), !.games = FALSE]
       /\ Emit([event |-> "iteration", pos |-> l.pos + 1, line |-> l.line])
    /\ UNCHANGED <<exporter, current, played>> /\ Running

(* The live exporter's process writes the actors' file. *)
Exported ==
    /\ exporter.busy # NoExport /\ ~exporter.busy.done
    /\ exporter' = [exporter EXCEPT !.busy.done = TRUE]
    /\ current' = exporter'.busy
    /\ UNCHANGED <<gpu, events, played>> /\ Running

(* The actors play matches enough of a version. *)
Play ==
    /\ actors # NoVersion
    /\ played' = played \cup ({actors} \ {<<"selfplay", 0>>})
    /\ gpu' = [gpu EXCEPT !.games = @ \/ actors = <<"selfplay", 0>>]
    /\ <<played', gpu'>> # <<played, gpu>>
    /\ UNCHANGED <<events, exporter, current>> /\ Running

Over == At("down") /\ orch.exit \in {0, 4} /\ UNCHANGED vars

Orchestrator ==
    \/ EnterB0 \/ LoadBc \/ EnterB1 \/ EnterB2 \/ StartRound \/ FinalBc \/ Seed \/ SeedSaved
    \/ SeededBefore \/ LoadRnad \/ EnterSelfplay \/ EnterDone
    \/ ReadEvent \/ EventsRead \/ MovePending \/ EndB1 \/ EndRound \/ Stay \/ NotTested
    \/ \E p \in Range(Phases) : Move(p)
    \/ Sync \/ SyncsNothing \/ LiveTick
    \/ EvalPaused \/ EvalGoesOn \/ EvalDone \/ StageEvaluated \/ AnotherRound \/ EvalStarts
    \/ TickEnds \/ Shutdown \/ Closed
Faults == Kill \/ GpuDies \/ SyncFails \/ EvalFails \/ CheckpointFails
Operator == Start \/ Command
Next == Orchestrator \/ Restart \/ Operator \/ Faults \/ BcStep \/ Publish \/ Iteration \/ Exported \/ Play \/ Over
Spec == Init /\ [][Next]_vars

(* The GPU process, the exporter and the actors go on; the orchestrator's loop is never blocked for
   ever (a call ends or fails), systemd restarts it, and an evaluation that is polled for ever ends. *)
Fairness ==
    /\ WF_vars(Orchestrator) /\ WF_vars(Restart)
    /\ SF_vars(EvalDone \/ StageEvaluated)
    /\ WF_vars(BcStep) /\ WF_vars(Publish) /\ WF_vars(Iteration) /\ WF_vars(Exported) /\ WF_vars(Play)
FairSpec == Spec /\ Fairness

-----------------------------------------------------------------------------
(* An evaluation waits for its turn once, and not while it runs: main() puts the one the last
   orchestrator died in back at the front, phases queue theirs again when they are entered again. *)
EvaluationsQueuedOnce ==
    /\ state.running \notin Range(state.queue)
    /\ IsInjective(state.queue) /\ IsInjective(saved.queue)

(* The ladder's rungs are fixed points the running learner's own steps made, never those of steps a
   restart lost: their files are written again for other weights (roll_back()). *)
RungsAreThisLearners ==
    Model = "rnad" =>
        \A r \in state.ladder : r[1] <= gpu.learner.pos /\ r[2] = gpu.learner.fixed[r[1]]

(* Actors that play the network play the one of this model, of this start and, in a DAgger round, of
   this round: the export of an earlier one that ends late does not start them (live_tick()). *)
ActorsPlayThisLearner ==
    actors[1] \in {"b2", "selfplay"} =>
        /\ current.kind = IF actors[1] = "b2" THEN "bc" ELSE "rnad"
        /\ current.line = gpu.learner.line
        /\ current.round = actors[2]

(* No fixed point of the ladder goes without its evaluation, whatever stops the run while it is
   queued or runs: it is queued, running, or ended. *)
EveryRungEvaluated ==
    ~At("down") => \A r \in state.ladder : Queued(state, <<"it", r[1]>>) \/ <<"it", r[1]>> \in state.evaluated

(* The run gives up exactly when its last FatalLimit fatal stops since it was started each made no
   progress past the first of them: one that did, in between, starts the count anew (note_fatal()). *)
NoFurther(m, first) == m.phase = first.phase /\ m.stage = first.stage /\ m.step <= first.step
                       /\ m.decisions <= first.decisions
GivesUp ==
    orch.exit \in {2, 4} =>
        (orch.exit = 4 <=> /\ Len(state.marks) = FatalLimit
                           /\ \A m \in Range(state.marks) : NoFurther(m, state.marks[1]))

(* The run ends, unless the operator holds or pauses it, or the evaluation a stage waits for failed. *)
Ends == At("down") /\ orch.exit \in {0, 4}
StageFailed == state.stage = "eval" /\ StagesLabel \in state.evaluated /\ ~Queued(state, StagesLabel)
RunEnds == <>[](Ends \/ state.hold \/ state.paused \/ StageFailed)

(* docs/rmtrain.md:311: at each boundary the fixed point, its export, an evaluation. Checked once the
   events have been read. *)
EveryBoundaryHasItsRung ==
    At("phase") /\ Model = "rnad" /\ events = <<>> =>
        \A k \in 1..gpu.learner.pos : \E r \in state.ladder : r[1] = k

(* docs/rmtrain.md:312: B5 ends with rnad-final.pt. *)
FinishedRunHasItsCheckpoint == At("down") /\ orch.exit = 0 /\ saved.phase = "done" => saved.final

(* docs/rmtrain.md:308: a round waits for its decisions and its steps, unless the operator moves on. *)
RoundTrained ==
    [][EndRound /\ ~Forced /\ ~At("down")' => gpu.learner.pos - state.began.pos >= RoundSteps]_vars

=============================================================================
