# RoboMage: verification project

RoboMage is a rules engine for Magic: The Gathering (C++17, `src/src`), the tools around it, and the
programs that train agents on it (`src/learn`). The engine is a deterministic single-threaded
machine: everything a player decides is an index into a menu, and a decision asked in the middle of a
rule — while a spell is cast, an ability resolves, a permanent enters — suspends what asked it and
returns to one loop. The training program is the opposite: many processes that share files and
sockets, are killed and restarted, and must neither lose nor repeat work.

This directory models both: of the engine the **game loop** with its suspensions, **casting and
paying**, the **match** with its sideboarding and the **entity store** with its snapshots; of training
the **actor pool** with its restarts, the **inference server** and its clients, and the **run** the
orchestrator leads through its phases. Paths below are relative to the repository; a `file.cpp:line`
without a directory is one that `PROJECT.json` maps.

## 1. Inventory

### Engine (`src/`)

| Part | State | Operations | Interacts through | What must be right |
|---|---|---|---|---|
| Game loop: `game_driver.cpp` (`play_single_game`), `classes/game.cpp` (`advance_step`), `game.h` | step, turn, active player, priority and passes, extra turns, `ended`, the pregame stage, the mandatory choice | one iteration: pregame step, turn-based actions, state-based check, step change or resolution, mandatory choice, priority question | calls every other part; one parked query (`pending_query.h`) tells it which flow an answer belongs to | the turn's order; nothing resolves unseen; every answer reaches its asker; no check inside a flow; progress |
| State-based check and triggers: `systems/state_manager*.cpp` | waiting triggers, the placement cursor, SBA marks | `process_turn_based_actions`, `state_based_effects`, `resume_trigger_placement` | asks through the latched query, takes priority from seat to seat to order triggers | fixpoint reached; priority returned to the seat it was taken from; cleanup rounds |
| Stack and resolution: `systems/stack_manager.cpp`, `resolution.cpp`, `resolution_frame.cpp`, `effects/` | the stack, the resolution frame (levels and stages, `prev_priority`) | `resolve_top`, `frame_enter/finish`, `FrameCtx::ask`, `resolve_ability` | asks, suspends, casts inside a resolution | each effect once; priority restored |
| Casting and activating: `action_processor.cpp`, `mana_system.cpp`, `announce.cpp`, `unless_payment.cpp` | `PendingCast`/`PendingActivation` phase, payment plan, rewind record | `begin_cast`, `run_cast_flow`, `run_activation_flow`, `rewind_cast`, damage division, attackers, blockers | suspends at every choice; runs at priority or inside a resolution | atomic: paid and on the stack, or rewound |
| Draws and zones: `systems/orderer.cpp` | zone order, pending draws, miracle slot | `perform_draw`, `resume_pending_draws`, pushes onto the stack | suspended by replacements (dredge) | order kept; offers not lost |
| Static effects: `state_manager_statics.cpp`, `queries/` | derived characteristics | recomputation | read by all | a function of the state |
| Match and sideboarding: `game_driver.cpp` (`play_bo3_match`, `run_sideboard_phase`), `deck_check.cpp`, `companion.cpp` | wins, decks, swaps | games in order, alternating swaps | the loop's entry and exit | best of three; legal decks |
| Entities: `ecs/`, `card_db.cpp`, `object_ref.cpp`, `snapshot.cpp` | dense component arrays, free ids, issue counts, card names, saved copies | create, destroy, save, restore | held by every part | index maps a bijection; no stale id accepted |
| Parser and card data: `parse.cpp`, `card_db.cpp`, `svar_eval.cpp` | the card database | text to data | read at load | — |
| Decisions in and out: `input_logger.cpp`, `cli*` | the decision log | `get_input`, replay | the one place a reply enters | a replay gives the same game |
| State format, visibility, knowledge: `state_format/`, `queries/visibility.cpp`, `knowledge/` | handles, what each seat knows, a constraint network | encode, update, solve | frames to agents | nothing hidden is shown; bounds sound |
| Featurizer: `featurize/` | tables | a frame to arrays | agents | equals the golden outputs |
| Agents in process: `agents/driver.cpp`, `teacher.cpp`, `trajectory.cpp`, `actor_schedule.cpp` | seat views, teacher channel, episode | decide, label, record | called by the input logger | an episode matches its decisions |

### Training (`src/agents/actor.cpp`, `learn/rmlearn`, `tools/rmserve`, `src/actor`)

| Part | State | Operations | Interacts through | What must be right |
|---|---|---|---|---|
| Actor process: `agents/actor.cpp` | match index, in match, games played; status file, results file, decision logs | start, match, game, status, stop at a signal, fail | files; signals | what is on the disk never claims more, and at a restart never less, than was played |
| Actor pool: `orchestrator/actors.py` | process, stopping flag, restart time per actor; the count | `set_count`, `tick`, `stop_all`, `first_match` | starts and signals actors, reads their files; called by the orchestrator's tick | one process per actor; crashed ones return; stopping ends |
| Orchestrator: `orchestrator/orchestrator.py`, `live.py`, `evaluation.py`, `exporter.py` | `state.json`, phase, stage, hold, pause, evaluation queue, crash-loop count | tick, transitions, checkpoint, roll back, export | GPU process (`gpulink.py`), pool, control socket | a resumed run continues from one consistent point |
| Inference: `inference/protocol.cpp`, `actor/remote_evaluator.cpp`, `tools/rmserve`, `rmlearn/server.py` | request queues, batches, weights | connect, evaluate, flush, replace weights | sockets | each request answered once; no wait without end |
| Learners, replay buffer: `rnad_learner.py`, `bc.py`, `replay.py` | weights, episodes | update, poll, evict, take | files of actors | fresh episodes used once |
| Python agents, offline tools, scripts | — | — | the menu protocol, files | — |

### What is hard

- **Suspension and resumption.** A question parks the machine and unwinds the C++ stack; the loop must
  re-enter exactly the flow that asked, and several flows nest (a state-based check that asks, a cast
  inside a resolution, an ordering question that borrows priority).
- **Re-running from scratch.** A latched answer is used by running the same check again; everything the
  loop does before it runs again too.
- **Order.** Who passed since which action, extra turns, triggers in APNAP order, cleanup steps that
  repeat.
- **Termination.** State-based actions, trigger placement and cleanup steps repeat until nothing
  happens.
- **Ends in the middle.** A concession or a lost draw while something is suspended.
- **Offers and payments.** A spell is offered on a simulated payment, made before choices that raise the
  cost, spend life and use up the sources; what fails or is cancelled must leave no trace.
- **Going back.** A restored snapshot rolls ids, issue counts and card names back under everything that
  refers to them.
- **Crashes between two writes**, kills, stops with a deadline, a count that changes while processes
  exit, a run restarted in the middle of any step.
- **Threads.** The server's three threads hand a request on while its client leaves, its policy is
  replaced and the server stops.

`PROJECT.json` lists these as hazards, each at its line with the properties about it, and those no
property covers yet with the module planned for them.

## 2. Modules

| Module | What it is |
|---|---|
| `GameLoop` | the game loop, one action per handler or step of `play_single_game` and `advance_step`, with its properties |
| `TurnStructure` | the abstract turn: which step may follow which, extra turns, an end that freezes the game |
| `MCGameLoop` | the scenarios TLC checks |
| `GameLoopProofs` | types, the control invariant, the theorems about flows and passes, that `GameLoop` implements `TurnStructure`, that no tripwire is reached and steps and turns end clean, and about who is asked and what has been seen |
| `Payment` | the pure part of mana: sources, the automatic payer and its simulation, what a reversal restores |
| `CastFlow` | proposals: the offers, each question of a cast or an activation, payment, reversal |
| `MCCastFlow` | seventeen ways to cast, seven abilities, and twenty-three boards in two orders of their sources |
| `CastFlowProofs` | the invariant of a proposal, and that a reversed one leaves no trace |
| `PaymentProofs` | the invariant of a payment, and that what is cast or activated was paid in full |
| `Match` | a match around its games: score, sideboarding, concessions, caps, results lines |
| `MCMatch` | its decks |
| `MatchProofs` | the invariant of a match and the theorems about its decks and its results lines |
| `World` | the abstract store: objects with components, loaded names, saved worlds |
| `Ecs` | the store of the code: dense arrays, free ids, signatures, systems, card names, references, slots |
| `MCEcs` | the five callers TLC explores |
| `EcsProofs` | soundness of the store, the theorems about names and references, and that `Ecs` implements `World` |
| `ActorPool` | the pool and its actors, with their files and their failures |
| `MCActorPool` | its instances |
| `ActorPoolProofs` | the ledger invariant and the theorems about restarts |
| `Inference` | the abstract contract: one question at a time, one answer, with weights of the time between |
| `InferenceServer` | the Python server's threads, its clients, their connections and regions |
| `MCInferenceServer` | its instance |
| `InferenceProofs` | the invariant of requests, regions and weights, and that `InferenceServer` implements `Inference` |
| `TrainingRun` | a run: the orchestrator's phases, its GPU process, exporter and actors, its durable state |
| `TrainingRunProofs` | the invariant of a run and the theorems about evaluations, giving up, the ladder and what actors play |

Modules of different components meet where one stands for the other: a cast in `GameLoop` is one
suspension per question and `CastFlow` what happens between them; a game in `Match` is its outcome and
`GameLoop` its inside; `TrainingRun` has actors that play or do not and `ActorPool` their processes;
`Payment` is the part of `CastFlow` that has no state of its own.

### GameLoop

`pc` is the place in the loop's body; an action is the code from one such place to the next, so what
one iteration does in order is a sequence of actions that nothing else can come between (the program
has one thread). Only `Reading` and `Concede` are the environment's: the answer to a query.

| Variable | Code |
|---|---|
| `turn_state`, `extra_turns`, `ended`, `unwind` | `Game::turn_state` with the cleanup marks, the extra turns owed, `ended`, `g_concede_unwinding` |
| `priority`, `combat`, `choice` | who holds priority and who has passed; the marks of combat; `pending.choice` |
| `query` | `PendingQuery`: the tag that says which flow asked, the seat, whether the answer is latched |
| `stage`, `first` | `PregameState`: where the pregame is, who goes first |
| `stack`, `waiting`, `placement` | the stack (of each object its controller and who has yet to see it), the waiting triggers per controller, the placement cursor with the seat priority was taken from |
| `resolution`, `flow` | the suspended resolution; the cast or activation in progress, at priority or inside the resolution |
| `draw`, `damage`, `miracle` | the suspended draw, damage division and miracle offer |
| `site` | which of its calls `state_based_effects` runs in |
| `world` | what the next checks will find: an entering choice, each player's legend conflicts, for how many checks in a row another state-based action is due, the cards above the hand size, who is about to lose |

Cards are abstracted to **happenings**: `CONSTANT Happenings` is the set of things a card may cause
(a trigger, a state-based action, a dredge replacement, a miracle, an extra turn, a triggered mana
ability, ...). The code of the effects decides *which* happen; the loop must be right whichever do. So
`CardsMay` chooses any of them wherever the code runs card effects, within the bounds. The bounds are
`MaxStack` (objects on the stack and triggers still to be put there), `MaxOwed` (extra turns owed), `MaxTurn`
(from this turn on the libraries are empty, so the next draw loses the game), `MaxExcess` (cards over the hand
size), `MaxDue` (legend conflicts and checks in a row with something else to do) and `ActingSteps` (the steps in
which cards do anything and players act; in the others players only pass).

A state-based check asks about one legend conflict, in the order of the players, and does what it was told
together with everything else that is due (`Performed`); the loop then checks again (`PerformSbas`,
`state_manager.cpp:212`). What is done may make another action due: `world.sba` counts the checks that will
still find something, and the loser of a legend conflict may leave one more. After the last check triggers are
placed, which may trigger others, and everything begins again (`:229-234`); how often is up to the cards, so the
room on the stack bounds it.

Kept: every guard, early return and suspension of the loop, the order of the checks, both cleanup
marks, the latching and re-entry of queries, the tripwires that end the program with a fatal error
(`NoFatalError` says none is reached). Left out: what is in the menus, costs and payment, the stages
within one effect, the text of everything.

### TurnStructure

Five actions: the first turn is given out, the next step begins, a turn is owed, the next turn begins,
the game ends. `FollowsTurnStructure` instantiates it with the loop's own step, turn, active player,
owed turns and `ended`, so the refinement mapping is the identity on the state the players see, and
everything else — suspended draws, cleanup rounds, checks — is a stutter.

### ActorPool

`slots` is what the pool knows of each actor (`_Actor`: an unreaped process, `stopping`, a scheduled
restart), `procs` the process itself (its match index and whether it is in a match), `status`,
`results` and `logs` its files. Actions of the process: `Boot`, `BeginMatch`, `RefreshStatus` (the write
every two seconds), `GameEnded`, `MatchEnded`, `StopOnSignal`, `Fail`, `FailOpening` (after the decision
log is open and before the match counts as in progress) and `Die` (a kill: nothing is written). Of the
pool: `SetCount`, `Reap` and `Restart` (the two halves of `tick`), `StopAll`, `StopTimedOut`,
`AllStopped`. `KillRun` is `kill -9` of the run's unit: `rmtrain` starts it with `KillMode=mixed`, so the
whole control group dies with it. A run that is a plain daemon or in the foreground has no such group;
its orphaned actors are a listed hazard, outside this model.

A results line is one write of the model (`fwrite` and `fflush` of one buffer); the status file is replaced
atomically, as in the code. Time is abstract: a restart delay or a deadline may pass at any moment. A
signal between the check of `stop_signal` and the next decision is the same as one just after it, so
`BeginMatch` has the check as its guard.

### Payment and CastFlow

`game` is what a proposal can change of the player's side (zones, taps, life, energy, the pool, stamps on
the card, spells cast, copies), `flow` is `pending.cast` or `pending.activation` with the step it is at,
`fails` is `priority.payment_fail_counts`, `mode` the options `auto_mana` and `offer_cast_cancel`, and
`before` a history: the game as the proposal found it. One action is the code from one question to the
next, with any answer of its menu, since nothing else runs while a question is open (`GameLoop`). A way to
cast is a record of the costs it has; the instance takes them from cards the repository's tests use
(Force of Will, Daze, Toxic Deluge, Murktide Regent, Uro, ...).

Mana has no colour: a cost is a number. The automatic payer goes through the sources in one order, `g.order`,
which the code makes by a stable sort (`mana_system.cpp:1135-1167`) and walks once for each tier: here it is part
of the position, sorted by tier, and the same when a spell is offered and when it is paid. In the code a card
that leaves the hand on the way can change it. Where a permanent has two abilities of one yield, the second
attempt keeps the less painful of them, the code the first by colour. Kept are the payer's tiers and its second attempt with the highest yields, the reserve of life it
keeps for the rest of the cost, the mana a permanent makes on its way out, what the simulation leaves
out, every optional and mandatory cost item and when it moves, and the two rewinds. Left out: colours,
hybrid pips, loyalty, activation counts, the mana costs of mana abilities, ninjutsu, suspend, companions,
timing, the legality of targets, unless-payments, and who is seated during a cast inside a resolution.
What a cost's specification matches is a set of objects, with two assumptions on these sets.
`KindsAssumption`: a sacrifice of a flashback belongs to flashback only (`action_processor.cpp:1895`), exiles
to escape (`:1908`), delve to a card's own costs (`:2328`); the gates of the other kinds count neither delve nor
Improvise (`state_manager_actions.cpp:426`). `CostsApartAssumption`: no object matches two of
the costs of one way that take a permanent. The gates count each cost by itself, and the last two
sacrifices (SPELL_SAC, DEF_SAC) do not look at what was chosen before them; no card of the repository has two
costs that one permanent fits, and without the assumption one permanent could pay two.

`PaidInFull` compares a spell or ability about to become cast with the game as its proposal found it. What
was tapped for mana (`Engaged`) is accounted for by one ability of each permanent, some choice of them
(`Accounts`): their mana is what the choices announced and the costs came to, their life and the cost's is
the life gone, what they sacrifice is gone, each cost item was chosen once, at its own step, and went from
its place to the one it goes to, and nothing else moved.

`MachinePaymentsSucceed` says of every offer that the automatic payer pays it, whatever was chosen on the way,
with three exceptions. *Life spent on Phyrexian pips* (`SpentOnPips`): a question about a pip looks at the life
alone (`action_processor.cpp:2264`), and the sources of the rest may cost the life it takes. One pip is enough:
Surgical Extraction under Thalia at 2 life with two horizon lands is offered, since one land can pay the pip and
the other the tax, but once that life is paid for the pip neither land can be tapped. `docs/rules_deviations.md:100`
names the case of several pips only. *Damage unseen* (`DamageUnseen`): the simulation leaves out what a source deals
when it is tapped (section 3). *Tapped for less* (`TappedForLess`): a permanent chosen for a cost is tapped on its
way out for the lesser of its two abilities.

A source sacrificed for mana in a payment that then fails or is given up stays sacrificed, and
`LeavesNoTrace` says so: `docs/rules_deviations.md:101` has it of a player's own payment, and the automatic
payer, which works on the real game once its simulation has found a plan, does it too (section 3).

### Match

`ctx` is `MatchContext`, `sb` its sideboarding phase, `game` the game being played (an outcome and its
unwinding latch), `tally` and `rows` what the actor counts and writes, `store` the decklists shown. A
question of the phase is one action with any legal answer: `BringIn`, `Cut`, `Done`, the two concessions.
A deck is the number of copies of each card in each section. The forced cut of `main_deck[0]` takes any
card, as the order of a list is not in the model. Companions, presets and match-scoped snapshots are left
out.

### Ecs and World

`World` is a set of living entities, for each component type a function from entities to data, the
entities in a zone, the loaded names and the worlds saved. `Ecs` is the code's: arrays with two index maps
and swap-removal, a queue of free ids with issue counts, signatures, and slots that copy only the live
elements and copy the card names only when their generation or number differs. The three systems all ask
for the signature {Zone}, so one set stands for the `mEntities` of each. `Create`, `Destroy`, `Add`,
`Remove`, `Change`, `Permute`, `LoadCard`, `KeepRef`, `Save`, `Restore` and `NextGame` (`init_ecs` and the
start of `play_single_game`) come in any order, under what callers never do: destroy a dead entity or a
prototype, create when no id is left (both fatal in the code). Histories: `reissued` (a kept reference's
id went to another object), `meant` (the names at a save, whatever the copy holds) and `diverged`.

`diverged` is the condition of two promises, `NamesResolve` and what `World.Restore` says of names. Going back
to a slot, loading another card and going back to a second slot of the same game meets a size and a generation
that match other names; then the names are not put back. The comment at `snapshot.cpp:144` says that cannot be
("within one generation a size match means nothing was loaded since the save and the maps are identical"), and
the one at `:93` relies on it for the copy a save keeps. `IdenticalNames` states it without the condition, and TLC
refutes it on this very instance in six steps (section 3). After a restore that skipped the copy a loaded name
is bound to an entity of another card: nothing here promises anything about that state. The only caller in the
repository, `--selfcheck-state`, saves and restores in a line (`selfcheck.cpp:780-830`) and never gets there;
search agents, which `snapshot.h` is for, could.

Left out: second faces in `card_db`, pending events, the match section of a slot, the post-restore hook,
the sidecar, and of `ObjectRef` the zone generation and its follow window.

### Inference and InferenceServer

`client` is each actor's `RemoteEvaluator`, `inbox` and `outbox` its socket, `region` the memory both
share, `server` what the server knows of the connection, `queue`, `compute`, `inflight` and `finisher` the
pipeline of the three threads, `policies` the versions served, `late` that the oldest request has waited
for the deadline. Each place a thread takes or leaves the lock is a step. Clients may give up or be
killed anywhere; policies may be replaced or removed; a batch may fail; the server may be stopped or die.
`KeepsContract` maps it to `Inference`: a connection's state, the current version and the version of the
last answer.

### TrainingRun

`state` is `Orchestrator.state` and `saved` its file; `orch` where the orchestrator's thread is and what it
forgets at an exit; `gpu`, `events`, `exporter`, `current` and `actors` the processes and files around it.
An action is one step of `tick` up to the next thing another process can see or a kill can separate. Faults
are kills, calls and processes that fail, evaluations that fail; commands are the operator's (hold,
advance, pause, force, stop, start). A learner is its position and its `line`, the start it was loaded in:
two learners at the same iteration are told apart by it, which is what the roll-back properties are about.
Left out: remote evaluation, the exploiter and timed evaluations, the plain export queue, sideboard
exploration, the status page, the skips of `b0.corpus_dir` and `b1.start_from`, the plateau exit of B1 and
the pruning of checkpoints.

## 3. Runs

| Run | Instance | Distinct states | What it shows |
|---|---|---|---|
| `checks` | etb, legend, sba, lose, win, miracle, preset, concede; in five steps; stack 2, due 1, turns 0–1 | 1,199,232 | `NoFatalError`: no tripwire is reachable, so no answer is handed to a flow that did not ask; `ChecksOnlyBetweenFlows`; `ResolutionHoldsPasses` |
| `turns` | trigger, excess, dredge, extra_turn; in every step; stack 2, owed 2, turns 0–2 | 3,807,855 | `NoObjectResolvesUnseen`; `AskedPlayerHasNotPassed`; `StepEndsClean`: a step ends only after its checks and triggers were seen to; `FollowsTurnStructure` |
| `answers` | FairSpec; legend, sba, trigger, mana_trigger, excess, concede; in the main phase and cleanup; stack 2, due 2 | 300,675 | `TurnEndsClean`, `LoopAdvances`, `EveryAnswerIsUsed`, `PassingEndsGame` |
| `proposals` | FairSpec; the spells, abilities and boards of `MCCastFlow`, both orders of each board, four modes, 3 proposals | 111,811 | `PaidInFull`, `MachinePaymentsSucceed`, `ReversedLeavesNoTrace`, `EveryProposalEnds` |
| `match` | FairSpec; two pairings, both formats, 3 games | 1,007,470 | `PlayedDecksAreLegal`, `NoSwapIsUndone`, `RowsTellTheMatch`, `RowsRebuildTheDecks`, `EveryMatchEnds` |
| `store` | 3 entities, 2 types, 2 cards, 2 slots, five callers | 199,857 | `NamesResolve`, `RefsNameTheirObject`, `ImplementsWorld` |
| `pool_restarts` | FairSpec; 2 actors, 1 game a match, 2 match indices, 1 crash | 160,508 | `NoOrphan`, `NoResultTwice`, `NoMatchSkipped`, `WrittenOffForGood`, `CrashedActorReturns`, `StopEnds` |
| `serving` | FairSpec; 2 connections, one with a policy of its own and two rows a request, batches of 2, one replacement | 178,588 | `OneInFlight`, `RegionIsTheClients`, `KeepsContract`, `AnsweredWhileFinisherLives`, `StopReachesEveryone` |
| `run_faults` | FairSpec; every phase once, two faults | 98,700 | `EvaluationsQueuedOnce`, `GivesUp`, `RunEnds` |
| `run_operated` | two DAgger rounds, one fault, two commands | 3.1 million | `RungsAreThisLearners`, `ActorsPlayThisLearner`, `EveryRungEvaluated` |

Why the bounds suffice.

- *Game loop.* Two seats are all there are. A stack of two has an object under another, which is where a
  stale pass matters, and two waiting triggers of one player are what makes their order a question. Two
  turns contain a change of the active player and an extra turn taken before it; a third gives the second a
  draw from a library that is not empty, which is what dredge suspends, and two owed turns have an order.
  One excess card makes the cleanup choice, and a cleanup step can repeat without bound. Two actions due are two
  conflicts of one player, one of each, a conflict beside another action, or two checks in a row with something
  to do: with two triggers placed between them, everything that makes the loop of checks go round again does
  so in `answers`, and together. A scenario leaves out happenings, and `checks` and `answers` the steps that their
  question does not tell from others: `checks` acts before the first priority, in a main phase, at both combat
  decisions and in the cleanup, `answers` in a main phase, where all answers are given to flows, and in the
  cleanup, whose rounds it is about. `turns` acts in every step. Each question of the loop is asked in at least
  one.
- *Casting.* Each kind of cost is in at least one way to cast and meets a board where it can just be paid,
  one where it cannot, and where the material can serve two costs; a second and third proposal meet what
  the first left behind (taps, pool, failure counts). Each board is paid from in two orders of its sources, one
  the reverse of the other within a tier: of any two sources of a tier either comes first in one of them.
- *Match.* The swap cap is the code's 15. Three games decide a match or leave it drawn at the limit
  (`MAX_MATCH_GAMES` is 10 in the code, three is where a best of three can be over by the score or by the
  limit); one ignored concession stands for the code's `CONCEDE_UNWIND_CAP` of 10000. The decks split copies
  between sections, have nothing to bring in, or strand a card whose copies are all locked.
- *Store.* Three entities are the least where swap-removal moves an element that is neither the removed
  one nor alone; two slots and two cards are what lets names of the same number differ. The theorems hold
  for any numbers.
- *Actor pool.* Two actors let a count change concern one and not the other, two match indices let one be
  replayed or skipped, and one failure beside any number of stops and kills by the pool already produces
  every state of an actor's files. The theorems hold for any number.
- *Inference.* Two connections and batches of two contain a full batch, one that waits for the deadline,
  one with a client that left and one split by policy; two batches in flight are the pipeline's limit.
- *Run.* One step, iteration or round of each kind is enough for each transition; two rounds let an export
  of the first end in the second; two fatal stops in a row are what `FatalLimit` = 2 gives up at.

Deadlock is checked except in `proposals`, `cast_tombs` and `match`, which end: no more proposals are
within the bound, the match has its result. Elsewhere what ends stutters explicitly (a game that has
exited, a run that is over), and a pool can always be given another count, stopped or started again.

### Disagreements

Two runs are expected to fail. Each checks one statement of the repository that the code does not keep.

| Run | Statement | What the code does |
|---|---|---|
| `serving_stuck` (`EveryRequestAnswered`) | `docs/inference_protocol.md:29`: the server evaluates the request and sends `DONE` | a client that leaves while its response is written makes the write fail on a region already closed (`server.py:672`); nothing catches it, the finisher thread ends and no later request of anyone is answered |
| `cast_tombs` (`OfferedSpellsArePaid`) | `mana_system.cpp:1407`: a spell can never be offered as legal and then fail to pay | the simulated payer leaves out the damage a source deals when it resolves (`:1022`); two Ancient Tombs at 3 life |

The following are stated in the modules and were refuted by TLC in earlier instances; they are not runs
now (`IdenticalNames` in the present instance of `store`). `NoDecisionAfterEnd`,
`ActivePlayerAfterResolution`, `MiracleKept` and `LatchedStateFrozen` are in `GameLoop`, `NeverReplayed` and
`WantedActorRuns` in `ActorPool`, the next three in `TrainingRun`, the three after them in `CastFlow`, whose
instances remain in `MCCastFlow`, and `IdenticalNames` is in `Ecs`.

| Property | Statement | What the code does |
|---|---|---|
| `NoDecisionAfterEnd` | the pregame gate's comment (`game_driver.cpp:651`): no new decisions in a finished game | the mandatory choice after a step change is not guarded (`:697`) |
| `ActivePlayerAfterResolution` | CR 117.3b (`docs/mtg_comprehensive_rules.txt:950`) | the player who held priority before does (`stack_manager.cpp:102`) |
| `MiracleKept` | `orderer.cpp:762`: the offer is presented before the game goes on | a second offer overwrites the first (`:766`) |
| `LatchedStateFrozen` | `game_driver.cpp:614`: the state-based check re-runs "on the frozen state" | the cleanup discard ahead of it runs first (`:667`) |
| `NeverReplayed` | `actors.py:11`: a restarted actor "never replays a match index it used" | killed before the first status write of a match, it begins the match again |
| `WantedActorRuns` | `actors.py:129`: `set_count` "runs actors 0..n-1: starts the missing ones" | an actor being stopped when the count rises again is not started, then or later |
| `EveryBoundaryHasItsRung` | `docs/rmtrain.md:311`: at each boundary the fixed point and its evaluation | a checkpoint made while a boundary's event is unread outlives the event: after a kill the boundary has no rung (`orchestrator.py:286`) |
| `FinishedRunHasItsCheckpoint` | `docs/rmtrain.md:312`: B5 ends with `rnad-final.pt` | a restart that enters `done` again does not make the checkpoint the first entry failed or was killed in (`orchestrator.py:571`) |
| `RoundTrained` | `docs/rmtrain.md:308`: a round waits for its decisions and its steps | a round whose start failed is resumed with the start of the round before, whose steps count again (`orchestrator.py:728`) |
| `CancelReversesTheProposal` (`Replicated`, `WithCancel`) | `docs/game_running.md:137`: the Cancel row reverses the proposal | on the targets of replicate copies it only ends the copying (`action_processor.cpp:1385`, `:2984`) |
| `AdditionalCostsPaid` (`GrantedRotation`, `Landless`) | `action_processor.cpp:2372`: "Cast legality already guaranteed a matching permanent exists" | a card granted from exile is offered and cast with nothing to sacrifice (`state_manager_actions.cpp:189`) |
| `ItemsStayUntilPaid` (`Spawned`, `Machine`) | `action_processor.cpp:2701`: "the choices were made against the live board and only this step moves anything" | a permanent chosen for a cost is still a source (`mana_system.cpp:316`): one Eldrazi Spawn, chosen for the sacrifice of Cabal Therapy's flashback, is sacrificed for its mana, too |
| `IdenticalNames` | `snapshot.cpp:144`: "within one generation a size match means nothing was loaded since the save and the maps are identical" | a slot saved before a card was loaded and one saved after: going back to the first and loading another card makes names of the size of the second's, which are neither copied at a save (`:95`) nor put back at a restore (`:148`) |

Seen while modelling and not run:

- The hand-size discard is tested at every iteration of cleanup and not only as the step begins (CR 514.1,
  703.4n; `state_manager.cpp:141`). In a cleanup's priority round a resolution can draw; when the active
  player has passed and the discard that follows triggers, the trigger is placed without clearing the pass
  and resolves unseen. This is the exception `NoObjectResolvesUnseen` names
  (`cleanup_priority_round`); the other is a triggered mana ability (CR 117.4, `action_processor.cpp:1802`).
- An evaluation that fails in the stages B1/eval or B2/eval never moves the phase on
  (`docs/rmtrain.md:391`); `RunEnds` names it (`StageFailed`).
- `checkpoint.keep` = 1 leaves no older checkpoint to go back to.
- `game_driver.h:159` says a −2 between games is ignored; at a balanced deck it ends the phase, since it
  reads as choice 0. The comment that every exit of the phase leaves the deck balanced
  (`game_driver.cpp`, above the end of `run_sideboard_phase`) is false for a match concession between the
  two halves of a swap; no game is played with that deck. A concession made while a decided game unwinds
  makes `end_reason` "concession" whoever won.
- One Phyrexian pip paid with life can make an automatic payment fail (section 2, Payment and CastFlow), where
  `mana_system.cpp:1408` says "a spell can never be offered as legal and then fail to pay" and
  `docs/rules_deviations.md:100` names "Multi-pip" costs only. `OfferedSpellsArePaid` is violated by it, too, on the
  board of `MCCastFlow` with two horizon lands.
- An automatic payment that fails keeps the sources it sacrificed: two Ancient Tombs and a Lotus Petal at 3
  life for a spell the simulation finds payable (`mana_system.cpp:1022`) lose the Petal, untap the Tombs and
  give the life back, which `docs/rules_deviations.md:101` calls "Reachable only through the interactive CLI
  payer". `ReversedLeavesNoTrace` once excepted only sources a player sacrificed by hand; the
  proof got stuck on this case, and with that board TLC refuted the old statement.

### Mutants

Every property of a passing run has a mutated definition beside the one it replaces (marked `mutant:` in
the modules) that breaks it: a pass that survives an action, a saved seat that is forgotten, a check
armed without its seat, extra turns taken first created first, a stop that waits for a match, a results
file that is not consulted, a cost item that stays in the pool of the next cost, a forced cut left out,
a moved array element whose index is not updated, a batch that waits without deadline, a roll-back that
keeps the ladder.

## 4. Fairness

The engine is one thread: it takes its next step as long as there is one, and an asked player
eventually answers, so `FairSpec` of `GameLoop` and of `Match` is weak fairness of `Next`. Which answer,
and what cards do, is free. The loop can then run for ever only as the players make it; `PassingEndsGame`
is about behaviours in which, from some point on, they act no more and the cards ask nothing. In
`CastFlow` only the steps of a proposal are fair: nobody has to propose anything.

Of the pool, each actor's tick and each expired deadline is weakly fair (the orchestrator's loop sleeps
half a second; `stop_all` waits with a timeout), and the end of `stop_all`. Of an actor nothing is
assumed: it may hang in a match or while it starts and never look at a signal, which is why `StopEnds`
needs the kill.

Of the inference server each of the three threads is weakly fair, and of a client only that it reads what
was sent to it or notices the connection's end; nothing makes an actor ask, a learner replace weights or
anybody stop. That a batch's deadline passes is part of the compute thread's step.

Of a run: the orchestrator's loop (its calls end or fail), systemd's restart after a fatal exit, the GPU
process, the exporter and the actors are weakly fair. The end of an evaluation is strongly fair: the
orchestrator polls it between other things, and a restart makes it begin again. The bound on faults is
what lets the run end.

`Ecs` and `run_operated` check safety only and state no fairness.

## 5. Proofs

The theorems hold for every value of the constants, under the assumptions named in the modules (the
bounds are naturals; `FirstSeats` a set of seats; `Games` at least one; the types of `Ecs` contain
`CardData` and `Zone`, its cards are finitely many and are data; the cards of a match are finitely many
and a deal gives each player a number of copies of each in each section; the current policy is a policy
and every connection wants it; objects and mana abilities are finitely many, ways to cast, abilities and
positions are records of their types, and nothing is cast or activated from the stack; a run's steps, rounds, iterations and fatal stops have limits of at least one). One theorem has a hypothesis
of its own (`ResolvedSeen`, below).

`GameLoopProofs` — `TypeInvariant`; `ChecksBetweenFlows` (`ChecksOnlyBetweenFlows`) and `PassesHeld`
(`ResolutionHoldsPasses`). Neither property is inductive: whether a check can run during a flow depends
on where the loop goes when the flow ends or suspends. `Control` says, for each kind of suspended work,
the only places the loop can be while it exists — a flow at home in its own places and in those that
resume it (`FlowHome`), a suspended draw (`DrawHome`), a damage division (`DamageHome`), a placement
(`PlacementHome`), a resolution (`ResolutionHome`) — and that a cast inside a resolution holds the
resolution's own passes (`ResolutionHolds`, `InnerCast`). Each action preserves each part; the two
properties follow.

The same module has `ImplementsTurns` (`FollowsTurnStructure`): `Spec => Turns!Spec`. The invariant is
`Clock`: which steps the places that change the step can be in, that before the first turn is given out the pregame is not done,
and that a suspended draw belongs to the draw step of this turn. With it every action is a step of
`TurnStructure` or leaves its five variables alone.

It also has `NoFatal`, `StepsEndClean`, `TurnsEndClean`, `AskedInTurn`, `ResolvedSeen`. They follow from four
more invariants, each inductive given the ones before it and `Control` and `Clock`:

- `Parking`: which question may be parked, latched or answered at which place of the loop, in whose seat,
  and what stays as it was until the answer is read — the combat action that is due and comes before
  anything else in its step (`DueFirst`, `CombatHome`), the mandatory choice that is due (`ChoiceHome`,
  `ChoiceDue`), the owner and the seat of the question (`QueryHome`, `QuerySeat`, `QueryOwner`,
  `FlowSeat`), where a latched state-based check resumes (`SiteKnown`, `LatchedHome`). No tripwire is
  reachable from it: `NoFatalError`.
- `Swept`: what a state-based check leaves behind when it lets the loop go on — nothing waiting, nothing due
  — holds until the step changes, and the cleanup marks say what happened in the round
  (`StepEndsClean`, `TurnEndsClean`).
- `Passing`: the seat that a question or a placement will give priority back to has not passed, wherever the
  priority is meanwhile (`AskedPlayerHasNotPassed`).
- `SeenByAll`: a pass counts only for the objects the player saw on the stack. It is proved under
  `NoManaTriggers` (`"mana_trigger" \notin Happenings`): with triggered mana abilities it is false, as
  activating a mana ability puts a trigger on the stack without clearing the passes (section 3); `turns`
  leaves that happening out for the same reason, and `answers`, which has it, does not check the property.

`MatchProofs` — `MatchInvariant` and from it the four invariants of `match`. The inductive invariant is
their conjunction with what the code keeps in step without saying so: where a match is and what is live
there (`Flow`); the deck of each player has the copies registered and is of the size registered, but for
the one card that a phase has brought in and not yet cut (`Decks`); what a phase locked is what it moved,
so that swaps and differences agree (`Locks`); the tally and the lines together account for every move
since the first game (`Accounts`); the score of the context is the one the lines' winners make (`Scores`).
Sizes and moves are counted with the cardinality of a set of tokens, not with a fold: `Tokens(f)` has a
pair for each copy, so that moving a card removes one pair and adds another, and what a sum does
when one summand changes needs no induction.

`InferenceProofs` — `ServerInvariant`, `RequestsOnce`, `RegionsAreTheClients`, `ServerKeepsContract`. A
request has no identity in the code; that its answer reaches the right question rests on there being
one at a time. `Wire` says so for the connection: a message to the server, a place in the pipeline, an
answer on the way back — at most one of them, and then the client waits or is gone. `Apart` says it for the
pipeline, whose lists hold a client at most once altogether, and `Flag` that `queued` is true exactly while
they do. `Numbers` and `Numbered` give the request, the region and the response one number: a
response found in the region after an earlier request was abandoned cannot pass for this one's. `Timely`
and `Weights` bound the weights of a batch and of a response by the version at the question and the
current one. `TakeBatch` takes the living requests through an increasing bijection from 1..n to their
places (`InOrder`): the list filter of the community modules is a recursion over the list, about which
nothing can be proved here, and the bijection is the same list.

`ActorPoolProofs` — `PoolTypes`, `NoOrphanEver`, `ResultsOnce`, `NoIndexSkipped`, `NoMatchPlayedAgain`. The invariant is
`Ledger`, for one actor: the status file never runs ahead of the last process and shows a match as current
only if the process was in it; status and results together never show less than the index that process
was started at; results lines are in the order of their matches, one per game; the logs are those of all
earlier matches and of the one begun. Starting again at `first_match`, the maximum of what the two files
show, keeps it (`LedgerOfStarted`), as does every write, kill and signal (`LedgerOfWritten`,
`LedgerOfChanged`). That an actor's number of failures is bounded is not used. `NoMatchPlayedAgain`
(`WrittenOffForGood`) adds that a process ended by a stop or by its own failure has told the status file of
its match (`Told`), so that the actor is `Past` it, and that `first_match` never goes back.

`TrainingRunProofs` — `Invariant` and from it the five invariants of `faults` and `operated`. Its parts,
besides the types and the place of the loop (`Flow`):

- `Evaluated`: no label is in the queue twice or both queued and running, and every rung has its own, in
  memory and in state.json alike, as a kill exchanges the one for the other.
- `FatalCount`: of the stops since the start, the last `fatals` are those that made no progress past the
  first of them, whose mark is `mark`; for each one before there is a later one past it. That the count
  reaches the limit exactly with the history follows.
- `Recorded`, `LearnerRuns`: which learner each phase can have recorded and which can run at each place of
  the loop; the one that runs has the recorded one's fixed points and may have more. With `Reported` — an
  event not read is of this learner and gives a position it has reached — a rung added from an event is the
  learner's, and one that `roll_back` keeps is the checkpoint's (`RungsAreThisLearners`).
- `Exporting`: the exports under way and queued are of epochs in order, and one of this epoch is of this
  learner and, in a round, of this round; when an export of this epoch ends, what was written is its policy,
  and no earlier one is left to overwrite it. `Playing`: actors play the network only while that holds.

Most of the steps leave most of this alone. `StandSteps` divides the steps of `Next` by what they do to
phase, stage, round, pending move, checkpoint and ladder, to the learner that runs, to the exports and the
actors; the last six parts are proved over its fourteen cases. `Kept`, the list without some of its elements, is
written as a function on ranks: the list filter of the standard modules is a recursion, about which nothing
can be proved here (`KeptProperties` is proved with an injection between finite sets of one cardinality).

`EcsProofs` — `Invariance`, `NamesAlwaysResolve`, `RefsAlwaysNameTheirObject`, `StoreImplementsWorld`. The
argument has three layers. *One array* (`Sound`): on the live elements the two index maps are inverse to
each other; each operation keeps it and does to `Held`, the map the array stands for, what its name says
(`InsertSound`, `RemoveSound`, `WriteSound`, `PermuteSound`, `RestoreFromSound`); an array never runs out of
elements, because its live ones belong to as many entities (`RoomLeft`). *The store* (`StoreSound`): each id
is alive or free and queued once, an entity's signature is the arrays it is in, only living entities have
components, the systems see those with a zone. *The slots* (`StoresInv`, `NamesInv`): each holds a sound
store whose names are the ones meant at its save. The strengthening is about names: as long as nothing
diverged, of any two sets of names of one generation — live or in a slot — one extends the other, so equal
generation and equal number make them equal (`EqualNames`), and skipping the copy is sound. The refinement
maps each action to the one of `World` it is named after; keeping a reference is a stutter.

`CastFlowProofs` — `CastInvariant` and `NoTraceLeft` (`ReversedLeavesNoTrace`). The rewind of the code
restores some things from a snapshot, undoes others one by one and leaves the rest alone; that this adds up
to the game before the proposal depends on what can have changed until then. `CastInv` says it:

- `Untouched`: until it begins to pay, the game is the one the proposal found but for its own card or
  ability (`Start`), and there is no snapshot.
- `OnlyPaid`: while it pays, the snapshot is that of `Start` and the game is one of `Payments(Start)`: only
  mana, life and taps differ, and nothing left the field but sources with a sacrifice, each to the graveyard.
- `Found`: as long as it can be reversed, the card was where its way says, and nothing chosen for a cost is
  the card or another spell.
- `Settled`: past the payment, the delved cards and the source of an ability carry no component of a spell,
  so that giving up a replicate copy, which also rewinds, leaves nothing `Clean` would miss.
- `Clean` and `FlowTyped`: what is not on the stack carries no component of a spell; each kind of flow has
  its own fields and steps.

TLC finds `CastInv` to hold on the instance of `proposals`, too.

What the automatic payer does is a fold over the order of the sources, and a fold is a recursive function: that it
exists and has values needs induction over the list. The library's induction theorems take an operator,
which the provers cannot instantiate; `Induction` states it of a set of numbers instead, from the
well-foundedness of < on the naturals (`NatLessThanWellFounded`, `WFMin`), which take sets. From it
`FoldExists` and `FoldStays`: a fold whose steps stay in a set ends in it, which is all that
`AttemptIsPayment`, `CostsApply` and the loss of the delved cards need.

`PaymentProofs` — `PaymentInvariant` and `AllPaid` (`PaidInFull`). Whether a spell was paid for is settled
over a dozen steps: the offer finds that the cost items are there, the questions announce and choose, the
payment taps, and only PAY_APPLY takes everything away. `PayInv` is `CastInv`, the property, and what each
of those steps leaves to the next:

- `Planned`: what a proposal that can still be reversed has announced and chosen by its step (`Rank`, the
  order of the steps). The mana owed is the sum of what was announced, less the pips paid with life and the
  cards delved (`Tallied`); no item is chosen twice (`InOrder`); each was where its step looks for it and
  will go where its step sends it (`Fits`, `Matches`); a step that is past has chosen as many as it asks for
  (`Limited`, `Complete`), which needs that the offer had counted them (`Gated`).
- `Balanced`: what was made for mana is a set of means, at most one for each permanent, and exactly those
  permanents have become tapped; its yields are what the pool gained, its losses what the life lost, its
  sacrifices what left the field (`Ledger`). At PAY_APPLY the pool is less by the cost, so the account is
  drawn up before it (`Balance`).

At PAY_APPLY the two meet: `Balanced` gives the means `PaidInFull` asks for, `Planned` the items, and
`CastInv` that nothing else moved. `KindsAssumption` and `CostsApartAssumption` (*Payment and CastFlow*, section 2)
are needed: some steps of the code do not look at what earlier ones chose, so `InOrder` would fail if one
permanent fitted two costs, and `Complete` if a way asked for items its kind never chooses.

A yield of a set of means is a fold over a set, which stands for a recursive function (`Sums`). It is proved
to be the number of the set's tokens (pairs of a member and a number up to its weight), so that the yield of
a set grows by that of the source added to it, whichever order the payer took the sources in: a fact about
cardinalities.

TLC finds `Planned` and `Balanced` to hold on the instance of `proposals`, too.

**Only model-checked:**

- The liveness properties, which are out of the proof system's reach under fairness.
- `MachinePaymentsSucceed`: what the simulation paid when the spell was offered, the payer pays later, from
  another game. That compares two folds over one order of sources, from two games.

## 6. Not modelled

What each component leaves out, and why, is in `PROJECT.json`. In short:

- Parsers (`parse.cpp`, `svar_eval.cpp`), encoders (`state_format/`) and the featurizer are functions of
  their input checked against golden files; nothing interleaves and nothing is kept between calls. They and
  the offline tools are more than a third of the implementation.
- Static effects and the legality and amounts of combat are recomputed from card data; a model of them
  would be the card data again.
- The knowledge solver's soundness is a property of a constraint algorithm over hundreds of identities.
- Numerical training code is out of a model checker's reach.
- The stages inside one effect, the replay buffer, the decision log and its replay, the teacher's channel,
  the plain daemon whose actors outlive it, and the C++ inference server (one thread with the same batching
  rule) could be modelled and are not yet.

## 7. Plan

Done: the game loop and its turn structure, the actor pool, casting and paying, the match, the entity store
and its snapshots, the inference server, the run. Left, in the order of what they would add:

1. `Resolution`: the staged `resolve_ability` and its frame levels, refining a resolution that blocks —
   each effect once, in order, across suspensions.
2. `Replay`: the buffer's eviction against fresh episodes; `DecisionLog`: a replay gives the same decisions.
3. `TrainingRun` composed with `ActorPool` over one schedule; the plain daemon; the schedule file.
4. Visibility and handles.
5. `MachinePaymentsSucceed` as a theorem about `CastFlow`: two runs of the automatic payer, one when the
   spell is offered and one from the payment's snapshot, compared source by source.
