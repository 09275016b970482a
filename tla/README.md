# A TLA+ model of claude-code-cli-runner

The repository is a Python package, `claude_code_cli_runner`, that runs one task
on a coding-agent CLI ("harness": claude, pi or opencode) as a subprocess, streams
its output to files in the task's workspace, lets an operator steer the run
through a control file, and, for claude, makes tasks fork from sessions that were
primed in advance. This directory is its verification project: TLA+ modules
translated from `src/claude_code_cli_runner/*.py`, TLC configurations that
model-check them, and proofs checked by TLAPS. `PROJECT.json` maps every
definition to the lines it models and lists runs, mutants, hazards, findings and
theorems.

## 1. Inventory

| component | state it keeps | operations | who it meets |
|---|---|---|---|
| streamed run (`runner._stream_one_run`) | loop locals (`paused`, `operator_ended`, `result_seen`, token counts, pending decision, round trips), flags shared with two watchdog threads | read a line, drain the control channel, pause, hold for a permission, record a chunk, halt, serve tool calls, finish, reap | harness process and its children (pipes, signals), operator (control file), orchestrator (heartbeats) |
| live files (`live_files.py`) | `task_control.jsonl`, `task_live_log.jsonl`, `task_run_status.json` | append an intent, read the new ones, record a line, write the status | runner thread, watchdogs, HTTP server |
| keep-alive registry (`keep_alive_registry.py`) | last heartbeat per task id | record, query, clear | HTTP server, keep-alive watchdog |
| session reuse (`runner._run_with_session_reuse`, `session_registry.py`) | one JSON file: chunk id → primed session | look up, prime, record, fork, forget, fall back inline | other tasks through the file |
| session transcripts (`claude_session_store.py`) | one jsonl per session and project directory | locate, copy into the task's directory | claude |
| base session (`claude_base_session.py`) | one JSON file: the warm session first runs fork | reuse if fresh, else prime; forget | other tasks, through the file and a process-wide lock |
| dispatch (`runner.run_claude_code_task`) | none | choose among reuse, resume fallback, base fork, plain run | all of the above |
| HTTP server and client (`http_server.py`) | a handler thread, a worker thread and a log offset per `POST /run` | run a task and stream its log, append an intent, heartbeat | live files, keep-alive registry, dispatch |
| requests, capabilities, launch (`request.py`, `content.py`, `harness_*.py`, `claude_harness.py`, `opencode_harness.py`, `transports.py`) | none that outlives a call | validate and rewrite a request, choose an argv and a host, deliver the prompt's blocks | dispatch, streamed run |
| pi harness (`pi_harness.py`) | token baseline, loop-breaker counts, abort state | normalise events, steer on repetition, abort | streamed run |
| event translation, tool-call detection, MCP calls, auth, command line, pi extensions | none that outlives a call | data conversion, one subprocess or web request | streamed run |

**Hard behaviours.** A run is five concurrent parties: the runner thread, the
idle watchdog, the keep-alive watchdog, the harness and the operator; and the harness
is a process group, whose leader may exit and leave children on the run's pipes. The
runner looks at the operator's file only between lines, and it drains that file in
three nested loops. Watchdogs raise a flag, then write the status file, then signal; the
runner computes the outcome meanwhile. Tasks meet only in files, under locks that
other processes do not see, and either may die between any two writes. Priming,
copying, forking and running may each fail at each step, a run also after its work
is done, and every failure is meant to end in the work done inline. A served run has two threads in the
server that meet only in a log file which a third party, the next run of the
workspace, empties; its client may leave and post the same work again.

**What makes each component correct.**

* Streamed run: no line is skipped by pauses and holds; nothing passes a pause;
  every permission request is answered once, in order, with a decision made for
  it; an ended, halted or killed run says so and only then; nothing of the harness's
  process group outlives its run; turn stops are withheld boundedly; the watchdog is
  re-armed on every path; the run ends if the code has any means to end it.
* Session reuse and base session: the chunk is in the context of every turn
  exactly once and whole; what is on record can be forked; updates of one chunk do
  not undo another's; no base is primed beside a fresh one; work that was done is not
  done again but where a fork failed late or a process crashed; no call is held up by
  a lock, a prime or another task's turn.
* pi harness: no token is counted twice, an aborted run counts what it spent, a
  loop of identical tool calls is broken on time and no other call is answered.
* HTTP server: a client that stays sees every record of its run, once and in order;
  an operator's end never ends a run that was not listening yet; a run nobody waits
  for does not live on without heartbeats.
* Keep-alive registry: a run is killed only for a silence since its own dispatch,
  although runs share records and clear them.
* Requests and launch: whatever way a task takes, and whatever fails on it, a
  harness that is given any of it, the one that primes a session for it included, is
  gated as its request asks or the request is refused, and what was accepted is
  delivered.

## 2. Modules

```
RunLifecycle ◁── StreamRun ─┬─ MCStreamRun  one run: what it promises, how it keeps it
                             └─ StreamRunProofs ── StreamRunRefinement

SessionStore ─┬─ SessionReuse ─┐          many tasks, each run seen from outside
              └─ BaseSession ──┴─ TaskDispatch ─┬─ MCTaskDispatch
                       TaskCall ◁───┘           └─ TaskDispatchProofs
                                                     └─ TaskDispatchRefinement

LaunchPosture ── ServedRuns ─┬─ MCServedRuns   many runs behind one server, each
                             └─ ServedRunsProofs   worker seen from outside
                                  └─ ServedStreamProofs

TokenLedger ◁── PiHarness                 what one run on pi says and what is counted
                 └─ PiHarnessProofs ── PiHarnessRefinement
```

A line is EXTENDS; `◁──` is a refinement, an INSTANCE in the module that implements.

**StreamRun** is `_stream_one_run`. The runner thread is a program counter `pc`;
one action is what the code does between two points where another party's step
can be told apart. What a request asks for, what its harness may do and what the
operator may write are the record `workload`, chosen from `Workloads` and never changed.

* `OpenLiveFiles`, `LaunchHarness`: truncating the control channel and the log,
  `Popen`, starting the watchdogs.
* `ReceiveLine`, `ReceiveEmptyLine`, `EndOfStream`: the three results of
  `next(current_turn_line_iterator)`.
* `ReadNewControlIntents`, then one `Apply...` action per intent:
  `drain_control_channel`. It is called from three places, and `drain_from` says
  from which. The channel is an append-only sequence with
  `consumed_control_lines`, as in the code; an early return on `end_and_return`
  drops the rest of the batch, which is `applied_control_lines` left behind.
  `PostAbortRead` is the bounded read of a harness that was asked to abort.
* `EnterPause`, `PollWhilePaused`, `Release`: the pause loop.
  `SurfacePermissionRequest`, `HoldForDecision`, `AnswerWithDecision`,
  `DenyOnDeadline`, `PollForDecision`, `Release`: the permission hold.
* `AppendChunkToLiveLog`, `HaltOnTokenLimit`, `WithholdStop`, `ServeToolCalls`,
  `EndTurn`: a chunk's bookkeeping, the token limit and the tool loop. What is logged
  is what the harness's normalizer makes of a line (`ChunksOf`): nothing of a `silent`
  one, as pi's acknowledgements and first stats are.
* `FinishRun` … `ReturnResult`: the `finally` block and the result. Without a stop or an
  end it waits thirty seconds for the harness (`HarnessExited`, `ReapTimeout`).
* `Terminate` and `Escalate` are `_terminate_process`: nothing if `poll()` finds the
  harness gone, else SIGTERM to its group, and SIGKILL five seconds later if the
  harness, not its children, is still there. The thread moves on when the harness is
  dead (`Halted`, `Reaped`). `Reaped` also reads stderr to its end.
* `Idle...` and `KeepAlive...`: the two watchdog threads. Wake, look, measure,
  raise the flag, and write-and-signal are separate steps, so every race between
  them and the runner is explored.
* The environment: the harness exits or closes its stdout; it starts `children` that
  inherit its pipes, may close them, ignore SIGTERM and outlive it (`HarnessForks`,
  `ChildrenLetGo`, `ChildrenExit`), and `EndOfStream` waits for them too; the operator writes an
  intent (also before this run emptied the channel), heartbeats come and age, and
  the idle budget and the deadline elapse.

All children of a harness are one, `quiet` or `holding` the pipes. Lines are a number
and a kind; usage of one unit each is enough to reach a limit exactly, and to tell a
double count from a single one.

**RunLifecycle** is what a run promises to whoever asked for it, without pipes,
threads or files: a process, a log that only grows and in the order of the lines,
the endings that were decided, and one report that names one of them after the
process is gone. `StreamRun!ImplementsLifecycle` is the refinement: the process is
the harness, the endings are the four flags, the report is the final `run_state`. A
watchdog that raises its flag after the report, a line logged by the abort's read,
and a status written by whoever comes last all have to map to a step of it or to
none. **StreamRunRefinement** proves that they do.

**SessionStore**, **SessionReuse** and **BaseSession** hold the state tasks share.
SessionStore has the transcripts, the relocation of a session into the task's
directory (a copy is two steps, and a transcript between them is `torn`), the
prime and the harness run seen from outside. SessionReuse adds the registry, whose
update is a read and a write under `registry_lock`; BaseSession adds the base
record, whose lock is held through the prime. Each action leaves the other
component's variables unchanged, which **TaskDispatch** states where it composes
them. A session id is an opaque fresh value; the field `holds` is a history
variable saying what its transcript contains. `turns` records, for every turn a
harness took, what its session brought, what its input brought, how it ended and
whether its work was done by then (`worked`): a run may raise before or after that. TaskDispatch
adds the choice of `run_claude_code_task` and the faults: a runner process dies
and its tasks are called again, a transcript is deleted, the base grows old.

**TaskCall** is what a call of `run_claude_code_task` promises, without sessions,
registries, transcripts or locks: it is tried by a shortcut (a session someone primed)
at most once, then plainly at most once, one attempt after the other; the first that
completes ends it; a crash, and nothing else, gives it its chances back.
`TaskDispatch!ImplementsCalls` is the refinement: `turns` are the attempts, and the way
is plain once the task drops its session or launches without a primed one.
**TaskDispatchRefinement** proves it.

**PiHarness** is `PiOutputEventNormalizer.normalize`, one action per kind of event,
between two pipes: `stdin` with the runner's commands and `stdout` with pi's events.
pi itself is external. It answers commands in the order written, has a turn's
tokens in its session total before it announces the turn's end, and never announces
the end of an aborted turn, as the comments of `pi_harness.py` describe it. The
runner's part is what it does with a line: count it, prompt again after a result,
or, when the operator ends the run with that line in hand, drop it, write the abort
and the final stats request, and read on until the final stats arrive (StreamRun's
`PostAbortRead`). The four token counters move in parallel and are one here.

**TokenLedger** is what the count promises, without pipes, stats or a baseline: it
follows what the run spends from below, never goes back, and the final usage of an
aborted run closes the book with every token in it. `PiHarness!ImplementsLedger` is the
refinement, for aborts whose baseline was anchored; **PiHarnessRefinement** proves it.

**LaunchPosture** is the way from a request to a command, as operators: what
`RunRequest.__post_init__` accepts and rewrites by the capabilities each harness
declares (`Accepted`, `Validated`), the argv of each harness as the set of its flags
that steer permissions, sessions and tools (`ClaudeArgv`, `OpencodeArgv`, `PiArgv`,
`ForkArgv`, and `PrimingArgv` of the prime before a fork), where it is launched, the ways `run_claude_code_task` may take with it
(`Ways`, `Instead`), the blocks that reach the harness's stdin (`Delivered`) and those a
prime has on its command line (`Primed`).

**ServedRuns** uses it for every run of a server.

* The handler of `POST /run`: `Post` (refused or accepted), `StartRun` (the
  `run_started` line, then the worker), `FlushNewLines` and `LookAtWorker` in turn,
  a last flush when the worker is dead, `WriteResult`. A write to a client that
  hung up fails silently; only the first one prevents the run (`StartFails`).
* The worker: `Dispatch` chooses a way; `DispatchToPrime` one whose session must be
  primed first, by a harness that `PrimeExits` waits for; `OpenLog` and `OpenChannel` empty the
  workspace's files as `_stream_one_run` does, apart from each other because
  handlers and other runs look in between; `LaunchHarness` counts as the first
  heartbeat; `HarnessSpeaks`, `DrainChannel`, `HarnessEnds`, `KillForLostKeepAlive`,
  `FinishRun`. `ForkRaises` takes the task, from its prime or its fork, to its run without a fork,
  which opens the files again; `RunRaises` and `DispatchRaises` end the thread without a result.
* The rest of the world: clients `HangUp` and post again, `PostControl`,
  `PostKeepAlive`, `HeartbeatAges`.

The worker is `run_claude_code_task` seen from outside: how a reuse fares inside is
TaskDispatch's, what a run does between two lines is StreamRun's. Each line of a
channel is the set of runs that had opened a channel when it was written, and
`together`, `tailed_early` and `silent` are history: properties read them and no
action does.

**MCStreamRun**, **MCTaskDispatch** and **MCServedRuns** give workloads and placements
for TLC. `ChangePlaces` in MCTaskDispatch is the symmetry of the two tasks of
`task_crash`, whose requests are alike: they change places together with their
directories and processes. `WorkLeftOut` is that run's view. The five `...Proofs` and
the three `...Refinement` modules hold the theorems. Definitions whose comment starts with "Mistake:" are not part of any specification: they are
plausible bugs that replace one definition each, to show that the properties notice
them.

## 3. Runs

| run | instance | shows |
|---|---|---|
| `stream_run` | one run of three workloads: `Steered` (tool loop, abort hook, lines that log nothing, pauses, commands and an end), `Asking` (permission requests, decisions, pauses, a deadline) and `Raced` (both watchdogs, the token limit, a request); a stale end may be there | every chunk logged but the one in hand, stale intents ignored, pause and halt hold, stops withheld boundedly, requests answered once and in order by a decision of their hold, watchdog re-armed, the outcome names what ended the run; RunLifecycle implemented |
| `stream_watchdogs` | `IdleWatched` and `HeartbeatWatched`: one watchdog, a harness with children, pauses, holds and an end; `FairSpec` | with an idle watchdog the run returns, and an end is honoured, unless the harness emits empty lines for ever, the operator keeps the run waiting, or a child that outlived the harness holds its pipes for ever; a lost heartbeat kills the whole group |
| `task_dispatch` | two tasks, one or two processes, three workloads, every step may raise, primes may hang until their timeout and turns for ever, one transcript may vanish; `MCFairSpec` | chunk in context once, work redone only after a fork that raised, no redundant base, records not undone, no lock outliving its use, nothing but its own harness's turn keeping a call from its end; TaskCall implemented |
| `task_crash` | two tasks in two processes sharing a chunk or the base, a crash at any step | nothing unusable stays on record, no torn context; TaskCall implemented across the crash |
| `pi_harness` | a resumed session, two turns, a follow-up prompt, five tool calls, an abort at any line, stats without tokens | each token counted once, aborted runs counted in full, steering at each multiple of the threshold; TokenLedger implemented |
| `served_runs` | two runs that share a workspace or a task id, clients that hang up and post again; one run of any posture, session and content on any harness, or one that forks; `FairSpec` | streamed whole unless tailed early, ended by no older intent, killed for its own silence, gated or refused, input delivered, no orphan |
| `end_ignored_when_silent`, `decision_for_another_request`, `chunk_dropped`, `rejected_fork`, `stale_log_streamed`, `prime_ungated` | as small as the case allows | six statements of the documents the code does not keep, section 7 |

**Bounds and why they are enough.**

* All freedoms of a streamed run at once are out of TLC's reach, so each workload of
  `MCStreamRun` gives some that meet in the code: tools, aborts and intents; permissions,
  intents and the deadline; two watchdogs and the ways a run ends. The safety
  properties are proved for all workloads, section 5.
* `max_lines` (2 or 3; 0 for a silent harness): a line before, at and after the one that
  pauses, holds or halts; a turn, a withheld stop, and a second turn that reaches its
  end or the limit.
* `max_intents` (1 to 3, one of which may be stale): pause–resume–end, or two
  decisions for one request and one more; two decisions are the least that can
  answer the wrong request. The loop's control over the channel depends on the
  last drained intents only.
* `ToolRoundTripMaximum = 1` (25 in the code) and `TaskTokenLimit = 2`: below, at
  and past each cap within the lines available.
* The workloads with a watchdog have two lines: what ends a run does not depend on how
  many lines came before. Each watchdog has a liveness workload of its own; `Raced` has
  both, without children, whose deaths no outcome depends on.
* Two tasks: each interacts through one file and one lock, pairwise. Each has a
  workspace of its own, as the README describes workspaces; the third directory
  `"earlier"` is where sessions of earlier runs were primed.
* `MaxCrashes = 1`, `MaxLosses = 1`: a crash at every step, with a second task
  before, beside and after it. Larger values repeat the same cases. `task_crash` looks
  at states through `WorkLeftOut`: `worked` is a history that no guard and no property
  of that run reads, so states that differ in it alone have the same future.
* `Placements`: both tasks in one process (they share its locks) or in two (they
  do not). `MCWorkloads`: two chunks in one registry; first runs after a short and a
  long idle; a chunk that cannot be primed beside a resume turn.
* `MCInit`: a machine is fresh, or it ran tasks of both kinds before. The initial
  registry may hold bare ids of the old file format, whose transcript cannot be
  located; transcripts of earlier sessions are all there or all gone.
* `PipeCapacity = 2` lets pi be ahead of the runner by two events, enough for a
  turn's end and a response to be in flight together. `Threshold = 2` (5 in the
  code) with five calls reaches the second corrective; two turns and two prompts
  give a completed turn before, and a partial one at, the abort.
* Two served runs: files and records are shared pairwise. All freedoms of the
  environment at once are out of TLC's reach, so each workload of `MCServedRuns`
  gives one: `PostedAgain` (a record or two per run, its client hangs up and posts
  again, fresh or resuming), `Ended` (an intent at any time around two runs of one
  workspace), `Heard` (two workspaces with one task id, one heartbeat, then silence),
  `Postured` (one run of every posture, session and content on every harness; the
  other is refused), `Forking` (a claude run with a heartbeat that primes or finds a
  base session). One record before the truncation and one after is the least
  that shows a stale offset. The safety properties are proved for all
  workloads, section 5.

No run switches deadlock checking off: a returned run and finished tasks stutter
explicitly (`Returned`, `AllDone`, `Over`, `Idle`), so any other state without a step is reported.

## 4. Fairness

`StreamRun!Fairness` is weak fairness of the runner thread's own steps, of each
watchdog thread, of the passing of time (idle budget, deadline) and of the death of
the harness and of its children once their group was sent SIGKILL. SIGTERM obliges
nobody, and nothing makes the harness emit a line or any process exit by itself, so a
silent harness is a fair behaviour. The exceptions of the liveness properties are
real behaviours of the code. `BlankForever`: `ReceiveEmptyLine` is not restricted, and
a harness that streams empty lines for ever refreshes the activity clock and never
reaches the control channel. `PipesHeld`: a harness is gone and a child holds its
pipes for ever; the runner waits in `next()` or for the end of stderr, and the idle
watchdog's `_terminate_process` does not reach the child (`end_ignored_when_silent`
shows it). `Held`: a
pause or a hold lasts until the operator acts; a deadline ends a hold but not a
pause. The keep-alive's kill needs neither of the first two: it is a `killpg` without
a `poll()`.

`TaskDispatch!Fairness` is weak fairness of each task's thread outside its turn. No
step of a turn is fair, with `timeout_seconds` or without: the deadline of a streamed
run is looked at only after a line (`end_ignored_when_silent`), so a silent harness
keeps its task in the turn for ever. A prime that neither exits nor times out is left
to claude (`PrimeEnds` is not fair), and is killed when `HasTimeout`. What `TasksEnd`
promises is therefore that a call ends or is in its own turn, whatever the other tasks'
primes and turns do. It is stated, and checked, for `HasTimeout = TRUE`: without a timeout a
hung prime keeps the lock (section 7). When a turn itself ends is `stream_watchdogs`'s.

`ServedRuns!Fairness` is weak fairness of each handler thread, of each worker
thread's own steps (the watchdog's kill included) and of the ageing of a heartbeat.
No client posts or listens of necessity and no harness speaks or ends, so
`NoOrphanRun` holds by the keep-alive alone. Its two exceptions are real. `SharedRecord`:
of two runs with one task id the first to end clears the record of the other. A worker
that is priming: the watchdog starts with the streamed run, so a prime that hangs is
killed by nobody when its client leaves.

## 5. What is proved

Every theorem is of the specification, `Spec => []...`, and holds for every value of
the constants the named assumption of its module allows.

| module | theorems | from |
|---|---|---|
| `StreamRunProofs` | `TypeCorrect`, `LinesKept`, `EndedByThisRun`, `Armed`, `AnsweredInOrder`, `Explained`, `WithheldBoundedly`, `LimitStops`; action properties `PauseHolds`, `HaltIsTheEnd`, `DecidedInTheHold` | `StreamRunAssumption`: any workloads and limits |
| `StreamRunRefinement` | `RefinesLifecycle`: a streamed run implements RunLifecycle | the same |
| `TaskDispatchProofs` | `TypeCorrect`, `ChunkReachesEachTurnOnce`, `RecordsWhole`, `BasePrimedStale`, `LocksInUse`, `ResumePromptMeets`, `RecordsChanged` | `SessionAssumption`, `DispatchAssumption`: any tasks, chunks, processes, crashes and losses; the second theorem also from `OwnDirectories` and `ChunksKept` |
| `TaskDispatchRefinement` | `RefinesCalls`: the calls implement TaskCall; `WorkRedone` | `SessionAssumption`, `DispatchAssumption` |
| `ServedRunsProofs` | `TypeCorrect`, `EndedWhileListening`, `KilledForSilence`, `Gated`, `Delivery` | `ServedAssumption`, `PostureAssumption`: any runs, workspaces, task ids and workloads |
| `ServedStreamProofs` | `StreamedToTheEnd` | the same |
| `PiHarnessProofs` | `TypeCorrect`, `CountedOnce`, `AbortCounted`, `SteeredOnTime` | `PiAssumption`: a threshold of two or more, any usages and bounds |
| `PiHarnessRefinement` | `RefinesLedger`: the count implements TokenLedger | the same |

`OwnDirectories` says that no two tasks' workspaces share a project directory, as the
repository's README describes workspaces; `ChunksKept` that no request asks, along with
a chunk that is not reused, for one of the two ways that send the task's prompt alone:
a fork of the base session, or a resume that may fall back to its fallback prompt. Both
are hypotheses because the code needs them: a first run that gives up the reuse of its
chunk loses it to the base session (`chunk_dropped`), and in a shared directory a turn
may read a transcript that another task is copying. Every other mix of requests, and
every harness without prime and fork, is covered. A threshold of 1 is left out because the
code's modulus is then always 0 and its condition never holds.

**StreamRunProofs.** None of the invariants is inductive by itself: each needs to
know where the runner thread may be. `IInv` is the conjunction of eight parts:

* `TypeInv`: types and `ChannelInOrder`, the order of the counters over the
  channel (applied ≤ consumed ≤ written), and that a pending decision is a
  drained `permission_decision`.
* `ControlInv`: the flags constrain the program counter. Suppression only while
  waiting on the operator; past a pause not paused; halted or ended runs are on
  their way out; a result is seen only at the end of a turn.
* `RequestInHand`: between `SurfacePermissionRequest` and the answer the line in
  hand is the one unanswered request; elsewhere all are answered.
* `LineInHand`: the log is exactly the lines read that the normalizer made a chunk of,
  but for the line in hand where the program counter says it is not recorded yet. The
  abort's read may log later lines while that one still waits.
* `DecidedDuringHold`: in a hold, the pending decision was drained after
  `hold_start`.
* `ThisRunsChannel`: after `OpenLiveFiles` every line of the channel was written
  for this run, and an ended run has consumed its end.
* `StatusExplained`, `OutcomeExplained`: each kill's flag is raised before its
  status is written or noted, and a status of waiting is only there while waiting.

One lemma per part shows a step preserves it, with one proof step per action that
can disturb it and the rest dealt with by phase of `RunnerStep`; `InitIInv` and
`NextIInv` put them together, `InductiveInvariant` is the temporal step, and every
theorem follows from the part that carries it.

**StreamRunRefinement** adds `OrderInv`: while a line is in hand it is the last one
read and none of it is logged (`TurnInOrder`), and there is a harness from the launch
on and a report only at the end (`ReportLast`). With it each step of StreamRun maps
to one action of RunLifecycle or leaves its variables alone.

**TaskDispatchProofs.** What a turn has in its context is decided long before it: by
the prime, the record, the lookup, the copy. `Inv` follows that path. `RecordsFit`:
a session on record, in a registry snapshot or in a task's hand was primed to the end
and holds what it is recorded for. `TornAreCopies`: a torn transcript is a copy of a
primed session, and never lies in the directory it was primed in. `TasksFit`: at each label a task's session and launch are those its request
asks for. `TurnsFit`, `LastTurnRuns`: the turns taken so far were right and only the
last one may be running. `LocksHeld`: whoever updates the registry or primes a base holds the lock of its
process, and in one process what it read is still what the file holds. `TranscriptsKept`: a transcript that was there is
lost only by a loss. `LocksInUse` is the converse of `LocksHeld`, proved over it: a lock is
held by nobody but a task at work under it, so that a waiting task waits for one that
waits for none. It is the safety half of `TasksEnd`; the other half, that whoever
holds a lock takes its next step, is fairness.

**ServedRunsProofs.** `IInv` is `Types`; `LaunchedAsAsked` (a worker past its dispatch
runs a command of its own request, by a way open to it, or primes for one, which
carries `Gated` and `Delivery` through any prime and any failed fork; what a prime is
given is the chunk at most, `PrimedWithChunk`); `ListenedTo` (from its `OpenChannel` on, every
line of a run's channel was written while it listened, whoever truncates the channel
meanwhile); `LostSinceDispatch` (a record that is lost while a run streams was
lost since that run's dispatch, whoever wrote it).

**ServedStreamProofs.** `StreamInv` follows a record from the worker to the client.
`ThreadsPaired`: before the worker starts nothing is logged, and the handler's last
flush finds it dead. `NobodyElseServed`, `NobodyBeside`: who else of the workspace can
be at work while a run is served that never was together with another. `WritersStarted`:
records are written by runs that were started, so a log can hold none of a run that was
not. `StreamedSoFar`: unless its handler tailed early, what a run's client was sent is
the log up to the offset, the log has each of the run's records once and in order, and
past the last flush the offset is its length. That is `StreamedUnlessTailedEarly` by the
time the result is written.

**TaskDispatchRefinement** adds `CallInv`: a turn is running only while its task is in
its turn, and is its last one (`RunningInTurn`); a launch that holds nothing has no
session a harness could refuse (`NothingToRefuse`). With `Inv`, which says what each
label launches, each step maps to one action of TaskCall or to none; a process's crash
maps to one `Crash` of all its open tasks. `WorkRedone` rests on `RedoInv`, over both:
whatever turn another one follows was a fork's that raised or was cut off by a crash
(`FollowedInOrder`); a task that is to take another turn has lost its shortcut, unless
by a crash (`MayFollow`); and the session of a turn is the one its way gives it
(`TakesItsWay`). A turn that did its work and raised is not told apart from one that
did not: the code cannot tell either, and what the property bounds is what follows.

**PiHarnessProofs.** The difficulty is that a turn's tokens are in pi's total before
its end is read, so no equation holds between two variables. `InOrder` fixes the shape
of the two pipes: the abort's two commands are last, at most one other request for stats is on its way,
nothing is announced behind the answer to the abort but the final stats. `CountInv`
says that a running total along the pipe exists (`Covered`): it starts at what has been
counted, grows by each turn end on the way, stays below every stats answer it passes
and ends below pi's own total. `BaselineHolds` ties the baseline to it: never below
what was counted, and equal to it when it was read before the run spent anything
(`Anchored`), which is what makes an aborted run's final stats count the rest exactly. `StreaksCounted`: the breaker's count is
the length of the current run of equal calls, and the steers so far are one for each
multiple of the threshold in it; `PastMultiple` is the arithmetic of the modulus.

**PiHarnessRefinement.** That the book is never ahead of the spending, and closes with
all of it, is the invariant of PiHarnessProofs in the state a step leads to. What is
left is what a step may do: pi spends nothing once its final usage was read
(`TotalGrows`, because the pipes are `Settled` by then), and `normalize` takes nothing
back (`NothingTakenBack`).

**Only model-checked.** The liveness properties `EndHonouredOrBlank`, `RunReturns`,
`LostKeepAliveKills`, `TasksEnd` and `NoOrphanRun`: liveness under fairness is beyond
the prover used. Every safety property of the passing runs is proved.

## 6. What is not modelled, and why

* Parsing and wording: lines of JSON, the values of flags, event translation, the
  names and arguments of tool calls, the MCP subprocess. They keep no state. A line is
  what the runner makes of it.
* Lines of the control channel that are half written when they are read: each intent
  is one write, and whether a reader can see part of it is the file system's.
* The death of the server, or of a runner with a harness at work: nothing of a run is
  persisted for a restart to act on, and a harness lives on in a session of its own
  that nobody knows. TaskDispatch counts its turn as `crashed`.
* A child that makes itself a process group of its own (no signal of the runner reaches
  it), one that holds only one of the two pipes, and a process id that is used again
  before the keep-alive's `killpg`.
* A registry file that cannot be read: `_read_all` takes it for an empty one
  (`session_registry.py:49`), and the next update would drop the other chunks' records.
  In the model a read that returns finds what the file holds.
* The GET endpoints and the access token of the server, which read no shared state
  that changes.
* What pi does when it does not answer commands in order; a session event of its
  older output mode, which carries an id only.
* A baseline read late: if the first stats response was answered after a turn had
  spent tokens, or was the line dropped by the operator's end, the tokens before it
  are not counted. The model reaches both; `AbortedRunIsFullyCounted` is stated for
  the runs in which the baseline was `Anchored`.
* An exception while the prompt is delivered or while the runner streams: in
  StreamRun file writes succeed; TaskDispatch has the exception seen from outside
  (`LaunchRaises`, `RunRaises`).
* The cancellation of a permission request by the harness
  (`control_cancel_request`) is recorded only, as the code does.
* Two tasks whose workspaces share one project directory: the runs give each task its
  own; the proof states it as a hypothesis (section 5).
* `auth_status.py`, `__main__.py`, the address of a vm, and the pi extensions: single
  calls without shared state.

## 7. Findings

Each is a violation run whose counterexample is a behaviour of the code.

* `end_ignored_when_silent`: `end_and_return` is honoured, and the deadline looked at,
  only after the next non-empty line. With a silent harness and no idle watchdog that is
  never; with one, the kill does not help when a child outlives the harness and holds its
  stdout. The repository's README says the intent stops the run early.
* `decision_for_another_request`: a permission decision answers whichever request
  is in hand; its `request_id`, which the control API requires, is never compared.
* `chunk_dropped`: a first run with a reusable context and
  `enable_session_reuse=False` is forked from the base session with its own input
  only. The chunk never reaches claude, although the README promises it inline.
* `rejected_fork`: claude rejecting `--resume` is a non-zero exit, not an
  exception: no inline fallback, and the unusable record stays.
* `stale_log_streamed`: the handler of `POST /run` reads the log from offset 0 while its
  run has not emptied it yet. A second run of a workspace is sent the first one's
  records, and as many bytes of its own are never sent.
* `prime_ungated`: with a permission mode and the bypass flag, the claude that primes a
  chunk or the base session runs with the bypass and without the posture; the docs
  say the posture wins. It is given the chunk or a fixed prompt, never the task's own
  input (`GatedOrRefused`).

Behaviour worth knowing that the models show or were written around:

* `_terminate_process` returns without a signal when the harness has exited
  (`runner.py:1370`), and sends no SIGKILL when it exits within five seconds of the
  SIGTERM: what it left in its group works on, although the comments say that a terminated
  run never leaves stray harness processes (`runner.py:511-513`, `1366-1369`). The idle kill
  of such a run marks it `idle_killed` and does not end it. Only the keep-alive's
  `killpg` reaches them.
* The base session is primed under a process-wide lock: without `timeout_seconds`, which is
  the default, a prime that hangs blocks its own task and every other first run of the
  process for ever, although the comments say that work is never blocked
  (`claude_base_session.py:21-22`, `runner.py:222-223`).
* A lookup and the record that follows it are separate: two tasks may prime one chunk
  twice. Each task that was dispatched after a long idle replaces the base another has
  just primed.
* An exception after a forked harness has done its work, as when its artifacts cannot be
  listed (`runner.py:1322`), has the work done again inline.
* A heartbeat that is lost while a session is primed kills nothing until the prime ends.
* The idle watchdog may kill a run whose tool is slow, or one that got a line between
  measuring and striking.
* A harness that reports usage only in its results has its first result counted and no
  later one.
* After an abort the runner waits on the descriptor, not on the text buffer: lines
  that are buffered already may stay unread (`runner.py:925`).
* An intent written for a run that has just ended ends the next run of the workspace,
  once that one has opened its channel.
* Of two runs under one task id the first to end clears the heartbeat record, and the
  keep-alive watchdog never kills the other (`keep_alive_registry.py:7-9`).
* Two tasks in one project directory may tear each other's copied transcript.
* A claude task for `vm_over_ssh` is launched locally when it forks, from a chunk or
  from the base: the fork's argv does not go through `build_command_for`
  (`runner.py:254`, `runner.py:373`).
* A base fork of a request with a session id of the caller's passes `--session-id` and
  `--resume --fork-session` together (`claude_harness.py:163-169`).
* opencode ignores the tool whitelist (`request.py:220-222`), and an image in a
  `reusable_context` that is inlined for opencode or pi is dropped without a word
  (`runner.py:121-123`): only `input_content` is validated.

## 8. What is left

Proofs of the liveness properties, when a prover reaches them; an atomic registry that
SessionReuse implements within one process; larger workloads that combine the freedoms
of section 3; control lines that are seen half written.
