------------------------------ MODULE ServedRuns ------------------------------
(***************************************************************************)
(* Runs served over HTTP: http_server.py, with the live log, the control   *)
(* channel and the keep-alive registry that the runs of one server share.  *)
(*                                                                         *)
(* A run is a POST /run. Its handler thread starts a worker thread and     *)
(* tails the live log of the run's workspace until the worker has ended;   *)
(* its client may hang up at any time and post the work again while the    *)
(* first run still goes. The worker is run_claude_code_task seen from      *)
(* outside: which command it launches is LaunchPosture's, which way a      *)
(* reuse takes is TaskDispatch's, what one run does inside is StreamRun's. *)
(***************************************************************************)
EXTENDS LaunchPosture, Naturals, Sequences

CONSTANTS
    Runs,            \* the POSTs of /run
    Workspaces,
    TaskIdOf,        \* each workspace's keep-alive task id, its last path component
    Workloads        \* the requests the runs may carry, their workspaces, and bounds:
                     \* the runs whose client may hang up, the records a harness has
                     \* a run log, the intents in one channel at a time, the
                     \* heartbeats before the orchestrator falls silent

TaskIds == {TaskIdOf[w] : w \in Workspaces}

ASSUME ServedAssumption ==
    /\ DOMAIN TaskIdOf = Workspaces
    /\ Workloads \subseteq [request : [Runs -> AllRequests], workspace : [Runs -> Workspaces],
                             impatient : SUBSET Runs, records : Nat, intents : Nat, heartbeats : Nat]

VARIABLES
    workload,        \* what is posted, and how often
    handler,         \* where each run's handler thread is
    connected,       \* the runs whose client has not hung up
    offset,          \* how far into its log each handler has read
    streamed,        \* the records it has written to its client
    worker,          \* where each run's worker thread is
    launch,          \* what it launched last
    live_log,        \* each workspace's live log
    logged,          \* how many records each run wrote since it opened its log
    control_channel, \* each workspace's channel: each line an intent to end the run,
                     \* known by the runs that had opened a channel when it was written
    consumed,        \* channel lines each run has read
    ended_by,        \* the line that ended each run, if one did: a set
    keep_alive,      \* each task id's record: "none", "fresh" or "lost"
    heartbeats,      \* heartbeats received so far
    killed,          \* the runs killed for a lost heartbeat
    answer,          \* the run_result each worker left: "none" while there is none
    \* History, read by properties only.
    together,        \* pairs of runs that were in progress at the same time
    tailed_early,    \* runs whose handler had read the log before they emptied it
    silent           \* runs whose record has aged since their dispatch

httpVars == <<handler, connected, offset, streamed>>
fileVars == <<live_log, control_channel>>
aliveVars == <<keep_alive, heartbeats>>
workVars == <<worker, launch, logged, consumed, ended_by, killed, answer>>
historyVars == <<together, tailed_early, silent>>
vars == <<workload, httpVars, fileVars, aliveVars, workVars, historyVars>>

Request(r) == Validated(workload.request[r])
Workspace(r) == workload.workspace[r]
TaskId(r) == TaskIdOf[Workspace(r)]
Records == [run : Runs, number : Nat]
Log(r) == live_log[Workspace(r)]
Channel(r) == control_channel[Workspace(r)]

InProgress(r) == worker[r] \notin {"none", "dead"}

TypeOK ==
    /\ workload \in Workloads
    /\ handler \in [Runs -> {"unposted", "accepted", "poll", "look", "rest", "join",
                             "answered", "refused", "hung_up"}]
    /\ connected \subseteq Runs
    /\ offset \in [Runs -> Nat] /\ streamed \in [Runs -> Seq(Records)]
    /\ worker \in [Runs -> {"none", "dispatch", "prime", "open_log", "open_channel",
                            "launch", "stream", "finish", "dead"}]
    /\ \A r \in Runs :
         /\ worker[r] = "prime" => launch[r] = PrimeLaunch(Request(r), launch[r].way)
         /\ worker[r] \in {"open_log", "open_channel", "launch", "stream"} =>
              launch[r] = Launch(Request(r), launch[r].way)
    /\ live_log \in [Workspaces -> Seq(Records)]
    /\ logged \in [Runs -> Nat]
    /\ control_channel \in [Workspaces -> Seq(SUBSET Runs)]
    /\ consumed \in [Runs -> Nat] /\ ended_by \in [Runs -> SUBSET SUBSET Runs]
    /\ keep_alive \in [TaskIds -> {"none", "fresh", "lost"}] /\ heartbeats \in Nat
    /\ killed \subseteq Runs
    /\ answer \in [Runs -> {"none", "completed", "operator_ended",
                            "keep_alive_lost_killed", "raised"}]
    /\ together \subseteq SUBSET Runs
    /\ tailed_early \subseteq Runs /\ silent \subseteq Runs

Init ==
    /\ workload \in Workloads
    /\ handler = [r \in Runs |-> "unposted"] /\ connected = {}
    /\ offset = [r \in Runs |-> 0] /\ streamed = [r \in Runs |-> <<>>]
    /\ worker = [r \in Runs |-> "none"] /\ launch = [r \in Runs |-> NoLaunch]
    /\ live_log = [w \in Workspaces |-> <<>>] /\ logged = [r \in Runs |-> 0]
    /\ control_channel = [w \in Workspaces |-> <<>>]
    /\ consumed = [r \in Runs |-> 0] /\ ended_by = [r \in Runs |-> {}]
    /\ keep_alive = [i \in TaskIds |-> "none"] /\ heartbeats = 0
    /\ killed = {} /\ answer = [r \in Runs |-> "none"]
    /\ together = {} /\ tailed_early = {} /\ silent = {}

------------------------------------------------------------------------------
(* The handler thread of POST /run.                                          *)

Handles(r, from, to) ==
    /\ handler[r] = from
    /\ handler' = [handler EXCEPT ![r] = to]
    /\ UNCHANGED workload

\* Work is posted again only once its client has given up on it or has its result.
MayPost(r) ==
    \A s \in Runs \ {r} : Workspace(s) = Workspace(r) =>
        handler[s] \in {"unposted", "answered", "refused", "hung_up"} \/ s \notin connected

Post(r) ==
    /\ MayPost(r)
    /\ Handles(r, "unposted",
               IF Accepted(workload.request[r]) THEN "accepted" ELSE "refused")
    /\ connected' = connected \cup {r}
    /\ UNCHANGED <<offset, streamed, fileVars, aliveVars, workVars, historyVars>>

\* run_started, then the worker thread.
StartRun(r) ==
    /\ r \in connected
    /\ Handles(r, "accepted", "poll")
    /\ worker' = [worker EXCEPT ![r] = "dispatch"]
    /\ together' = together \cup {{r, s} : s \in {t \in Runs \ {r} : InProgress(t)}}
    /\ UNCHANGED <<connected, offset, streamed, fileVars, aliveVars, launch, logged,
                   consumed, ended_by, killed, answer, tailed_early, silent>>

\* run_started cannot be written: no run is started.
StartFails(r) ==
    /\ r \notin connected
    /\ Handles(r, "accepted", "hung_up")
    /\ UNCHANGED <<connected, offset, streamed, fileVars, aliveVars, workVars, historyVars>>

\* What the log holds from the offset on. A log that has been emptied meanwhile is
\* read from the old offset all the same: nothing, until it has grown past it.
NewRecords(r) == SubSeq(Log(r), offset[r] + 1, Len(Log(r)))

\* A write to a client that hung up fails silently; the offset moves on.
FlushNewLines(r, from, to) ==
    /\ Handles(r, from, to)
    /\ offset' = [offset EXCEPT ![r] = @ + Len(NewRecords(r))]
    /\ streamed' = [streamed EXCEPT ![r] =
         IF r \in connected THEN @ \o NewRecords(r) ELSE @]
    /\ UNCHANGED <<connected, fileVars, aliveVars, workVars, historyVars>>

\* Mistake: the loop ends without a last look at the log.
LookWithoutRest(r) ==
    /\ Handles(r, "look", IF worker[r] = "dead" THEN "join" ELSE "poll")
    /\ UNCHANGED <<connected, offset, streamed, fileVars, aliveVars, workVars, historyVars>>

LookAtWorker(r) ==
    /\ Handles(r, "look", IF worker[r] = "dead" THEN "rest" ELSE "poll")
    /\ UNCHANGED <<connected, offset, streamed, fileVars, aliveVars, workVars, historyVars>>

WriteResult(r) ==
    /\ worker[r] = "dead"
    /\ Handles(r, "join", "answered")
    /\ UNCHANGED <<connected, offset, streamed, fileVars, aliveVars, workVars, historyVars>>

HandlerStep(r) ==
    \/ StartRun(r) \/ StartFails(r)
    \/ FlushNewLines(r, "poll", "look") \/ LookAtWorker(r)
    \/ FlushNewLines(r, "rest", "join") \/ WriteResult(r)

\* The client's read times out, or the client dies.
HangUp(r) ==
    /\ handler[r] \in {"accepted", "poll", "look", "rest", "join"} /\ r \in connected \cap workload.impatient
    /\ connected' = connected \ {r}
    /\ UNCHANGED <<workload, handler, offset, streamed, fileVars, aliveVars, workVars, historyVars>>

------------------------------------------------------------------------------
(* POST /control and POST /keep-alive.                                       *)

Opened == {r \in Runs : worker[r] \in {"launch", "stream", "finish"}}

\* end_and_return for a workspace. It may come at any time: before the run it is
\* meant for, or after it.
PostControl(w) ==
    /\ Len(control_channel[w]) < workload.intents
    /\ control_channel' = [control_channel EXCEPT ![w] = Append(@, Opened)]
    /\ UNCHANGED <<workload, httpVars, live_log, aliveVars, workVars, historyVars>>

PostKeepAlive(id) ==
    /\ heartbeats < workload.heartbeats
    /\ heartbeats' = heartbeats + 1
    /\ keep_alive' = [keep_alive EXCEPT ![id] = "fresh"]
    /\ UNCHANGED <<workload, httpVars, fileVars, workVars, historyVars>>

HeartbeatAges(id) ==
    /\ keep_alive[id] = "fresh"
    /\ keep_alive' = [keep_alive EXCEPT ![id] = "lost"]
    /\ silent' = silent \cup {r \in Runs : TaskId(r) = id}
    /\ UNCHANGED <<workload, httpVars, fileVars, heartbeats, workVars, together,
                   tailed_early>>

------------------------------------------------------------------------------
(* The worker thread.                                                        *)

Works(r, from, to) ==
    /\ worker[r] = from
    /\ worker' = [worker EXCEPT ![r] = to]
    /\ UNCHANGED <<workload, httpVars>>

\* Where the way is a fork, its session is on record.
Dispatch(r, way) ==
    /\ Works(r, "dispatch", "open_log")
    /\ way \in Ways(Request(r)) /\ WayOpen(Request(r), way)
    /\ launch' = [launch EXCEPT ![r] = Launch(Request(r), way)]
    /\ UNCHANGED <<fileVars, aliveVars, logged, consumed, ended_by, killed, answer,
                   historyVars>>

\* It is not: one is primed, out of reach of the keep-alive watchdog.
DispatchToPrime(r, way) ==
    /\ Works(r, "dispatch", "prime")
    /\ way \in Ways(Request(r)) \cap Forks /\ WayOpen(Request(r), way)
    /\ launch' = [launch EXCEPT ![r] = PrimeLaunch(Request(r), way)]
    /\ UNCHANGED <<fileVars, aliveVars, logged, consumed, ended_by, killed, answer,
                   historyVars>>

PrimeExits(r) ==
    /\ Works(r, "prime", "open_log")
    /\ launch' = [launch EXCEPT ![r] = Launch(Request(r), launch[r].way)]
    /\ UNCHANGED <<fileVars, aliveVars, logged, consumed, ended_by, killed, answer,
                   historyVars>>

\* The command cannot be built: an exception out of the worker thread.
DispatchRaises(r) ==
    /\ Works(r, "dispatch", "dead")
    /\ CommandRaises(Request(r))
    /\ answer' = [answer EXCEPT ![r] = "raised"]
    /\ UNCHANGED <<fileVars, aliveVars, launch, logged, consumed, ended_by, killed,
                   historyVars>>

Resumes(r) == RunRequest(Request(r), launch[r].way).resume_session

KeepsLog(r) == Resumes(r)

\* A fresh run empties its log, a run that resumes a session appends to it.
OpenLog(r) ==
    /\ Works(r, "open_log", "open_channel")
    /\ live_log' = [live_log EXCEPT ![Workspace(r)] = IF KeepsLog(r) THEN @ ELSE <<>>]
    /\ logged' = [logged EXCEPT ![r] = IF KeepsLog(r) THEN @ ELSE 0]
    /\ tailed_early' = tailed_early \cup
         (IF ~KeepsLog(r) /\ offset[r] > 0 THEN {r} ELSE {})
    /\ UNCHANGED <<control_channel, aliveVars, launch, consumed, ended_by, killed, answer,
                   together, silent>>

\* Mistake: only a run that resumes a session empties its channel.
OpenChannelOfResumed(r) ==
    /\ Works(r, "open_channel", "launch")
    /\ control_channel' = [control_channel EXCEPT ![Workspace(r)] =
         IF Resumes(r) THEN <<>> ELSE @]
    /\ consumed' = [consumed EXCEPT ![r] = 0]
    /\ UNCHANGED <<live_log, aliveVars, launch, logged, ended_by, killed, answer, historyVars>>

OpenChannel(r) ==
    /\ Works(r, "open_channel", "launch")
    /\ control_channel' = [control_channel EXCEPT ![Workspace(r)] = <<>>]
    /\ consumed' = [consumed EXCEPT ![r] = 0]
    /\ UNCHANGED <<live_log, aliveVars, launch, logged, ended_by, killed, answer, historyVars>>

\* A run of its own accord logs how it came about, unless it is a plain one.
AppendRecord(r, n) ==
    /\ live_log' = [live_log EXCEPT ![Workspace(r)] =
         @ \o [i \in 1 .. n |-> [run |-> r, number |-> logged[r] + i]]]
    /\ logged' = [logged EXCEPT ![r] = @ + n]

\* Mistake: a run waits for a heartbeat of its own.
DispatchSignalsNothing(r) == keep_alive

\* The dispatch itself counts as the first signal.
DispatchSignals(r) ==
    IF Request(r).keep_alive_expected
    THEN [keep_alive EXCEPT ![TaskId(r)] = "fresh"] ELSE keep_alive

LaunchHarness(r) ==
    /\ Works(r, "launch", "stream")
    /\ AppendRecord(r, IF launch[r].way = "plain" THEN 0 ELSE 1)
    /\ keep_alive' = DispatchSignals(r)
    /\ silent' = silent \ {r}
    /\ UNCHANGED <<control_channel, heartbeats, launch, consumed, ended_by, killed, answer,
                   together, tailed_early>>

HarnessSpeaks(r) ==
    /\ Works(r, "stream", "stream")
    /\ logged[r] < workload.records
    /\ AppendRecord(r, 1)
    /\ UNCHANGED <<control_channel, aliveVars, launch, consumed, ended_by, killed, answer,
                   historyVars>>

\* read_new_control_intents between two lines. Lines that another run's opening cut
\* away take the count back with them.
DrainChannel(r) ==
    /\ consumed[r] # Len(Channel(r))
    /\ consumed' = [consumed EXCEPT ![r] = Len(Channel(r))]
    /\ IF consumed[r] < Len(Channel(r))
       THEN /\ Works(r, "stream", "finish")
            /\ ended_by' = [ended_by EXCEPT ![r] = {Channel(r)[consumed[r] + 1]}]
       ELSE Works(r, "stream", "stream") /\ UNCHANGED ended_by
    /\ UNCHANGED <<fileVars, aliveVars, launch, logged, killed, answer, historyVars>>

HarnessEnds(r) ==
    /\ Works(r, "stream", "finish")
    /\ UNCHANGED <<fileVars, aliveVars, launch, logged, consumed, ended_by, killed, answer,
                   historyVars>>

\* Mistake: the watchdog leaves a run alone whose client has hung up.
KillOfListenedTo(r) ==
    /\ Works(r, "stream", "finish")
    /\ Request(r).keep_alive_expected /\ r \in connected
    /\ keep_alive[TaskId(r)] = "lost"
    /\ killed' = killed \cup {r}
    /\ UNCHANGED <<fileVars, aliveVars, launch, logged, consumed, ended_by, answer, historyVars>>

\* The keep-alive watchdog's kill, and the end of the stream that follows.
KillForLostKeepAlive(r) ==
    /\ Works(r, "stream", "finish")
    /\ Request(r).keep_alive_expected
    /\ keep_alive[TaskId(r)] = "lost"
    /\ killed' = killed \cup {r}
    /\ UNCHANGED <<fileVars, aliveVars, launch, logged, consumed, ended_by, answer, historyVars>>

Cleared(r) ==
    IF Request(r).keep_alive_expected
    THEN [keep_alive EXCEPT ![TaskId(r)] = "none"] ELSE keep_alive

\* The finally block: the record is cleared, a kill is noted in the log.
FinishRun(r) ==
    /\ Works(r, "finish", "dead")
    /\ keep_alive' = Cleared(r)
    /\ AppendRecord(r, IF r \in killed THEN 1 ELSE 0)
    /\ answer' = [answer EXCEPT ![r] =
         IF r \in killed THEN "keep_alive_lost_killed"
         ELSE IF ended_by[r] # {} THEN "operator_ended" ELSE "completed"]
    /\ UNCHANGED <<control_channel, heartbeats, launch, consumed, ended_by, killed,
                   historyVars>>

\* A run that raises before its process is there leaves the registry alone.
ClearedFrom(r, from) == IF from = "stream" THEN Cleared(r) ELSE keep_alive

\* Mistake: the run that takes the fork's place is started with the fork's command.
ForkRaisesKeepingCommand(r, from) ==
    /\ Works(r, from, "open_log")
    /\ launch[r].way \in Forks /\ ~CommandRaises(Request(r))
    /\ launch' = [launch EXCEPT ![r].way = Instead(@)]
    /\ keep_alive' = ClearedFrom(r, from)
    /\ UNCHANGED <<fileVars, heartbeats, logged, consumed, ended_by, killed, answer,
                   historyVars>>

\* An exception in a fork, or in the prime before it, takes the task to a run without
\* one, which opens its files again.
ForkRaises(r, from) ==
    /\ Works(r, from, "open_log")
    /\ launch[r].way \in Forks /\ ~CommandRaises(Request(r))
    /\ launch' = [launch EXCEPT ![r] = Launch(Request(r), Instead(launch[r].way))]
    /\ keep_alive' = ClearedFrom(r, from)
    /\ UNCHANGED <<fileVars, heartbeats, logged, consumed, ended_by, killed, answer,
                   historyVars>>

\* Any other ends the worker thread, which leaves no result.
RunRaises(r, from) ==
    /\ Works(r, from, "dead")
    /\ launch[r].way \notin Forks \/ CommandRaises(Request(r))
    /\ answer' = [answer EXCEPT ![r] = "raised"]
    /\ keep_alive' = ClearedFrom(r, from)
    /\ UNCHANGED <<fileVars, heartbeats, launch, logged, consumed, ended_by, killed,
                   historyVars>>

\* What the thread does on its own.
WorkerStep(r) ==
    \/ \E way \in AllWays : Dispatch(r, way) \/ DispatchToPrime(r, way)
    \/ DispatchRaises(r)
    \/ OpenLog(r) \/ OpenChannel(r) \/ LaunchHarness(r)
    \/ KillForLostKeepAlive(r) \/ FinishRun(r)

\* What depends on its harness.
HarnessStep(r) ==
    \/ PrimeExits(r) \/ HarnessSpeaks(r) \/ DrainChannel(r) \/ HarnessEnds(r)
    \/ \E from \in {"prime", "launch", "stream"} : ForkRaises(r, from) \/ RunRaises(r, from)

------------------------------------------------------------------------------
ClientStep(r) == Post(r) \/ HangUp(r)

\* The server runs for ever: nothing left to do is no deadlock.
Idle ==
    /\ \A r \in Runs : handler[r] \in {"unposted", "answered", "refused", "hung_up"}
    /\ UNCHANGED vars

Next ==
    \/ \E r \in Runs : ClientStep(r) \/ HandlerStep(r) \/ WorkerStep(r) \/ HarnessStep(r)
    \/ \E w \in Workspaces : PostControl(w)
    \/ \E id \in TaskIds : PostKeepAlive(id) \/ HeartbeatAges(id)
    \/ Idle

Spec == Init /\ [][Next]_vars

\* Threads are scheduled and time passes. No client posts or listens for ever, and
\* no harness speaks or ends, of necessity.
Fairness ==
    /\ \A r \in Runs : WF_vars(HandlerStep(r))
    /\ \A r \in Runs : WF_vars(WorkerStep(r))
    /\ \A id \in TaskIds : WF_vars(HeartbeatAges(id))

FairSpec == Spec /\ Fairness

------------------------------------------------------------------------------
(* Safety.                                                                   *)

\* No other run of the workspace was in progress together with this one.
Alone(r) == \A s \in Runs \ {r} : {r, s} \in together => Workspace(s) # Workspace(r)

\* Where the records of its own run lie in what a client was sent.
Own(r, records) == {i \in 1 .. Len(records) : records[i].run = r}

\* All that the run wrote since it opened its log, each record once and in order.
OwnWhole(r, records) ==
    /\ {records[i].number : i \in Own(r, records)} = 1 .. logged[r]
    /\ \A i, j \in Own(r, records) : i < j => records[i].number < records[j].number

StreamedWhole(r) ==
    handler[r] = "answered" /\ r \in connected /\ Alone(r) => OwnWhole(r, streamed[r])

\* A client that stays to the result has seen every record of its run, once and in
\* order, however the polls fell between the writes and the end of the worker:
\* provided its handler read nothing before a fresh run emptied the log.
StreamedUnlessTailedEarly == \A r \in Runs \ tailed_early : StreamedWhole(r)

\* An operator's end only ever ends a run that had opened its channel when it was
\* written: one that was posted before is gone when the run first reads, whatever
\* other runs of the workspace do to the file.
EndedByNoOlderIntent ==
    \A r \in Runs : \A listeners \in ended_by[r] : r \in listeners

\* A run is killed for a heartbeat that was lost since its own dispatch, never for
\* what an earlier run of its task id left in the registry.
KilledForItsOwnSilence == killed \subseteq silent

Launched(r) == worker[r] \in {"stream", "finish"}

Bypassed(r) == launch[r].flags \cap BypassFlags # {}

\* A harness that is at the task, or is given any block of its prompt, be it a prime.
AtTask(r) ==
    \/ Launched(r)
    \/ worker[r] = "prime" /\ launch[r].delivered \cap {"text", "image", "fallback_prompt"} # {}

\* A task that asks for a permission posture is worked on behind it whatever way it
\* takes and whatever failed before, or is refused; only pi, which asks nobody, is
\* given it ungated. A prime runs without the posture, and is given none of the task.
GatedOrRefused ==
    \A r \in Runs :
        AtTask(r) /\ workload.request[r].permission_mode =>
            \/ workload.request[r].harness = "pi"
            \/ GateFlags \subseteq launch[r].flags /\ ~Bypassed(r)

\* What was accepted is delivered: no block of a task's own input is dropped by the
\* harness's prompt delivery, whatever way the task takes.
InputDelivered ==
    \A r \in Runs :
        Launched(r) /\ launch[r].way # "fallback" =>
            workload.request[r].input_content \subseteq launch[r].delivered

------------------------------------------------------------------------------
(* Liveness, under Fairness.                                                 *)

\* Another run under the same task id was in progress at the same time.
SharedRecord(r) == \E s \in Runs \ {r} : {r, s} \in together /\ TaskId(s) = TaskId(r)

\* When the orchestrator falls silent every run ends and every handler with it, a
\* run whose client hung up too: no orphan burns on, unless runs share a record, or
\* while a session is primed, which nothing watches.
NoOrphanRun ==
    \A r \in Runs :
        (handler[r] = "poll" /\ Request(r).keep_alive_expected)
            ~> (handler[r] = "answered" \/ SharedRecord(r) \/ worker[r] = "prime")

------------------------------------------------------------------------------
(* What the documents promise.                                               *)

\* The live-log lines are streamed as they arrive.
StreamedInFull == \A r \in Runs : StreamedWhole(r)

\* An explicit posture takes precedence over the bypass, in all that is launched for
\* the request.
PostureWinsOverBypass ==
    \A r \in Runs :
        (Launched(r) \/ worker[r] = "prime") /\ Request(r).permission_mode => ~Bypassed(r)

=============================================================================
