--------------------------- MODULE ServedRunsProofs ---------------------------
(***************************************************************************)
(* What is proved of the runs a server serves, for any number of runs, any *)
(* workspaces, task ids and workloads.                                     *)
(*                                                                         *)
(* First what a command says of the request it is built from (pure lemmas  *)
(* about LaunchPosture), then one inductive invariant with a part for each *)
(* theorem.                                                                *)
(***************************************************************************)
EXTENDS ServedRuns, TLAPS

------------------------------------------------------------------------------
(* Commands.                                                                 *)

\* What each harness declares, one capability set at a time.
LEMMA CapabilitiesOfEach ==
    ASSUME NEW q \in AllRequests
    PROVE  /\ q.harness = "claude_cli" =>
                /\ Supports(q, "operator_permission_mode")
                /\ Supports(q, "multimodal_input")
           /\ q.harness = "opencode_cli" =>
                /\ ~Supports(q, "operator_permission_mode")
                /\ ~Supports(q, "ignores_unsupported_permission_mode")
                /\ ~Supports(q, "multimodal_input")
           /\ q.harness = "pi" => ~Supports(q, "multimodal_input")
<1>1. /\ Capabilities["claude_cli"] =
           {"operator_permission_mode", "caller_chosen_session_id",
            "session_prime_and_fork", "multimodal_input"}
      /\ Capabilities["opencode_cli"] = {}
      /\ Capabilities["pi"] = {"ignores_unsupported_permission_mode"}
  BY DEF Capabilities
<1> HIDE DEF Capabilities
<1> QED
  BY <1>1 DEF Supports

\* Validation keeps what is delivered, the harness, and the posture of a harness that
\* honours it.
LEMMA ValidatedKeeps ==
    ASSUME NEW q \in AllRequests
    PROVE  /\ Validated(q) \in AllRequests
           /\ Validated(q).harness = q.harness
           /\ Validated(q).input_content = q.input_content
           /\ q.harness = "claude_cli" => Validated(q).permission_mode = q.permission_mode
<1>1. (q.permission_mode /\ Supports(q, "operator_permission_mode")) \in BOOLEAN
  OBVIOUS
<1>2. q.harness = "claude_cli" =>
        (q.permission_mode /\ Supports(q, "operator_permission_mode")) = q.permission_mode
  BY CapabilitiesOfEach DEF AllRequests
<1> DEFINE p == q.permission_mode /\ Supports(q, "operator_permission_mode")
<1>3. Validated(q) = [q EXCEPT !.permission_mode = p]
  BY DEF Validated
<1>4. p \in BOOLEAN /\ (q.harness = "claude_cli" => p = q.permission_mode)
  BY <1>1, <1>2
<1> HIDE DEF p
<1> QED
  BY <1>3, <1>4 DEF AllRequests

\* An accepted posture is claude's, or pi's, which drops it.
LEMMA PostureAccepted ==
    ASSUME NEW q \in AllRequests, Accepted(q), q.permission_mode, q.harness # "pi"
    PROVE  q.harness = "claude_cli"
BY CapabilitiesOfEach DEF Accepted, AcceptsPosture, Harnesses

\* claude is launched behind an explicit posture, never with the bypass, whatever the
\* way of its task.
LEMMA ClaudeGated ==
    ASSUME NEW q \in AllRequests, NEW way \in AllWays,
           q.harness = "claude_cli", q.permission_mode
    PROVE  /\ GateFlags \subseteq Launch(q, way).flags
           /\ Launch(q, way).flags \cap BypassFlags = {}
<1>1. RunRequest(q, way).harness = "claude_cli" /\ RunRequest(q, way).permission_mode
  BY DEF RunRequest, AllRequests
<1>2. \A p : p.permission_mode =>
        GateFlags \subseteq ClaudeArgv(p) /\ ClaudeArgv(p) \cap BypassFlags = {}
  BY DEF ClaudeArgv, ClaudePermissionFlags, ClaudeSessionFlags, GateFlags, BypassFlags
<1>3. HarnessArgv(RunRequest(q, way)) = ClaudeArgv(RunRequest(q, way))
  BY <1>1 DEF HarnessArgv
<1>4. /\ GateFlags \subseteq ForkArgv(q)
      /\ ForkArgv(q) \cap BypassFlags = {}
  BY <1>2 DEF ForkArgv, BypassFlags
<1>5. Launch(q, way).flags = IF way \in Forks THEN ForkArgv(q)
                             ELSE HarnessArgv(RunRequest(q, way))
  BY DEF Launch
<1> QED
  BY <1>1, <1>2, <1>3, <1>4, <1>5

\* Unless the task falls back, its own input is in what is delivered.
LEMMA AcceptedInputDelivered ==
    ASSUME NEW q \in AllRequests, Accepted(q), NEW way \in AllWays, way # "fallback"
    PROVE  q.input_content \subseteq Launch(Validated(q), way).delivered
<1> DEFINE v == Validated(q)
<1>1. /\ v \in AllRequests /\ v.harness = q.harness
      /\ v.input_content = q.input_content
  BY ValidatedKeeps
<1>2. Supports(v, "multimodal_input") <=> Supports(q, "multimodal_input")
  BY <1>1 DEF Supports
<1>3. q.input_content \subseteq Content(v, way)
  BY <1>1 DEF Content, RunRequest
<1>4. Supports(q, "multimodal_input") \/ q.input_content \subseteq TextBlocks
  BY DEF Accepted, AcceptsContent
<1>5. Launch(v, way).delivered = Delivered(v, way)
  BY DEF Launch
<1> HIDE DEF v
<1>6. q.input_content \subseteq Delivered(v, way)
  BY <1>2, <1>3, <1>4 DEF Delivered
<1> QED
  BY <1>5, <1>6 DEF v

\* A launch records the way it was taken.
LEMMA LaunchWay ==
    /\ \A q, way : Launch(q, way).way = way
    /\ \A q, way : PrimeLaunch(q, way).way = way
BY DEF Launch, PrimeLaunch

\* A prime is given blocks of a chunk, or none: nothing of what its task is sent.
LEMMA PrimedWithChunk ==
    ASSUME NEW q \in AllRequests, NEW way
    PROVE  PrimeLaunch(q, way).delivered \cap {"text", "image", "fallback_prompt"} = {}
<1>1. q.reusable_context \subseteq {"chunk_text", "chunk_image"}
  BY DEF AllRequests
<1>2. Primed(q, way) \subseteq {"chunk_text", "chunk_image"}
  BY <1>1 DEF Primed
<1> QED
  BY <1>2 DEF PrimeLaunch

------------------------------------------------------------------------------
(* The parts of the inductive invariant.                                     *)

LaunchSet == {Launch(q, way) : q \in AllRequests, way \in AllWays}
             \cup {PrimeLaunch(q, way) : q \in AllRequests, way \in AllWays}
             \cup {NoLaunch}

HandlerTypes ==
    /\ workload \in Workloads
    /\ handler \in [Runs -> {"unposted", "accepted", "poll", "look", "rest", "join",
                             "answered", "refused", "hung_up"}]
    /\ connected \subseteq Runs
    /\ offset \in [Runs -> Nat] /\ streamed \in [Runs -> Seq(Records)]
    /\ tailed_early \subseteq Runs /\ silent \subseteq Runs
    /\ together \subseteq SUBSET Runs

WorkerTypes ==
    /\ worker \in [Runs -> {"none", "dispatch", "prime", "open_log", "open_channel",
                            "launch", "stream", "finish", "dead"}]
    /\ launch \in [Runs -> LaunchSet]
    /\ consumed \in [Runs -> Nat] /\ ended_by \in [Runs -> SUBSET SUBSET Runs]
    /\ killed \subseteq Runs
    /\ answer \in [Runs -> {"none", "completed", "operator_ended",
                            "keep_alive_lost_killed", "raised"}]

FileTypes ==
    /\ live_log \in [Workspaces -> Seq(Records)]
    /\ logged \in [Runs -> Nat]
    /\ control_channel \in [Workspaces -> Seq(SUBSET Runs)]
    /\ keep_alive \in [TaskIds -> {"none", "fresh", "lost"}] /\ heartbeats \in Nat

Types == HandlerTypes /\ WorkerTypes /\ FileTypes

\* A worker runs an accepted request, and from its dispatch to its end what it
\* launches is the command of that request.
Launching(r) == worker[r] \notin {"none", "dispatch", "dead"}

LaunchedAsAsked ==
    \A r \in Runs :
        /\ handler[r] = "accepted" \/ worker[r] = "dispatch" =>
             Accepted(workload.request[r])
        /\ handler[r] \in {"unposted", "accepted"} => worker[r] = "none"
        /\ Launching(r) =>
             /\ Accepted(workload.request[r])
             /\ launch[r].way \in AllWays
             /\ launch[r] = IF worker[r] = "prime"
                            THEN PrimeLaunch(Request(r), launch[r].way)
                            ELSE Launch(Request(r), launch[r].way)

\* The channel a run has opened holds only lines written since, and the run was
\* listening to each.
Listening(r) == worker[r] \in {"launch", "stream", "finish"}

ListenedTo ==
    /\ \A r \in Runs : Listening(r) =>
         \A i \in 1 .. Len(Channel(r)) : r \in Channel(r)[i]
    /\ EndedByNoOlderIntent

\* While a run that expects heartbeats streams, a record that is lost was lost since
\* its dispatch.
LostSinceDispatch ==
    /\ \A r \in Runs :
         /\ worker[r] = "stream" /\ Request(r).keep_alive_expected
         /\ keep_alive[TaskId(r)] = "lost"
         => r \in silent
    /\ \A r \in killed : worker[r] \in {"finish", "dead"}
    /\ KilledForItsOwnSilence

IInv == Types /\ LaunchedAsAsked /\ ListenedTo /\ LostSinceDispatch

------------------------------------------------------------------------------
(* The tuples of variables, expanded wherever a step says what it leaves alone. *)

USE DEF httpVars, fileVars, aliveVars, workVars, historyVars

\* What the workload says of a run.
LEMMA WorkTyped ==
    ASSUME workload \in Workloads, NEW r \in Runs
    PROVE  /\ workload.request[r] \in AllRequests /\ Request(r) \in AllRequests
           /\ Workspace(r) \in Workspaces /\ TaskId(r) \in TaskIds
<1>1. workload.request[r] \in AllRequests /\ workload.workspace[r] \in Workspaces
  BY ServedAssumption
<1> QED
  BY <1>1, ValidatedKeeps DEF Request, Workspace, TaskId, TaskIds

\* The handler threads' variables keep their types.
LEMMA HandlerTypesPreserved ==
    ASSUME Types, [Next]_vars
    PROVE  HandlerTypes'
<1> USE DEF Types, HandlerTypes
<1>1. CASE \E r \in Runs : ClientStep(r)
  BY <1>1 DEF ClientStep, Post, HangUp, Handles
<1>2. CASE \E r \in Runs : HandlerStep(r)
  <2>1. PICK r \in Runs : HandlerStep(r)
    BY <1>2
  <2>2. CASE StartRun(r)
    <3>1. \A s \in Runs : {r, s} \in SUBSET Runs
      OBVIOUS
    <3> DEFINE others == {t \in Runs \ {r} : InProgress(t)}
    <3>2. others \subseteq Runs
      OBVIOUS
    <3>3. \A pair \in {{r, s} : s \in others} : pair \in SUBSET Runs
      <4> HIDE DEF others
      <4> SUFFICES ASSUME NEW pair \in {{r, s} : s \in others}
                   PROVE  pair \in SUBSET Runs
        OBVIOUS
      <4>1. PICK s \in others : pair = {r, s}
        OBVIOUS
      <4> QED
        BY <3>1, <3>2, <4>1
    <3> QED
      BY <2>2, <3>3 DEF StartRun, Handles
  <2>3. ASSUME NEW from, NEW to \in {"look", "join"}, FlushNewLines(r, from, to)
        PROVE  HandlerTypes'
    <3>1. /\ Log(r) \in Seq(Records) /\ offset[r] \in Nat
          /\ Len(Log(r)) \in Nat /\ streamed[r] \in Seq(Records)
      BY WorkTyped DEF Log, FileTypes
    <3>2. NewRecords(r) \in Seq(Records)
      BY <3>1 DEF NewRecords
    <3>3. Len(NewRecords(r)) \in Nat /\ streamed[r] \o NewRecords(r) \in Seq(Records)
      BY <3>1, <3>2
    <3> QED
      BY <2>3, <3>1, <3>3 DEF FlushNewLines, Handles
  <2>4. CASE StartFails(r) \/ LookAtWorker(r) \/ WriteResult(r)
    BY <2>4 DEF StartFails, LookAtWorker, WriteResult, Handles
  <2> QED
    BY <2>1, <2>2, <2>3, <2>4 DEF HandlerStep
<1>3. CASE \E r \in Runs : WorkerStep(r) \/ HarnessStep(r)
  <2>1. PICK r \in Runs : WorkerStep(r) \/ HarnessStep(r)
    BY <1>3
  <2>2. CASE OpenLog(r)
    BY <2>2 DEF OpenLog, Works
  <2>3. CASE LaunchHarness(r)
    BY <2>3 DEF LaunchHarness, Works
  <2> QED
    BY <2>1, <2>2, <2>3 DEF WorkerStep, HarnessStep, Dispatch, DispatchToPrime,
        DispatchRaises, PrimeExits, OpenChannel, KillForLostKeepAlive, FinishRun,
        HarnessSpeaks, DrainChannel, HarnessEnds, ForkRaises, RunRaises, Works
<1>4. CASE \E w \in Workspaces : PostControl(w)
  BY <1>4 DEF PostControl
<1>5. CASE \E id \in TaskIds : PostKeepAlive(id) \/ HeartbeatAges(id)
  BY <1>5 DEF PostKeepAlive, HeartbeatAges
<1>6. CASE UNCHANGED vars
  BY <1>6 DEF vars
<1> QED
  BY <1>1, <1>2, <1>3, <1>4, <1>5, <1>6 DEF Next, Idle

\* A fork's substitute is a way of its own.
LEMMA LaunchTyped ==
    ASSUME NEW q \in AllRequests, NEW way \in AllWays
    PROVE  /\ Launch(q, way) \in LaunchSet /\ PrimeLaunch(q, way) \in LaunchSet
           /\ Instead(way) \in AllWays
BY DEF LaunchSet, Instead, AllWays, Forks

\* The worker threads' variables keep their types.
LEMMA WorkerTypesPreserved ==
    ASSUME Types, LaunchedAsAsked, [Next]_vars
    PROVE  WorkerTypes'
<1> USE DEF Types, WorkerTypes
<1>a. workload \in Workloads /\ control_channel \in [Workspaces -> Seq(SUBSET Runs)]
  BY DEF HandlerTypes, FileTypes
<1>1. CASE \E r \in Runs : ClientStep(r)
  BY <1>1 DEF ClientStep, Post, HangUp, Handles
<1>2. CASE \E r \in Runs : HandlerStep(r)
  BY <1>2 DEF HandlerStep, StartRun, StartFails, FlushNewLines, LookAtWorker,
      WriteResult, Handles
<1>3. CASE \E r \in Runs : WorkerStep(r) \/ HarnessStep(r)
  <2>1. PICK r \in Runs : WorkerStep(r) \/ HarnessStep(r)
    BY <1>3
  <2>2. Request(r) \in AllRequests
    BY <1>a, WorkTyped
  <2>3. ASSUME NEW way \in AllWays, Dispatch(r, way) \/ DispatchToPrime(r, way)
        PROVE  WorkerTypes'
    BY <2>2, <2>3, LaunchTyped DEF Dispatch, DispatchToPrime, Works
  <2>9. CASE PrimeExits(r)
    <3>1. launch[r].way \in AllWays
      BY <2>9 DEF PrimeExits, Works, LaunchedAsAsked, Launching
    <3> QED
      BY <2>2, <2>9, <3>1, LaunchTyped DEF PrimeExits, Works
  <2>4. ASSUME NEW from, ForkRaises(r, from)
        PROVE  WorkerTypes'
    <3>1. launch[r].way \in AllWays
      BY <2>4 DEF ForkRaises, AllWays
    <3> QED
      BY <2>2, <2>4, <3>1, LaunchTyped DEF ForkRaises, Works
  <2>5. CASE DrainChannel(r)
    <3>1. Channel(r) \in Seq(SUBSET Runs) /\ Len(Channel(r)) \in Nat
      BY <1>a, WorkTyped DEF Channel
    <3>2. CASE consumed[r] < Len(Channel(r))
      <4>1. Channel(r)[consumed[r] + 1] \in SUBSET Runs
        BY <3>1, <3>2
      <4>2. {Channel(r)[consumed[r] + 1]} \in SUBSET SUBSET Runs
        BY <4>1
      <4> HIDE DEF Channel
      <4> QED
        BY <2>5, <3>1, <3>2, <4>2 DEF DrainChannel, Works
    <3>3. CASE ~(consumed[r] < Len(Channel(r)))
      BY <2>5, <3>1, <3>3 DEF DrainChannel, Works
    <3> QED
      BY <3>2, <3>3
  <2>6. CASE OpenLog(r) \/ OpenChannel(r) \/ LaunchHarness(r) \/ HarnessSpeaks(r)
    BY <2>6 DEF OpenLog, OpenChannel, LaunchHarness, HarnessSpeaks, Works
  <2>7. CASE KillForLostKeepAlive(r) \/ HarnessEnds(r) \/ FinishRun(r)
    BY <2>7 DEF KillForLostKeepAlive, HarnessEnds, FinishRun, Works
  <2>8. CASE DispatchRaises(r) \/ (\E from \in {"prime", "launch", "stream"} :
      RunRaises(r, from))
    BY <2>8 DEF DispatchRaises, RunRaises, Works
  <2> QED
    BY <2>1, <2>3, <2>4, <2>5, <2>6, <2>7, <2>8, <2>9 DEF WorkerStep, HarnessStep
<1>4. CASE \E w \in Workspaces : PostControl(w)
  BY <1>4 DEF PostControl
<1>5. CASE \E id \in TaskIds : PostKeepAlive(id) \/ HeartbeatAges(id)
  BY <1>5 DEF PostKeepAlive, HeartbeatAges
<1>6. CASE UNCHANGED vars
  BY <1>6 DEF vars
<1> QED
  BY <1>1, <1>2, <1>3, <1>4, <1>5, <1>6 DEF Next, Idle

\* What a run appends to its log is records of its own.
LEMMA AppendTyped ==
    ASSUME Types, NEW r \in Runs, NEW n \in Nat, AppendRecord(r, n)
    PROVE  /\ live_log' \in [Workspaces -> Seq(Records)]
           /\ logged' \in [Runs -> Nat]
<1>1. /\ live_log \in [Workspaces -> Seq(Records)] /\ logged \in [Runs -> Nat]
      /\ Workspace(r) \in Workspaces
  BY WorkTyped DEF Types, HandlerTypes, FileTypes
<1> DEFINE new == [i \in 1 .. n |-> [run |-> r, number |-> logged[r] + i]]
<1>2. new \in Seq(Records)
  <2>1. \A i \in 1 .. n : [run |-> r, number |-> logged[r] + i] \in Records
    BY <1>1 DEF Records
  <2> QED
    BY <2>1
<1>3. /\ live_log' = [live_log EXCEPT ![Workspace(r)] = @ \o new]
      /\ logged' = [logged EXCEPT ![r] = @ + n]
  BY DEF AppendRecord
<1> HIDE DEF new
<1>4. live_log[Workspace(r)] \o new \in Seq(Records)
  BY <1>1, <1>2
<1> QED
  BY <1>1, <1>3, <1>4

\* The shared files and the registry keep their types.
LEMMA FileTypesPreserved ==
    ASSUME Types, [Next]_vars
    PROVE  FileTypes'
<1> USE DEF Types, FileTypes
<1>a. workload \in Workloads
  BY DEF HandlerTypes
<1>1. CASE \E r \in Runs : ClientStep(r)
  BY <1>1 DEF ClientStep, Post, HangUp, Handles
<1>2. CASE \E r \in Runs : HandlerStep(r)
  BY <1>2 DEF HandlerStep, StartRun, StartFails, FlushNewLines, LookAtWorker,
      WriteResult, Handles
<1>3. CASE \E r \in Runs : WorkerStep(r) \/ HarnessStep(r)
  <2>1. PICK r \in Runs : WorkerStep(r) \/ HarnessStep(r)
    BY <1>3
  <2>2. Workspace(r) \in Workspaces /\ TaskId(r) \in TaskIds
    BY <1>a, WorkTyped
  <2>3. CASE OpenLog(r)
    BY <2>2, <2>3 DEF OpenLog, Works
  <2>4. CASE OpenChannel(r)
    BY <2>2, <2>4 DEF OpenChannel, Works
  <2>5. CASE LaunchHarness(r)
    <3>1. keep_alive' \in [TaskIds -> {"none", "fresh", "lost"}]
      BY <2>2, <2>5 DEF LaunchHarness, DispatchSignals
    <3>2. (IF launch[r].way = "plain" THEN 0 ELSE 1) \in Nat
      OBVIOUS
    <3> QED
      BY <2>5, <3>1, <3>2, AppendTyped DEF LaunchHarness, Works
  <2>6. CASE HarnessSpeaks(r)
    BY <2>6, AppendTyped DEF HarnessSpeaks, Works
  <2>7. CASE FinishRun(r)
    <3>1. keep_alive' \in [TaskIds -> {"none", "fresh", "lost"}]
      BY <2>2, <2>7 DEF FinishRun, Cleared
    <3>2. (IF r \in killed THEN 1 ELSE 0) \in Nat
      OBVIOUS
    <3> QED
      BY <2>7, <3>1, <3>2, AppendTyped DEF FinishRun, Works
  <2>8. ASSUME NEW from, ForkRaises(r, from) \/ RunRaises(r, from)
        PROVE  FileTypes'
    <3>1. keep_alive' \in [TaskIds -> {"none", "fresh", "lost"}]
      BY <2>2, <2>8 DEF ForkRaises, RunRaises, ClearedFrom, Cleared
    <3> QED
      BY <2>8, <3>1 DEF ForkRaises, RunRaises, Works
  <2>9. CASE \/ \E way \in AllWays : Dispatch(r, way) \/ DispatchToPrime(r, way)
             \/ PrimeExits(r) \/ DispatchRaises(r)
             \/ KillForLostKeepAlive(r) \/ DrainChannel(r) \/ HarnessEnds(r)
    BY <2>9 DEF Dispatch, DispatchToPrime, DispatchRaises, PrimeExits,
        KillForLostKeepAlive, DrainChannel, HarnessEnds, Works
  <2> QED
    BY <2>1, <2>3, <2>4, <2>5, <2>6, <2>7, <2>8, <2>9 DEF WorkerStep, HarnessStep
<1>4. CASE \E w \in Workspaces : PostControl(w)
  <2>1. Opened \in SUBSET Runs
    BY DEF Opened
  <2> QED
    BY <1>4, <2>1 DEF PostControl
<1>5. CASE \E id \in TaskIds : PostKeepAlive(id) \/ HeartbeatAges(id)
  BY <1>5 DEF PostKeepAlive, HeartbeatAges
<1>6. CASE UNCHANGED vars
  BY <1>6 DEF vars
<1> QED
  BY <1>1, <1>2, <1>3, <1>4, <1>5, <1>6 DEF Next, Idle

\* Threads change places one run at a time: what a step of r leaves of the others.
LEMMA OthersKeep ==
    ASSUME Types, NEW r \in Runs, WorkerStep(r) \/ HarnessStep(r)
    PROVE  /\ UNCHANGED <<workload, handler>>
           /\ \A s \in Runs \ {r} : /\ worker'[s] = worker[s]
                                    /\ launch'[s] = launch[s]
                                    /\ consumed'[s] = consumed[s]
                                    /\ ended_by'[s] = ended_by[s]
BY DEF Types, WorkerTypes, WorkerStep, HarnessStep, Dispatch, DispatchToPrime,
    DispatchRaises, PrimeExits, OpenLog, OpenChannel, LaunchHarness,
    KillForLostKeepAlive, FinishRun, HarnessSpeaks, DrainChannel, HarnessEnds,
    ForkRaises, RunRaises, Works

\* The command: a dispatch, the end of a prime and a failed fork build one, each for
\* the request.
LEMMA LaunchPreserved ==
    ASSUME Types, LaunchedAsAsked, [Next]_vars
    PROVE  LaunchedAsAsked'
<1> USE DEF LaunchedAsAsked, Launching
<1>a. worker \in [Runs -> {"none", "dispatch", "prime", "open_log", "open_channel",
                         "launch", "stream", "finish", "dead"}]
      /\ DOMAIN launch = Runs /\ DOMAIN handler = Runs
  BY DEF Types, WorkerTypes, HandlerTypes
<1>1. CASE \E r \in Runs : ClientStep(r)
  BY <1>a, <1>1 DEF ClientStep, Post, HangUp, Handles, Request
<1>2. CASE \E r \in Runs : HandlerStep(r)
  BY <1>a, <1>2 DEF HandlerStep, StartRun, StartFails, FlushNewLines, LookAtWorker,
      WriteResult, Handles, Request
<1>3. CASE \E r \in Runs : WorkerStep(r) \/ HarnessStep(r)
  <2>1. PICK r \in Runs : WorkerStep(r) \/ HarnessStep(r)
    BY <1>3
  <2>2. /\ UNCHANGED <<workload, handler>> /\ Request(r)' = Request(r)
        /\ \A s \in Runs \ {r} :
             worker'[s] = worker[s] /\ launch'[s] = launch[s] /\ Request(s)' = Request(s)
    BY <2>1, OthersKeep DEF Request
  <2>a. worker[r] # "none"
    BY <2>1 DEF WorkerStep, HarnessStep, Dispatch, DispatchToPrime, DispatchRaises,
        PrimeExits, OpenLog, OpenChannel, LaunchHarness, KillForLostKeepAlive,
        FinishRun, HarnessSpeaks, DrainChannel, HarnessEnds, ForkRaises, RunRaises,
        Works
  <2>b. handler[r] \notin {"unposted", "accepted"}
    BY <2>a
  <2>3. SUFFICES ASSUME worker'[r] \notin {"none", "dispatch", "dead"} \/ worker'[r]
      = "dispatch"
                 PROVE  /\ Accepted(workload.request[r])
                        /\ worker'[r] # "dispatch" =>
                             /\ launch'[r].way \in AllWays
                             /\ launch'[r] = IF worker'[r] = "prime"
                                             THEN PrimeLaunch(Request(r), launch'[r].way)
                                             ELSE Launch(Request(r), launch'[r].way)
    BY <2>2, <2>b
  <2>4. CASE worker[r] = "dispatch"
    <3>1. CASE DispatchRaises(r)
      BY <1>a, <2>3, <2>4, <3>1 DEF DispatchRaises, Works
    <3>2. CASE \E way \in AllWays : Dispatch(r, way)
      BY <1>a, <2>4, <3>2, LaunchWay DEF Dispatch, Works
    <3>3. CASE \E way \in AllWays : DispatchToPrime(r, way)
      BY <1>a, <2>4, <3>3, LaunchWay DEF DispatchToPrime, Works
    <3> QED
      BY <2>1, <2>4, <3>1, <3>2, <3>3 DEF PrimeExits, WorkerStep, HarnessStep,
          OpenLog, OpenChannel, LaunchHarness, KillForLostKeepAlive, FinishRun,
          HarnessSpeaks, DrainChannel, HarnessEnds, ForkRaises, RunRaises, Works
  <2>5. CASE \E from \in {"prime", "launch", "stream"} : ForkRaises(r, from)
    <3>1. PICK from \in {"prime", "launch", "stream"} : ForkRaises(r, from)
      BY <2>5
    <3>2. /\ Accepted(workload.request[r]) /\ launch[r].way \in AllWays
      BY <3>1 DEF ForkRaises, Works
    <3>3. launch'[r] = Launch(Request(r), Instead(launch[r].way))
          /\ worker'[r] = "open_log"
      BY <1>a, <3>1 DEF ForkRaises, Works
    <3>4. Instead(launch[r].way) \in AllWays
      BY <3>2 DEF Instead, AllWays, Forks
    <3> QED
      BY <3>2, <3>3, <3>4, LaunchWay
  <2>8. CASE PrimeExits(r)
    <3>1. /\ Accepted(workload.request[r]) /\ launch[r].way \in AllWays
          /\ launch'[r] = Launch(Request(r), launch[r].way) /\ worker'[r] = "open_log"
      BY <1>a, <2>8 DEF PrimeExits, Works
    <3> QED
      BY <3>1, LaunchWay
  <2>6. CASE UNCHANGED launch /\ worker[r] \notin {"none", "dispatch", "prime", "dead"}
             /\ worker'[r] \notin {"dispatch", "prime", "none"}
    BY <2>6
  <2>9. CASE worker'[r] = "dead"
    BY <2>3, <2>9
  <2>7. /\ worker[r] # "dispatch" /\ ~PrimeExits(r) /\ worker'[r] # "dead"
        /\ ~(\E from \in {"prime", "launch", "stream"} : ForkRaises(r, from))
        => UNCHANGED launch /\ worker[r] \notin {"none", "dispatch", "prime", "dead"}
             /\ worker'[r] \notin {"dispatch", "prime", "none"}
    BY <1>a, <2>1 DEF WorkerStep, HarnessStep, Dispatch, DispatchToPrime,
        DispatchRaises, PrimeExits, OpenLog, OpenChannel, LaunchHarness,
        KillForLostKeepAlive, FinishRun, HarnessSpeaks, DrainChannel, HarnessEnds,
        RunRaises, Works
  <2> QED
    BY <2>4, <2>5, <2>6, <2>7, <2>8, <2>9
<1>4. CASE \E w \in Workspaces : PostControl(w)
  BY <1>4 DEF PostControl, Request
<1>5. CASE \E id \in TaskIds : PostKeepAlive(id) \/ HeartbeatAges(id)
  BY <1>5 DEF PostKeepAlive, HeartbeatAges, Request
<1>6. CASE UNCHANGED vars
  BY <1>6 DEF vars, Request
<1> QED
  BY <1>1, <1>2, <1>3, <1>4, <1>5, <1>6 DEF Next, Idle

\* The channels: a run empties its own before it listens, and what is written from
\* then on is heard by every run that listens at the time.
LEMMA ListenedPreserved ==
    ASSUME Types, ListenedTo, [Next]_vars
    PROVE  ListenedTo'
<1> USE DEF ListenedTo, Listening, EndedByNoOlderIntent
<1>a. /\ workload \in Workloads
      /\ worker \in [Runs -> {"none", "dispatch", "prime", "open_log", "open_channel",
                              "launch", "stream", "finish", "dead"}]
      /\ control_channel \in [Workspaces -> Seq(SUBSET Runs)]
      /\ consumed \in [Runs -> Nat] /\ ended_by \in [Runs -> SUBSET SUBSET Runs]
  BY DEF Types, WorkerTypes, HandlerTypes, FileTypes
<1>1. CASE \E r \in Runs : ClientStep(r)
  BY <1>a, <1>1 DEF ClientStep, Post, HangUp, Handles, Channel, Workspace
<1>2. CASE \E r \in Runs : HandlerStep(r)
  <2>1. /\ UNCHANGED <<workload, control_channel, ended_by>>
        /\ \A s \in Runs : Listening(s)' => Listening(s)
    BY <1>a, <1>2 DEF HandlerStep, StartRun, StartFails, FlushNewLines, LookAtWorker,
        WriteResult, Handles
  <2>2. \A s \in Runs : Channel(s)' = Channel(s)
    BY <2>1 DEF Channel, Workspace
  <2> HIDE DEF Listening
  <2> QED
    BY <2>1, <2>2
<1>3. CASE \E r \in Runs : WorkerStep(r) \/ HarnessStep(r)
  <2>1. PICK r \in Runs : WorkerStep(r) \/ HarnessStep(r)
    BY <1>3
  <2>2. UNCHANGED workload /\ \A s \in Runs \ {r} :
          worker'[s] = worker[s] /\ ended_by'[s] = ended_by[s]
    BY <2>1, OthersKeep
  <2>3. CASE OpenChannel(r)
    <3>1. control_channel' = [control_channel EXCEPT ![Workspace(r)] = <<>>]
          /\ UNCHANGED ended_by
      BY <2>3 DEF OpenChannel
    <3>2. ASSUME NEW s \in Runs, Listening(s)', NEW i \in 1 .. Len(Channel(s)')
          PROVE  s \in (Channel(s)')[i]
      <4>1. Workspace(s) \in Workspaces /\ Workspace(s)' = Workspace(s)
            /\ Workspace(r) \in Workspaces
        BY <1>a, <2>2, WorkTyped DEF Workspace
      <4>2. Workspace(s) # Workspace(r)
        BY <1>a, <3>1, <3>2, <4>1 DEF Channel
      <4>3. Channel(s)' = Channel(s) /\ s # r
        BY <1>a, <3>1, <4>1, <4>2 DEF Channel
      <4> QED
        BY <2>2, <3>2, <4>3
    <3> QED
      BY <3>1, <3>2
  <2>4. CASE DrainChannel(r)
    <3>1. Listening(r) /\ UNCHANGED control_channel
      BY <2>4 DEF DrainChannel, Works
    <3>2. \A s \in Runs : Channel(s)' = Channel(s)
      BY <2>2, <3>1 DEF Channel, Workspace
    <3>3. Channel(r) \in Seq(SUBSET Runs) /\ consumed[r] \in Nat
      BY <1>a, WorkTyped DEF Channel
    <3>4. \A listeners \in ended_by'[r] : r \in listeners
      <4>1. CASE consumed[r] < Len(Channel(r))
        <5>1. ended_by'[r] = {Channel(r)[consumed[r] + 1]}
          BY <1>a, <2>4, <4>1 DEF DrainChannel
        <5>2. r \in Channel(r)[consumed[r] + 1]
          BY <3>1, <3>3, <4>1
        <5> QED
          BY <5>1, <5>2
      <4>2. CASE ~(consumed[r] < Len(Channel(r)))
        BY <2>4, <4>2 DEF DrainChannel
      <4> QED
        BY <4>1, <4>2
    <3> QED
      BY <2>2, <3>1, <3>2, <3>4
  <2>5. CASE UNCHANGED <<control_channel, ended_by>> /\ (Listening(r)' => Listening(r))
    BY <2>2, <2>5 DEF Channel, Workspace
  <2> QED
    BY <1>a, <2>1, <2>3, <2>4, <2>5 DEF WorkerStep, HarnessStep, Dispatch,
        DispatchToPrime, PrimeExits, DispatchRaises, OpenLog, LaunchHarness,
        KillForLostKeepAlive, FinishRun, HarnessSpeaks, HarnessEnds, ForkRaises,
        RunRaises, Works
<1>4. CASE \E w \in Workspaces : PostControl(w)
  <2>1. PICK w \in Workspaces : PostControl(w)
    BY <1>4
  <2>2. /\ UNCHANGED <<workload, worker, ended_by>>
        /\ control_channel' = [control_channel EXCEPT ![w] = Append(@, Opened)]
    BY <2>1 DEF PostControl
  <2>3. ASSUME NEW s \in Runs, Listening(s), NEW i \in 1 .. Len(Channel(s)')
        PROVE  s \in (Channel(s)')[i]
    <3>1. Workspace(s) \in Workspaces /\ Workspace(s)' = Workspace(s)
      BY <1>a, <2>2, WorkTyped DEF Workspace
    <3>2. s \in Opened
      BY <2>3 DEF Opened
    <3>3. Channel(s) \in Seq(SUBSET Runs)
      BY <1>a, <3>1 DEF Channel
    <3>4. CASE Workspace(s) = w
      <4>1. Channel(s)' = Append(Channel(s), Opened)
        BY <1>a, <2>2, <3>1, <3>4 DEF Channel
      <4> HIDE DEF Channel, Opened
      <4>2. i \in 1 .. Len(Channel(s)) + 1
        BY <2>3, <3>3, <4>1
      <4>3. CASE i <= Len(Channel(s))
        BY <2>3, <3>3, <4>1, <4>2, <4>3
      <4>4. CASE i = Len(Channel(s)) + 1
        BY <3>2, <3>3, <4>1, <4>4
      <4> QED
        BY <3>3, <4>2, <4>3, <4>4
    <3>5. CASE Workspace(s) # w
      BY <1>a, <2>2, <2>3, <3>1, <3>5 DEF Channel
    <3> QED
      BY <3>4, <3>5
  <2> QED
    BY <2>2, <2>3
<1>5. CASE \E id \in TaskIds : PostKeepAlive(id) \/ HeartbeatAges(id)
  BY <1>5 DEF PostKeepAlive, HeartbeatAges, Channel, Workspace
<1>6. CASE UNCHANGED vars
  BY <1>6 DEF vars, Channel, Workspace
<1> QED
  BY <1>1, <1>2, <1>3, <1>4, <1>5, <1>6 DEF Next, Idle

\* The keep-alive records: a dispatch refreshes the run's own, and ageing marks every
\* run of the id.
LEMMA SilencePreserved ==
    ASSUME Types, LaunchedAsAsked, LostSinceDispatch, [Next]_vars
    PROVE  LostSinceDispatch'
<1>a. /\ workload \in Workloads
      /\ worker \in [Runs -> {"none", "dispatch", "prime", "open_log", "open_channel",
                              "launch", "stream", "finish", "dead"}]
      /\ keep_alive \in [TaskIds -> {"none", "fresh", "lost"}]
      /\ killed \subseteq Runs /\ silent \subseteq Runs
  BY DEF Types, WorkerTypes, HandlerTypes, FileTypes
<1>b. \A s \in Runs : TaskId(s) \in TaskIds
  BY <1>a, WorkTyped
<1>c. UNCHANGED workload =>
        \A s \in Runs : TaskId(s)' = TaskId(s) /\ Request(s)' = Request(s)
  BY DEF TaskId, Workspace, Request
<1> HIDE DEF TaskIds
\* A step that lets no record be lost, starts no stream and kills nobody.
<1>d. ASSUME UNCHANGED <<workload, killed>>, silent \subseteq silent',
             \A s \in Runs : keep_alive'[TaskId(s)] = "lost" =>
                 keep_alive[TaskId(s)] = "lost", \A s \in Runs : worker'[s] = "stream"
                 => worker[s] = "stream", \A s \in Runs : worker[s] \in {"finish",
                 "dead"} => worker'[s] \in {"finish", "dead"}
      PROVE  LostSinceDispatch'
  <2>1. ASSUME NEW s \in Runs, worker'[s] = "stream", (Request(s)').keep_alive_expected,
               keep_alive'[TaskId(s)'] = "lost"
        PROVE  s \in silent'
    <3>1. Request(s).keep_alive_expected /\ keep_alive[TaskId(s)] = "lost"
      BY <1>c, <1>d, <2>1
    <3> QED
      BY <1>d, <2>1, <3>1 DEF LostSinceDispatch
  <2>2. \A s \in killed' : worker'[s] \in {"finish", "dead"}
    BY <1>a, <1>d DEF LostSinceDispatch
  <2>3. KilledForItsOwnSilence'
    BY <1>d DEF LostSinceDispatch, KilledForItsOwnSilence
  <2> QED
    BY <2>1, <2>2, <2>3 DEF LostSinceDispatch
<1>1. CASE \E r \in Runs : ClientStep(r)
  BY <1>a, <1>d, <1>1 DEF ClientStep, Post, HangUp, Handles
<1>2. CASE \E r \in Runs : HandlerStep(r)
  <2>1. PICK r \in Runs : HandlerStep(r)
    BY <1>2
  <2>2. UNCHANGED <<workload, keep_alive, silent, killed>>
    BY <2>1 DEF HandlerStep, StartRun, StartFails, FlushNewLines, LookAtWorker,
        WriteResult, Handles
  <2>3. \A s \in Runs : worker'[s] = worker[s] \/ (worker[s] = "none" /\ worker'[s]
      = "dispatch")
    BY <1>a, <2>1 DEF HandlerStep, StartRun, StartFails, FlushNewLines, LookAtWorker,
        WriteResult, Handles, LaunchedAsAsked
  <2> QED
    BY <1>d, <2>2, <2>3
<1>3. CASE \E r \in Runs : WorkerStep(r) \/ HarnessStep(r)
  <2>1. PICK r \in Runs : WorkerStep(r) \/ HarnessStep(r)
    BY <1>3
  <2>2. UNCHANGED workload /\ \A s \in Runs \ {r} : worker'[s] = worker[s]
    BY <2>1, OthersKeep
  <2>3. CASE LaunchHarness(r)
    <3>1. /\ keep_alive' = DispatchSignals(r) /\ silent' = silent \ {r}
          /\ UNCHANGED killed /\ worker[r] = "launch"
      BY <2>3 DEF LaunchHarness, Works
    <3>2. r \notin killed
      BY <3>1 DEF LostSinceDispatch
    <3>3. \A s \in Runs : keep_alive'[TaskId(s)] = "lost" => keep_alive[TaskId(s)] =
        "lost"
      BY <1>a, <1>b, <3>1 DEF DispatchSignals
    <3>4. Request(r).keep_alive_expected => keep_alive'[TaskId(r)] # "lost"
      BY <1>a, <1>b, <3>1 DEF DispatchSignals
    <3>5. ASSUME NEW s \in Runs, worker'[s] = "stream", (Request(s)').keep_alive_expected,
                 keep_alive'[TaskId(s)'] = "lost"
          PROVE  s \in silent'
      <4>1. Request(s).keep_alive_expected /\ keep_alive'[TaskId(s)] = "lost"
        BY <1>c, <2>2, <3>5
      <4>2. s # r
        BY <3>4, <4>1
      <4> QED
        BY <2>2, <3>1, <3>3, <3>5, <4>1, <4>2 DEF LostSinceDispatch
    <3>6. KilledForItsOwnSilence' /\ \A s \in killed' : worker'[s] \in {"finish", "dead"}
      BY <1>a, <2>2, <3>1, <3>2 DEF LostSinceDispatch, KilledForItsOwnSilence
    <3> QED
      BY <3>5, <3>6 DEF LostSinceDispatch
  <2>4. CASE KillForLostKeepAlive(r)
    <3>1. /\ UNCHANGED <<keep_alive, silent>> /\ killed' = killed \cup {r}
          /\ worker'[r] = "finish" /\ worker[r] = "stream"
          /\ Request(r).keep_alive_expected /\ keep_alive[TaskId(r)] = "lost"
      BY <1>a, <2>4 DEF KillForLostKeepAlive, Works
    <3>2. r \in silent
      BY <3>1 DEF LostSinceDispatch
    <3>3. ASSUME NEW s \in Runs, worker'[s] = "stream", (Request(s)').keep_alive_expected,
                 keep_alive'[TaskId(s)'] = "lost"
          PROVE  s \in silent'
      BY <1>c, <2>2, <3>1, <3>3 DEF LostSinceDispatch
    <3>4. KilledForItsOwnSilence' /\ \A s \in killed' : worker'[s] \in {"finish", "dead"}
      BY <1>a, <2>2, <3>1, <3>2 DEF LostSinceDispatch, KilledForItsOwnSilence
    <3> QED
      BY <3>3, <3>4 DEF LostSinceDispatch
  <2>5. CASE FinishRun(r)
    <3>1. \A s \in Runs : keep_alive'[TaskId(s)] = "lost" => keep_alive[TaskId(s)] =
        "lost"
      BY <1>a, <1>b, <2>5 DEF FinishRun, Cleared
    <3>2. UNCHANGED <<silent, killed>> /\ worker'[r] = "dead"
      BY <1>a, <2>5 DEF FinishRun, Works
    <3> QED
      BY <1>d, <2>2, <3>1, <3>2
  <2>6. ASSUME NEW from \in {"prime", "launch", "stream"}, ForkRaises(r, from) \/
      RunRaises(r, from)
        PROVE  LostSinceDispatch'
    <3>1. \A s \in Runs : keep_alive'[TaskId(s)] = "lost" => keep_alive[TaskId(s)] =
        "lost"
      BY <1>a, <1>b, <2>6 DEF ForkRaises, RunRaises, ClearedFrom, Cleared
    <3>2. /\ UNCHANGED <<silent, killed>> /\ worker[r] = from
          /\ worker'[r] \in {"open_log", "dead"}
      BY <1>a, <2>6 DEF ForkRaises, RunRaises, Works
    <3> QED
      BY <1>d, <2>2, <3>1, <3>2
  <2>7. CASE /\ UNCHANGED <<keep_alive, silent, killed>>
             /\ worker'[r] = "stream" => worker[r] = "stream"
             /\ worker[r] \notin {"finish", "dead"}
    BY <1>d, <2>2, <2>7
  <2> QED
    BY <1>a, <2>1, <2>3, <2>4, <2>5, <2>6, <2>7 DEF WorkerStep, HarnessStep,
        Dispatch, DispatchToPrime, PrimeExits, DispatchRaises, OpenLog, OpenChannel,
        HarnessSpeaks, DrainChannel, HarnessEnds, Works
<1>4. CASE \E w \in Workspaces : PostControl(w)
  BY <1>d, <1>4 DEF PostControl
<1>5. CASE \E id \in TaskIds : PostKeepAlive(id)
  BY <1>a, <1>b, <1>d, <1>5 DEF PostKeepAlive
<1>6. CASE \E id \in TaskIds : HeartbeatAges(id)
  BY <1>a, <1>b, <1>c, <1>6 DEF HeartbeatAges, LostSinceDispatch, KilledForItsOwnSilence
<1>7. CASE UNCHANGED vars
  BY <1>d, <1>7 DEF vars
<1> QED
  BY <1>1, <1>2, <1>3, <1>4, <1>5, <1>6, <1>7 DEF Next, Idle

------------------------------------------------------------------------------
(* The theorems.                                                             *)

\* A server starts with nothing posted and every file empty.
LEMMA InitIInv == Init => IInv
<1> SUFFICES ASSUME Init PROVE IInv
  OBVIOUS
<1>1. Types
  BY DEF Init, Types, HandlerTypes, WorkerTypes, FileTypes, LaunchSet
<1>2. LaunchedAsAsked
  BY DEF Init, LaunchedAsAsked, Launching
<1>3. ListenedTo
  BY DEF Init, ListenedTo, Listening, EndedByNoOlderIntent
<1>4. LostSinceDispatch
  BY DEF Init, LostSinceDispatch, KilledForItsOwnSilence
<1> QED
  BY <1>1, <1>2, <1>3, <1>4 DEF IInv

\* IInv is an invariant; the theorems below are its consequences.
THEOREM InductiveInvariant == Spec => []IInv
<1>1. IInv /\ [Next]_vars => IInv'
  BY HandlerTypesPreserved, WorkerTypesPreserved, FileTypesPreserved, LaunchPreserved,
     ListenedPreserved, SilencePreserved DEF IInv, Types
<1> QED
  BY InitIInv, <1>1, PTL DEF Spec

\* Every variable has its type, and what a worker launches is the command of its
\* request from the dispatch to the stream.
THEOREM TypeCorrect == Spec => []TypeOK
<1>1. IInv => TypeOK
  BY DEF IInv, Types, HandlerTypes, WorkerTypes, FileTypes, LaunchedAsAsked, Launching,
      TypeOK
<1> QED
  BY <1>1, InductiveInvariant, PTL

\* An end_and_return ends only a run that was listening when it was written.
THEOREM EndedWhileListening == Spec => []EndedByNoOlderIntent
<1>1. IInv => EndedByNoOlderIntent
  BY DEF IInv, ListenedTo
<1> QED
  BY <1>1, InductiveInvariant, PTL

\* A run is killed only for a silence since its own dispatch, with any number of runs
\* under one task id.
THEOREM KilledForSilence == Spec => []KilledForItsOwnSilence
<1>1. IInv => KilledForItsOwnSilence
  BY DEF IInv, LostSinceDispatch
<1> QED
  BY <1>1, InductiveInvariant, PTL

\* No way of a task, and no failure on the way, has a harness that asks for permission
\* work on the task, or primes one with any block of its prompt, without the posture
\* its request named. The prime itself is launched without it.
THEOREM Gated == Spec => []GatedOrRefused
<1>1. IInv => GatedOrRefused
  <2> SUFFICES ASSUME IInv, NEW r \in Runs, AtTask(r),
                      workload.request[r].permission_mode,
                      workload.request[r].harness # "pi"
               PROVE  /\ GateFlags \subseteq launch[r].flags
                      /\ launch[r].flags \cap BypassFlags = {}
    BY DEF GatedOrRefused, Bypassed
  <2>1. workload.request[r] \in AllRequests /\ Request(r) \in AllRequests
    BY WorkTyped DEF IInv, Types, HandlerTypes
  <2>2. worker[r] # "prime"
    <3>1. worker[r] = "prime" => launch[r] = PrimeLaunch(Request(r), launch[r].way)
      BY DEF IInv, LaunchedAsAsked, Launching
    <3> QED
      BY <2>1, <3>1, PrimedWithChunk DEF AtTask, Launched
  <2>3. /\ Accepted(workload.request[r]) /\ launch[r].way \in AllWays
        /\ launch[r] = Launch(Request(r), launch[r].way)
    BY <2>2 DEF IInv, LaunchedAsAsked, Launching, AtTask, Launched
  <2>4. workload.request[r].harness = "claude_cli"
    BY <2>1, <2>3, PostureAccepted
  <2>5. Request(r) \in AllRequests /\ Request(r).harness = "claude_cli"
        /\ Request(r).permission_mode
    BY <2>1, <2>4, ValidatedKeeps DEF Request
  <2> QED
    BY <2>3, <2>5, ClaudeGated
<1> QED
  BY <1>1, InductiveInvariant, PTL

\* An accepted task's own input reaches its harness whatever way the task takes.
THEOREM Delivery == Spec => []InputDelivered
<1>1. IInv => InputDelivered
  <2> SUFFICES ASSUME IInv, NEW r \in Runs, Launched(r), launch[r].way # "fallback"
               PROVE  workload.request[r].input_content \subseteq launch[r].delivered
    BY DEF InputDelivered
  <2>1. workload.request[r] \in AllRequests
    BY WorkTyped DEF IInv, Types, HandlerTypes
  <2>2. /\ Accepted(workload.request[r]) /\ launch[r].way \in AllWays
        /\ launch[r] = Launch(Request(r), launch[r].way)
    BY DEF IInv, LaunchedAsAsked, Launching, Launched
  <2> QED
    BY <2>1, <2>2, AcceptedInputDelivered DEF Request
<1> QED
  BY <1>1, InductiveInvariant, PTL

=============================================================================
