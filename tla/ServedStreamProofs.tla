-------------------------- MODULE ServedStreamProofs --------------------------
(***************************************************************************)
(* The stream of POST /run, for any number of runs and records: a client   *)
(* that stays to the result of a run that had its workspace to itself has  *)
(* seen all that the run logged, unless its handler read the log of before *)
(* while the run was still to empty it.                                    *)
(***************************************************************************)
EXTENDS ServedRunsProofs

------------------------------------------------------------------------------
(* The parts of the inductive invariant.                                     *)

\* The client is there and the request is not over.
Serving(r) ==
    r \in connected /\ handler[r] \in {"accepted", "poll", "look", "rest", "join"}

\* A worker exists from StartRun on, and a handler goes on to its last look, and to the
\* result, only when the worker is dead.
ThreadsPaired ==
    \A r \in Runs :
        /\ handler[r] \in {"unposted", "accepted", "refused", "hung_up"} =>
             worker[r] = "none" /\ logged[r] = 0
        /\ handler[r] \in {"unposted", "accepted"} => offset[r] = 0 /\ streamed[r] = <<>>
        /\ handler[r] \in {"rest", "join", "answered"} => worker[r] = "dead"

\* Nobody else in the workspace waits for a result.
NobodyElseServed ==
    \A r \in Runs : \A s \in Runs \ {r} :
        Serving(r) /\ Workspace(s) = Workspace(r) => ~Serving(s)

\* A run that was never together with another of its workspace is still without one.
NobodyBeside ==
    \A r \in Runs : \A s \in Runs \ {r} :
        /\ Serving(r) /\ handler[r] # "accepted" /\ Alone(r)
        /\ Workspace(s) = Workspace(r)
        => ~InProgress(s)

\* Records are written by runs that were started.
WritersStarted ==
    \A w \in Workspaces : \A i \in 1 .. Len(live_log[w]) :
        worker[live_log[w][i].run] # "none"

\* What was sent is the log up to the offset, and the log is whole.
SentSoFar(r) ==
    /\ offset[r] <= Len(Log(r)) /\ Len(streamed[r]) = offset[r]
    /\ \A i \in 1 .. offset[r] : streamed[r][i] = Log(r)[i]
    /\ handler[r] = "join" => offset[r] = Len(Log(r))
    /\ OwnWhole(r, Log(r))

StreamedSoFar ==
    \A r \in Runs \ tailed_early :
        Serving(r) /\ handler[r] # "accepted" /\ Alone(r) => SentSoFar(r)

StreamInv ==
    /\ ThreadsPaired /\ NobodyElseServed /\ NobodyBeside /\ WritersStarted
    /\ StreamedSoFar /\ StreamedUnlessTailedEarly

------------------------------------------------------------------------------
(* The steps, as the stream sees them.                                       *)

\* What a step of a worker, a harness or the rest of the world leaves to the handlers.
BehindTheStream ==
    /\ UNCHANGED <<workload, handler, connected, offset, streamed, together>>
    /\ tailed_early \subseteq tailed_early'
    /\ \A s \in Runs : /\ worker'[s] = "none" <=> worker[s] = "none"
                       /\ worker[s] = "dead" => worker'[s] = "dead"

\* What it does to the logs: nothing, or a run in progress writes to its own.
Writes(r) ==
    \/ OpenLog(r)
    \/ /\ \E n \in Nat : AppendRecord(r, n)
       /\ UNCHANGED tailed_early

LogsMove ==
    \/ UNCHANGED <<live_log, logged, tailed_early>>
    \/ \E r \in Runs : InProgress(r) /\ Writes(r)

LEMMA WorkersMove ==
    ASSUME Types, NEW r \in Runs, WorkerStep(r) \/ HarnessStep(r)
    PROVE  BehindTheStream /\ LogsMove
<1>a. /\ worker \in [Runs -> {"none", "dispatch", "prime", "open_log", "open_channel",
                              "launch", "stream", "finish", "dead"}]
      /\ logged[r] \in Nat
  BY DEF Types, WorkerTypes, FileTypes
<1> USE DEF Works, httpVars, fileVars, aliveVars, historyVars
<1>1. ASSUME NEW from, NEW to, worker[r] = from, worker' = [worker EXCEPT ![r] = to],
             from \notin {"none", "dead"}, to # "none"
      PROVE  \A s \in Runs : /\ worker'[s] = "none" <=> worker[s] = "none"
                            /\ worker[s] = "dead" => worker'[s] = "dead"
  BY <1>a, <1>1
<1>2. CASE OpenLog(r)
  <2>1. LogsMove
    BY <1>2 DEF OpenLog, LogsMove, Writes, InProgress
  <2>2. /\ UNCHANGED <<workload, handler, connected, offset, streamed, together>>
        /\ tailed_early \subseteq tailed_early'
        /\ worker[r] = "open_log" /\ worker' = [worker EXCEPT ![r] = "open_channel"]
    BY <1>2 DEF OpenLog
  <2> QED
    BY <1>1, <2>1, <2>2 DEF BehindTheStream
<1>3. ASSUME NEW n \in Nat, AppendRecord(r, n), InProgress(r), UNCHANGED tailed_early
      PROVE  LogsMove
  BY <1>3 DEF LogsMove, Writes
<1>4. CASE LaunchHarness(r)
  <2>1. LogsMove
    BY <1>3, <1>4 DEF LaunchHarness, InProgress
  <2> QED
    BY <1>1, <1>4, <2>1 DEF LaunchHarness, BehindTheStream
<1>5. CASE HarnessSpeaks(r)
  <2>1. LogsMove
    BY <1>3, <1>5 DEF HarnessSpeaks, InProgress
  <2> QED
    BY <1>1, <1>5, <2>1 DEF HarnessSpeaks, BehindTheStream
<1>6. CASE FinishRun(r)
  <2>1. LogsMove
    BY <1>3, <1>6 DEF FinishRun, InProgress
  <2> QED
    BY <1>1, <1>6, <2>1 DEF FinishRun, BehindTheStream
\* Any other step of a worker: where it goes, and nothing a handler sees.
<1>7. ASSUME UNCHANGED <<workload, handler, connected, offset, streamed, together,
                         live_log, logged, tailed_early>>,
             worker[r] \notin {"none", "dead"},
             \E to : to # "none" /\ worker' = [worker EXCEPT ![r] = to]
      PROVE  BehindTheStream /\ LogsMove
  BY <1>1, <1>7 DEF BehindTheStream, LogsMove
<1>8. CASE DrainChannel(r)
  <2>1. worker' = [worker EXCEPT ![r] = "finish"] \/ worker' = [worker EXCEPT ![r] = "stream"]
    BY <1>8 DEF DrainChannel
  <2> QED
    BY <1>7, <1>8, <2>1 DEF DrainChannel
<1>9. CASE \/ \E way \in AllWays : Dispatch(r, way) \/ DispatchToPrime(r, way)
           \/ PrimeExits(r) \/ DispatchRaises(r) \/ OpenChannel(r) \/ KillForLostKeepAlive(r)
           \/ HarnessEnds(r)
  <2>1. CASE \E way \in AllWays : Dispatch(r, way) \/ DispatchToPrime(r, way)
    BY <1>7, <2>1 DEF Dispatch, DispatchToPrime
  <2>6. CASE PrimeExits(r)
    BY <1>7, <2>6 DEF PrimeExits
  <2>2. CASE DispatchRaises(r)
    BY <1>7, <2>2 DEF DispatchRaises
  <2>3. CASE OpenChannel(r)
    BY <1>7, <2>3 DEF OpenChannel
  <2>4. CASE KillForLostKeepAlive(r)
    BY <1>7, <2>4 DEF KillForLostKeepAlive
  <2>5. CASE HarnessEnds(r)
    BY <1>7, <2>5 DEF HarnessEnds
  <2> QED
    BY <1>9, <2>1, <2>2, <2>3, <2>4, <2>5, <2>6
<1>10. CASE \E from \in {"prime", "launch", "stream"} : ForkRaises(r, from) \/ RunRaises(r, from)
  <2>1. PICK from \in {"prime", "launch", "stream"} : ForkRaises(r, from) \/ RunRaises(r, from)
    BY <1>10
  <2>2. CASE ForkRaises(r, from)
    BY <1>7, <2>1, <2>2 DEF ForkRaises
  <2>3. CASE RunRaises(r, from)
    BY <1>7, <2>1, <2>3 DEF RunRaises
  <2> QED
    BY <2>1, <2>2, <2>3
<1> QED
  BY <1>2, <1>4, <1>5, <1>6, <1>8, <1>9, <1>10 DEF WorkerStep, HarnessStep

\* Every step is one of a handler, of a client, or behind the stream.
LEMMA StepsOfTheStream ==
    ASSUME Types, [Next]_vars
    PROVE  \/ BehindTheStream /\ LogsMove
           \/ \E r \in Runs : Post(r) \/ HangUp(r) \/ HandlerStep(r)
<1>1. CASE \E r \in Runs : WorkerStep(r) \/ HarnessStep(r)
  BY <1>1, WorkersMove
<1>2. CASE \E w \in Workspaces : PostControl(w)
  BY <1>2 DEF PostControl, BehindTheStream, LogsMove, httpVars, workVars, historyVars
<1>3. CASE \E id \in TaskIds : PostKeepAlive(id) \/ HeartbeatAges(id)
  BY <1>3 DEF PostKeepAlive, HeartbeatAges, BehindTheStream, LogsMove, httpVars,
      fileVars, workVars, historyVars
<1>4. CASE UNCHANGED vars
  BY <1>4 DEF vars, BehindTheStream, LogsMove, httpVars, fileVars, workVars, historyVars
<1> QED
  BY <1>1, <1>2, <1>3, <1>4 DEF Next, ClientStep, Idle

\* A run that is not in progress logs nothing.
LEMMA OthersLogNothing ==
    ASSUME Types, LogsMove, NEW s \in Runs, ~InProgress(s)
    PROVE  logged'[s] = logged[s]
<1>1. DOMAIN logged = Runs
  BY DEF Types, FileTypes
<1> QED
  BY <1>1 DEF LogsMove, Writes, OpenLog, AppendRecord

\* Where a step of a handler or a client takes one run, and what it leaves alone.
LEMMA HandlersMove ==
    ASSUME Types, NEW r \in Runs, Post(r) \/ HangUp(r) \/ HandlerStep(r)
    PROVE  /\ UNCHANGED <<workload, live_log, logged, tailed_early>>
           /\ \A s \in Runs \ {r} :
                /\ handler'[s] = handler[s] /\ worker'[s] = worker[s]
                /\ offset'[s] = offset[s] /\ streamed'[s] = streamed[s]
                /\ s \in connected' <=> s \in connected
           /\ together \subseteq together'
           /\ ~StartRun(r) => UNCHANGED <<worker, together>>
<1>1. /\ DOMAIN handler = Runs /\ DOMAIN worker = Runs
      /\ DOMAIN offset = Runs /\ DOMAIN streamed = Runs
  BY DEF Types, HandlerTypes, WorkerTypes
<1> USE DEF Handles, fileVars, aliveVars, workVars, historyVars, httpVars
<1>2. CASE Post(r)
  BY <1>1, <1>2 DEF Post
<1>3. CASE HangUp(r)
  BY <1>1, <1>3 DEF HangUp
<1>4. CASE StartRun(r)
  BY <1>1, <1>4 DEF StartRun
<1>5. CASE StartFails(r) \/ LookAtWorker(r) \/ WriteResult(r)
  BY <1>1, <1>5 DEF StartFails, LookAtWorker, WriteResult
<1>6. CASE FlushNewLines(r, "poll", "look") \/ FlushNewLines(r, "rest", "join")
  BY <1>1, <1>6 DEF FlushNewLines
<1> QED
  BY <1>2, <1>3, <1>4, <1>5, <1>6 DEF HandlerStep

------------------------------------------------------------------------------
(* Handlers, workers and clients.                                            *)

LEMMA ThreadsPreserved ==
    ASSUME Types, ThreadsPaired, [Next]_vars
    PROVE  ThreadsPaired'
<1>a. /\ handler \in [Runs -> {"unposted", "accepted", "poll", "look", "rest", "join",
                               "answered", "refused", "hung_up"}]
      /\ worker \in [Runs -> {"none", "dispatch", "prime", "open_log", "open_channel",
                              "launch", "stream", "finish", "dead"}]
      /\ DOMAIN offset = Runs /\ DOMAIN streamed = Runs
  BY DEF Types, HandlerTypes, WorkerTypes
<1>1. CASE BehindTheStream /\ LogsMove
  BY <1>a, <1>1, OthersLogNothing DEF ThreadsPaired, BehindTheStream, InProgress
<1>2. ASSUME NEW r \in Runs, Post(r) \/ HangUp(r) \/ HandlerStep(r)
      PROVE  ThreadsPaired'
  <2>1. \A s \in Runs \ {r} :
          /\ handler'[s] = handler[s] /\ worker'[s] = worker[s] /\ logged'[s] = logged[s]
          /\ offset'[s] = offset[s] /\ streamed'[s] = streamed[s]
    BY <1>2, HandlersMove
  <2>2. /\ handler'[r] \in {"unposted", "accepted", "refused", "hung_up"} =>
             worker'[r] = "none" /\ logged'[r] = 0
        /\ handler'[r] \in {"unposted", "accepted"} => offset'[r] = 0 /\ streamed'[r] = <<>>
        /\ handler'[r] \in {"rest", "join", "answered"} => worker'[r] = "dead"
    <3> USE DEF ThreadsPaired, Handles, workVars
    <3>1. CASE Post(r) \/ HangUp(r)
      BY <1>a, <3>1 DEF Post, HangUp
    <3>2. CASE StartRun(r)
      BY <1>a, <3>2 DEF StartRun
    <3>3. CASE StartFails(r) \/ LookAtWorker(r) \/ WriteResult(r)
      BY <1>a, <3>3 DEF StartFails, LookAtWorker, WriteResult
    <3>4. CASE FlushNewLines(r, "poll", "look") \/ FlushNewLines(r, "rest", "join")
      BY <1>a, <3>4 DEF FlushNewLines
    <3> QED
      BY <1>2, <3>1, <3>2, <3>3, <3>4 DEF HandlerStep
  <2> QED
    BY <2>1, <2>2 DEF ThreadsPaired
<1> QED
  BY <1>1, <1>2, StepsOfTheStream

\* A client posts only when nobody else of its workspace waits.
LEMMA ServedPreserved ==
    ASSUME Types, NobodyElseServed, [Next]_vars
    PROVE  NobodyElseServed'
<1>a. DOMAIN handler = Runs
  BY DEF Types, HandlerTypes
<1>b. UNCHANGED workload => \A s \in Runs : Workspace(s)' = Workspace(s)
  BY DEF Workspace
<1>1. CASE BehindTheStream
  BY <1>b, <1>1 DEF NobodyElseServed, BehindTheStream, Serving
<1>2. ASSUME NEW r \in Runs, Post(r) \/ HangUp(r) \/ HandlerStep(r)
      PROVE  NobodyElseServed'
  <2>1. UNCHANGED workload /\ \A s \in Runs \ {r} : Serving(s)' <=> Serving(s)
    BY <1>2, HandlersMove DEF Serving
  <2>2. CASE Post(r)
    <3>1. \A s \in Runs \ {r} : Workspace(s) = Workspace(r) => ~Serving(s)
      BY <2>2 DEF Post, MayPost, Serving
    <3> QED
      BY <1>b, <2>1, <3>1 DEF NobodyElseServed
  <2>3. CASE ~Post(r)
    <3>1. Serving(r)' => Serving(r)
      BY <1>2, <1>a, <2>3 DEF HangUp, HandlerStep, StartRun, StartFails, FlushNewLines,
          LookAtWorker, WriteResult, Handles, Serving
    <3> QED
      BY <1>b, <2>1, <3>1 DEF NobodyElseServed
  <2> QED
    BY <2>2, <2>3
<1> QED
  BY <1>1, <1>2, StepsOfTheStream

\* No run of the workspace begins while a client of it waits; one that was in progress
\* at the start is a run together with this one.
LEMMA BesidePreserved ==
    ASSUME Types, ThreadsPaired, NobodyElseServed, NobodyBeside, [Next]_vars
    PROVE  NobodyBeside'
<1>a. DOMAIN handler = Runs /\ DOMAIN worker = Runs
  BY DEF Types, HandlerTypes, WorkerTypes
<1>b. UNCHANGED workload => \A s \in Runs : Workspace(s)' = Workspace(s)
  BY DEF Workspace
<1>c. UNCHANGED workload /\ together \subseteq together' =>
        \A s \in Runs : Alone(s)' => Alone(s)
  BY <1>b DEF Alone
<1>1. CASE BehindTheStream
  BY <1>b, <1>c, <1>1 DEF NobodyBeside, BehindTheStream, Serving, InProgress
<1>2. ASSUME NEW r \in Runs, Post(r) \/ HangUp(r) \/ HandlerStep(r)
      PROVE  NobodyBeside'
  <2>1. /\ UNCHANGED workload
        /\ \A s \in Runs \ {r} : /\ Serving(s)' <=> Serving(s)
                                 /\ handler'[s] = handler[s]
                                 /\ InProgress(s)' <=> InProgress(s)
        /\ \A s \in Runs : Alone(s)' => Alone(s)
    BY <1>c, <1>2, HandlersMove DEF Serving, InProgress
  <2>2. CASE StartRun(r)
    <3>1. Serving(r)
      BY <2>2 DEF StartRun, Serving, Handles
    <3>2. \A s \in Runs \ {r} : InProgress(s) => {r, s} \in together'
      BY <2>2 DEF StartRun
    <3>3. ASSUME NEW s \in Runs \ {r}, Workspace(s) = Workspace(r), Alone(r)'
          PROVE  ~InProgress(s)
      BY <1>b, <2>1, <3>2, <3>3 DEF Alone
    <3>4. \A s \in Runs \ {r} : Workspace(s) = Workspace(r) => ~Serving(s)
      BY <3>1 DEF NobodyElseServed
    <3> QED
      BY <1>b, <2>1, <3>3, <3>4 DEF NobodyBeside
  <2>3. CASE ~StartRun(r)
    <3>1. InProgress(r)' <=> InProgress(r)
      BY <1>2, <2>3, HandlersMove DEF InProgress
    <3>2. Serving(r)' /\ handler'[r] # "accepted" => Serving(r) /\ handler[r] # "accepted"
      BY <1>2, <1>a, <2>3 DEF Post, HangUp, HandlerStep, StartFails, FlushNewLines,
          LookAtWorker, WriteResult, Handles, Serving
    <3> QED
      BY <1>b, <2>1, <3>1, <3>2 DEF NobodyBeside
  <2> QED
    BY <2>2, <2>3
<1> QED
  BY <1>1, <1>2, StepsOfTheStream

------------------------------------------------------------------------------
(* The log.                                                                  *)

LEMMA Joined ==
    ASSUME NEW s \in Seq(Records), NEW t \in Seq(Records)
    PROVE  /\ Len(s) \in Nat /\ Len(t) \in Nat
           /\ Len(s \o t) = Len(s) + Len(t)
           /\ \A i \in 1 .. Len(s) : (s \o t)[i] = s[i]
           /\ \A i \in Len(s) + 1 .. Len(s) + Len(t) : (s \o t)[i] = t[i - Len(s)]
OBVIOUS

\* What appending does, record by record.
LEMMA Appended ==
    ASSUME Types, NEW r \in Runs, NEW n \in Nat, AppendRecord(r, n)
    PROVE  /\ Len(live_log'[Workspace(r)]) = Len(Log(r)) + n
           /\ \A i \in 1 .. Len(Log(r)) : live_log'[Workspace(r)][i] = Log(r)[i]
           /\ \A i \in Len(Log(r)) + 1 .. Len(Log(r)) + n :
                live_log'[Workspace(r)][i] =
                  [run |-> r, number |-> logged[r] + (i - Len(Log(r)))]
           /\ \A w \in Workspaces \ {Workspace(r)} : live_log'[w] = live_log[w]
           /\ logged'[r] = logged[r] + n
           /\ \A s \in Runs \ {r} : logged'[s] = logged[s]
<1> DEFINE new == [i \in 1 .. n |-> [run |-> r, number |-> logged[r] + i]]
<1>1. /\ live_log \in [Workspaces -> Seq(Records)] /\ logged \in [Runs -> Nat]
      /\ Workspace(r) \in Workspaces
  BY WorkTyped DEF Types, HandlerTypes, FileTypes
<1>2. Log(r) \in Seq(Records) /\ new \in Seq(Records)
  <2>1. \A i \in 1 .. n : [run |-> r, number |-> logged[r] + i] \in Records
    BY <1>1 DEF Records
  <2> QED
    BY <1>1, <2>1 DEF Log
<1>3. Len(new) = n /\ \A i \in 1 .. n : new[i] = [run |-> r, number |-> logged[r] + i]
  OBVIOUS
<1>4. /\ live_log'[Workspace(r)] = Log(r) \o new
      /\ \A w \in Workspaces \ {Workspace(r)} : live_log'[w] = live_log[w]
  BY <1>1 DEF AppendRecord, Log
<1>5. /\ logged'[r] = logged[r] + n
      /\ \A s \in Runs \ {r} : logged'[s] = logged[s]
  BY <1>1 DEF AppendRecord
<1> HIDE DEF new
<1>6. /\ Len(Log(r) \o new) = Len(Log(r)) + n
      /\ \A i \in 1 .. Len(Log(r)) : (Log(r) \o new)[i] = Log(r)[i]
      /\ \A i \in Len(Log(r)) + 1 .. Len(Log(r)) + n :
           (Log(r) \o new)[i] = new[i - Len(Log(r))]
  BY <1>2, <1>3, Joined
<1>7. \A i \in Len(Log(r)) + 1 .. Len(Log(r)) + n : i - Len(Log(r)) \in 1 .. n
  BY <1>2
<1> QED
  BY <1>3, <1>4, <1>5, <1>6, <1>7

\* Records are written by runs that were started, and keep being: a run in progress
\* writes its own.
LEMMA WritersPreserved ==
    ASSUME Types, WritersStarted, [Next]_vars
    PROVE  WritersStarted'
<1>a. \A s \in Runs : worker[s] # "none" => worker'[s] # "none"
  <2>1. CASE BehindTheStream
    BY <2>1 DEF BehindTheStream
  <2>2. ASSUME NEW r \in Runs, Post(r) \/ HangUp(r) \/ HandlerStep(r)
        PROVE  \A s \in Runs : worker[s] # "none" => worker'[s] # "none"
    <3>1. DOMAIN worker = Runs
      BY DEF Types, WorkerTypes
    <3> QED
      BY <2>2, <3>1, HandlersMove DEF StartRun
  <2> QED
    BY <2>1, <2>2, StepsOfTheStream
<1>b. \A w \in Workspaces : \A i \in 1 .. Len(live_log[w]) : live_log[w][i].run \in Runs
  <2>1. \A w \in Workspaces : live_log[w] \in Seq(Records)
    BY DEF Types, FileTypes
  <2>2. \A w \in Workspaces : \A i \in 1 .. Len(live_log[w]) : live_log[w][i] \in Records
    BY <2>1
  <2> QED
    BY <2>2 DEF Records
<1>1. CASE UNCHANGED live_log
  BY <1>1, <1>a, <1>b DEF WritersStarted
<1>2. ASSUME NEW r \in Runs, InProgress(r), Writes(r)
      PROVE  WritersStarted'
  <2>0. worker[r] # "none"
    BY <1>2 DEF InProgress
  <2>1. CASE OpenLog(r)
    <3>1. \A w \in Workspaces : live_log'[w] = live_log[w] \/ live_log'[w] = <<>>
      BY <2>1 DEF OpenLog, Types, FileTypes
    <3>2. Len(<<>>) = 0
      OBVIOUS
    <3> QED
      BY <1>a, <1>b, <3>1, <3>2 DEF WritersStarted
  <2>2. ASSUME NEW n \in Nat, AppendRecord(r, n)
        PROVE  WritersStarted'
    <3>1. ASSUME NEW w \in Workspaces, NEW i \in 1 .. Len(live_log'[w])
          PROVE  worker'[live_log'[w][i].run] # "none"
      <4>1. CASE w # Workspace(r)
        <5>1. live_log'[w] = live_log[w]
          BY <2>2, <4>1, Appended
        <5> QED
          BY <1>a, <1>b, <3>1, <5>1 DEF WritersStarted
      <4>2. CASE w = Workspace(r) /\ i \in 1 .. Len(Log(r))
        BY <1>a, <1>b, <2>2, <3>1, <4>2, Appended DEF WritersStarted, Log
      <4>3. CASE w = Workspace(r) /\ i \in Len(Log(r)) + 1 .. Len(Log(r)) + n
        <5>1. live_log'[w][i] = [run |-> r, number |-> logged[r] + (i - Len(Log(r)))]
          BY <2>2, <4>3, Appended
        <5>2. live_log'[w][i].run = r
          BY <5>1
        <5> QED
          BY <1>a, <2>0, <5>2
      <4>4. live_log[w] \in Seq(Records) /\ Len(live_log[w]) \in Nat
        BY DEF Types, FileTypes
      <4>5. w = Workspace(r) =>
              i \in 1 .. Len(Log(r)) \/ i \in Len(Log(r)) + 1 .. Len(Log(r)) + n
        <5>1. w = Workspace(r) => Len(live_log'[w]) = Len(live_log[w]) + n
          BY <2>2, Appended DEF Log
        <5> QED
          BY <3>1, <4>4, <5>1 DEF Log
      <4> QED
        BY <4>1, <4>2, <4>3, <4>5
    <3> QED
      BY <3>1 DEF WritersStarted
  <2> QED
    BY <1>2, <2>1, <2>2 DEF Writes
<1> QED
  BY <1>1, <1>2, StepsOfTheStream, HandlersMove DEF LogsMove

\* A run numbers its records on from the last.
LEMMA WholeAppended ==
    ASSUME Types, NEW r \in Runs, NEW n \in Nat, AppendRecord(r, n), UNCHANGED workload,
           OwnWhole(r, Log(r))
    PROVE  OwnWhole(r, Log(r))'
<1> DEFINE old == Log(r)
           new == live_log'[Workspace(r)]
<1>1. /\ logged[r] \in Nat /\ Len(old) \in Nat
      /\ Len(new) = Len(old) + n /\ logged'[r] = logged[r] + n
      /\ \A i \in 1 .. Len(old) : new[i] = old[i]
      /\ \A i \in Len(old) + 1 .. Len(old) + n :
           new[i] = [run |-> r, number |-> logged[r] + (i - Len(old))]
  <2>1. logged[r] \in Nat /\ Log(r) \in Seq(Records)
    BY WorkTyped DEF Types, HandlerTypes, FileTypes, Log
  <2>2. Len(old) \in Nat
    BY <2>1
  <2>3. Len(new) = Len(old) + n /\ logged'[r] = logged[r] + n
    BY Appended
  <2>4. \A i \in 1 .. Len(old) : new[i] = old[i]
    BY Appended
  <2>5. \A i \in Len(old) + 1 .. Len(old) + n :
          new[i] = [run |-> r, number |-> logged[r] + (i - Len(old))]
    BY Appended
  <2> QED
    BY <2>1, <2>2, <2>3, <2>4, <2>5
<1>2. Log(r)' = new
  BY DEF Log, Workspace
<1>3. /\ {old[i].number : i \in Own(r, old)} = 1 .. logged[r]
      /\ \A i, j \in Own(r, old) : i < j => old[i].number < old[j].number
  BY DEF OwnWhole
<1> HIDE DEF old, new
<1>4. \A i \in Len(old) + 1 .. Len(old) + n :
        new[i].run = r /\ new[i].number = logged[r] + (i - Len(old))
  <2> SUFFICES ASSUME NEW i \in Len(old) + 1 .. Len(old) + n
               PROVE  new[i].run = r /\ new[i].number = logged[r] + (i - Len(old))
    OBVIOUS
  <2>1. new[i] = [run |-> r, number |-> logged[r] + (i - Len(old))]
    BY <1>1
  <2> QED
    BY <2>1
<1>5. Own(r, new) = Own(r, old) \cup (Len(old) + 1 .. Len(old) + n)
  BY <1>1, <1>4 DEF Own
<1>6. Own(r, old) \subseteq 1 .. Len(old)
  BY DEF Own
<1>7. \A i \in Own(r, old) : new[i].number = old[i].number /\ old[i].number \in 1 .. logged[r]
  <2>1. \A i \in Own(r, old) : old[i].number \in {old[k].number : k \in Own(r, old)}
    OBVIOUS
  <2>2. \A i \in Own(r, old) : new[i] = old[i]
    BY <1>1, <1>6
  <2> QED
    BY <1>3, <2>1, <2>2
<1>8. {new[i].number : i \in Own(r, new)} = 1 .. logged'[r]
  <2>1. ASSUME NEW i \in Own(r, new)
        PROVE  new[i].number \in 1 .. logged'[r]
    <3>1. CASE i \in Own(r, old)
      BY <1>1, <1>7, <3>1
    <3>2. CASE i \in Len(old) + 1 .. Len(old) + n
      <4>1. new[i].number = logged[r] + (i - Len(old)) /\ i - Len(old) \in 1 .. n
        BY <1>1, <1>4, <3>2
      <4> QED
        BY <1>1, <4>1
    <3> QED
      BY <1>5, <2>1, <3>1, <3>2
  <2>2. ASSUME NEW k \in 1 .. logged'[r]
        PROVE  \E i \in Own(r, new) : new[i].number = k
    <3>1. CASE k \in 1 .. logged[r]
      <4>1. PICK i \in Own(r, old) : old[i].number = k
        BY <1>3, <3>1
      <4> QED
        BY <1>5, <1>7, <4>1
    <3>2. CASE k \in logged[r] + 1 .. logged[r] + n
      <4> DEFINE i == Len(old) + (k - logged[r])
      <4>1. i \in Len(old) + 1 .. Len(old) + n /\ i - Len(old) = k - logged[r]
        BY <1>1, <3>2
      <4>2. new[i].number = k
        BY <1>1, <1>4, <3>2, <4>1
      <4> QED
        BY <1>5, <4>1, <4>2
    <3> QED
      BY <1>1, <3>1, <3>2
  <2> QED
    BY <2>1, <2>2
<1>9. ASSUME NEW i \in Own(r, new), NEW j \in Own(r, new), i < j
      PROVE  new[i].number < new[j].number
  <2>1. CASE i \in Own(r, old) /\ j \in Own(r, old)
    BY <1>3, <1>7, <1>9, <2>1
  <2>2. CASE i \in Own(r, old) /\ j \in Len(old) + 1 .. Len(old) + n
    <3>1. new[i].number = old[i].number /\ old[i].number \in 1 .. logged[r]
      BY <1>7, <2>2
    <3>2. new[j].number = logged[r] + (j - Len(old)) /\ j - Len(old) > 0
      BY <1>1, <1>4, <2>2
    <3> QED
      BY <1>1, <2>2, <3>1, <3>2
  <2>3. CASE i \in Len(old) + 1 .. Len(old) + n
    BY <1>1, <1>4, <1>5, <1>6, <1>9, <2>3
  <2> QED
    BY <1>5, <2>1, <2>2, <2>3
<1> QED
  BY <1>2, <1>8, <1>9 DEF OwnWhole

\* A log that holds nothing of a run that has logged nothing.
LEMMA NothingLogged ==
    ASSUME NEW r, NEW records, logged[r] = 0,
           \A i \in 1 .. Len(records) : records[i].run # r
    PROVE  OwnWhole(r, records)
<1>1. Own(r, records) = {} /\ 1 .. logged[r] = {}
  BY DEF Own
<1> QED
  BY <1>1 DEF OwnWhole

\* What a client was sent is the log, when it was sent as much.
LEMMA SameRecords ==
    ASSUME NEW r, NEW sent, NEW log, Len(sent) = Len(log),
           \A i \in 1 .. Len(log) : sent[i] = log[i], OwnWhole(r, log)
    PROVE  OwnWhole(r, sent)
<1>1. Own(r, sent) = Own(r, log) /\ Own(r, log) \subseteq 1 .. Len(log)
  BY DEF Own
<1>2. {sent[i].number : i \in Own(r, log)} = {log[i].number : i \in Own(r, log)}
  BY <1>1
<1> QED
  BY <1>1, <1>2 DEF OwnWhole

\* The log of a run that has its workspace to itself moves only when the run writes.
LEMMA OwnLogMoves ==
    ASSUME Types, ThreadsPaired, StreamedSoFar, NobodyBeside, NEW r \in Runs \ tailed_early,
           Serving(r), handler[r] # "accepted", Alone(r), BehindTheStream, LogsMove,
           r \notin tailed_early'
    PROVE  SentSoFar(r)'
<1>a. /\ live_log \in [Workspaces -> Seq(Records)] /\ logged \in [Runs -> Nat]
      /\ offset[r] \in Nat /\ \A s \in Runs : Workspace(s) \in Workspaces
      /\ Len(Log(r)) \in Nat
  <2>1. /\ live_log \in [Workspaces -> Seq(Records)] /\ logged \in [Runs -> Nat]
        /\ offset[r] \in Nat /\ \A s \in Runs : Workspace(s) \in Workspaces
    BY WorkTyped DEF Types, HandlerTypes, FileTypes
  <2> QED
    BY <2>1 DEF Log
<1>b. SentSoFar(r)
  BY DEF StreamedSoFar
<1>c. /\ UNCHANGED <<workload, handler, connected, offset, streamed>>
      /\ Log(r)' = live_log'[Workspace(r)]
  BY DEF BehindTheStream, Log, Workspace
<1>1. CASE Log(r)' = Log(r) /\ logged'[r] = logged[r]
  BY <1>b, <1>c, <1>1 DEF SentSoFar, OwnWhole, Own
<1>2. ASSUME NEW s \in Runs, InProgress(s), Writes(s), s # r
      PROVE  Log(r)' = Log(r) /\ logged'[r] = logged[r]
  <2>1. Workspace(s) # Workspace(r)
    BY <1>2 DEF NobodyBeside
  <2> QED
    BY <1>2, <1>a, <1>c, <2>1 DEF Writes, OpenLog, AppendRecord, Log
<1>3. CASE OpenLog(r)
  <2>1. CASE KeepsLog(r)
    BY <1>1, <1>3, <1>a, <1>c, <2>1 DEF OpenLog, Log
  <2>2. CASE ~KeepsLog(r)
    <3>1. ~(offset[r] > 0)
      BY <1>3, <2>2 DEF OpenLog
    <3>2. offset[r] = 0
      BY <1>a, <3>1
    <3>3. Log(r)' = <<>> /\ logged'[r] = 0
      BY <1>3, <1>a, <1>c, <2>2 DEF OpenLog
    <3>4. OwnWhole(r, Log(r))'
      BY <3>3 DEF OwnWhole, Own
    <3> QED
      BY <1>b, <1>c, <3>2, <3>3, <3>4 DEF SentSoFar
  <2> QED
    BY <2>1, <2>2
<1>4. ASSUME NEW n \in Nat, AppendRecord(r, n), InProgress(r)
      PROVE  SentSoFar(r)'
  <2>1. OwnWhole(r, Log(r))'
    BY <1>b, <1>c, <1>4, WholeAppended DEF SentSoFar
  <2>2. /\ Len(Log(r)') = Len(Log(r)) + n
        /\ \A i \in 1 .. Len(Log(r)) : Log(r)'[i] = Log(r)[i]
    BY <1>c, <1>4, Appended
  <2>3. handler'[r] # "join"
    BY <1>c, <1>4 DEF ThreadsPaired, InProgress
  <2>4. /\ offset'[r] <= Len(Log(r)') /\ Len(streamed'[r]) = offset'[r]
        /\ \A i \in 1 .. offset'[r] : streamed'[r][i] = Log(r)'[i]
    BY <1>a, <1>b, <1>c, <2>2 DEF SentSoFar
  <2> QED
    BY <2>1, <2>3, <2>4 DEF SentSoFar
<1>5. CASE UNCHANGED <<live_log, logged>>
  BY <1>1, <1>c, <1>5 DEF Log
<1>6. ASSUME NEW s \in Runs, InProgress(s), Writes(s)
      PROVE  SentSoFar(r)'
  BY <1>1, <1>2, <1>3, <1>4, <1>6 DEF Writes
<1> QED
  BY <1>5, <1>6 DEF LogsMove

\* A poll sends what the log holds beyond the offset.
LEMMA FlushSends ==
    ASSUME Types, NEW r \in Runs, NEW from, NEW to, FlushNewLines(r, from, to),
           r \in connected, offset[r] <= Len(Log(r)), Len(streamed[r]) = offset[r],
           \A i \in 1 .. offset[r] : streamed[r][i] = Log(r)[i]
    PROVE  /\ offset'[r] = Len(Log(r)) /\ Len(streamed'[r]) = offset'[r]
           /\ \A i \in 1 .. offset'[r] : streamed'[r][i] = Log(r)[i]
<1>1. /\ offset \in [Runs -> Nat] /\ streamed \in [Runs -> Seq(Records)]
      /\ Log(r) \in Seq(Records)
  <2>1. Workspace(r) \in Workspaces
    BY WorkTyped DEF Types, HandlerTypes
  <2> QED
    BY <2>1 DEF Types, HandlerTypes, FileTypes, Log
<1>2. offset'[r] = offset[r] + Len(NewRecords(r)) /\ streamed'[r] = streamed[r] \o NewRecords(r)
  BY <1>1 DEF FlushNewLines
<1>3. ASSUME NEW log \in Seq(Records), NEW sent \in Seq(Records), NEW k \in Nat,
             k <= Len(log), Len(sent) = k, \A i \in 1 .. k : sent[i] = log[i],
             NEW rest, rest = SubSeq(log, k + 1, Len(log))
      PROVE  /\ k + Len(rest) = Len(log) /\ Len(sent \o rest) = Len(log)
             /\ \A i \in 1 .. Len(log) : (sent \o rest)[i] = log[i]
  <2>1. /\ rest \in Seq(Records) /\ Len(rest) = Len(log) - k
        /\ \A i \in 1 .. Len(log) - k : rest[i] = log[k + i]
    BY <1>3
  <2>2. /\ Len(sent \o rest) = k + Len(rest)
        /\ \A i \in 1 .. k : (sent \o rest)[i] = sent[i]
        /\ \A i \in k + 1 .. k + Len(rest) : (sent \o rest)[i] = rest[i - k]
    BY <1>3, <2>1, Joined
  <2>3. ASSUME NEW i \in 1 .. Len(log)
        PROVE  (sent \o rest)[i] = log[i]
    <3>1. CASE i \in 1 .. k
      BY <1>3, <2>2, <3>1
    <3>2. CASE i \in k + 1 .. Len(log)
      <4>1. i - k \in 1 .. Len(log) - k /\ k + (i - k) = i
        BY <1>3, <3>2
      <4>2. (sent \o rest)[i] = rest[i - k]
        <5>1. i \in k + 1 .. k + Len(rest)
          BY <1>3, <2>1, <3>2
        <5> QED
          BY <2>2, <5>1
      <4> QED
        BY <2>1, <4>1, <4>2
    <3> QED
      BY <1>3, <3>1, <3>2
  <2>4. k + Len(rest) = Len(log)
    BY <1>3, <2>1
  <2> QED
    BY <2>2, <2>3, <2>4
<1> QED
  BY <1>1, <1>2, <1>3 DEF NewRecords

LEMMA SoFarPreserved ==
    ASSUME Types, ThreadsPaired, NobodyBeside, WritersStarted, StreamedSoFar, [Next]_vars
    PROVE  StreamedSoFar'
<1>a. DOMAIN handler = Runs /\ DOMAIN worker = Runs
  BY DEF Types, HandlerTypes, WorkerTypes
<1>b. UNCHANGED workload =>
        /\ \A s \in Runs : Workspace(s)' = Workspace(s)
        /\ together \subseteq together' => \A s \in Runs : Alone(s)' => Alone(s)
  BY DEF Workspace, Alone
<1>1. CASE BehindTheStream /\ LogsMove
  <2> SUFFICES ASSUME NEW r \in Runs \ tailed_early',
                      Serving(r)', handler'[r] # "accepted", Alone(r)'
               PROVE  SentSoFar(r)'
    BY DEF StreamedSoFar
  <2>1. /\ r \in Runs \ tailed_early /\ Serving(r) /\ handler[r] # "accepted" /\ Alone(r)
        /\ r \notin tailed_early'
    BY <1>1, <1>b DEF BehindTheStream, Serving
  <2> QED
    BY <1>1, <2>1, OwnLogMoves
<1>2. ASSUME NEW r \in Runs, Post(r) \/ HangUp(r) \/ HandlerStep(r)
      PROVE  StreamedSoFar'
  <2>0. /\ UNCHANGED <<workload, live_log, logged, tailed_early>>
        /\ \A s \in Runs \ {r} :
             /\ handler'[s] = handler[s]
             /\ offset'[s] = offset[s] /\ streamed'[s] = streamed[s]
             /\ s \in connected' <=> s \in connected
        /\ \A s \in Runs : Alone(s)' => Alone(s)
    BY <1>2, <1>b, HandlersMove
  <2>1. \A s \in Runs : Log(s)' = Log(s)
    BY <2>0 DEF Log, Workspace
  <2>2. ASSUME NEW s \in Runs, offset'[s] = offset[s], streamed'[s] = streamed[s],
               handler'[s] # "join" \/ handler[s] = "join", SentSoFar(s)
        PROVE  SentSoFar(s)'
    BY <2>0, <2>1, <2>2 DEF SentSoFar, OwnWhole, Own
  <2>3. ASSUME NEW s \in Runs \ {r}, s \notin tailed_early', Serving(s)',
               handler'[s] # "accepted", Alone(s)'
        PROVE  SentSoFar(s)'
    <3>1. s \notin tailed_early /\ Serving(s) /\ handler[s] # "accepted" /\ Alone(s)
      BY <2>0, <2>3 DEF Serving
    <3> QED
      BY <2>0, <2>2, <3>1 DEF StreamedSoFar
  <2>4. ASSUME r \notin tailed_early', Serving(r)', handler'[r] # "accepted", Alone(r)'
        PROVE  SentSoFar(r)'
    <3>1. CASE Post(r) \/ HangUp(r) \/ StartFails(r) \/ WriteResult(r)
      BY <1>a, <2>4, <3>1 DEF Post, HangUp, StartFails, WriteResult, Handles, Serving
    <3>2. CASE StartRun(r)
      <4>1. /\ worker[r] = "none" /\ logged[r] = 0 /\ offset[r] = 0 /\ streamed[r] = <<>>
            /\ handler'[r] = "poll" /\ offset'[r] = offset[r] /\ streamed'[r] = streamed[r]
        BY <1>a, <3>2 DEF StartRun, Handles, ThreadsPaired
      <4>2. Log(r) \in Seq(Records)
        <5>1. Workspace(r) \in Workspaces
          BY WorkTyped DEF Types, HandlerTypes
        <5> QED
          BY <5>1 DEF Types, FileTypes, Log
      <4>3. \A i \in 1 .. Len(Log(r)) : Log(r)[i].run # r
        <5>1. Workspace(r) \in Workspaces
          BY WorkTyped DEF Types, HandlerTypes
        <5> QED
          BY <4>1, <5>1 DEF WritersStarted, Log
      <4>4. OwnWhole(r, Log(r))
        BY <4>1, <4>3, NothingLogged
      <4>5. OwnWhole(r, Log(r))'
        BY <2>0, <2>1, <4>4 DEF OwnWhole, Own
      <4> QED
        BY <2>1, <4>1, <4>2, <4>5 DEF SentSoFar
    <3>3. CASE LookAtWorker(r)
      <4>1. /\ handler'[r] # "join" /\ offset'[r] = offset[r] /\ streamed'[r] = streamed[r]
            /\ Serving(r) /\ handler[r] # "accepted"
        BY <1>a, <2>4, <3>3 DEF LookAtWorker, Handles, Serving
      <4> QED
        BY <2>0, <2>2, <2>4, <4>1 DEF StreamedSoFar
    <3>4. ASSUME NEW from \in {"poll", "rest"}, NEW to, FlushNewLines(r, from, to)
          PROVE  SentSoFar(r)'
      <4>1. Serving(r) /\ handler[r] # "accepted" /\ r \in connected
        BY <1>a, <2>4, <3>4 DEF FlushNewLines, Handles, Serving
      <4>2. SentSoFar(r)
        BY <2>0, <2>4, <4>1 DEF StreamedSoFar
      <4>3. /\ offset'[r] = Len(Log(r)) /\ Len(streamed'[r]) = offset'[r]
            /\ \A i \in 1 .. offset'[r] : streamed'[r][i] = Log(r)[i]
        BY <3>4, <4>1, <4>2, FlushSends DEF SentSoFar
      <4>4. Len(Log(r)) <= Len(Log(r))
        <5>1. Workspace(r) \in Workspaces
          BY WorkTyped DEF Types, HandlerTypes
        <5>2. Log(r) \in Seq(Records)
          BY <5>1 DEF Types, FileTypes, Log
        <5> QED
          BY <5>2
      <4>5. OwnWhole(r, Log(r))'
        BY <2>0, <2>1, <4>2 DEF SentSoFar, OwnWhole, Own
      <4> QED
        BY <2>1, <4>3, <4>4, <4>5 DEF SentSoFar
    <3> QED
      BY <1>2, <3>1, <3>2, <3>3, <3>4 DEF HandlerStep
  <2> QED
    BY <2>3, <2>4 DEF StreamedSoFar
<1> QED
  BY <1>1, <1>2, StepsOfTheStream

\* The result is written when all of the log was sent, and nothing is logged after.
LEMMA AnsweredPreserved ==
    ASSUME Types, ThreadsPaired, StreamedSoFar, StreamedUnlessTailedEarly, [Next]_vars
    PROVE  StreamedUnlessTailedEarly'
<1>a. DOMAIN handler = Runs
  BY DEF Types, HandlerTypes
<1>b. UNCHANGED workload /\ together \subseteq together' =>
        \A s \in Runs : Alone(s)' => Alone(s)
  BY DEF Workspace, Alone
<1>c. ASSUME NEW s \in Runs, handler'[s] = handler[s], streamed'[s] = streamed[s],
             logged'[s] = logged[s] \/ handler[s] # "answered",
             s \in connected' => s \in connected, Alone(s)' => Alone(s), StreamedWhole(s)
      PROVE  StreamedWhole(s)'
  BY <1>c DEF StreamedWhole, OwnWhole, Own
<1>1. CASE BehindTheStream /\ LogsMove
  <2>1. \A s \in Runs : handler[s] = "answered" => logged'[s] = logged[s]
    BY <1>1, OthersLogNothing DEF ThreadsPaired, InProgress
  <2> QED
    BY <1>1, <1>b, <1>c, <2>1 DEF BehindTheStream, StreamedUnlessTailedEarly
<1>2. ASSUME NEW r \in Runs, Post(r) \/ HangUp(r) \/ HandlerStep(r)
      PROVE  StreamedUnlessTailedEarly'
  <2>0. /\ UNCHANGED <<workload, live_log, logged, tailed_early>>
        /\ \A s \in Runs \ {r} :
             /\ handler'[s] = handler[s] /\ streamed'[s] = streamed[s]
             /\ s \in connected' <=> s \in connected
        /\ \A s \in Runs : Alone(s)' => Alone(s)
    BY <1>2, <1>b, HandlersMove
  <2>1. \A s \in Runs \ {r} : s \notin tailed_early' => StreamedWhole(s)'
    BY <1>c, <2>0 DEF StreamedUnlessTailedEarly
  <2>2. CASE WriteResult(r)
    <3>1. /\ handler[r] = "join" /\ streamed'[r] = streamed[r]
          /\ r \in connected' => r \in connected
      BY <2>2 DEF WriteResult, Handles
    <3> SUFFICES ASSUME r \notin tailed_early, r \in connected, Alone(r)
                 PROVE  OwnWhole(r, streamed[r])'
      BY <2>0, <2>1, <3>1 DEF StreamedUnlessTailedEarly, StreamedWhole
    <3>2. SentSoFar(r)
      BY <3>1 DEF StreamedSoFar, Serving
    <3>3. OwnWhole(r, streamed[r])
      BY <3>1, <3>2, SameRecords DEF SentSoFar
    <3> QED
      BY <2>0, <3>1, <3>3 DEF OwnWhole, Own
  <2>3. CASE ~WriteResult(r)
    <3>1. handler'[r] # "answered"
      BY <1>2, <1>a, <2>3 DEF Post, HangUp, HandlerStep, StartRun, StartFails,
          FlushNewLines, LookAtWorker, Handles
    <3> QED
      BY <2>1, <3>1 DEF StreamedUnlessTailedEarly, StreamedWhole
  <2> QED
    BY <2>2, <2>3
<1> QED
  BY <1>1, <1>2, StepsOfTheStream

------------------------------------------------------------------------------
(* The theorems.                                                             *)

LEMMA InitStreamInv == Init => StreamInv
<1> SUFFICES ASSUME Init PROVE StreamInv
  OBVIOUS
<1>1. /\ ThreadsPaired /\ NobodyElseServed /\ NobodyBeside
      /\ StreamedSoFar /\ StreamedUnlessTailedEarly
  BY DEF Init, ThreadsPaired, NobodyElseServed, NobodyBeside, StreamedSoFar,
      StreamedUnlessTailedEarly, StreamedWhole, Serving
<1>2. WritersStarted
  BY DEF Init, WritersStarted
<1> QED
  BY <1>1, <1>2 DEF StreamInv

THEOREM StreamInvariant == Spec => []StreamInv
<1>1. Types /\ StreamInv /\ [Next]_vars => StreamInv'
  BY ThreadsPreserved, ServedPreserved, BesidePreserved, WritersPreserved,
     SoFarPreserved, AnsweredPreserved DEF StreamInv
<1>2. IInv => Types
  BY DEF IInv
<1> QED
  BY <1>1, <1>2, InitStreamInv, InductiveInvariant, PTL DEF Spec

\* A client that stays to the result of a run that had its workspace to itself was sent
\* all that the run logged, each record once and in order, for any number of runs and
\* records and wherever the polls fall between the writes, the last of them and the
\* end of the worker: provided its handler read nothing before a fresh run emptied the log.
THEOREM StreamedToTheEnd == Spec => []StreamedUnlessTailedEarly
<1>1. StreamInv => StreamedUnlessTailedEarly
  BY DEF StreamInv
<1> QED
  BY <1>1, StreamInvariant, PTL

=============================================================================
