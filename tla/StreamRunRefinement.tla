-------------------------- MODULE StreamRunRefinement --------------------------
(***************************************************************************)
(* A streamed run implements RunLifecycle, for every value of the          *)
(* constants. The inductive invariant of StreamRunProofs says where the    *)
(* runner may record a line and what explains the sidecar; TurnInOrder     *)
(* adds what the order of the log needs.                                   *)
(***************************************************************************)
EXTENDS StreamRunProofs

USE DEF streamVars, tokenVars, turnVars, lineVars, drainVars, intentVars, holdVars,
        operatorVars, sharedVars, reportVars, runnerVars, clockVars, watchVars,
        groupVars, procVars, envVars

------------------------------------------------------------------------------
(* Where the line in hand is the last line read, and what exists when.       *)

\* Outside an abort the line in hand is the last one read, and it is not in the log
\* until it is dispatched; a silent one never is.
NextToRecord ==
    \/ pc \in {"drain", "apply"} /\ drain_from # "permission"
    \/ pc = "release" /\ drain_from = "paused" /\ ~operator_ended
    \/ pc \in {"pause", "dispatch"}

TurnInOrder ==
    /\ NextToRecord => /\ raw_line.number = lines_read
                       /\ logged = (1 .. (lines_read - 1)) \ silent_lines
    /\ NextToRecord => lines_read >= 1
    /\ pc = "release" => drain_from # "line"

\* There is a harness from the launch on, an ending only then, a report at the end.
ReportLast ==
    /\ harness = "none" <=> pc \in {"start", "launch"}
    /\ pc \in {"start", "launch"} => ~idle_killed /\ ~keep_alive_killed
    /\ pc \in {"start", "launch"} =>
         idle_watchdog = "off" /\ keep_alive_watchdog = "off"
    /\ final_run_state = "none" <=> pc # "returned"

OrderInv == TurnInOrder /\ ReportLast

LEMMA InitOrder == Init => OrderInv
BY DEF Init, OrderInv, TurnInOrder, NextToRecord, ReportLast, NoLine

LEMMA OrderPreserved ==
    ASSUME IInv, OrderInv, [Next]_vars
    PROVE  OrderInv'
<1>a. lines_read \in Nat /\ raw_line.number \in Nat
  BY DEF IInv, TypeInv, TypeOK
<1>b. /\ token_limit_halted => pc \notin {"read", "drain", "apply", "dispatch"}
      /\ operator_ended => pc \notin {"read", "drain", "apply", "dispatch", "post_abort"}
  BY DEF IInv, ControlInv, HaltIsFinal, EndIsFinal
<1>c. /\ pc = "read" => logged = (1 .. lines_read) \ silent_lines
      /\ silent_lines \subseteq 1 .. lines_read
  BY DEF IInv, LineInHand, LogInOrder, LogComplete, Recordable, LineWaits
<1>d. run_status = "none" <=> pc \in {"start", "launch"}
  BY DEF IInv, StatusExplained
<1> USE <1>a, <1>b, <1>c, <1>d DEF OrderInv, TurnInOrder, NextToRecord, ReportLast
<1>1. CASE Starting
  BY <1>1 DEF Starting, OpenLiveFiles, LaunchHarness
<1>2. CASE Draining
  BY <1>2 DEF Draining, ReadNewControlIntents, ApplyPause, ApplyResume,
      ApplySendCommand, ApplyPermissionDecision, ApplyEndAndReturn,
      PostAbortReadEnds, ApplyIntent, NextIntent, AfterOperatorEnd
<1>3. CASE Waiting
  BY <1>3 DEF Waiting, ProceedWithLine, EnterPause, PollWhilePaused,
      HoldForDecision, AnswerWithDecision, DenyOnDeadline,
      PollForDecision, Release, AfterDrain, BatchApplied, Jump,
      Respond, AfterRelease
<1>4. CASE Handling
  BY <1>4 DEF Handling, DeadlineBreak, RecordProtocolLine,
      SurfacePermissionRequest, AppendChunkToLiveLog, Jump, Dispatch,
      RecordChunk, ChunksOf, CarriesUsage, IsResult
<1>5. CASE Deciding
  BY <1>5 DEF Deciding, HaltOnTokenLimit, Terminate, Halted, ReadOn, EndTurn,
      WithholdStop, RoundTripMaximumReached, ServeToolCalls, MustHalt,
      Jump
<1>6. CASE Finishing
  <2>1. CASE ReturnResult
    <3>1. Outcome # "none"
      BY <2>1, <1>d DEF ReturnResult, Outcome
    <3> QED
      BY <2>1, <3>1 DEF ReturnResult
  <2> QED
    BY <1>6, <2>1 DEF Finishing, EndOfStream, FinishRun, CloseLiveLog, HarnessExited,
        ReapTimeout, Escalate, Terminate, Reaped, Jump
<1>7. CASE ReceiveStep
  BY <1>7 DEF ReceiveStep, ReceiveLine, TakeLine, PostAbortRead, ReceiveEmptyLine,
      RecordChunk, ChunksOf, CarriesUsage, IsResult
<1>8. CASE IdleWatchdogStep
  BY <1>8 DEF IdleWatchdogStep, IdleWake, IdleLook, IdleMeasure,
      IdleKillDecided, IdleStrike, IdleEscalate, Terminate, IdleStep
<1>9. CASE KeepAliveWatchdogStep
  BY <1>9 DEF KeepAliveWatchdogStep, KeepAliveWake, KeepAliveLook,
      KeepAliveKillDecided, KeepAliveStrike, KeepAliveStep
<1>10. CASE EnvironmentStep
  BY <1>10 DEF EnvironmentStep, HarnessExits, HarnessClosesStdout, HarnessForks,
      ChildrenLetGo, ChildrenExit, ChildrenBecome,
      OperatorWrites, Heartbeat, HeartbeatAges, IdleBudgetElapses,
      DeadlineElapses
<1>11. CASE UNCHANGED vars
  BY <1>11 DEF vars
<1> QED
  BY <1>1, <1>2, <1>3, <1>4, <1>5, <1>6, <1>7, <1>8, <1>9, <1>10,
      <1>11 DEF Next, RunnerStep, Returned

\* OrderInv holds beside IInv in every reachable state.
THEOREM OrderInvariant == Spec => []OrderInv
<1>1. IInv /\ OrderInv /\ [Next]_vars => OrderInv'
  BY OrderPreserved
<1> QED
  BY InitOrder, <1>1, InductiveInvariant, PTL DEF Spec

------------------------------------------------------------------------------
(* The steps.                                                                *)

Invariant == IInv /\ OrderInv

USE DEF Invariant, ProcessOfRun, DecidedEndings, Lifecycle!run

\* The runner thread records in order. What it appends to the log is the number of
\* the line in hand, or during an abort that of the line just read.
LEMMA RecordMaps ==
    ASSUME Invariant, NEW n \in Nat,
           logged' = logged \cup {n}, \A m \in logged : m < n,
           ~token_limit_halted, pc # "returned", pc \notin {"start", "launch"},
           UNCHANGED <<harness, operator_ended, token_limit_halted, idle_killed,
                       keep_alive_killed, final_run_state>>
    PROVE  Lifecycle!Record
<1>1. logged' \in SUBSET Nat
  BY DEF IInv, TypeInv, TypeOK
<1>2. \E k \in logged' : /\ \A m \in logged : m < k
                         /\ logged' = logged \cup {k}
  OBVIOUS
<1>3. ProcessOfRun # "none" /\ final_run_state = "none"
  BY DEF OrderInv, ReportLast
<1>4. "token_limit_halted" \notin DecidedEndings
  OBVIOUS
<1>5. UNCHANGED <<ProcessOfRun, DecidedEndings, final_run_state>>
  OBVIOUS
<1> HIDE DEF ProcessOfRun, DecidedEndings
<1> QED
  BY <1>1, <1>2, <1>3, <1>4, <1>5 DEF Lifecycle!Record

\* A step that changes neither the process, the log, a flag nor the report is a
\* stutter of the run.
LEMMA StutterMaps ==
    ASSUME UNCHANGED <<harness, logged, operator_ended, token_limit_halted,
                       idle_killed, keep_alive_killed, final_run_state>>
    PROVE  UNCHANGED Lifecycle!run
OBVIOUS

\* Once there is a harness, raising the flag of an ending decides on it; only the
\* watchdogs do after the report.
LEMMA DecisionMaps ==
    ASSUME Invariant, pc \notin {"start", "launch"},
           NEW ending \in Lifecycle!Endings,
           ending \in Lifecycle!Kills \/ pc # "returned",
           DecidedEndings' = DecidedEndings \cup {ending},
           UNCHANGED <<harness, logged, final_run_state>>
    PROVE  Lifecycle!Next
<1>1. Lifecycle!Decide(ending)
  <2>1. ProcessOfRun # "none"
    BY DEF OrderInv, ReportLast
  <2>2. ending \in Lifecycle!Kills \/ final_run_state = "none"
    BY DEF OrderInv, ReportLast
  <2>3. UNCHANGED <<ProcessOfRun, logged, final_run_state>>
    OBVIOUS
  <2> HIDE DEF ProcessOfRun, DecidedEndings
  <2> QED
    BY <2>1, <2>2, <2>3 DEF Lifecycle!Decide
<1> QED
  BY <1>1 DEF Lifecycle!Next

\* What the outcome's precedence yields is an ending whose flag is up, the halt
\* before any other; with no flag up the sidecar can only say running.
LEMMA ReportMaps ==
    ASSUME Invariant, ReturnResult
    PROVE  Lifecycle!Next
<1>1. Outcome \in Lifecycle!Endings \cup {"running"}
  BY DEF ReturnResult, Outcome, IInv, TypeInv, TypeOK, RunStates, StatusExplained,
      Surfaced, Lifecycle!Endings, Lifecycle!Kills
<1>2. Lifecycle!Truthful(Outcome)
  BY DEF ReturnResult, Outcome, IInv, TypeInv, TypeOK, RunStates, StatusExplained,
      Surfaced, Lifecycle!Truthful
<1>3. ProcessOfRun = "dead" /\ final_run_state = "none"
  BY DEF ReturnResult, IInv, ControlInv, HarnessGone, OrderInv, ReportLast
<1>4. final_run_state' = Outcome /\ UNCHANGED <<ProcessOfRun, logged, DecidedEndings>>
  BY DEF ReturnResult
<1>5. Lifecycle!Report(Outcome)
  BY <1>2, <1>3, <1>4 DEF Lifecycle!Report
<1> QED
  BY <1>1, <1>5 DEF Lifecycle!Next

LEMMA StepMaps ==
    ASSUME Invariant, [Next]_vars
    PROVE  [Lifecycle!Next]_(Lifecycle!run)
<1>a. lines_read \in Nat /\ raw_line.number \in Nat /\ logged \in SUBSET Nat
  BY DEF IInv, TypeInv, TypeOK
<1>1. CASE Starting
  <2>1. CASE OpenLiveFiles
    BY <2>1, StutterMaps DEF OpenLiveFiles
  <2>2. CASE LaunchHarness
    <3>1. Lifecycle!Launch
      BY <2>2 DEF LaunchHarness, OrderInv, ReportLast, Lifecycle!Launch
    <3> QED
      BY <3>1 DEF Lifecycle!Next
  <2> QED
    BY <1>1, <2>1, <2>2 DEF Starting
<1>2. CASE Draining
  <2>1. CASE ApplyEndAndReturn
    <3>1. CASE workload.graceful_abort
      BY <2>1, <3>1, StutterMaps DEF ApplyEndAndReturn, ApplyIntent
    <3>2. CASE ~workload.graceful_abort
      <4>1. DecidedEndings' = DecidedEndings \cup {"operator_ended"}
        BY <2>1, <3>2 DEF ApplyEndAndReturn, ApplyIntent
      <4>2. /\ pc \notin {"start", "launch", "returned"}
            /\ UNCHANGED <<harness, logged, final_run_state>>
        BY <2>1 DEF ApplyEndAndReturn, ApplyIntent
      <4> QED
        BY <4>1, <4>2, DecisionMaps DEF Lifecycle!Endings
    <3> QED
      BY <3>1, <3>2
  <2>2. CASE PostAbortReadEnds
    <3>1. DecidedEndings' = DecidedEndings \cup {"operator_ended"}
      BY <2>2 DEF PostAbortReadEnds
    <3>2. /\ pc \notin {"start", "launch", "returned"}
          /\ UNCHANGED <<harness, logged, final_run_state>>
      BY <2>2 DEF PostAbortReadEnds
    <3> QED
      BY <3>1, <3>2, DecisionMaps DEF Lifecycle!Endings
  <2>3. CASE UNCHANGED <<harness, logged, operator_ended, token_limit_halted,
                         idle_killed, keep_alive_killed, final_run_state>>
    BY <2>3, StutterMaps
  <2> QED
    BY <1>2, <2>1, <2>2, <2>3 DEF Draining, ReadNewControlIntents, ApplyPause,
        ApplyResume, ApplySendCommand, ApplyPermissionDecision, ApplyIntent
<1>3. CASE Waiting
  BY <1>3, StutterMaps DEF Waiting, ProceedWithLine, EnterPause, PollWhilePaused,
      HoldForDecision, AnswerWithDecision, DenyOnDeadline, PollForDecision, Release,
      AfterDrain, Jump, Respond
<1>4. CASE Handling
  <2>1. CASE DeadlineBreak
    BY <2>1, StutterMaps DEF DeadlineBreak, Jump
  <2>2. CASE Dispatch /\ logged' = logged \cup {raw_line.number}
    <3>1. raw_line.number = lines_read /\ logged \subseteq 1 .. (lines_read - 1)
      BY <2>2 DEF Dispatch, OrderInv, TurnInOrder, NextToRecord
    <3>2. ~token_limit_halted
      BY <2>2 DEF Dispatch, IInv, ControlInv, HaltIsFinal
    <3>3. UNCHANGED <<harness, operator_ended, idle_killed, keep_alive_killed,
                      final_run_state>>
      BY <2>2 DEF Dispatch
    <3>4. UNCHANGED token_limit_halted
      BY <1>4, <2>2 DEF Handling, DeadlineBreak, RecordProtocolLine,
          SurfacePermissionRequest, AppendChunkToLiveLog, Jump, Dispatch
    <3>5. \A m \in logged : m < raw_line.number
      BY <1>a, <3>1
    <3>6. Lifecycle!Record
      BY <1>a, <2>2, <3>2, <3>3, <3>4, <3>5, RecordMaps DEF Dispatch
    <3> QED
      BY <3>6 DEF Lifecycle!Next
  <2>3. CASE AppendChunkToLiveLog /\ logged' = logged
    BY <2>3, StutterMaps DEF AppendChunkToLiveLog, Dispatch
  <2> QED
    BY <1>4, <2>1, <2>2, <2>3 DEF Handling, RecordProtocolLine,
        SurfacePermissionRequest, AppendChunkToLiveLog, RecordChunk, ChunksOf
<1>5. CASE Deciding
  <2>1. CASE HaltOnTokenLimit
    <3>1. DecidedEndings' = DecidedEndings \cup {"token_limit_halted"}
      BY <2>1 DEF HaltOnTokenLimit
    <3>2. /\ pc \notin {"start", "launch", "returned"}
          /\ UNCHANGED <<harness, logged, final_run_state>>
      BY <2>1 DEF HaltOnTokenLimit
    <3> QED
      BY <3>1, <3>2, DecisionMaps DEF Lifecycle!Endings
  <2> QED
    BY <1>5, <2>1, StutterMaps DEF Deciding, Halted, ReadOn, EndTurn, WithholdStop,
        RoundTripMaximumReached, ServeToolCalls, Jump
<1>6. CASE Finishing
  BY <1>6, ReportMaps, StutterMaps DEF Finishing, EndOfStream, FinishRun,
      CloseLiveLog, HarnessExited, ReapTimeout, Escalate, Terminate, Reaped, Jump
<1>7. CASE ReceiveStep
  <2>1. CASE (\E kind \in workload.line_kinds : PostAbortRead(kind)) /\ logged' # logged
    <3>1. logged' = logged \cup {lines_read + 1} /\ logged \subseteq 1 .. lines_read
      BY <2>1 DEF PostAbortRead, RecordChunk, ChunksOf, IInv, LineInHand, LogInOrder,
          Recordable
    <3>2. ~token_limit_halted
      BY <2>1 DEF PostAbortRead, IInv, ControlInv, HaltIsFinal
    <3>3. /\ pc \notin {"start", "launch", "returned"}
          /\ UNCHANGED <<harness, operator_ended, token_limit_halted, idle_killed,
                         keep_alive_killed, final_run_state>>
      BY <2>1 DEF PostAbortRead
    <3>4. \A m \in logged : m < lines_read + 1
      BY <1>a, <3>1
    <3>5. Lifecycle!Record
      BY <1>a, <3>1, <3>2, <3>3, <3>4, RecordMaps
    <3> QED
      BY <3>5 DEF Lifecycle!Next
  <2>2. CASE (\E kind \in workload.line_kinds : PostAbortRead(kind)) /\ logged' = logged
    BY <2>2, StutterMaps DEF PostAbortRead
  <2> QED
    BY <1>7, <2>1, <2>2, StutterMaps DEF ReceiveStep, ReceiveLine, ReceiveEmptyLine
<1>8. CASE IdleWatchdogStep
  <2>1. CASE IdleKillDecided
    <3>1. DecidedEndings' = DecidedEndings \cup {"idle_killed"}
      BY <2>1 DEF IdleKillDecided, IdleStep
    <3>2. pc \notin {"start", "launch"} /\ UNCHANGED <<harness, logged, final_run_state>>
      BY <2>1 DEF IdleKillDecided, IdleStep, OrderInv, ReportLast
    <3> QED
      BY <3>1, <3>2, DecisionMaps DEF Lifecycle!Endings, Lifecycle!Kills
  <2> QED
    BY <1>8, <2>1, StutterMaps DEF IdleWatchdogStep, IdleWake, IdleLook, IdleMeasure,
        IdleStrike, IdleEscalate, Terminate, IdleStep
<1>9. CASE KeepAliveWatchdogStep
  <2>1. CASE KeepAliveKillDecided
    <3>1. DecidedEndings' = DecidedEndings \cup {"keep_alive_lost_killed"}
      BY <2>1 DEF KeepAliveKillDecided, KeepAliveStep
    <3>2. pc \notin {"start", "launch"} /\ UNCHANGED <<harness, logged, final_run_state>>
      BY <2>1 DEF KeepAliveKillDecided, KeepAliveStep, OrderInv, ReportLast
    <3> QED
      BY <3>1, <3>2, DecisionMaps DEF Lifecycle!Endings, Lifecycle!Kills
  <2> QED
    BY <1>9, <2>1, StutterMaps DEF KeepAliveWatchdogStep, KeepAliveWake,
        KeepAliveLook, KeepAliveStrike, KeepAliveStep
<1>10. CASE EnvironmentStep
  <2>1. CASE HarnessExits
    <3>1. Lifecycle!Die
      BY <2>1 DEF HarnessExits, Lifecycle!Die
    <3> QED
      BY <3>1 DEF Lifecycle!Next
  <2>2. CASE HarnessClosesStdout
    BY <2>2 DEF HarnessClosesStdout
  <2>3. CASE HarnessForks \/ ChildrenLetGo \/ ChildrenExit
    BY <2>3, StutterMaps DEF HarnessForks, ChildrenLetGo, ChildrenExit, ChildrenBecome
  <2> QED
    BY <1>10, <2>1, <2>2, <2>3, StutterMaps DEF EnvironmentStep, OperatorWrites, Heartbeat,
        HeartbeatAges, IdleBudgetElapses, DeadlineElapses
<1>11. CASE UNCHANGED vars
  BY <1>11, StutterMaps DEF vars
<1> QED
  BY <1>1, <1>2, <1>3, <1>4, <1>5, <1>6, <1>7, <1>8, <1>9, <1>10,
      <1>11 DEF Next, RunnerStep, Returned

\* A streamed run is a run: initial states map to initial states, and every step to a
\* step of RunLifecycle or to none.
THEOREM RefinesLifecycle == Spec => ImplementsLifecycle
<1>1. Init => Lifecycle!Init
  BY DEF Init, Lifecycle!Init
<1>2. Invariant /\ [Next]_vars => [Lifecycle!Next]_(Lifecycle!run)
  BY StepMaps
<1> QED
  BY <1>1, <1>2, InductiveInvariant, OrderInvariant, PTL
    DEF Spec, ImplementsLifecycle, Lifecycle!Spec

=============================================================================
