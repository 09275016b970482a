--------------------------- MODULE StreamRunProofs ---------------------------
(***************************************************************************)
(* What is proved of a streamed run, for every value of the constants.     *)
(*                                                                         *)
(* IInv is one inductive invariant, a conjunction of named parts. Each     *)
(* part has a lemma that a step preserves it, with one step of the proof   *)
(* per phase of the runner thread and per other thread, and a step of its  *)
(* own for each action that can disturb the part. The theorems follow from *)
(* the part named for them.                                                *)
(***************************************************************************)
EXTENDS StreamRun, TLAPS

------------------------------------------------------------------------------
(* The parts of the inductive invariant.                                     *)

\* The runner is behind the channel, never ahead of it; a pending decision is a
\* permission_decision it has applied, and every such line allows or denies.
ChannelInOrder ==
    /\ applied_control_lines <= consumed_control_lines
    /\ consumed_control_lines <= Len(control_channel)
    /\ pending_permission_decision <= applied_control_lines
    /\ pc = "start" => consumed_control_lines = 0
    /\ \A i \in 1 .. Len(control_channel) :
         control_channel[i].intent = "permission_decision" =>
             control_channel[i].behavior \in Behaviors
    /\ pending_permission_decision # 0 =>
         control_channel[pending_permission_decision].intent = "permission_decision"

\* Where the runner waits on the operator: only there is idleness suppressed.
OnOperator ==
    \/ pc \in {"drain", "apply", "post_abort"} /\ drain_from # "line"
    \/ pc = "release"

SuppressedOnlyWaiting == idleness_suppressed => OnOperator

\* A release out of the pause loop is a resume or an end; past it the run is not
\* paused.
PauseIsOver ==
    /\ pc \in {"dispatch", "decide", "tool"} => ~paused
    /\ pc = "release" /\ drain_from = "paused" /\ ~operator_ended => ~paused

\* A halted run is on its way out.
HaltIsFinal ==
    token_limit_halted =>
        pc \in {"halt", "finish", "notes", "wait", "reap", "outcome", "returned"}

\* A run the operator ended is on its way out.
EndIsFinal ==
    operator_ended =>
        pc \in {"release", "finish", "notes", "wait", "reap", "outcome", "returned"}

\* A stop is seen at the end of a turn, and is gone when the next turn is read.
StopsWithheld ==
    /\ result_seen =>
         \/ pc \in {"post_abort", "decide", "tool", "halt", "finish", "notes", "wait",
                    "reap", "outcome", "returned"}
         \/ pc = "release" /\ operator_ended
    /\ completed_tool_round_trips <= ToolRoundTripMaximum
    /\ pc = "tool" => completed_tool_round_trips < ToolRoundTripMaximum

\* A run whose limit is reached goes on only after serving a tool call.
LimitObserved ==
    TokenLimitReached /\ completed_tool_round_trips = 0 =>
        \/ pc \in {"post_abort", "decide", "tool", "halt", "finish", "notes",
                   "wait", "reap", "outcome", "returned"}
        \/ pc = "release" /\ operator_ended

\* The request in hand, if there is one, is the last one and the only unanswered.
Surfaced ==
    \/ pc = "hold"
    \/ pc \in {"drain", "apply", "post_abort"} /\ drain_from = "permission"

RequestInHand ==
    /\ \A i \in 1 .. Len(control_responses) :
         control_responses[i].request = permission_requests[i]
    /\ Surfaced => /\ Len(permission_requests) = Len(control_responses) + 1
                   /\ permission_requests[Len(permission_requests)] = raw_line.number
    /\ ~Surfaced /\ ~operator_ended =>
         Len(permission_requests) = Len(control_responses)
    /\ Len(permission_requests) \in
         {Len(control_responses), Len(control_responses) + 1}

\* Every line read that has a chunk is in the live log but the one in hand, and that
\* one is missing only while it waits its turn or after the run dropped it.
LogComplete == logged = Recordable

LogInOrder ==
    /\ logged \subseteq Recordable
    /\ Recordable \ logged \subseteq {raw_line.number}
    /\ raw_line.number <= lines_read
    /\ silent_lines \subseteq 1 .. lines_read
    /\ raw_line.number \in silent_lines <=> raw_line.kind = "silent"

LineWaits ==
    \/ pc \in {"drain", "apply", "post_abort", "release"} /\ drain_from # "permission"
    \/ pc \in {"pause", "dispatch"}

LineInHand ==
    /\ LogInOrder
    /\ \/ LogComplete
       \/ LineWaits
       \/ /\ pc \in {"finish", "notes", "wait", "reap", "outcome", "returned"}
          /\ operator_ended \/ deadline_passed
    /\ LineWaits => raw_line.number >= 1
    /\ pc = "release" => drain_from # "line"

\* A pending decision of a surfaced request was drained during its hold.
DecidedDuringHold ==
    /\ \/ pc \in {"launch", "read", "drain", "pause", "dispatch", "hold", "decide",
                   "tool"}
       \/ pc = "release" /\ ~operator_ended
       => applied_control_lines = consumed_control_lines
    /\ Surfaced /\ pc # "hold" =>
         /\ hold_start <= applied_control_lines
         /\ pending_permission_decision # 0 => pending_permission_decision > hold_start

\* Once the run has started, every line of its channel was written for it; while
\* an abort is read out, the line applied last is the end that asked for it.
ThisRunsChannel ==
    /\ pc # "start" =>
         \A i \in 1 .. Len(control_channel) : control_channel[i].run = "this"
    /\ pc = "post_abort" =>
         /\ applied_control_lines > 0
         /\ control_channel[applied_control_lines].intent = "end_and_return"
    /\ OperatorEndedByThisRunsIntent

\* A sidecar value that names an ending is backed by the flag of that ending; one
\* that names a wait is gone when the wait is.
StatusExplained ==
    /\ run_status = "operator_ended" => operator_ended
    /\ run_status = "token_limit_halted" => token_limit_halted
    /\ run_status = "idle_killed" \/ idle_watchdog = "strike" => idle_killed
    /\ run_status = "keep_alive_lost_killed" \/ keep_alive_watchdog = "strike" =>
         keep_alive_killed
    /\ run_status = "none" <=> pc \in {"start", "launch"}
    /\ pc \in {"start", "launch"} =>
         idle_watchdog = "off" /\ keep_alive_watchdog = "off"
    /\ run_status = "paused" =>
         paused /\ pc \in {"drain", "apply", "post_abort", "pause"}
    /\ run_status = "awaiting_permission" => Surfaced
    /\ "idle_kill" \in notes => idle_killed
    /\ "keep_alive_lost_kill" \in notes => keep_alive_killed

\* Once the runner has waited for the harness, the harness has exited. What it may
\* have left running is another matter.
HarnessGone == pc \in {"outcome", "returned"} => harness = "dead"

TypeInv == TypeOK /\ ChannelInOrder

ControlInv ==
    /\ SuppressedOnlyWaiting
    /\ PauseIsOver
    /\ HaltIsFinal
    /\ EndIsFinal
    /\ StopsWithheld
    /\ LimitObserved
    /\ HarnessGone

IInv ==
    /\ TypeInv
    /\ ControlInv
    /\ RequestInHand
    /\ LineInHand
    /\ DecidedDuringHold
    /\ ThisRunsChannel
    /\ StatusExplained
    /\ OutcomeExplained

------------------------------------------------------------------------------
(* The tuples of variables, expanded wherever a step says what it leaves alone. *)

USE DEF streamVars, tokenVars, turnVars, lineVars, drainVars, intentVars, holdVars,
        operatorVars, sharedVars, reportVars, runnerVars, clockVars, watchVars,
        groupVars, procVars, envVars

\* The lines and intents of a workload are among those there are.
LEMMA WorkloadTyped ==
    ASSUME TypeInv
    PROVE  /\ workload \in Workloads
           /\ workload.line_kinds \subseteq AllLineKinds
           /\ workload.intents \subseteq AllIntents
<1>1. workload \in Workloads /\ workload \in AllWorkloads
  BY StreamRunAssumption DEF TypeInv, TypeOK
<1>2. /\ workload.line_kinds \in SUBSET AllLineKinds
      /\ workload.intents \in SUBSET AllIntents
  BY <1>1 DEF AllWorkloads
<1> QED
  BY <1>1, <1>2

\* No step changes the workload of the run.
LEMMA WorkloadKept ==
    ASSUME [Next]_vars PROVE workload' = workload
<1>1. CASE EnvironmentStep
  BY <1>1 DEF EnvironmentStep, HarnessExits, HarnessClosesStdout, HarnessForks,
      ChildrenLetGo, ChildrenExit, ChildrenBecome,
      OperatorWrites, Heartbeat, HeartbeatAges, IdleBudgetElapses,
      DeadlineElapses
<1>2. CASE UNCHANGED vars
  BY <1>2 DEF vars
<1> QED
  BY <1>1, <1>2 DEF Next, RunnerStep, ReceiveStep, IdleWatchdogStep,
      KeepAliveWatchdogStep, Returned

\* What the operator appends is a line of the channel, written for this run once it
\* has started.
LEMMA WritableLinesTyped ==
    ASSUME TypeInv, NEW intent \in workload.intents, NEW line \in WritableLines(intent)
    PROVE  /\ line \in ControlLines
           /\ line.intent = "permission_decision" => line.behavior \in Behaviors
           /\ pc # "start" => line.run = "this"
<1>1. CASE intent = "permission_decision"
  BY <1>1 DEF WritableLines, RunWrittenFor, TypeInv, TypeOK, ControlLines, AllIntents,
      Behaviors
<1>2. CASE intent # "permission_decision"
  BY <1>2, WorkloadTyped DEF WritableLines, RunWrittenFor, ControlLines
<1> QED
  BY <1>1, <1>2

\* Types, and the order of the channel. One step per action.
LEMMA TypesPreserved ==
    ASSUME TypeInv, [Next]_vars PROVE TypeInv'
<1>a. workload' = workload
  BY WorkloadKept
<1> USE <1>a DEF TypeInv, TypeOK, ChannelInOrder, RunStates
<1>1. CASE Starting
  <2>1. CASE OpenLiveFiles
    BY <2>1 DEF OpenLiveFiles
  <2>2. CASE LaunchHarness
    BY <2>2 DEF LaunchHarness
  <2> QED
    BY <1>1, <2>1, <2>2 DEF Starting
<1>2. CASE Draining
  <2>1. CASE ReadNewControlIntents
    BY <2>1 DEF ReadNewControlIntents
  <2>2. CASE ApplyPause
    BY <2>2 DEF ApplyPause, ApplyIntent
  <2>3. CASE ApplyResume
    <3>1. paused' \in BOOLEAN
      BY <2>3 DEF ApplyResume, ApplyIntent
    <3> QED
      BY <2>3, <3>1 DEF ApplyResume, ApplyIntent
  <2>4. CASE ApplySendCommand
    BY <2>4 DEF ApplySendCommand, ApplyIntent
  <2>5. CASE ApplyPermissionDecision
    BY <2>5 DEF ApplyPermissionDecision, ApplyIntent, NextIntent
  <2>6. CASE ApplyEndAndReturn
    <3>1. operator_ended' \in BOOLEAN
      BY <2>6 DEF ApplyEndAndReturn, ApplyIntent, AfterOperatorEnd, NextIntent
    <3> QED
      BY <2>6, <3>1 DEF ApplyEndAndReturn, ApplyIntent, AfterOperatorEnd, NextIntent
  <2>7. CASE PostAbortReadEnds
    BY <2>7 DEF PostAbortReadEnds, AfterOperatorEnd
  <2> QED
    BY <1>2, <2>1, <2>2, <2>3, <2>4, <2>5, <2>6, <2>7 DEF Draining
<1>3. CASE Waiting
  <2>1. CASE ProceedWithLine
    BY <2>1 DEF ProceedWithLine, AfterDrain, BatchApplied, Jump
  <2>2. CASE EnterPause
    BY <2>2 DEF EnterPause
  <2>3. CASE PollWhilePaused
    BY <2>3 DEF PollWhilePaused, AfterDrain, BatchApplied, Jump
  <2>4. CASE HoldForDecision
    BY <2>4 DEF HoldForDecision
  <2>5. CASE AnswerWithDecision
    BY <2>5 DEF AnswerWithDecision, Respond, BatchApplied, ControlResponses,
      ControlLines, Behaviors
  <2>6. CASE DenyOnDeadline
    BY <2>6 DEF DenyOnDeadline, Respond, BatchApplied, ControlResponses,
      Behaviors
  <2>7. CASE PollForDecision
    BY <2>7 DEF PollForDecision, AfterDrain, BatchApplied, Jump
  <2>8. CASE Release
    <3>1. idleness_suppressed' \in BOOLEAN
      BY <2>8 DEF Release, AfterRelease
    <3> QED
      BY <2>8, <3>1 DEF Release, AfterRelease
  <2> QED
    BY <1>3, <2>1, <2>2, <2>3, <2>4, <2>5, <2>6, <2>7, <2>8 DEF Waiting
<1>4. CASE Handling
  <2>1. CASE DeadlineBreak
    BY <2>1 DEF DeadlineBreak, Jump
  <2>2. CASE RecordProtocolLine
    <3>1. logged' \in SUBSET Nat
      BY <2>2 DEF RecordProtocolLine, Dispatch
    <3> QED
      BY <2>2, <3>1 DEF RecordProtocolLine, Dispatch
  <2>3. CASE SurfacePermissionRequest
    <3>1. logged' \in SUBSET Nat
      BY <2>3 DEF SurfacePermissionRequest, Dispatch
    <3> QED
      BY <2>3, <3>1 DEF SurfacePermissionRequest, Dispatch
  <2>4. CASE AppendChunkToLiveLog
    <3>1. /\ logged' \in SUBSET Nat /\ result_seen' \in BOOLEAN
          /\ usage_bearing_deltas_seen' \in BOOLEAN
      BY <2>4 DEF AppendChunkToLiveLog, Dispatch, RecordChunk, ChunksOf, CarriesUsage,
      IsResult
    <3> QED
      BY <2>4, <3>1 DEF AppendChunkToLiveLog, Dispatch, RecordChunk, ChunksOf, CarriesUsage,
      IsResult
  <2> QED
    BY <1>4, <2>1, <2>2, <2>3, <2>4 DEF Handling
<1>5. CASE Deciding
  <2>1. CASE HaltOnTokenLimit
    BY <2>1 DEF HaltOnTokenLimit, MustHalt, Terminate, Notes
  <2>2. CASE Halted
    BY <2>2 DEF Halted, Jump
  <2>3. CASE ReadOn
    BY <2>3 DEF ReadOn, Jump
  <2>4. CASE EndTurn
    BY <2>4 DEF EndTurn, Jump
  <2>5. CASE WithholdStop
    BY <2>5 DEF WithholdStop, Jump
  <2>6. CASE RoundTripMaximumReached
    BY <2>6 DEF RoundTripMaximumReached, Notes
  <2>7. CASE ServeToolCalls
    <3>1. result_seen' \in BOOLEAN
      BY <2>7 DEF ServeToolCalls
    <3> QED
      BY <2>7, <3>1 DEF ServeToolCalls
  <2> QED
    BY <1>5, <2>1, <2>2, <2>3, <2>4, <2>5, <2>6, <2>7 DEF Deciding
<1>6. CASE Finishing
  <2>1. CASE EndOfStream
    BY <2>1 DEF EndOfStream, Jump
  <2>2. CASE FinishRun
    BY <2>2 DEF FinishRun
  <2>3. CASE CloseLiveLog
    BY <2>3 DEF CloseLiveLog, Terminate, Notes
  <2>4. CASE ReapTimeout
    BY <2>4 DEF ReapTimeout, Terminate
  <2>5. CASE Reaped
    BY <2>5 DEF Reaped, Jump
  <2>6. CASE ReturnResult
    BY <2>6 DEF ReturnResult, Outcome
  <2>7. CASE HarnessExited
    BY <2>7 DEF HarnessExited, Jump
  <2>8. CASE Escalate
    BY <2>8 DEF Escalate
  <2> QED
    BY <1>6, <2>1, <2>2, <2>3, <2>4, <2>5, <2>6, <2>7, <2>8 DEF Finishing
<1>7. CASE ReceiveStep
  <2>1. CASE \E kind \in workload.line_kinds : ReceiveLine(kind)
    <3>1. PICK kind \in workload.line_kinds : ReceiveLine(kind)
      BY <2>1
    <3>2. raw_line' \in [number : Nat, kind : AllLineKinds \cup {"none"}]
      BY <3>1, WorkloadTyped DEF ReceiveLine
    <3>3. idle_exceeded' \in BOOLEAN
      BY <3>1 DEF ReceiveLine
    <3>4. silent_lines' \in SUBSET Nat /\ lines_read' \in Nat
      <4>1. TakeLine(kind)
        BY <3>1 DEF ReceiveLine
      <4>2. lines_read' \in Nat
        BY <4>1 DEF TakeLine
      <4>3. silent_lines' \in SUBSET Nat
        BY <4>1 DEF TakeLine
      <4> QED
        BY <4>2, <4>3
    <3> QED
      BY <3>1, <3>2, <3>3, <3>4 DEF ReceiveLine
  <2>2. CASE \E kind \in workload.line_kinds : PostAbortRead(kind)
    <3>1. PICK kind \in workload.line_kinds : PostAbortRead(kind)
      BY <2>2
    <3>2. logged' \in SUBSET Nat
      BY <3>1 DEF PostAbortRead, RecordChunk, ChunksOf
    <3>3. result_seen' \in BOOLEAN /\ usage_bearing_deltas_seen' \in BOOLEAN
      BY <3>1 DEF PostAbortRead, RecordChunk, CarriesUsage, IsResult
    <3>4. silent_lines' \in SUBSET Nat /\ lines_read' \in Nat
      <4>1. TakeLine(kind)
        BY <3>1 DEF PostAbortRead
      <4>2. lines_read' \in Nat
        BY <4>1 DEF TakeLine
      <4>3. silent_lines' \in SUBSET Nat
        BY <4>1 DEF TakeLine
      <4> QED
        BY <4>2, <4>3
    <3>5. counted_tokens' \in Nat
      BY <3>1 DEF PostAbortRead, RecordChunk
    <3> QED
      BY <3>1, <3>2, <3>3, <3>4, <3>5 DEF PostAbortRead
  <2>3. CASE ReceiveEmptyLine
    <3>1. idle_exceeded' \in BOOLEAN
      BY <2>3 DEF ReceiveEmptyLine
    <3>2. TypeOK'
      BY <2>3, <3>1 DEF ReceiveEmptyLine
    <3>3. ChannelInOrder'
      BY <2>3 DEF ReceiveEmptyLine
    <3> QED
      BY <3>2, <3>3
  <2> QED
    BY <1>7, <2>1, <2>2, <2>3 DEF ReceiveStep
<1>8. CASE IdleWatchdogStep
  <2>1. CASE IdleWake
    BY <2>1 DEF IdleWake, IdleStep
  <2>2. CASE IdleLook
    BY <2>2 DEF IdleLook, IdleStep
  <2>3. CASE IdleMeasure
    BY <2>3 DEF IdleMeasure, IdleStep
  <2>4. CASE IdleKillDecided
    BY <2>4 DEF IdleKillDecided, IdleStep
  <2>5. CASE IdleStrike
    BY <2>5 DEF IdleStrike, Terminate, IdleStep
  <2>6. CASE IdleEscalate
    BY <2>6 DEF IdleEscalate, IdleStep
  <2> QED
    BY <1>8, <2>1, <2>2, <2>3, <2>4, <2>5, <2>6 DEF IdleWatchdogStep
<1>9. CASE KeepAliveWatchdogStep
  <2>1. CASE KeepAliveWake
    BY <2>1 DEF KeepAliveWake, KeepAliveStep
  <2>2. CASE KeepAliveLook
    BY <2>2 DEF KeepAliveLook, KeepAliveStep
  <2>3. CASE KeepAliveKillDecided
    BY <2>3 DEF KeepAliveKillDecided, KeepAliveStep
  <2>4. CASE KeepAliveStrike
    BY <2>4 DEF KeepAliveStrike, KeepAliveStep
  <2> QED
    BY <1>9, <2>1, <2>2, <2>3, <2>4 DEF KeepAliveWatchdogStep
<1>10. CASE EnvironmentStep
  <2>1. CASE HarnessExits
    BY <2>1 DEF HarnessExits
  <2>2. CASE HarnessClosesStdout
    BY <2>2 DEF HarnessClosesStdout
  <2>3. CASE \E intent \in workload.intents : OperatorWrites(intent)
    <3>1. PICK intent \in workload.intents : OperatorWrites(intent)
      BY <2>3
    <3>2. PICK line \in WritableLines(intent) :
            control_channel' = Append(control_channel, line)
      BY <3>1 DEF OperatorWrites
    <3>3. /\ line \in ControlLines
          /\ line.intent = "permission_decision" => line.behavior \in Behaviors
      BY <3>2, WritableLinesTyped
    <3> QED
      BY <3>1, <3>2, <3>3 DEF OperatorWrites
  <2>4. CASE Heartbeat
    BY <2>4 DEF Heartbeat
  <2>5. CASE HeartbeatAges
    BY <2>5 DEF HeartbeatAges
  <2>6. CASE IdleBudgetElapses
    BY <2>6 DEF IdleBudgetElapses
  <2>7. CASE DeadlineElapses
    BY <2>7 DEF DeadlineElapses
  <2>8. CASE HarnessForks \/ ChildrenLetGo \/ ChildrenExit
    <3>1. PICK what \in {"none", "quiet", "holding"} : ChildrenBecome(what)
      BY <2>8 DEF HarnessForks, ChildrenLetGo, ChildrenExit
    <3> QED
      BY <3>1 DEF ChildrenBecome
  <2> QED
    BY <1>10, <2>1, <2>2, <2>3, <2>4, <2>5, <2>6, <2>7, <2>8 DEF EnvironmentStep
<1>11. CASE UNCHANGED vars
  BY <1>11 DEF vars
<1> QED
  BY <1>1, <1>2, <1>3, <1>4, <1>5, <1>6, <1>7, <1>8, <1>9, <1>10,
      <1>11 DEF Next, RunnerStep, Returned

\* The parts that say where the runner may be: each follows from the program counter
\* before and after the step.
LEMMA ControlPreserved ==
    ASSUME TypeInv, ControlInv, [Next]_vars PROVE ControlInv'
<1>a. completed_tool_round_trips \in Nat /\ ToolRoundTripMaximum \in Nat
  BY StreamRunAssumption DEF TypeInv, TypeOK
<1> USE DEF ControlInv, SuppressedOnlyWaiting, OnOperator, PauseIsOver, HaltIsFinal,
      EndIsFinal, StopsWithheld, LimitObserved, TokenLimitReached,
      HarnessGone
<1>1. CASE Starting
  BY <1>1 DEF Starting, OpenLiveFiles, LaunchHarness
<1>2. CASE Draining
  BY <1>2 DEF Draining, ReadNewControlIntents, ApplyPause, ApplyResume,
      ApplySendCommand, ApplyPermissionDecision, ApplyEndAndReturn,
      PostAbortReadEnds, ApplyIntent, NextIntent, AfterOperatorEnd
<1>3. CASE Waiting
  BY <1>3 DEF Waiting, ProceedWithLine, EnterPause, PollWhilePaused,
      HoldForDecision, AnswerWithDecision, DenyOnDeadline,
      PollForDecision, Release, AfterDrain, BatchApplied, Jump,
      Respond, AfterRelease
<1>4. CASE Handling
  BY <1>4 DEF Handling, DeadlineBreak, RecordProtocolLine,
      SurfacePermissionRequest, AppendChunkToLiveLog, Jump, Dispatch,
      RecordChunk, ChunksOf, CarriesUsage, IsResult
<1>5. CASE Deciding
  BY <1>a, <1>5 DEF Deciding, HaltOnTokenLimit, Terminate, Halted, ReadOn, EndTurn,
      WithholdStop, RoundTripMaximumReached, ServeToolCalls, MustHalt,
      Jump
<1>6. CASE Finishing
  BY <1>6 DEF Finishing, EndOfStream, FinishRun, CloseLiveLog, HarnessExited,
      ReapTimeout, Escalate, Terminate, Reaped, ReturnResult, Jump, Outcome
<1>7. CASE ReceiveStep
  BY <1>7 DEF ReceiveStep, ReceiveLine, TakeLine, PostAbortRead, ReceiveEmptyLine,
      RecordChunk, ChunksOf, CarriesUsage, IsResult
<1>8. CASE IdleWatchdogStep
  BY <1>8 DEF IdleWatchdogStep, IdleWake, IdleLook, IdleMeasure,
      IdleKillDecided, IdleStrike, IdleEscalate, Terminate, IdleStep
<1>9. CASE KeepAliveWatchdogStep
  BY <1>9 DEF KeepAliveWatchdogStep, KeepAliveWake, KeepAliveLook,
      KeepAliveKillDecided, KeepAliveStrike, KeepAliveStep
<1>10. CASE EnvironmentStep
  BY <1>10 DEF EnvironmentStep, HarnessExits, HarnessClosesStdout, HarnessForks,
      ChildrenLetGo, ChildrenExit, ChildrenBecome,
      OperatorWrites, Heartbeat, HeartbeatAges, IdleBudgetElapses,
      DeadlineElapses
<1>11. CASE UNCHANGED vars
  BY <1>11 DEF vars
<1> QED
  BY <1>1, <1>2, <1>3, <1>4, <1>5, <1>6, <1>7, <1>8, <1>9, <1>10,
      <1>11 DEF Next, RunnerStep, Returned

\* Requests and responses advance in lockstep: only SurfacePermissionRequest adds a
\* request and only Respond an answer.
LEMMA RequestPreserved ==
    ASSUME TypeInv, ControlInv, RequestInHand, [Next]_vars PROVE RequestInHand'
<1>a. /\ permission_requests \in Seq(Nat) /\ raw_line.number \in Nat
      /\ control_responses \in Seq(ControlResponses)
  BY DEF TypeInv, TypeOK
<1> USE <1>a DEF ControlInv, EndIsFinal, RequestInHand, Surfaced
<1>1. CASE Starting
  BY <1>1 DEF Starting, OpenLiveFiles, LaunchHarness
<1>2. CASE Draining
  BY <1>2 DEF Draining, ReadNewControlIntents, ApplyPause, ApplyResume,
      ApplySendCommand, ApplyPermissionDecision, ApplyEndAndReturn,
      PostAbortReadEnds, ApplyIntent, NextIntent, AfterOperatorEnd
<1>3. CASE Waiting
  <2>1. CASE AnswerWithDecision
    <3>1. PICK response :
            /\ response.request = raw_line.number
            /\ control_responses' = Append(control_responses, response)
      BY <2>1 DEF AnswerWithDecision, Respond
    <3>2. /\ pc = "apply" /\ drain_from = "permission" /\ pc' = "release"
          /\ permission_requests' = permission_requests
      BY <2>1 DEF AnswerWithDecision, Respond
    <3> QED
      BY <3>1, <3>2
  <2>2. CASE DenyOnDeadline
    BY <2>2 DEF DenyOnDeadline, Respond, BatchApplied, ControlResponses
  <2> QED
    BY <1>3, <2>1, <2>2 DEF Waiting, ProceedWithLine, EnterPause, PollWhilePaused,
      HoldForDecision, PollForDecision, Release, AfterDrain,
      BatchApplied, Jump, AfterRelease
<1>4. CASE Handling
  <2>1. CASE SurfacePermissionRequest
    <3>1. /\ permission_requests' = Append(permission_requests, raw_line.number)
          /\ control_responses' = control_responses
          /\ raw_line' = raw_line /\ pc' = "hold"
          /\ Len(permission_requests) = Len(control_responses)
      BY <2>1 DEF SurfacePermissionRequest, Dispatch
    <3> QED
      BY <3>1
  <2> QED
    BY <1>4, <2>1 DEF Handling, DeadlineBreak, RecordProtocolLine,
      AppendChunkToLiveLog, Jump, Dispatch, RecordChunk, ChunksOf, CarriesUsage,
      IsResult
<1>5. CASE Deciding
  BY <1>5 DEF Deciding, HaltOnTokenLimit, Terminate, Halted, ReadOn, EndTurn,
      WithholdStop, RoundTripMaximumReached, ServeToolCalls, MustHalt,
      Jump
<1>6. CASE Finishing
  BY <1>6 DEF Finishing, EndOfStream, FinishRun, CloseLiveLog, HarnessExited,
      ReapTimeout, Escalate, Terminate, Reaped, ReturnResult, Jump, Outcome
<1>7. CASE ReceiveStep
  BY <1>7 DEF ReceiveStep, ReceiveLine, TakeLine, PostAbortRead, ReceiveEmptyLine,
      RecordChunk, ChunksOf, CarriesUsage, IsResult
<1>8. CASE IdleWatchdogStep
  BY <1>8 DEF IdleWatchdogStep, IdleWake, IdleLook, IdleMeasure,
      IdleKillDecided, IdleStrike, IdleEscalate, Terminate, IdleStep
<1>9. CASE KeepAliveWatchdogStep
  BY <1>9 DEF KeepAliveWatchdogStep, KeepAliveWake, KeepAliveLook,
      KeepAliveKillDecided, KeepAliveStrike, KeepAliveStep
<1>10. CASE EnvironmentStep
  BY <1>10 DEF EnvironmentStep, HarnessExits, HarnessClosesStdout, HarnessForks,
      ChildrenLetGo, ChildrenExit, ChildrenBecome,
      OperatorWrites, Heartbeat, HeartbeatAges, IdleBudgetElapses,
      DeadlineElapses
<1>11. CASE UNCHANGED vars
  BY <1>11 DEF vars
<1> QED
  BY <1>1, <1>2, <1>3, <1>4, <1>5, <1>6, <1>7, <1>8, <1>9, <1>10,
      <1>11 DEF Next, RunnerStep, Returned

\* The live log: a dispatched line fills the only gap of the log.
LEMMA LinePreserved ==
    ASSUME TypeInv, ControlInv, LineInHand, [Next]_vars PROVE LineInHand'
<1>a. /\ lines_read \in Nat /\ raw_line.number \in Nat
      /\ drain_from \in {"line", "paused", "permission"}
  BY DEF TypeInv, TypeOK
<1>b. UNCHANGED streamVars =>
        (LogInOrder' <=> LogInOrder) /\ (LogComplete' <=> LogComplete)
  BY DEF LogInOrder, LogComplete, Recordable
<1>c. ASSUME pc = "dispatch",
             logged' = logged \cup ChunksOf(raw_line.number, raw_line.kind),
             UNCHANGED <<raw_line, lines_read, silent_lines>>
      PROVE  LogInOrder' /\ LogComplete'
  <2>1. raw_line.number \in 1 .. lines_read
    BY <1>a, <1>c DEF LineInHand, LineWaits, LogInOrder
  <2>2. Recordable' = Recordable
    BY <1>c DEF Recordable
  <2>3. logged' = Recordable
    <3>1. CASE raw_line.kind = "silent"
      <4>1. raw_line.number \notin Recordable
        BY <3>1 DEF LineInHand, LogInOrder, Recordable
      <4>2. logged' = logged
        BY <1>c, <3>1 DEF ChunksOf
      <4> QED
        BY <4>1, <4>2 DEF LineInHand, LogInOrder
    <3>2. CASE raw_line.kind # "silent"
      <4>1. raw_line.number \in Recordable
        BY <2>1, <3>2 DEF LineInHand, LogInOrder, Recordable
      <4>2. logged' = logged \cup {raw_line.number}
        BY <1>c, <3>2 DEF ChunksOf
      <4> QED
        BY <4>1, <4>2 DEF LineInHand, LogInOrder
    <3> QED
      BY <3>1, <3>2
  <2>4. LogComplete'
    BY <2>2, <2>3 DEF LogComplete
  <2>5. LogInOrder'
    BY <1>c, <2>2, <2>3 DEF LineInHand, LogInOrder
  <2> QED
    BY <2>4, <2>5
<1> USE <1>b DEF ControlInv, EndIsFinal, HaltIsFinal, LineInHand, LineWaits
<1>1. CASE Starting
  BY <1>1 DEF Starting, OpenLiveFiles, LaunchHarness
<1>2. CASE Draining
  BY <1>2 DEF Draining, ReadNewControlIntents, ApplyPause, ApplyResume,
      ApplySendCommand, ApplyPermissionDecision, ApplyEndAndReturn,
      PostAbortReadEnds, ApplyIntent, NextIntent, AfterOperatorEnd
<1>3. CASE Waiting
  BY <1>a, <1>3 DEF Waiting, ProceedWithLine, EnterPause, PollWhilePaused,
      HoldForDecision, AnswerWithDecision, DenyOnDeadline,
      PollForDecision, Release, AfterDrain, BatchApplied, Jump,
      Respond, AfterRelease
<1>4. CASE Handling
  <2>1. CASE RecordProtocolLine
    <3>1. /\ logged' = logged \cup ChunksOf(raw_line.number, raw_line.kind)
          /\ pc = "dispatch" /\ UNCHANGED <<raw_line, lines_read, silent_lines>>
      BY <2>1 DEF RecordProtocolLine, Dispatch, ChunksOf
    <3>2. LogInOrder' /\ LogComplete'
      BY <1>c, <3>1
    <3> QED
      BY <2>1, <3>2 DEF RecordProtocolLine, Dispatch
  <2>2. CASE SurfacePermissionRequest
    <3>1. /\ logged' = logged \cup ChunksOf(raw_line.number, raw_line.kind)
          /\ pc = "dispatch" /\ UNCHANGED <<raw_line, lines_read, silent_lines>>
      BY <2>2 DEF SurfacePermissionRequest, Dispatch, ChunksOf
    <3>2. LogInOrder' /\ LogComplete'
      BY <1>c, <3>1
    <3> QED
      BY <2>2, <3>2 DEF SurfacePermissionRequest, Dispatch
  <2>3. CASE AppendChunkToLiveLog
    <3>1. /\ logged' = logged \cup ChunksOf(raw_line.number, raw_line.kind)
          /\ pc = "dispatch" /\ UNCHANGED <<raw_line, lines_read, silent_lines>>
      BY <2>3 DEF AppendChunkToLiveLog, Dispatch, RecordChunk
    <3>2. LogInOrder' /\ LogComplete'
      BY <1>c, <3>1
    <3> QED
      BY <2>3, <3>2 DEF AppendChunkToLiveLog, Dispatch
  <2> QED
    BY <1>4, <2>1, <2>2, <2>3 DEF Handling, DeadlineBreak, Jump
<1>5. CASE Deciding
  BY <1>5 DEF Deciding, HaltOnTokenLimit, Terminate, Halted, ReadOn, EndTurn,
      WithholdStop, RoundTripMaximumReached, ServeToolCalls, MustHalt,
      Jump
<1>6. CASE Finishing
  BY <1>6 DEF Finishing, EndOfStream, FinishRun, CloseLiveLog, HarnessExited,
      ReapTimeout, Escalate, Terminate, Reaped, ReturnResult, Jump, Outcome
<1>7. CASE ReceiveStep
  <2>1. CASE \E kind \in workload.line_kinds : ReceiveLine(kind)
    <3>a. PICK kind \in workload.line_kinds : ReceiveLine(kind)
      BY <2>1
    <3>1. /\ logged = Recordable /\ silent_lines \subseteq 1 .. lines_read
          /\ logged' = logged /\ lines_read' = lines_read + 1
          /\ raw_line'.number = lines_read + 1 /\ raw_line'.kind = kind
          /\ silent_lines' = silent_lines \cup
                (IF kind = "silent" THEN {lines_read + 1} ELSE {})
      BY <3>a DEF ReceiveLine, TakeLine, LogComplete, LogInOrder
    <3>2. LogInOrder'
      BY <1>a, <3>1 DEF LogInOrder, Recordable
    <3> QED
      BY <1>a, <3>a, <3>1, <3>2 DEF ReceiveLine
  <2>2. CASE \E kind \in workload.line_kinds : PostAbortRead(kind)
    <3>a. PICK kind \in workload.line_kinds : PostAbortRead(kind)
      BY <2>2
    <3>1. /\ raw_line' = raw_line /\ lines_read' = lines_read + 1
          /\ logged' = logged \cup (IF kind = "silent" THEN {} ELSE {lines_read + 1})
          /\ silent_lines' = silent_lines \cup
                (IF kind = "silent" THEN {lines_read + 1} ELSE {})
      BY <3>a DEF PostAbortRead, TakeLine, RecordChunk, ChunksOf
    <3>2. Recordable' = Recordable \cup (IF kind = "silent" THEN {} ELSE {lines_read + 1})
      BY <1>a, <3>1 DEF Recordable, LogInOrder
    <3>3. LogInOrder'
      BY <1>a, <3>1, <3>2 DEF LogInOrder
    <3>4. LogComplete => LogComplete'
      BY <3>1, <3>2 DEF LogComplete
    <3> QED
      BY <3>a, <3>3, <3>4 DEF PostAbortRead
  <2> QED
    BY <1>7, <2>1, <2>2 DEF ReceiveStep, ReceiveEmptyLine
<1>8. CASE IdleWatchdogStep
  BY <1>8 DEF IdleWatchdogStep, IdleWake, IdleLook, IdleMeasure,
      IdleKillDecided, IdleStrike, IdleEscalate, Terminate, IdleStep
<1>9. CASE KeepAliveWatchdogStep
  BY <1>9 DEF KeepAliveWatchdogStep, KeepAliveWake, KeepAliveLook,
      KeepAliveKillDecided, KeepAliveStrike, KeepAliveStep
<1>10. CASE EnvironmentStep
  BY <1>10 DEF EnvironmentStep, HarnessExits, HarnessClosesStdout, HarnessForks,
      ChildrenLetGo, ChildrenExit, ChildrenBecome,
      OperatorWrites, Heartbeat, HeartbeatAges, IdleBudgetElapses,
      DeadlineElapses
<1>11. CASE UNCHANGED vars
  BY <1>11 DEF vars
<1> QED
  BY <1>1, <1>2, <1>3, <1>4, <1>5, <1>6, <1>7, <1>8, <1>9, <1>10,
      <1>11 DEF Next, RunnerStep, Returned

\* The pending decision: HoldForDecision forgets what was drained before it.
LEMMA DecisionPreserved ==
    ASSUME TypeInv, ControlInv, DecidedDuringHold, [Next]_vars
    PROVE  DecidedDuringHold'
<1>a. /\ consumed_control_lines \in Nat /\ applied_control_lines \in Nat
      /\ hold_start \in Nat /\ pending_permission_decision \in Nat
      /\ Len(control_channel) \in Nat
  BY DEF TypeInv, TypeOK
<1> USE <1>a DEF TypeInv, ChannelInOrder, ControlInv, EndIsFinal, DecidedDuringHold,
      Surfaced
<1>1. CASE Starting
  BY <1>1 DEF Starting, OpenLiveFiles, LaunchHarness
<1>2. CASE Draining
  BY <1>2 DEF Draining, ReadNewControlIntents, ApplyPause, ApplyResume,
      ApplySendCommand, ApplyPermissionDecision, ApplyEndAndReturn,
      PostAbortReadEnds, ApplyIntent, NextIntent, AfterOperatorEnd
<1>3. CASE Waiting
  BY <1>3 DEF Waiting, ProceedWithLine, EnterPause, PollWhilePaused,
      HoldForDecision, AnswerWithDecision, DenyOnDeadline,
      PollForDecision, Release, AfterDrain, BatchApplied, Jump,
      Respond, AfterRelease
<1>4. CASE Handling
  BY <1>4 DEF Handling, DeadlineBreak, RecordProtocolLine,
      SurfacePermissionRequest, AppendChunkToLiveLog, Jump, Dispatch,
      RecordChunk, ChunksOf, CarriesUsage, IsResult
<1>5. CASE Deciding
  BY <1>5 DEF Deciding, HaltOnTokenLimit, Terminate, Halted, ReadOn, EndTurn,
      WithholdStop, RoundTripMaximumReached, ServeToolCalls, MustHalt,
      Jump
<1>6. CASE Finishing
  BY <1>6 DEF Finishing, EndOfStream, FinishRun, CloseLiveLog, HarnessExited,
      ReapTimeout, Escalate, Terminate, Reaped, ReturnResult, Jump, Outcome
<1>7. CASE ReceiveStep
  BY <1>7 DEF ReceiveStep, ReceiveLine, TakeLine, PostAbortRead, ReceiveEmptyLine,
      RecordChunk, ChunksOf, CarriesUsage, IsResult
<1>8. CASE IdleWatchdogStep
  BY <1>8 DEF IdleWatchdogStep, IdleWake, IdleLook, IdleMeasure,
      IdleKillDecided, IdleStrike, IdleEscalate, Terminate, IdleStep
<1>9. CASE KeepAliveWatchdogStep
  BY <1>9 DEF KeepAliveWatchdogStep, KeepAliveWake, KeepAliveLook,
      KeepAliveKillDecided, KeepAliveStrike, KeepAliveStep
<1>10. CASE EnvironmentStep
  BY <1>10 DEF EnvironmentStep, HarnessExits, HarnessClosesStdout, HarnessForks,
      ChildrenLetGo, ChildrenExit, ChildrenBecome,
      OperatorWrites, Heartbeat, HeartbeatAges, IdleBudgetElapses,
      DeadlineElapses
<1>11. CASE UNCHANGED vars
  BY <1>11 DEF vars
<1> QED
  BY <1>1, <1>2, <1>3, <1>4, <1>5, <1>6, <1>7, <1>8, <1>9, <1>10,
      <1>11 DEF Next, RunnerStep, Returned

\* The channel: OpenLiveFiles empties it, later lines are written for this run.
LEMMA ChannelPreserved ==
    ASSUME TypeInv, ControlInv, ThisRunsChannel, [Next]_vars PROVE ThisRunsChannel'
<1>a. /\ consumed_control_lines \in Nat /\ applied_control_lines \in Nat
      /\ control_channel \in Seq(ControlLines) /\ Len(control_channel) \in Nat
  BY DEF TypeInv, TypeOK
<1> USE <1>a DEF TypeInv, ChannelInOrder, ControlInv, EndIsFinal, ThisRunsChannel,
      OperatorEndedByThisRunsIntent
<1>1. CASE Starting
  BY <1>1 DEF Starting, OpenLiveFiles, LaunchHarness
<1>2. CASE Draining
  <2>1. CASE ApplyEndAndReturn
    BY <2>1 DEF ApplyEndAndReturn, ApplyIntent, AfterOperatorEnd, NextIntent
  <2>2. CASE PostAbortReadEnds
    BY <2>2 DEF PostAbortReadEnds, AfterOperatorEnd
  <2> QED
    BY <1>2, <2>1, <2>2 DEF Draining, ReadNewControlIntents, ApplyPause, ApplyResume,
      ApplySendCommand, ApplyPermissionDecision, ApplyIntent,
      NextIntent
<1>3. CASE Waiting
  BY <1>3 DEF Waiting, ProceedWithLine, EnterPause, PollWhilePaused,
      HoldForDecision, AnswerWithDecision, DenyOnDeadline,
      PollForDecision, Release, AfterDrain, BatchApplied, Jump,
      Respond, AfterRelease
<1>4. CASE Handling
  BY <1>4 DEF Handling, DeadlineBreak, RecordProtocolLine,
      SurfacePermissionRequest, AppendChunkToLiveLog, Jump, Dispatch,
      RecordChunk, ChunksOf, CarriesUsage, IsResult
<1>5. CASE Deciding
  BY <1>5 DEF Deciding, HaltOnTokenLimit, Terminate, Halted, ReadOn, EndTurn,
      WithholdStop, RoundTripMaximumReached, ServeToolCalls, MustHalt,
      Jump
<1>6. CASE Finishing
  BY <1>6 DEF Finishing, EndOfStream, FinishRun, CloseLiveLog, HarnessExited,
      ReapTimeout, Escalate, Terminate, Reaped, ReturnResult, Jump, Outcome
<1>7. CASE ReceiveStep
  BY <1>7 DEF ReceiveStep, ReceiveLine, TakeLine, PostAbortRead, ReceiveEmptyLine,
      RecordChunk, ChunksOf, CarriesUsage, IsResult
<1>8. CASE IdleWatchdogStep
  BY <1>8 DEF IdleWatchdogStep, IdleWake, IdleLook, IdleMeasure,
      IdleKillDecided, IdleStrike, IdleEscalate, Terminate, IdleStep
<1>9. CASE KeepAliveWatchdogStep
  BY <1>9 DEF KeepAliveWatchdogStep, KeepAliveWake, KeepAliveLook,
      KeepAliveKillDecided, KeepAliveStrike, KeepAliveStep
<1>10. CASE EnvironmentStep
  <2>1. CASE \E intent \in workload.intents : OperatorWrites(intent)
    <3>1. PICK intent \in workload.intents : OperatorWrites(intent)
      BY <2>1
    <3>2. PICK line \in WritableLines(intent) :
            control_channel' = Append(control_channel, line)
      BY <3>1 DEF OperatorWrites
    <3>3. line \in ControlLines /\ (pc # "start" => line.run = "this")
      BY <3>2, WritableLinesTyped
    <3> QED
      BY <3>1, <3>2, <3>3 DEF OperatorWrites
  <2> QED
    BY <1>10, <2>1 DEF EnvironmentStep, HarnessExits, HarnessClosesStdout, HarnessForks,
      ChildrenLetGo, ChildrenExit, ChildrenBecome, Heartbeat,
      HeartbeatAges, IdleBudgetElapses, DeadlineElapses
<1>11. CASE UNCHANGED vars
  BY <1>11 DEF vars
<1> QED
  BY <1>1, <1>2, <1>3, <1>4, <1>5, <1>6, <1>7, <1>8, <1>9, <1>10,
      <1>11 DEF Next, RunnerStep, Returned

\* The sidecar and the result: each killing thread raises its flag before it writes
\* the sidecar.
LEMMA StatusPreserved ==
    ASSUME TypeInv, ControlInv, StatusExplained, OutcomeExplained, [Next]_vars
    PROVE  StatusExplained' /\ OutcomeExplained'
<1> USE DEF ControlInv, EndIsFinal, HaltIsFinal, PauseIsOver, StatusExplained,
      OutcomeExplained, Surfaced
<1>1. CASE Starting
  BY <1>1 DEF Starting, OpenLiveFiles, LaunchHarness
<1>2. CASE Draining
  BY <1>2 DEF Draining, ReadNewControlIntents, ApplyPause, ApplyResume,
      ApplySendCommand, ApplyPermissionDecision, ApplyEndAndReturn,
      PostAbortReadEnds, ApplyIntent, NextIntent, AfterOperatorEnd
<1>3. CASE Waiting
  BY <1>3 DEF Waiting, ProceedWithLine, EnterPause, PollWhilePaused,
      HoldForDecision, AnswerWithDecision, DenyOnDeadline,
      PollForDecision, Release, AfterDrain, BatchApplied, Jump,
      Respond, AfterRelease
<1>4. CASE Handling
  BY <1>4 DEF Handling, DeadlineBreak, RecordProtocolLine,
      SurfacePermissionRequest, AppendChunkToLiveLog, Jump, Dispatch,
      RecordChunk, ChunksOf, CarriesUsage, IsResult
<1>5. CASE Deciding
  BY <1>5 DEF Deciding, HaltOnTokenLimit, Terminate, Halted, ReadOn, EndTurn,
      WithholdStop, RoundTripMaximumReached, ServeToolCalls, MustHalt,
      Jump
<1>6. CASE Finishing
  <2>1. CASE CloseLiveLog
    BY <2>1 DEF CloseLiveLog, Terminate
  <2>2. CASE ReturnResult
    BY <2>2 DEF ReturnResult, Outcome
  <2> QED
    BY <1>6, <2>1, <2>2 DEF Finishing, EndOfStream, FinishRun,
      HarnessExited, ReapTimeout, Escalate, Terminate, Reaped, Jump
<1>7. CASE ReceiveStep
  BY <1>7 DEF ReceiveStep, ReceiveLine, TakeLine, PostAbortRead, ReceiveEmptyLine,
      RecordChunk, ChunksOf, CarriesUsage, IsResult
<1>8. CASE IdleWatchdogStep
  <2>1. CASE IdleWake
    BY <2>1 DEF IdleWake, IdleStep
  <2>2. CASE IdleLook
    BY <2>2 DEF IdleLook, IdleStep
  <2>3. CASE IdleMeasure
    BY <2>3 DEF IdleMeasure, IdleStep
  <2>4. CASE IdleKillDecided
    BY <2>4 DEF IdleKillDecided, IdleStep
  <2>5. CASE IdleStrike
    BY <2>5 DEF IdleStrike, Terminate, IdleStep
  <2>6. CASE IdleEscalate
    BY <2>6 DEF IdleEscalate, IdleStep
  <2> QED
    BY <1>8, <2>1, <2>2, <2>3, <2>4, <2>5, <2>6 DEF IdleWatchdogStep
<1>9. CASE KeepAliveWatchdogStep
  <2>1. CASE KeepAliveWake
    BY <2>1 DEF KeepAliveWake, KeepAliveStep
  <2>2. CASE KeepAliveLook
    BY <2>2 DEF KeepAliveLook, KeepAliveStep
  <2>3. CASE KeepAliveKillDecided
    BY <2>3 DEF KeepAliveKillDecided, KeepAliveStep
  <2>4. CASE KeepAliveStrike
    BY <2>4 DEF KeepAliveStrike, KeepAliveStep
  <2> QED
    BY <1>9, <2>1, <2>2, <2>3, <2>4 DEF KeepAliveWatchdogStep
<1>10. CASE EnvironmentStep
  BY <1>10 DEF EnvironmentStep, HarnessExits, HarnessClosesStdout, HarnessForks,
      ChildrenLetGo, ChildrenExit, ChildrenBecome,
      OperatorWrites, Heartbeat, HeartbeatAges, IdleBudgetElapses,
      DeadlineElapses
<1>11. CASE UNCHANGED vars
  BY <1>11 DEF vars
<1> QED
  BY <1>1, <1>2, <1>3, <1>4, <1>5, <1>6, <1>7, <1>8, <1>9, <1>10,
      <1>11 DEF Next, RunnerStep, Returned

------------------------------------------------------------------------------
(* The theorems.                                                             *)

\* A run starts with the channel unread, nothing in hand and nobody to reap.
LEMMA InitIInv == Init => IInv
<1> SUFFICES ASSUME Init PROVE IInv
  OBVIOUS
<1>1. TypeOK
  <2>1. control_channel \in Seq(ControlLines)
    <3>1. StaleEnd \in ControlLines
      BY DEF StaleEnd, ControlLines, AllIntents
    <3>2. <<>> \in Seq(ControlLines) /\ <<StaleEnd>> \in Seq(ControlLines)
      BY <3>1
    <3> QED
      BY <3>2 DEF Init
  <2>2. /\ permission_requests \in Seq(Nat)
        /\ control_responses \in Seq(ControlResponses)
        /\ logged \in SUBSET Nat /\ silent_lines \in SUBSET Nat
        /\ notes \in SUBSET Notes
    BY DEF Init
  <2>3. raw_line \in [number : Nat, kind : AllLineKinds \cup {"none"}]
    BY DEF Init, NoLine
  <2> QED
    BY <2>1, <2>2, <2>3 DEF Init, TypeOK
<1>2. ChannelInOrder
  BY DEF Init, ChannelInOrder, StaleEnd
<1>3. ControlInv
  BY StreamRunAssumption DEF Init, ControlInv, SuppressedOnlyWaiting, PauseIsOver,
      HaltIsFinal, EndIsFinal, StopsWithheld, LimitObserved, TokenLimitReached,
      HarnessGone
<1>4. RequestInHand
  BY DEF Init, RequestInHand, Surfaced
<1>5. LineInHand
  BY DEF Init, LineInHand, LogInOrder, LogComplete, LineWaits, Recordable, NoLine
<1>6. DecidedDuringHold /\ ThisRunsChannel
  BY DEF Init, DecidedDuringHold, Surfaced, ThisRunsChannel,
      OperatorEndedByThisRunsIntent
<1>7. StatusExplained /\ OutcomeExplained
  BY DEF Init, StatusExplained, OutcomeExplained
<1> QED
  BY <1>1, <1>2, <1>3, <1>4, <1>5, <1>6, <1>7 DEF IInv, TypeInv

\* No step of any thread, of the harness, the operator or the clock breaks IInv.
LEMMA NextIInv == IInv /\ [Next]_vars => IInv'
BY TypesPreserved, ControlPreserved, RequestPreserved, LinePreserved,
   DecisionPreserved, ChannelPreserved, StatusPreserved DEF IInv

\* IInv is an invariant; the theorems below are its consequences.
THEOREM InductiveInvariant == Spec => []IInv
BY InitIInv, NextIInv, PTL DEF Spec

\* Every variable has its type in every reachable state.
THEOREM TypeCorrect == Spec => []TypeOK
<1>1. IInv => TypeOK
  BY DEF IInv, TypeInv
<1> QED
  BY <1>1, InductiveInvariant, PTL

\* Of the lines read from the pipe the live log holds exactly those the normalizer made
\* a chunk of, the one in hand apart, and a run returns without that one only when the
\* operator or the deadline ended it.
THEOREM LinesKept == Spec => []OnlyTheLineInHandIsLost
<1>1. IInv => OnlyTheLineInHandIsLost
  BY DEF IInv, LineInHand, LogInOrder, LogComplete, LineWaits, OnlyTheLineInHandIsLost
<1> QED
  BY <1>1, InductiveInvariant, PTL

\* An operator-ended run was ended by an intent written since its channel was emptied.
THEOREM EndedByThisRun == Spec => []OperatorEndedByThisRunsIntent
<1>1. IInv => OperatorEndedByThisRunsIntent
  BY DEF IInv, ThisRunsChannel
<1> QED
  BY <1>1, InductiveInvariant, PTL

\* idleness_suppressed never outlives the pause or the hold that set it.
THEOREM Armed == Spec => []WatchdogArmed
<1>1. IInv => WatchdogArmed
  BY DEF IInv, ControlInv, SuppressedOnlyWaiting, OnOperator, WatchdogArmed
<1> QED
  BY <1>1, InductiveInvariant, PTL

\* Each permission request is answered once, in order, under its own request_id.
THEOREM AnsweredInOrder == Spec => []RequestsAnsweredInOrder
<1>1. IInv => RequestsAnsweredInOrder
  BY DEF IInv, TypeInv, TypeOK, RequestInHand, Surfaced, RequestsAnsweredInOrder
<1> QED
  BY <1>1, InductiveInvariant, PTL

\* The run_state of the result is an outcome backed by the flag of that outcome.
THEOREM Explained == Spec => []OutcomeExplained
<1>1. IInv => OutcomeExplained
  BY DEF IInv
<1> QED
  BY <1>1, InductiveInvariant, PTL

\* The tool loop withholds at most TOOL_ROUND_TRIP_MAXIMUM stops.
THEOREM WithheldBoundedly == Spec => []StopsAreWithheldBoundedly
<1>1. IInv => StopsAreWithheldBoundedly
  BY DEF IInv, ControlInv, StopsWithheld, StopsAreWithheldBoundedly
<1> QED
  BY <1>1, InductiveInvariant, PTL

\* The line that reaches task_token_limit is the last one read before a tool call.
THEOREM LimitStops == Spec => []LimitStopsReading
<1>1. IInv => LimitStopsReading
  BY DEF IInv, TypeInv, TypeOK, ControlInv, LimitObserved, LimitStopsReading
<1> QED
  BY <1>1, InductiveInvariant, PTL

\* A paused run logs no line and serves no tool call.
THEOREM PauseHolds == Spec => PauseHoldsTheStream
<1>1. ASSUME IInv, [Next]_vars, paused, pc # "post_abort"
      PROVE  /\ logged' = logged
             /\ completed_tool_round_trips' = completed_tool_round_trips
  <2> USE <1>1 DEF IInv, ControlInv, PauseIsOver
  <2>1. CASE Starting
    BY <2>1 DEF Starting, OpenLiveFiles, LaunchHarness
  <2>2. CASE Draining
    BY <2>2 DEF Draining, ReadNewControlIntents, ApplyPause, ApplyResume,
      ApplySendCommand, ApplyPermissionDecision, ApplyEndAndReturn,
      PostAbortReadEnds, ApplyIntent, NextIntent, AfterOperatorEnd
  <2>3. CASE Waiting
    BY <2>3 DEF Waiting, ProceedWithLine, EnterPause, PollWhilePaused,
      HoldForDecision, AnswerWithDecision, DenyOnDeadline,
      PollForDecision, Release, AfterDrain, BatchApplied, Jump,
      Respond, AfterRelease
  <2>4. CASE Handling
    BY <2>4 DEF Handling, DeadlineBreak, RecordProtocolLine,
      SurfacePermissionRequest, AppendChunkToLiveLog, Jump, Dispatch,
      RecordChunk, ChunksOf, CarriesUsage, IsResult
  <2>5. CASE Deciding
    BY <2>5 DEF Deciding, HaltOnTokenLimit, Terminate, Halted, ReadOn, EndTurn,
      WithholdStop, RoundTripMaximumReached, ServeToolCalls, MustHalt,
      Jump
  <2>6. CASE Finishing
    BY <2>6 DEF Finishing, EndOfStream, FinishRun, CloseLiveLog, HarnessExited,
      ReapTimeout, Escalate, Terminate, Reaped, ReturnResult, Jump, Outcome
  <2>7. CASE ReceiveStep
    BY <2>7 DEF ReceiveStep, ReceiveLine, TakeLine, PostAbortRead, ReceiveEmptyLine,
      RecordChunk, ChunksOf, CarriesUsage, IsResult
  <2>8. CASE IdleWatchdogStep
    BY <2>8 DEF IdleWatchdogStep, IdleWake, IdleLook, IdleMeasure,
      IdleKillDecided, IdleStrike, IdleEscalate, Terminate, IdleStep
  <2>9. CASE KeepAliveWatchdogStep
    BY <2>9 DEF KeepAliveWatchdogStep, KeepAliveWake, KeepAliveLook,
      KeepAliveKillDecided, KeepAliveStrike, KeepAliveStep
  <2>10. CASE EnvironmentStep
    BY <2>10 DEF EnvironmentStep, HarnessExits, HarnessClosesStdout, HarnessForks,
      ChildrenLetGo, ChildrenExit, ChildrenBecome,
      OperatorWrites, Heartbeat, HeartbeatAges, IdleBudgetElapses,
      DeadlineElapses
  <2>11. CASE UNCHANGED vars
    BY <2>11 DEF vars
  <2> QED
    BY <2>1, <2>2, <2>3, <2>4, <2>5, <2>6, <2>7, <2>8, <2>9, <2>10, <2>11
      DEF Next, RunnerStep, Returned
<1> QED
  BY <1>1, InductiveInvariant, PTL DEF Spec, PauseHoldsTheStream

\* A run halted on its token limit reads, logs and serves nothing more.
THEOREM HaltIsTheEnd == Spec => NothingAfterHalt
<1>1. ASSUME IInv, [Next]_vars, token_limit_halted
      PROVE  UNCHANGED <<lines_read, logged, completed_tool_round_trips>>
  <2> USE <1>1 DEF IInv, ControlInv, HaltIsFinal
  <2>1. CASE Starting
    BY <2>1 DEF Starting, OpenLiveFiles, LaunchHarness
  <2>2. CASE Draining
    BY <2>2 DEF Draining, ReadNewControlIntents, ApplyPause, ApplyResume,
      ApplySendCommand, ApplyPermissionDecision, ApplyEndAndReturn,
      PostAbortReadEnds, ApplyIntent, NextIntent, AfterOperatorEnd
  <2>3. CASE Waiting
    BY <2>3 DEF Waiting, ProceedWithLine, EnterPause, PollWhilePaused,
      HoldForDecision, AnswerWithDecision, DenyOnDeadline,
      PollForDecision, Release, AfterDrain, BatchApplied, Jump,
      Respond, AfterRelease
  <2>4. CASE Handling
    BY <2>4 DEF Handling, DeadlineBreak, RecordProtocolLine,
      SurfacePermissionRequest, AppendChunkToLiveLog, Jump, Dispatch,
      RecordChunk, ChunksOf, CarriesUsage, IsResult
  <2>5. CASE Deciding
    BY <2>5 DEF Deciding, HaltOnTokenLimit, Terminate, Halted, ReadOn, EndTurn,
      WithholdStop, RoundTripMaximumReached, ServeToolCalls, MustHalt,
      Jump
  <2>6. CASE Finishing
    BY <2>6 DEF Finishing, EndOfStream, FinishRun, CloseLiveLog, HarnessExited,
      ReapTimeout, Escalate, Terminate, Reaped, ReturnResult, Jump, Outcome
  <2>7. CASE ReceiveStep
    BY <2>7 DEF ReceiveStep, ReceiveLine, TakeLine, PostAbortRead, ReceiveEmptyLine,
      RecordChunk, ChunksOf, CarriesUsage, IsResult
  <2>8. CASE IdleWatchdogStep
    BY <2>8 DEF IdleWatchdogStep, IdleWake, IdleLook, IdleMeasure,
      IdleKillDecided, IdleStrike, IdleEscalate, Terminate, IdleStep
  <2>9. CASE KeepAliveWatchdogStep
    BY <2>9 DEF KeepAliveWatchdogStep, KeepAliveWake, KeepAliveLook,
      KeepAliveKillDecided, KeepAliveStrike, KeepAliveStep
  <2>10. CASE EnvironmentStep
    BY <2>10 DEF EnvironmentStep, HarnessExits, HarnessClosesStdout, HarnessForks,
      ChildrenLetGo, ChildrenExit, ChildrenBecome,
      OperatorWrites, Heartbeat, HeartbeatAges, IdleBudgetElapses,
      DeadlineElapses
  <2>11. CASE UNCHANGED vars
    BY <2>11 DEF vars
  <2> QED
    BY <2>1, <2>2, <2>3, <2>4, <2>5, <2>6, <2>7, <2>8, <2>9, <2>10, <2>11
      DEF Next, RunnerStep, Returned
<1> QED
  BY <1>1, InductiveInvariant, PTL DEF Spec, NothingAfterHalt

\* A request is answered only with a decision drained while it was held.
THEOREM DecidedInTheHold == Spec => DecisionMadeDuringHold
<1>1. ASSUME IInv, [Next]_vars, NEW i \in 1 .. Len(control_responses'),
             i > Len(control_responses), control_responses'[i].decision # 0
      PROVE  control_responses'[i].decision > hold_start
  <2>a. control_responses \in Seq(ControlResponses)
    BY <1>1 DEF IInv, TypeInv, TypeOK
  <2> USE <1>1, <2>a DEF IInv, DecidedDuringHold, Surfaced
  <2>1. CASE Starting
    BY <2>1 DEF Starting, OpenLiveFiles, LaunchHarness
  <2>2. CASE Draining
    BY <2>2 DEF Draining, ReadNewControlIntents, ApplyPause, ApplyResume,
      ApplySendCommand, ApplyPermissionDecision, ApplyEndAndReturn,
      PostAbortReadEnds, ApplyIntent, NextIntent, AfterOperatorEnd
  <2>3. CASE Waiting
    <3>1. CASE AnswerWithDecision
      BY <3>1 DEF AnswerWithDecision, Respond
    <3>2. CASE DenyOnDeadline
      BY <3>2 DEF DenyOnDeadline, Respond
    <3>3. CASE UNCHANGED control_responses
      BY <3>3
    <3> QED
      BY <2>3, <3>1, <3>2, <3>3 DEF Waiting, ProceedWithLine, EnterPause,
          PollWhilePaused, HoldForDecision, PollForDecision, Release, AfterDrain, Jump
  <2>4. CASE Handling
    BY <2>4 DEF Handling, DeadlineBreak, RecordProtocolLine,
      SurfacePermissionRequest, AppendChunkToLiveLog, Jump, Dispatch,
      RecordChunk, ChunksOf, CarriesUsage, IsResult
  <2>5. CASE Deciding
    BY <2>5 DEF Deciding, HaltOnTokenLimit, Terminate, Halted, ReadOn, EndTurn,
      WithholdStop, RoundTripMaximumReached, ServeToolCalls, MustHalt,
      Jump
  <2>6. CASE Finishing
    BY <2>6 DEF Finishing, EndOfStream, FinishRun, CloseLiveLog, HarnessExited,
      ReapTimeout, Escalate, Terminate, Reaped, ReturnResult, Jump, Outcome
  <2>7. CASE ReceiveStep
    BY <2>7 DEF ReceiveStep, ReceiveLine, TakeLine, PostAbortRead, ReceiveEmptyLine,
      RecordChunk, ChunksOf, CarriesUsage, IsResult
  <2>8. CASE IdleWatchdogStep
    BY <2>8 DEF IdleWatchdogStep, IdleWake, IdleLook, IdleMeasure,
      IdleKillDecided, IdleStrike, IdleEscalate, Terminate, IdleStep
  <2>9. CASE KeepAliveWatchdogStep
    BY <2>9 DEF KeepAliveWatchdogStep, KeepAliveWake, KeepAliveLook,
      KeepAliveKillDecided, KeepAliveStrike, KeepAliveStep
  <2>10. CASE EnvironmentStep
    BY <2>10 DEF EnvironmentStep, HarnessExits, HarnessClosesStdout, HarnessForks,
      ChildrenLetGo, ChildrenExit, ChildrenBecome,
      OperatorWrites, Heartbeat, HeartbeatAges, IdleBudgetElapses,
      DeadlineElapses
  <2>11. CASE UNCHANGED vars
    BY <2>11 DEF vars
  <2> QED
    BY <2>1, <2>2, <2>3, <2>4, <2>5, <2>6, <2>7, <2>8, <2>9, <2>10, <2>11
      DEF Next, RunnerStep, Returned
<1>2. IInv /\ [Next]_vars =>
        \A i \in 1 .. Len(control_responses') :
            /\ i > Len(control_responses)
            /\ control_responses'[i].decision # 0
            => control_responses'[i].decision > hold_start
  BY <1>1
<1> QED
  BY <1>2, InductiveInvariant, PTL DEF Spec, DecisionMadeDuringHold

=============================================================================
