------------------------------ MODULE StreamRun ------------------------------
(***************************************************************************)
(* One streamed run of a harness: _stream_one_run of runner.py.            *)
(*                                                                         *)
(* Five parties act concurrently:                                          *)
(*   - the runner thread, whose program counter is pc;                     *)
(*   - the idle-kill watchdog thread and the keep-alive watchdog thread,   *)
(*     which share idle_watchdog_shared_state with the runner thread;      *)
(*   - the harness's process group at the other end of the pipes: the      *)
(*     harness itself, which leads it, and the children it starts;         *)
(*   - the operator, who appends intents to the control channel file;      *)
(*   - the orchestrator, whose heartbeats refresh the keep-alive record.   *)
(*                                                                         *)
(* Time is abstracted to facts that become true on their own: the idle     *)
(* budget is exceeded, the last heartbeat is older than its timeout, the   *)
(* overall deadline has passed, a process outlived the wait for its exit.  *)
(***************************************************************************)
EXTENDS Integers, Sequences, FiniteSets

CONSTANTS
    Workloads,             \* the requests, and what harness and operator do with them
    ToolRoundTripMaximum,  \* TOOL_ROUND_TRIP_MAXIMUM
    TaskTokenLimit         \* task_token_limit, 0 when there is none

\* A silent line is one the harness's output normalizer makes no chunk of.
AllLineKinds ==
    {"text", "usage", "result", "result_call", "permission", "protocol", "silent"}
AllIntents ==
    {"pause", "resume", "send_command", "permission_decision", "end_and_return"}

\* The switches of a request, and of its harness: whether it can abort gracefully
\* (request_abort, with a final usage to report) and whether it starts processes of its
\* own. Bounds: the non-empty lines it emits, the intents of one control channel.
AllWorkloads ==
    [permission_mode : BOOLEAN, tool_loop : BOOLEAN, idle_kill : BOOLEAN,
     keep_alive_expected : BOOLEAN, timeout : BOOLEAN,
     graceful_abort : BOOLEAN, forks_children : BOOLEAN,
     line_kinds : SUBSET AllLineKinds, max_lines : Nat,
     intents : SUBSET AllIntents, max_intents : Nat]

ASSUME StreamRunAssumption ==
    /\ Workloads \subseteq AllWorkloads
    /\ ToolRoundTripMaximum \in Nat /\ TaskTokenLimit \in Nat

VARIABLES
    workload,                    \* the workload of this run; it never changes
    pc,                          \* where the runner thread is
    drain_from,                  \* which loop drain_control_channel returns to
    raw_line,                    \* the line in hand: its number and its kind
    lines_read,                  \* non-empty lines read so far
    silent_lines,                \* the numbers of those that are silent
    result_seen,
    operator_ended,
    paused,
    pending_permission_decision, \* channel index of the decision, 0 for None
    hold_start,                  \* channel lines consumed when the hold began
    counted_tokens,
    usage_bearing_deltas_seen,
    token_limit_halted,
    completed_tool_round_trips,
    final_run_state,             \* run_state of the RunResult
    control_channel,             \* the control channel file: a sequence of intents
    consumed_control_lines,      \* lines read by read_new_control_intents
    applied_control_lines,       \* lines of the drained batch already applied
    run_status,                  \* the task_run_status.json sidecar
    logged,                      \* numbers of the lines recorded in the live log
    permission_requests,         \* line numbers of the permission_request records
    control_responses,           \* control_response messages written to stdin
    notes,                       \* kinds of runner notes in the live log
    idleness_suppressed,
    run_finished,
    idle_killed,
    keep_alive_killed,
    idle_exceeded,               \* idle_for > idle_budget, if measured now
    idle_watchdog,               \* where the idle watchdog thread is
    keep_alive_watchdog,         \* where the keep-alive watchdog thread is
    keep_alive_record,           \* "none", "fresh" or "lost": this task's record
    deadline_passed,
    harness,                     \* "none", "running", "closed" (stdout) or "dead"
    children,                    \* "none", "quiet" or "holding" (the run's pipes):
                                 \* the rest of the harness's process group
    signalled                    \* "none", "term" or "kill": what the group was sent

\* What the runner thread knows of the lines it read, of the operator's intents,
\* and what it reports.
streamVars == <<raw_line, lines_read, silent_lines, logged>>
tokenVars  == <<counted_tokens, usage_bearing_deltas_seen>>
turnVars   == <<result_seen, token_limit_halted, completed_tool_round_trips>>
lineVars   == <<streamVars, tokenVars, turnVars>>
drainVars  == <<consumed_control_lines, applied_control_lines>>
intentVars == <<operator_ended, paused>>
holdVars   == <<permission_requests, control_responses, hold_start,
                pending_permission_decision>>
operatorVars == <<drainVars, intentVars, holdVars>>
sharedVars == <<idleness_suppressed, run_finished>>
reportVars == <<run_status, notes, final_run_state>>
runnerVars == <<workload, pc, drain_from, lineVars, operatorVars, sharedVars,
                reportVars>>
\* What the other parties change.
clockVars  == <<idle_exceeded, deadline_passed, keep_alive_record>>
watchVars  == <<idle_watchdog, keep_alive_watchdog, idle_killed, keep_alive_killed>>
groupVars  == <<harness, children>>
procVars   == <<groupVars, signalled>>
envVars    == <<clockVars, watchVars, procVars, control_channel>>

vars == <<runnerVars, envVars>>

\* The runner thread moves on and changes nothing else.
Jump(from, to) ==
    /\ pc = from
    /\ pc' = to
    /\ UNCHANGED <<drain_from, lineVars, operatorVars, sharedVars, reportVars, envVars>>

NoLine == [number |-> 0, kind |-> "none"]
RunStates == {"running", "paused", "operator_ended", "awaiting_permission",
              "idle_killed", "token_limit_halted", "keep_alive_lost_killed"}
Behaviors == {"allow", "deny"}

\* A line of the control channel. request and behavior are those of a
\* permission_decision; run tells a line that was in the file before this run
\* emptied it from one written since.
ControlLines == [intent : AllIntents, request : Nat,
                 behavior : Behaviors \cup {"none"}, run : {"previous", "this"}]

\* A control_response on the harness's stdin; decision is the channel line that
\* decided it, 0 when the deadline did.
ControlResponses == [request : Nat, behavior : Behaviors, decision : Nat]

Notes == {"token_limit", "round_trip_maximum", "idle_kill", "keep_alive_lost_kill"}

TypeOK ==
    /\ workload \in Workloads
    /\ pc \in {"start", "launch", "read", "drain", "apply", "post_abort", "pause",
               "release", "dispatch", "hold", "decide", "tool", "halt",
               "finish", "notes", "wait", "reap", "outcome", "returned"}
    /\ drain_from \in {"line", "paused", "permission"}
    /\ raw_line \in [number : Nat, kind : AllLineKinds \cup {"none"}]
    /\ lines_read \in Nat /\ silent_lines \in SUBSET Nat /\ logged \in SUBSET Nat
    /\ counted_tokens \in Nat /\ usage_bearing_deltas_seen \in BOOLEAN
    /\ result_seen \in BOOLEAN /\ token_limit_halted \in BOOLEAN
    /\ completed_tool_round_trips \in Nat
    /\ consumed_control_lines \in Nat /\ applied_control_lines \in Nat
    /\ operator_ended \in BOOLEAN /\ paused \in BOOLEAN
    /\ permission_requests \in Seq(Nat) /\ hold_start \in Nat
    /\ control_responses \in Seq(ControlResponses)
    /\ pending_permission_decision \in Nat
    /\ idleness_suppressed \in BOOLEAN /\ run_finished \in BOOLEAN
    /\ idle_exceeded \in BOOLEAN /\ deadline_passed \in BOOLEAN
    /\ keep_alive_record \in {"none", "fresh", "lost"}
    /\ idle_watchdog \in {"off", "watch", "look", "measure", "kill", "strike", "wait",
                         "done"}
    /\ keep_alive_watchdog \in {"off", "watch", "look", "kill", "strike", "done"}
    /\ idle_killed \in BOOLEAN /\ keep_alive_killed \in BOOLEAN
    /\ harness \in {"none", "running", "closed", "dead"}
    /\ children \in {"none", "quiet", "holding"}
    /\ signalled \in {"none", "term", "kill"}
    /\ control_channel \in Seq(ControlLines)
    /\ run_status \in RunStates \cup {"none"} /\ notes \in SUBSET Notes
    /\ final_run_state \in RunStates \cup {"none"}

\* The file may still hold what was written for the previous run: a stale
\* end_and_return from a manual stop.
StaleEnd == [intent |-> "end_and_return", request |-> 0, behavior |-> "none",
             run |-> "previous"]

Init ==
    /\ workload \in Workloads
    /\ pc = "start" /\ drain_from = "line"
    /\ raw_line = NoLine /\ lines_read = 0 /\ silent_lines = {} /\ logged = {}
    /\ result_seen = FALSE /\ operator_ended = FALSE /\ paused = FALSE
    /\ pending_permission_decision = 0 /\ hold_start = 0
    /\ counted_tokens = 0 /\ usage_bearing_deltas_seen = FALSE
    /\ token_limit_halted = FALSE /\ completed_tool_round_trips = 0
    /\ final_run_state = "none" /\ run_status = "none"
    /\ control_channel \in {<<>>, <<StaleEnd>>}
    /\ consumed_control_lines = 0 /\ applied_control_lines = 0
    /\ permission_requests = <<>> /\ control_responses = <<>> /\ notes = {}
    /\ idleness_suppressed = FALSE /\ run_finished = FALSE
    /\ idle_killed = FALSE /\ keep_alive_killed = FALSE
    /\ idle_exceeded = FALSE /\ deadline_passed = FALSE
    /\ idle_watchdog = "off" /\ keep_alive_watchdog = "off"
    /\ keep_alive_record = "none"
    /\ harness = "none" /\ children = "none" /\ signalled = "none"

------------------------------------------------------------------------------
(* The runner thread: starting the run.                                      *)

\* Mistake: the channel of an earlier run is kept.
OpenLiveFilesKeepingChannel ==
    /\ pc = "start"
    /\ control_channel' = control_channel
    /\ pc' = "launch"
    /\ UNCHANGED <<drain_from, lineVars, operatorVars, sharedVars, clockVars,
                   watchVars, procVars, reportVars>>

\* A fresh run empties its control channel, so it starts with nothing to read.
OpenLiveFiles ==
    /\ pc = "start"
    /\ control_channel' = <<>>
    /\ pc' = "launch"
    /\ UNCHANGED <<drain_from, lineVars, operatorVars, sharedVars, clockVars,
                   watchVars, procVars, reportVars>>

\* Popen, the prompt, and the two watchdog threads.
LaunchHarness ==
    /\ pc = "launch"
    /\ run_status' = "running"
    /\ harness' = "running"
    /\ idle_watchdog' = IF workload.idle_kill THEN "watch" ELSE "off"
    /\ keep_alive_watchdog' = IF workload.keep_alive_expected THEN "watch" ELSE "off"
    /\ keep_alive_record' =
         IF workload.keep_alive_expected THEN "fresh" ELSE keep_alive_record
    /\ pc' = "read"
    /\ UNCHANGED <<drain_from, lineVars, operatorVars, sharedVars,
                   idle_exceeded, deadline_passed, idle_killed,
                   keep_alive_killed, children, signalled, control_channel, notes,
                   final_run_state>>

------------------------------------------------------------------------------
(* The runner thread: reading a line.                                        *)

\* One more non-empty line came out of the pipe.
TakeLine(kind) ==
    /\ lines_read < workload.max_lines
    /\ lines_read' = lines_read + 1
    /\ silent_lines' =
         silent_lines \cup (IF kind = "silent" THEN {lines_read + 1} ELSE {})

\* next() returns a line. After the harness died the pipe may still hold some, and
\* its children may write more.
ReceiveLine(kind) ==
    /\ pc = "read"
    /\ TakeLine(kind)
    /\ idle_exceeded' = FALSE
    /\ raw_line' = [number |-> lines_read + 1, kind |-> kind]
    /\ pc' = "drain" /\ drain_from' = "line"
    /\ UNCHANGED <<operatorVars, tokenVars, turnVars, sharedVars, watchVars,
                   procVars, reportVars, logged, deadline_passed,
                   keep_alive_record, control_channel>>

\* An empty line is activity and nothing else: the channel is not drained.
ReceiveEmptyLine ==
    /\ pc = "read"
    /\ idle_exceeded' = FALSE
    /\ UNCHANGED <<runnerVars, watchVars, procVars, deadline_passed,
                   keep_alive_record, control_channel>>

\* StopIteration: no process holds the pipe's writing end any more, no child either.
EndOfStream ==
    /\ Jump("read", "finish")
    /\ harness \in {"closed", "dead"} /\ children # "holding"

------------------------------------------------------------------------------
(* The runner thread: drain_control_channel. The batch being applied is the  *)
(* lines from applied_control_lines + 1 to consumed_control_lines.           *)

ReadNewControlIntents ==
    /\ pc = "drain"
    /\ consumed_control_lines' = Len(control_channel)
    /\ pc' = "apply"
    /\ UNCHANGED <<drain_from, lineVars, envVars, intentVars, holdVars,
                   sharedVars, reportVars, applied_control_lines>>

NextIntent == control_channel[applied_control_lines + 1]

ApplyIntent(intent) ==
    /\ pc = "apply"
    /\ applied_control_lines < consumed_control_lines
    /\ NextIntent.intent = intent
    /\ applied_control_lines' = applied_control_lines + 1
    /\ UNCHANGED <<drain_from, lineVars, envVars, sharedVars,
                   consumed_control_lines, notes, final_run_state>>

ApplyPause ==
    /\ ApplyIntent("pause")
    /\ paused' = TRUE
    /\ run_status' = "paused"
    /\ UNCHANGED <<pc, holdVars, operator_ended>>

ApplyResume ==
    /\ ApplyIntent("resume")
    /\ paused' = FALSE
    /\ run_status' = "running"
    /\ UNCHANGED <<pc, holdVars, operator_ended>>

\* The command goes down to the harness; no state of the runner records it.
ApplySendCommand ==
    /\ ApplyIntent("send_command")
    /\ UNCHANGED <<pc, intentVars, holdVars, run_status>>

ApplyPermissionDecision ==
    /\ ApplyIntent("permission_decision")
    /\ pending_permission_decision' = applied_control_lines + 1
    /\ UNCHANGED <<pc, intentVars, permission_requests, control_responses,
                   hold_start, run_status>>

\* Where the thread goes once the operator has ended the run: a pause or a
\* permission hold still lifts the suppression on its way out.
AfterOperatorEnd == IF drain_from = "line" THEN "finish" ELSE "release"

\* end_and_return: the rest of the batch is dropped. A harness with an abort hook
\* is asked to abort first, and its last output is read.
ApplyEndAndReturn ==
    /\ ApplyIntent("end_and_return")
    /\ IF workload.graceful_abort
       THEN pc' = "post_abort" /\ UNCHANGED <<operator_ended, run_status>>
       ELSE /\ operator_ended' = TRUE
            /\ run_status' = "operator_ended"
            /\ pc' = AfterOperatorEnd
    /\ UNCHANGED <<holdVars, paused>>

\* What a line's chunk does to the run's bookkeeping: it is in the live log, its usage
\* is counted (a result's only if nothing was counted before), a result is seen. A
\* silent line has no chunk.
IsResult(kind) == kind \in {"result", "result_call"}

ChunksOf(number, kind) == IF kind = "silent" THEN {} ELSE {number}

CarriesUsage(kind) == kind = "usage" \/ (IsResult(kind) /\ ~usage_bearing_deltas_seen)

\* Mistake: a result's usage is taken off the count instead of left out.
RecordChunkSubtracting(number, kind) ==
    /\ logged' = logged \cup ChunksOf(number, kind)
    /\ counted_tokens' = counted_tokens + (IF CarriesUsage(kind) THEN 1 ELSE 0)
                                      - (IF IsResult(kind) THEN 1 ELSE 0)
    /\ usage_bearing_deltas_seen' = (usage_bearing_deltas_seen \/ CarriesUsage(kind))
    /\ result_seen' = (result_seen \/ IsResult(kind))

RecordChunk(number, kind) ==
    /\ logged' = logged \cup ChunksOf(number, kind)
    /\ counted_tokens' = counted_tokens + (IF CarriesUsage(kind) THEN 1 ELSE 0)
    /\ usage_bearing_deltas_seen' = (usage_bearing_deltas_seen \/ CarriesUsage(kind))
    /\ result_seen' = (result_seen \/ IsResult(kind))

\* The bounded read after an abort: a line of the aborted turn goes through the
\* chunk pipeline whatever its kind, while the line in hand waits.
PostAbortRead(kind) ==
    /\ pc = "post_abort"
    /\ TakeLine(kind)
    /\ RecordChunk(lines_read + 1, kind)
    /\ UNCHANGED <<pc, drain_from, operatorVars, envVars, sharedVars,
                   reportVars, raw_line, token_limit_halted,
                   completed_tool_round_trips>>

\* Mistake: once the abort is read out, the line in hand is handled after all.
PostAbortReadEndsHandlingLine ==
    /\ pc = "post_abort"
    /\ operator_ended' = TRUE
    /\ run_status' = "operator_ended"
    /\ pc' = IF drain_from = "line" THEN "dispatch" ELSE "release"
    /\ UNCHANGED <<drain_from, lineVars, envVars, drainVars, holdVars,
                   sharedVars, paused, notes, final_run_state>>

\* Final usage reported, end of stream, or the read's own five seconds.
PostAbortReadEnds ==
    /\ pc = "post_abort"
    /\ operator_ended' = TRUE
    /\ run_status' = "operator_ended"
    /\ pc' = AfterOperatorEnd
    /\ UNCHANGED <<drain_from, lineVars, envVars, drainVars, holdVars,
                   sharedVars, paused, notes, final_run_state>>

BatchApplied == applied_control_lines = consumed_control_lines

AfterDrain(loop, next) ==
    Jump("apply", next) /\ BatchApplied /\ drain_from = loop

------------------------------------------------------------------------------
(* The runner thread: the pause loop.                                        *)

ProceedWithLine == AfterDrain("line", IF paused THEN "pause" ELSE "dispatch")

EnterPause ==
    /\ pc = "pause"
    /\ idleness_suppressed' = TRUE
    /\ pc' = "drain" /\ drain_from' = "paused"
    /\ UNCHANGED <<lineVars, operatorVars, envVars, reportVars, run_finished>>

\* Mistake: an if where the loop should be.
PollOnceWhilePaused == AfterDrain("paused", "release")

PollWhilePaused == AfterDrain("paused", IF paused THEN "drain" ELSE "release")

\* Mistake: after a pause the next line is read, not the one in hand handled.
AfterReleaseToNextLine == IF operator_ended THEN "finish" ELSE "read"

AfterRelease ==
    IF operator_ended THEN "finish"
    ELSE IF drain_from = "paused" THEN "dispatch" ELSE "read"

\* Mistake: only the pause loop lifts the suppression, the hold
\* has no finally.
ReleaseStillSuppressed ==
    /\ pc = "release"
    /\ idleness_suppressed' = (drain_from = "permission")
    /\ pc' = AfterRelease
    /\ UNCHANGED <<drain_from, lineVars, operatorVars, envVars, reportVars,
                   run_finished>>

\* Leaving the pause loop or the permission hold: idleness counts again.
Release ==
    /\ pc = "release"
    /\ idleness_suppressed' = FALSE
    /\ pc' = AfterRelease
    /\ UNCHANGED <<drain_from, lineVars, operatorVars, envVars, reportVars,
                   run_finished>>

------------------------------------------------------------------------------
(* The runner thread: handling the line in hand.                             *)

\* Past the deadline the line in hand is dropped.
DeadlineBreak == Jump("dispatch", "finish") /\ deadline_passed

Dispatch ==
    /\ pc = "dispatch"
    /\ ~deadline_passed
    /\ UNCHANGED <<drain_from, envVars, drainVars, intentVars, sharedVars,
                   raw_line, lines_read, silent_lines, notes, final_run_state>>

\* control_response, control_cancel_request and keep_alive lines: recorded only.
RecordProtocolLine ==
    /\ Dispatch
    /\ workload.permission_mode /\ raw_line.kind = "protocol"
    /\ logged' = logged \cup {raw_line.number}
    /\ pc' = "read"
    /\ UNCHANGED <<tokenVars, turnVars, holdVars, run_status>>

SurfacePermissionRequest ==
    /\ Dispatch
    /\ workload.permission_mode /\ raw_line.kind = "permission"
    /\ logged' = logged \cup {raw_line.number}
    /\ permission_requests' = Append(permission_requests, raw_line.number)
    /\ run_status' = "awaiting_permission"
    /\ pc' = "hold"
    /\ UNCHANGED <<tokenVars, turnVars, control_responses, hold_start,
                   pending_permission_decision>>

AppendChunkToLiveLog ==
    /\ Dispatch
    /\ ~(workload.permission_mode /\ raw_line.kind \in {"protocol", "permission"})
    /\ RecordChunk(raw_line.number, raw_line.kind)
    /\ pc' = "decide"
    /\ UNCHANGED <<holdVars, token_limit_halted, completed_tool_round_trips,
                   run_status>>

------------------------------------------------------------------------------
(* The runner thread: await_permission_decision_and_respond.                 *)

\* Mistake: a decision drained before the request is not forgotten.
HoldKeepingDecision ==
    /\ pc = "hold"
    /\ idleness_suppressed' = TRUE
    /\ pending_permission_decision' = pending_permission_decision
    /\ hold_start' = consumed_control_lines
    /\ pc' = "drain" /\ drain_from' = "permission"
    /\ UNCHANGED <<lineVars, envVars, drainVars, intentVars, reportVars,
                   permission_requests, control_responses, run_finished>>

\* Waiting on a human is not idleness. A decision that was drained before the
\* request was surfaced is forgotten.
HoldForDecision ==
    /\ pc = "hold"
    /\ idleness_suppressed' = TRUE
    /\ pending_permission_decision' = 0
    /\ hold_start' = consumed_control_lines
    /\ pc' = "drain" /\ drain_from' = "permission"
    /\ UNCHANGED <<lineVars, envVars, drainVars, intentVars, reportVars,
                   permission_requests, control_responses, run_finished>>

\* The response carries the id of the request in hand; the decision's own
\* request_id is not compared with it.
Respond(behavior, decision) ==
    /\ pc = "apply" /\ BatchApplied /\ drain_from = "permission"
    /\ control_responses' =
         Append(control_responses, [request |-> raw_line.number,
                                    behavior |-> behavior,
                                    decision |-> decision])
    /\ pending_permission_decision' = 0
    /\ run_status' = "running"
    /\ pc' = "release"
    /\ UNCHANGED <<drain_from, lineVars, drainVars, intentVars, sharedVars, envVars,
                   permission_requests, hold_start, notes, final_run_state>>

AnswerWithDecision ==
    /\ pending_permission_decision # 0
    /\ Respond(control_channel[pending_permission_decision].behavior,
               pending_permission_decision)

\* Mistake: the hold times out without a response.
DeadlineWithoutDenial ==
    /\ AfterDrain("permission", "release")
    /\ pending_permission_decision = 0
    /\ deadline_passed

DenyOnDeadline ==
    /\ pending_permission_decision = 0
    /\ deadline_passed
    /\ Respond("deny", 0)

PollForDecision ==
    /\ AfterDrain("permission", "drain")
    /\ pending_permission_decision = 0
    /\ ~deadline_passed

------------------------------------------------------------------------------
(* The runner thread: after a chunk, the token limit and the turn's stop.    *)

TokenLimitReached == TaskTokenLimit # 0 /\ counted_tokens >= TaskTokenLimit

\* Mistake: the limit must be exceeded, not reached.
MustHaltPastLimit ==
    TaskTokenLimit # 0 /\ counted_tokens > TaskTokenLimit /\ ~result_seen

MustHalt == TokenLimitReached /\ ~result_seen

\* _terminate_process: SIGTERM to the whole group, unless poll() finds the harness gone.
\* Then nothing is sent, whatever it left running. The caller waits for the harness,
\* not for its children, and after five seconds sends the group SIGKILL.
Terminate ==
    signalled' = IF harness = "dead" \/ signalled = "kill" THEN signalled ELSE "term"

HaltOnTokenLimit ==
    /\ pc = "decide"
    /\ MustHalt
    /\ token_limit_halted' = TRUE
    /\ run_status' = "token_limit_halted"
    /\ notes' = notes \cup {"token_limit"}
    /\ Terminate
    /\ pc' = "halt"
    /\ UNCHANGED <<drain_from, operatorVars, streamVars, tokenVars, sharedVars,
                   clockVars, watchVars, groupVars, result_seen,
                   completed_tool_round_trips, control_channel, final_run_state>>

\* Mistake: no break after the halt.
HaltedReadingOn == Jump("halt", "read") /\ harness = "dead"

\* _terminate_process returns once the harness is gone.
Halted == Jump("halt", "finish") /\ harness = "dead"

\* A tool call counts only in a turn that just stopped and with the loop enabled.
ToolCallDetected == workload.tool_loop /\ raw_line.kind = "result_call"

ReadOn == Jump("decide", "read") /\ ~MustHalt /\ ~result_seen

EndTurn == Jump("decide", "finish") /\ result_seen /\ ~ToolCallDetected

WithholdStop ==
    /\ Jump("decide", "tool")
    /\ result_seen /\ ToolCallDetected
    /\ completed_tool_round_trips < ToolRoundTripMaximum

RoundTripMaximumReached ==
    /\ pc = "decide"
    /\ result_seen /\ ToolCallDetected
    /\ completed_tool_round_trips >= ToolRoundTripMaximum
    /\ notes' = notes \cup {"round_trip_maximum"}
    /\ pc' = "finish"
    /\ UNCHANGED <<drain_from, lineVars, operatorVars, sharedVars, envVars,
                   run_status, final_run_state>>

\* Mistake: result_seen survives the withheld stop.
ServeToolCallsStillStopped ==
    /\ pc = "tool"
    /\ completed_tool_round_trips' = completed_tool_round_trips + 1
    /\ result_seen' = result_seen
    /\ pc' = "read"
    /\ UNCHANGED <<drain_from, operatorVars, envVars, streamVars, tokenVars,
                   sharedVars, reportVars, token_limit_halted>>

\* The stop is withheld: the calls are executed, which takes the thread as long as
\* it takes, and the results are fed back to the same process.
ServeToolCalls ==
    /\ pc = "tool"
    /\ completed_tool_round_trips' = completed_tool_round_trips + 1
    /\ result_seen' = FALSE
    /\ pc' = "read"
    /\ UNCHANGED <<drain_from, operatorVars, envVars, streamVars, tokenVars,
                   sharedVars, reportVars, token_limit_halted>>

------------------------------------------------------------------------------
(* The runner thread: the finally block and the result.                      *)

FinishRun ==
    /\ pc = "finish"
    /\ run_finished' = TRUE
    /\ pc' = "notes"
    /\ UNCHANGED <<drain_from, lineVars, operatorVars, envVars, reportVars,
                   idleness_suppressed>>

\* The keep-alive record is cleared, the kills seen by now are noted, the log is
\* closed. An ended or completed run then terminates its process group.
CloseLiveLog ==
    /\ pc = "notes"
    /\ keep_alive_record' =
         IF workload.keep_alive_expected THEN "none" ELSE keep_alive_record
    /\ notes' = notes \cup (IF keep_alive_killed THEN {"keep_alive_lost_kill"} ELSE {})
                      \cup (IF idle_killed THEN {"idle_kill"} ELSE {})
    /\ IF operator_ended \/ result_seen
       THEN Terminate /\ pc' = "reap"
       ELSE pc' = "wait" /\ UNCHANGED signalled
    /\ UNCHANGED <<drain_from, lineVars, operatorVars, sharedVars, watchVars,
                   idle_exceeded, deadline_passed, groupVars, control_channel,
                   run_status, final_run_state>>

\* Any other run waits thirty seconds for the harness to exit.
HarnessExited == Jump("wait", "reap") /\ harness = "dead"

\* It did not exit: its group is terminated.
ReapTimeout ==
    /\ pc = "wait"
    /\ harness # "dead"
    /\ Terminate
    /\ pc' = "reap"
    /\ UNCHANGED <<drain_from, lineVars, operatorVars, sharedVars, reportVars,
                   clockVars, watchVars, groupVars, control_channel>>

\* The harness outlived the five seconds of the runner thread's _terminate_process.
Escalate ==
    /\ pc \in {"halt", "reap"}
    /\ harness # "dead"
    /\ signalled' = "kill"
    /\ UNCHANGED <<runnerVars, clockVars, watchVars, groupVars, control_channel>>

\* stderr is read to its end, which no child that holds it lets come.
Reaped == Jump("reap", "outcome") /\ harness = "dead" /\ children # "holding"

\* The sidecar's value, overridden in turn by each way the run was ended.
Outcome ==
    IF token_limit_halted THEN "token_limit_halted"
    ELSE IF keep_alive_killed THEN "keep_alive_lost_killed"
    ELSE IF idle_killed THEN "idle_killed"
    ELSE IF operator_ended THEN "operator_ended" ELSE run_status

ReturnResult ==
    /\ pc = "outcome"
    /\ final_run_state' = Outcome
    /\ pc' = "returned"
    /\ UNCHANGED <<drain_from, lineVars, operatorVars, envVars, sharedVars,
                   run_status, notes>>

------------------------------------------------------------------------------
(* The idle-kill watchdog thread.                                            *)

IdleStep(from, to) ==
    /\ idle_watchdog = from
    /\ idle_watchdog' = to
    /\ UNCHANGED <<pc, drain_from, lineVars, operatorVars, sharedVars,
                   deadline_passed, keep_alive_record, keep_alive_watchdog,
                   keep_alive_killed, groupVars, control_channel, notes,
                   final_run_state>>

IdleWake ==
    /\ IdleStep("watch", IF run_finished THEN "done" ELSE "look")
    /\ UNCHANGED <<idle_exceeded, idle_killed, run_status, signalled>>

\* A permission wait or a pause restarts the clock.
IdleLook ==
    /\ IdleStep("look", IF idleness_suppressed THEN "watch" ELSE "measure")
    /\ idle_exceeded' = (idle_exceeded /\ ~idleness_suppressed)
    /\ UNCHANGED <<idle_killed, run_status, signalled>>

\* Mistake: the sidecar says idle_killed before the flag does.
IdleMeasureReflecting ==
    /\ IdleStep("measure", IF idle_exceeded THEN "kill" ELSE "watch")
    /\ run_status' = IF idle_exceeded THEN "idle_killed" ELSE run_status
    /\ UNCHANGED <<idle_exceeded, idle_killed, signalled>>

IdleMeasure ==
    /\ IdleStep("measure", IF idle_exceeded THEN "kill" ELSE "watch")
    /\ UNCHANGED <<idle_exceeded, idle_killed, run_status, signalled>>

IdleKillDecided ==
    /\ IdleStep("kill", "strike")
    /\ idle_killed' = TRUE
    /\ UNCHANGED <<idle_exceeded, run_status, signalled>>

\* Mistake: the run is marked killed, the process is not terminated.
IdleStrikeMissing ==
    /\ IdleStep("strike", "done")
    /\ run_status' = "idle_killed"
    /\ UNCHANGED <<idle_exceeded, idle_killed, signalled>>

IdleStrike ==
    /\ IdleStep("strike", "wait")
    /\ run_status' = "idle_killed"
    /\ Terminate
    /\ UNCHANGED <<idle_exceeded, idle_killed>>

\* This thread's _terminate_process returns: the harness is gone, or sent SIGKILL
\* after five seconds.
IdleEscalate ==
    /\ IdleStep("wait", "done")
    /\ signalled' = IF harness = "dead" THEN signalled ELSE "kill"
    /\ UNCHANGED <<idle_exceeded, idle_killed, run_status>>

------------------------------------------------------------------------------
(* The keep-alive watchdog thread.                                           *)

KeepAliveStep(from, to) ==
    /\ keep_alive_watchdog = from
    /\ keep_alive_watchdog' = to
    /\ UNCHANGED <<pc, drain_from, lineVars, operatorVars, sharedVars,
                   clockVars, idle_watchdog, idle_killed, groupVars,
                   control_channel, notes, final_run_state>>

KeepAliveWake ==
    /\ KeepAliveStep("watch", IF run_finished THEN "done" ELSE "look")
    /\ UNCHANGED <<keep_alive_killed, run_status, signalled>>

\* Mistake: a pause or hold suppresses this watchdog too.
KeepAliveLookSuppressed ==
    /\ KeepAliveStep("look", IF keep_alive_record = "lost" /\ ~idleness_suppressed
                             THEN "kill" ELSE "watch")
    /\ UNCHANGED <<keep_alive_killed, run_status, signalled>>

\* No record at all (it was cleared) is not a lost heartbeat.
KeepAliveLook ==
    /\ KeepAliveStep("look", IF keep_alive_record = "lost" THEN "kill" ELSE "watch")
    /\ UNCHANGED <<keep_alive_killed, run_status, signalled>>

KeepAliveKillDecided ==
    /\ KeepAliveStep("kill", "strike")
    /\ keep_alive_killed' = TRUE
    /\ UNCHANGED <<run_status, signalled>>

\* killpg without a poll(): it reaches what an exited harness left in its group too.
KeepAliveStrike ==
    /\ KeepAliveStep("strike", "done")
    /\ run_status' = "keep_alive_lost_killed"
    /\ signalled' = "kill"
    /\ UNCHANGED keep_alive_killed

------------------------------------------------------------------------------
(* The environment: the harness process, the operator, the orchestrator and  *)
(* the passing of time.                                                      *)

\* The harness exits, on its own or because its group was signalled.
HarnessExits ==
    /\ harness \in {"running", "closed"}
    /\ harness' = "dead"
    /\ UNCHANGED <<runnerVars, clockVars, watchVars, children, signalled,
                   control_channel>>

HarnessClosesStdout ==
    /\ harness = "running"
    /\ harness' = "closed"
    /\ UNCHANGED <<runnerVars, clockVars, watchVars, children, signalled,
                   control_channel>>

ChildrenBecome(what) ==
    /\ children # what
    /\ children' = what
    /\ UNCHANGED <<runnerVars, clockVars, watchVars, harness, signalled,
                   control_channel>>

\* A tool or a server the harness starts inherits the run's pipes.
HarnessForks ==
    /\ workload.forks_children /\ harness = "running" /\ signalled # "kill"
    /\ ChildrenBecome("holding")

\* The last child that held the pipes closes them and works on.
ChildrenLetGo == children = "holding" /\ ChildrenBecome("quiet")

\* The last child exits, on its own or by a signal. A child may ignore SIGTERM.
ChildrenExit == ChildrenBecome("none")

RunWrittenFor == IF pc = "start" THEN "previous" ELSE "this"

\* append_control_intent. The operator decides on requests the live log shows.
WritableLines(intent) ==
    IF intent = "permission_decision"
    THEN {[intent |-> intent, request |-> permission_requests[i],
           behavior |-> behavior, run |-> RunWrittenFor] :
             i \in 1 .. Len(permission_requests), behavior \in Behaviors}
    ELSE {[intent |-> intent, request |-> 0, behavior |-> "none",
           run |-> RunWrittenFor]}

OperatorWrites(intent) ==
    /\ pc # "returned"
    /\ Len(control_channel) < workload.max_intents
    /\ \E line \in WritableLines(intent) :
         control_channel' = Append(control_channel, line)
    /\ UNCHANGED <<runnerVars, clockVars, watchVars, procVars>>

Heartbeat ==
    /\ workload.keep_alive_expected /\ pc # "returned"
    /\ keep_alive_record' = "fresh"
    /\ UNCHANGED <<runnerVars, watchVars, procVars, idle_exceeded,
                   deadline_passed, control_channel>>

HeartbeatAges ==
    /\ keep_alive_record = "fresh"
    /\ keep_alive_record' = "lost"
    /\ UNCHANGED <<runnerVars, watchVars, procVars, idle_exceeded,
                   deadline_passed, control_channel>>

IdleBudgetElapses ==
    /\ workload.idle_kill /\ ~idle_exceeded /\ pc \notin {"start", "launch", "returned"}
    /\ idle_exceeded' = TRUE
    /\ UNCHANGED <<runnerVars, watchVars, procVars, deadline_passed,
                   keep_alive_record, control_channel>>

DeadlineElapses ==
    /\ workload.timeout /\ ~deadline_passed /\ pc \notin {"start", "launch", "returned"}
    /\ deadline_passed' = TRUE
    /\ UNCHANGED <<runnerVars, watchVars, procVars, idle_exceeded,
                   keep_alive_record, control_channel>>

------------------------------------------------------------------------------
\* The steps the runner thread takes on its own, the pipe's lines apart.
Starting == OpenLiveFiles \/ LaunchHarness

Draining ==
    \/ ReadNewControlIntents \/ ApplyPause \/ ApplyResume \/ ApplySendCommand
    \/ ApplyPermissionDecision \/ ApplyEndAndReturn \/ PostAbortReadEnds

Waiting ==
    \/ ProceedWithLine \/ EnterPause \/ PollWhilePaused \/ HoldForDecision
    \/ AnswerWithDecision \/ DenyOnDeadline \/ PollForDecision \/ Release

Handling ==
    \/ DeadlineBreak \/ RecordProtocolLine \/ SurfacePermissionRequest
    \/ AppendChunkToLiveLog

Deciding ==
    \/ HaltOnTokenLimit \/ Halted \/ ReadOn \/ EndTurn \/ WithholdStop
    \/ RoundTripMaximumReached \/ ServeToolCalls

Finishing ==
    \/ EndOfStream \/ FinishRun \/ CloseLiveLog \/ HarnessExited \/ ReapTimeout
    \/ Escalate \/ Reaped \/ ReturnResult

RunnerStep ==
    /\ Starting \/ Draining \/ Waiting \/ Handling \/ Deciding \/ Finishing
    /\ UNCHANGED workload

ReceiveStep ==
    /\ \/ \E kind \in workload.line_kinds : ReceiveLine(kind) \/ PostAbortRead(kind)
       \/ ReceiveEmptyLine
    /\ UNCHANGED workload

IdleWatchdogStep ==
    /\ \/ IdleWake \/ IdleLook \/ IdleMeasure \/ IdleKillDecided \/ IdleStrike
       \/ IdleEscalate
    /\ UNCHANGED workload

KeepAliveWatchdogStep ==
    /\ KeepAliveWake \/ KeepAliveLook \/ KeepAliveKillDecided \/ KeepAliveStrike
    /\ UNCHANGED workload

EnvironmentStep ==
    \/ HarnessExits \/ HarnessClosesStdout
    \/ HarnessForks \/ ChildrenLetGo \/ ChildrenExit
    \/ \E intent \in workload.intents : OperatorWrites(intent)
    \/ Heartbeat \/ HeartbeatAges \/ IdleBudgetElapses \/ DeadlineElapses

\* A returned run takes no step: anything else that stops is a deadlock.
Returned == pc = "returned" /\ UNCHANGED vars

Next ==
    \/ RunnerStep \/ ReceiveStep \/ IdleWatchdogStep \/ KeepAliveWatchdogStep
    \/ EnvironmentStep \/ Returned

Spec == Init /\ [][Next]_vars

\* The operating system schedules every thread, time passes, and what is sent SIGKILL
\* dies. Nothing makes the harness emit a line, nor any process exit by itself or by
\* a SIGTERM.
Fairness ==
    /\ WF_vars(RunnerStep)
    /\ WF_vars(IdleWatchdogStep)
    /\ WF_vars(KeepAliveWatchdogStep)
    /\ WF_vars(IdleBudgetElapses)
    /\ WF_vars(DeadlineElapses)
    /\ WF_vars(signalled = "kill" /\ HarnessExits)
    /\ WF_vars(signalled = "kill" /\ ChildrenExit)

FairSpec == Spec /\ Fairness

------------------------------------------------------------------------------
(* Safety.                                                                   *)

\* The lines that have something to record.
Recordable == (1 .. lines_read) \ silent_lines

\* Of the lines the normalizer made a chunk of, the live log misses at most the one in
\* hand: the loop never skips a line, whatever pauses, holds and aborts come between,
\* and it logs no line the normalizer dropped. A run that returned without its last
\* line was ended by the operator or the deadline.
OnlyTheLineInHandIsLost ==
    /\ logged \subseteq Recordable
    /\ Recordable \ logged \subseteq {raw_line.number}
    /\ pc = "read" => logged = Recordable
    /\ pc = "returned" /\ logged # Recordable => operator_ended \/ deadline_passed

\* An operator-ended run was ended by an end_and_return written for this run: one
\* left in the channel by an earlier run never ends it.
OperatorEndedByThisRunsIntent ==
    operator_ended =>
        \E i \in 1 .. Len(control_channel) :
            /\ i <= consumed_control_lines
            /\ control_channel[i].intent = "end_and_return"
            /\ control_channel[i].run = "this"

\* Whatever path led into a pause or a permission hold, the idle watchdog counts
\* again before the runner blocks on the harness or on a tool.
WatchdogArmed ==
    pc \in {"read", "dispatch", "decide", "tool"} => ~idleness_suppressed

\* Every permission request is answered once, in order and under its own id,
\* before the runner reads on; only an operator's end leaves the last unanswered.
RequestsAnsweredInOrder ==
    /\ Len(control_responses) <= Len(permission_requests)
    /\ Len(permission_requests) <= Len(control_responses) + 1
    /\ \A i \in 1 .. Len(control_responses) :
         control_responses[i].request = permission_requests[i]
    /\ pc \in {"read", "returned"} /\ ~operator_ended =>
         Len(control_responses) = Len(permission_requests)

\* The result's run_state is an outcome, never the annotation of a wait that is
\* over, and a kill is reported exactly when the runner did kill: a kill noted in
\* the live log is reported, and a reported one was decided by the runner.
OutcomeExplained ==
    pc = "returned" =>
        /\ final_run_state \notin {"none", "paused", "awaiting_permission"}
        /\ final_run_state = "operator_ended" => operator_ended
        /\ final_run_state = "idle_killed" => idle_killed
        /\ final_run_state = "keep_alive_lost_killed" => keep_alive_killed
        /\ final_run_state = "token_limit_halted" <=> token_limit_halted
        /\ notes \cap {"idle_kill", "keep_alive_lost_kill"} # {} =>
             final_run_state \in
                {"idle_killed", "keep_alive_lost_killed", "token_limit_halted"}

\* The runner does not read past a turn's stop unless it withheld it, at most
\* ToolRoundTripMaximum times.
StopsAreWithheldBoundedly ==
    /\ pc = "read" => ~result_seen
    /\ completed_tool_round_trips <= ToolRoundTripMaximum

\* The line that reaches the token limit is the last one read, unless a tool call
\* was served meanwhile (a result's own usage is not held against the limit).
LimitStopsReading ==
    pc = "read" /\ TokenLimitReached => completed_tool_round_trips > 0

------------------------------------------------------------------------------
(* What a step may never do.                                                 *)

\* While paused the runner consumes nothing: no line enters the live log and no
\* tool call is served, except what an abort flushes out.
PauseHoldsTheStream ==
    [][paused /\ pc # "post_abort" =>
         /\ logged' = logged
         /\ completed_tool_round_trips' = completed_tool_round_trips]_vars

\* A request is answered only with a decision drained after it was surfaced.
DecisionMadeDuringHold ==
    [][\A i \in 1 .. Len(control_responses') :
         /\ i > Len(control_responses)
         /\ control_responses'[i].decision # 0
         => control_responses'[i].decision > hold_start]_vars

\* A halted run reads, logs and serves nothing more.
NothingAfterHalt ==
    [][token_limit_halted =>
         UNCHANGED <<lines_read, logged, completed_tool_round_trips>>]_vars

------------------------------------------------------------------------------
(* Liveness, under Fairness.                                                 *)

EndWritten ==
    /\ pc # "start"
    /\ \E i \in 1 .. Len(control_channel) : control_channel[i].intent = "end_and_return"

\* The harness streams empty lines for ever: activity, but nothing to process.
BlankForever == []<><<ReceiveEmptyLine>>_vars

\* The harness is gone and a child it left behind holds the run's pipes for ever: the
\* runner waits for an end of stdout or stderr that does not come, and no
\* _terminate_process signals a group whose leader has exited.
PipesHeld == <>[](harness = "dead" /\ children = "holding")

\* end_and_return stops the run early, unless the harness streams empty lines for ever.
EndStopsRun == BlankForever \/ (EndWritten ~> (pc = "returned"))

\* With an idle watchdog, an end_and_return is honoured even when the harness is
\* silent: the kill closes the stream the runner waits on, unless a child of the
\* harness outlives it and keeps the stream open.
EndHonouredOrBlank == workload.idle_kill => PipesHeld \/ EndStopsRun

Held ==
    \/ pc \in {"pause", "hold", "release"}
    \/ pc \in {"drain", "apply"} /\ drain_from \in {"paused", "permission"}

\* With an idle watchdog, every run returns unless the operator keeps it waiting or a
\* child that outlived the harness keeps its pipes open.
RunReturns ==
    workload.idle_kill =>
        BlankForever \/ PipesHeld \/ []<>Held \/ <>(pc = "returned")

\* When the heartbeats stop for good the whole group is killed, in a pause or a
\* permission hold too, and the children of a harness that has exited as well; only a
\* run that was over before the watchdog looked leaves its children be.
LostKeepAliveKills ==
    <>[](keep_alive_record = "lost") =>
        \/ <>(harness = "dead" /\ children = "none")
        \/ <>(harness = "dead" /\ run_finished /\ ~keep_alive_killed)

------------------------------------------------------------------------------
(* What the run promises: RunLifecycle.                                      *)

ProcessOfRun ==
    CASE harness = "none" -> "none"
      [] harness = "dead" -> "dead"
      [] OTHER -> "alive"

DecidedEndings ==
    (IF operator_ended THEN {"operator_ended"} ELSE {})
        \cup (IF token_limit_halted THEN {"token_limit_halted"} ELSE {})
        \cup (IF idle_killed THEN {"idle_killed"} ELSE {})
        \cup (IF keep_alive_killed THEN {"keep_alive_lost_killed"} ELSE {})

Lifecycle == INSTANCE RunLifecycle WITH
    process <- ProcessOfRun, log <- logged, endings <- DecidedEndings,
    report <- final_run_state

\* Whatever its threads, the operator and the harness do, a streamed run is a run:
\* it records lines in order and none past a halt, and reports once, after its
\* process is gone, an ending that was decided.
ImplementsLifecycle == Lifecycle!Spec

------------------------------------------------------------------------------
(* What the documents promise.                                               *)

\* A decision answers the request it names.
DecisionAnswersItsRequest ==
    \A i \in 1 .. Len(control_responses) :
        control_responses[i].decision # 0 =>
            control_channel[control_responses[i].decision].request =
                control_responses[i].request

=============================================================================
