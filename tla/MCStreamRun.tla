----------------------------- MODULE MCStreamRun -----------------------------
(***************************************************************************)
(* Instances of StreamRun for TLC: each workload gives its run one of the  *)
(* freedoms that together are out of TLC's reach.                          *)
(***************************************************************************)
EXTENDS StreamRun

\* A run that nobody watches, on a harness that starts nothing and asks for nothing.
PlainWorkload ==
    [permission_mode |-> FALSE, tool_loop |-> FALSE, idle_kill |-> FALSE,
     keep_alive_expected |-> FALSE, timeout |-> FALSE,
     graceful_abort |-> FALSE, forks_children |-> FALSE,
     line_kinds |-> {"text", "result"}, max_lines |-> 1,
     intents |-> {"pause", "end_and_return"}, max_intents |-> 2]

\* pi calls tools, and reports its usage to the end of an abort.
Steered ==
    [PlainWorkload EXCEPT
        !.tool_loop = TRUE, !.graceful_abort = TRUE,
        !.line_kinds = {"usage", "result", "result_call", "silent"}, !.max_lines = 3,
        !.intents = {"pause", "resume", "send_command", "end_and_return"},
        !.max_intents = 3]

\* claude asks for permissions.
Asking ==
    [PlainWorkload EXCEPT
        !.permission_mode = TRUE, !.timeout = TRUE,
        !.line_kinds = {"text", "permission", "protocol"}, !.max_lines = 3,
        !.intents = {"pause", "resume", "permission_decision", "end_and_return"},
        !.max_intents = 3]

Watched ==
    [PlainWorkload EXCEPT
        !.permission_mode = TRUE, !.line_kinds = {"result", "permission"}, !.max_lines = 2]

\* Both watchdogs race the end of a run, which a token limit may bring.
Raced ==
    [Watched EXCEPT !.idle_kill = TRUE, !.keep_alive_expected = TRUE,
                    !.line_kinds = {"usage", "result", "permission"}]

\* One watchdog, and a harness whose children may outlive it.
IdleWatched == [Watched EXCEPT !.idle_kill = TRUE, !.forks_children = TRUE]
HeartbeatWatched == [Watched EXCEPT !.keep_alive_expected = TRUE, !.forks_children = TRUE]

\* An operator's end for a harness that starts a child and says nothing, against all
\* the run has to end it.
Silent ==
    [PlainWorkload EXCEPT !.idle_kill = TRUE, !.timeout = TRUE, !.forks_children = TRUE,
                          !.max_lines = 0, !.intents = {"end_and_return"},
                          !.max_intents = 1]

\* Two requests, and decisions at any time.
TwiceAsking ==
    [PlainWorkload EXCEPT
        !.permission_mode = TRUE, !.line_kinds = {"permission"}, !.max_lines = 2,
        !.intents = {"permission_decision"}]

SafetyWorkloads == {Steered, Asking, Raced}
LivenessWorkloads == {IdleWatched, HeartbeatWatched}
SilentWorkloads == {Silent}
DecisionWorkloads == {TwiceAsking}

=============================================================================
