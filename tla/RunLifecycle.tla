----------------------------- MODULE RunLifecycle -----------------------------
(***************************************************************************)
(* What a run promises to whoever asked for it, without pipes, threads or  *)
(* channel files: a process (the harness itself: nothing is promised of    *)
(* its children), a log that only grows and in the order of the lines,     *)
(* the endings that were decided, and one report. StreamRun implements it. *)
(***************************************************************************)
EXTENDS Naturals

VARIABLES
    process,   \* "none", "alive" or "dead"
    log,       \* the numbers of the lines recorded
    endings,   \* the ways the runner decided to end the run
    report     \* the run_state reported, "none" before that

run == <<process, log, endings, report>>

Kills   == {"idle_killed", "keep_alive_lost_killed"}
Endings == Kills \cup {"operator_ended", "token_limit_halted"}

Init ==
    /\ process = "none" /\ log = {} /\ endings = {} /\ report = "none"

Launch ==
    /\ process = "none" /\ process' = "alive"
    /\ UNCHANGED <<log, endings, report>>

Die ==
    /\ process = "alive" /\ process' = "dead"
    /\ UNCHANGED <<log, endings, report>>

\* A line is recorded after every earlier one, never past a halt or a report.
Record ==
    /\ process # "none" /\ report = "none"
    /\ "token_limit_halted" \notin endings
    /\ log' \in SUBSET Nat
    /\ \E n \in log' :
         /\ \A m \in log : m < n
         /\ log' = log \cup {n}
    /\ UNCHANGED <<process, endings, report>>

\* The runner thread decides before it reports. A watchdog thread may decide on a
\* kill after that: it strikes a process that is gone.
Decide(ending) ==
    /\ process # "none"
    /\ ending \in Kills \/ report = "none"
    /\ endings' = endings \cup {ending}
    /\ UNCHANGED <<process, log, report>>

\* What is reported is an ending that was decided, the halt before any other, and
\* "running", an ending of the harness's own, only when none was.
Truthful(run_state) ==
    IF endings = {} THEN run_state = "running"
    ELSE /\ run_state \in endings
         /\ "token_limit_halted" \in endings => run_state = "token_limit_halted"

\* A run reports once, after its process.
Report(run_state) ==
    /\ process = "dead" /\ report = "none"
    /\ Truthful(run_state)
    /\ report' = run_state
    /\ UNCHANGED <<process, log, endings>>

Next ==
    \/ Launch \/ Die \/ Record
    \/ \E ending \in Endings : Decide(ending)
    \/ \E run_state \in Endings \cup {"running"} : Report(run_state)

Spec == Init /\ [][Next]_run

=============================================================================
