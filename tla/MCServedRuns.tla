----------------------------- MODULE MCServedRuns -----------------------------
(***************************************************************************)
(* Instances of ServedRuns for TLC: two plain runs that share a workspace  *)
(* or a task id, and one run of any posture. Each workload gives the       *)
(* environment one freedom: all of them at once are out of TLC's reach.    *)
(***************************************************************************)
EXTENDS ServedRuns

\* A harness without session forks: one way only.
PlainRequest ==
    [harness |-> "opencode_cli", execution_location |-> "local_subprocess", ssh |-> FALSE,
     permission_mode |-> FALSE, dangerously_skip_permissions |-> TRUE,
     session_id |-> FALSE, resume_session |-> FALSE, resume_fallback_prompt |-> FALSE,
     input_content |-> {"text"}, reusable_context |-> {}, enable_session_reuse |-> TRUE,
     restrict_to_assigned_tools_as_whitelist |-> FALSE, keep_alive_expected |-> TRUE]

ResumeRequest == [PlainRequest EXCEPT !.session_id = TRUE, !.resume_session = TRUE]

MCTaskIdOf == [w1 |-> "task", w2 |-> "task"]

In(first, second) == [r1 |-> first, r2 |-> second]

Work(first, second, w, leaving, lines, ends, beats) ==
    [request |-> In(first, second), workspace |-> In("w1", w),
     impatient |-> leaving, records |-> lines, intents |-> ends, heartbeats |-> beats]

PatientRequest == [PlainRequest EXCEPT !.keep_alive_expected = FALSE]

UnknownRequest == [PlainRequest EXCEPT !.harness = "unknown"]

\* Any posture, session and content a task may ask for, of every harness.
Postures ==
    {r \in [harness : Harnesses \cup {"unknown"},
            execution_location : {"local_subprocess", "vm_over_ssh"}, ssh : BOOLEAN,
            permission_mode : BOOLEAN, dangerously_skip_permissions : {TRUE},
            session_id : BOOLEAN, resume_session : BOOLEAN,
            resume_fallback_prompt : BOOLEAN,
            input_content : {{"text"}, {"text", "image"}},
            reusable_context : SUBSET {"chunk_text", "chunk_image"},
            enable_session_reuse : {TRUE},
            restrict_to_assigned_tools_as_whitelist : {FALSE},
            keep_alive_expected : {FALSE}] :
        /\ r.resume_session => r.session_id
        /\ r.resume_fallback_prompt => r.resume_session
        /\ r.reusable_context # {} => ~r.session_id}

\* Work that is posted again in one workspace, fresh or to resume the session.
PostedAgain ==
    {Work(PlainRequest, PatientRequest, "w1", {"r1"}, 1, 0, 0),
     Work(PatientRequest, ResumeRequest, "w1", {}, 2, 0, 0)}

\* An operator's intents around two runs of one workspace.
Ended == {Work(PatientRequest, PatientRequest, "w1", {"r1"}, 0, 1, 0)}

\* Heartbeats for two runs side by side, whose task ids are the same.
Heard == {Work(PlainRequest, PlainRequest, "w2", {"r1"}, 0, 0, 1)}

\* One run of any posture; the other is refused.
Postured == {Work(r, UnknownRequest, "w1", {"r1"}, 0, 0, 0) : r \in Postures}

\* A run that forks, under the keep-alive watchdog once its session is primed.
Forking == {Work([PlainRequest EXCEPT !.harness = "claude_cli"], UnknownRequest,
                 "w1", {"r1"}, 1, 0, 1)}

AllWork == PostedAgain \cup Ended \cup Heard \cup Postured \cup Forking

=============================================================================
