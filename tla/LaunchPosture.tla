---------------------------- MODULE LaunchPosture ----------------------------
(***************************************************************************)
(* From a request to the command that is launched for it: the validation   *)
(* of request.py by the capabilities each harness declares, the choice of  *)
(* run_claude_code_task, the argv each harness builds, where transports.py *)
(* runs it, and which content blocks reach the harness. A fork may have a  *)
(* session primed first: a launch of its own.                              *)
(*                                                                         *)
(* An argv is the set of its flags that steer permissions, sessions and    *)
(* tools. All of it is pure: no state outlives a call.                     *)
(***************************************************************************)
CONSTANT BaseForkEnabled     \* _claude_base_session_fork_enabled

ASSUME PostureAssumption == BaseForkEnabled \in BOOLEAN

Harnesses == {"claude_cli", "opencode_cli", "pi"}
Locations == {"local_subprocess", "vm_over_ssh", "remote_host"}

Blocks == {"text", "image", "chunk_text", "chunk_image", "fallback_prompt"}
TextBlocks == {"text", "chunk_text", "fallback_prompt"}

\* A RunRequest: what it asks for, and nothing of what its values say.
AllRequests ==
    [harness : Harnesses \cup {"unknown"},
     execution_location : Locations \cup {"unknown"}, ssh : BOOLEAN,
     permission_mode : BOOLEAN, dangerously_skip_permissions : BOOLEAN,
     session_id : BOOLEAN, resume_session : BOOLEAN,
     resume_fallback_prompt : BOOLEAN,
     input_content : SUBSET {"text", "image"},
     reusable_context : SUBSET {"chunk_text", "chunk_image"},
     enable_session_reuse : BOOLEAN,
     restrict_to_assigned_tools_as_whitelist : BOOLEAN,
     keep_alive_expected : BOOLEAN]

------------------------------------------------------------------------------
(* Validation.                                                               *)

Capabilities ==
    [claude_cli |-> {"operator_permission_mode", "caller_chosen_session_id",
                     "session_prime_and_fork", "multimodal_input"},
     opencode_cli |-> {},
     pi |-> {"ignores_unsupported_permission_mode"}]

Supports(r, capability) == capability \in Capabilities[r.harness]

\* Mistake: content is not validated at all.
AcceptsAnyContent(r) == TRUE

AcceptsContent(r) ==
    Supports(r, "multimodal_input") \/ r.input_content \subseteq TextBlocks

\* Mistake: a posture the harness cannot honour is ignored, whatever the harness.
AcceptsAnyPosture(r) == TRUE

AcceptsPosture(r) ==
    \/ ~r.permission_mode
    \/ Supports(r, "operator_permission_mode")
    \/ Supports(r, "ignores_unsupported_permission_mode")

\* A new session under the caller's id needs a harness that takes one.
AcceptsSession(r) ==
    \/ ~r.session_id \/ r.resume_session
    \/ Supports(r, "caller_chosen_session_id")

\* RunRequest.__post_init__ raises nothing.
Accepted(r) ==
    /\ r.execution_location \in Locations /\ r.harness \in Harnesses
    /\ AcceptsPosture(r) /\ AcceptsSession(r) /\ AcceptsContent(r)

\* A harness that is always full-auto drops the posture and runs all the same.
Validated(r) ==
    [r EXCEPT !.permission_mode = @ /\ Supports(r, "operator_permission_mode")]

------------------------------------------------------------------------------
(* The command.                                                              *)

BypassFlags == {"--dangerously-skip-permissions", "--auto"}
GateFlags == {"--permission-mode", "--permission-prompt-tool", "--settings"}

\* Mistake: the bypass is not an alternative to the posture.
ClaudePermissionFlagsBoth(r) ==
    (IF r.permission_mode THEN GateFlags ELSE {}) \cup
    (IF r.dangerously_skip_permissions THEN {"--dangerously-skip-permissions"} ELSE {})

\* An explicit posture wins over the bypass, and is pinned in the settings too.
ClaudePermissionFlags(r) ==
    IF r.permission_mode THEN GateFlags
    ELSE IF r.dangerously_skip_permissions THEN {"--dangerously-skip-permissions"}
    ELSE {}

ClaudeSessionFlags(r) ==
    IF ~r.session_id THEN {}
    ELSE IF r.resume_session THEN {"--resume"} ELSE {"--session-id"}

ClaudeArgv(r) ==
    ClaudePermissionFlags(r) \cup ClaudeSessionFlags(r) \cup
    (IF r.restrict_to_assigned_tools_as_whitelist
     THEN {"--tools", "--strict-mcp-config"} ELSE {})

ContinuesSession(r) ==
    IF r.session_id /\ r.resume_session THEN {"--session"} ELSE {}

\* opencode has no flag for an exclusive tool list: the request's is ignored.
OpencodeArgv(r) ==
    ContinuesSession(r) \cup (IF r.dangerously_skip_permissions THEN {"--auto"} ELSE {})

\* pi needs no bypass flag: it asks nobody.
PiArgv(r) ==
    ContinuesSession(r) \cup
    (IF r.restrict_to_assigned_tools_as_whitelist THEN {"--tools"} ELSE {})

HarnessArgv(r) ==
    CASE r.harness = "claude_cli"   -> ClaudeArgv(r)
      [] r.harness = "opencode_cli" -> OpencodeArgv(r)
      [] r.harness = "pi"           -> PiArgv(r)

\* build_command_for: the only place where the location matters. A remote location
\* without an ssh config raises.
CommandRaises(r) == r.execution_location # "local_subprocess" /\ ~r.ssh
CommandHost(r) == IF r.execution_location = "local_subprocess" THEN "here" ELSE "there"

\* The argv of a fork is claude's own, and is launched here wherever the task runs.
ForkArgv(r) == ClaudeArgv(r) \cup {"--resume", "--fork-session"}

\* So is that of the prime before it, which has an argv of its own: the posture and
\* the tools of the request are left out, its bypass is not.
PrimingArgv(r) ==
    {"--session-id"} \cup
    (IF r.dangerously_skip_permissions THEN {"--dangerously-skip-permissions"} ELSE {})

------------------------------------------------------------------------------
(* The way of a task, as far as its command depends on it.                   *)

\* The ways a request may take: each fork has its failure beside it. The resume
\* fallback depends on a file that may be gone.
ReusesChunk(r) ==
    /\ r.reusable_context # {} /\ ~r.session_id
    /\ Supports(r, "session_prime_and_fork") /\ r.enable_session_reuse

MayFallBack(r) ==
    /\ Supports(r, "session_prime_and_fork")
    /\ r.session_id /\ r.resume_session /\ r.resume_fallback_prompt

ForksBase(r) ==
    Supports(r, "session_prime_and_fork") /\ ~r.resume_session /\ BaseForkEnabled

Ways(r) ==
    IF ReusesChunk(r) THEN {"chunk_fork", "inline"}
    ELSE {"plain"} \cup
         (IF MayFallBack(r) THEN {"fallback"}
          ELSE IF ForksBase(r) THEN {"base_fork"} ELSE {})

Forks == {"chunk_fork", "base_fork"}
AllWays == Forks \cup {"plain", "inline", "fallback"}

\* What a failed fork becomes.
Instead(way) == IF way = "chunk_fork" THEN "inline" ELSE "plain"

\* The request as the run sees it: a fallback is a new session.
RunRequest(r, way) ==
    IF way = "fallback"
    THEN [r EXCEPT !.session_id = FALSE, !.resume_session = FALSE,
                   !.input_content = {"fallback_prompt"}]
    ELSE r

\* Only chunk text can be primed.
WayOpen(r, way) ==
    /\ way = "chunk_fork" => r.reusable_context \subseteq TextBlocks
    /\ way \notin Forks => ~CommandRaises(r)

Content(r, way) ==
    IF way \in {"plain", "inline"} THEN r.reusable_context \cup r.input_content
    ELSE RunRequest(r, way).input_content

\* What deliver_prompt writes: opencode and pi are sent the text blocks only.
Delivered(r, way) ==
    IF Supports(r, "multimodal_input") THEN Content(r, way)
    ELSE Content(r, way) \cap TextBlocks

Launch(r, way) ==
    [way |-> way,
     host |-> IF way \in Forks THEN "here" ELSE CommandHost(r),
     flags |-> IF way \in Forks THEN ForkArgv(r) ELSE HarnessArgv(RunRequest(r, way)),
     delivered |-> Delivered(r, way)]

\* Mistake: a session is primed with what its first task is to be sent.
PrimedWithTask(r, way) == r.reusable_context \cup r.input_content

\* What a prime is given on its command line: the chunk, or a prompt that is no task's.
Primed(r, way) == IF way = "chunk_fork" THEN r.reusable_context ELSE {}

PrimeLaunch(r, way) ==
    [way |-> way, host |-> "here", flags |-> PrimingArgv(r), delivered |-> Primed(r, way)]

NoLaunch == [way |-> "none", host |-> "none", flags |-> {}, delivered |-> {}]

=============================================================================
