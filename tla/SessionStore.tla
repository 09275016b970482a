----------------------------- MODULE SessionStore -----------------------------
(***************************************************************************)
(* claude's session transcripts on disk and the tasks that fork them:      *)
(* claude_session_store.py, _run_priming_session and the harness run seen  *)
(* from outside (StreamRun is the same run seen from inside).              *)
(*                                                                         *)
(* A task is one call of run_claude_code_task, on a thread of a runner     *)
(* process. Tasks meet only in files: the transcripts, and the registry    *)
(* and the base-session store of the modules that extend this one.         *)
(***************************************************************************)
EXTENDS Naturals, Sequences, FiniteSets

CONSTANTS
    Tasks,
    Chunks,        \* the chunk_ids of the reusable contexts
    TextChunks,    \* those whose blocks are all text
    Dirs,          \* claude project directories, one per encoded cwd
    DirOf,         \* the project directory of each task's workspace
    Processes,     \* runner processes: a lock is shared within one
    Placements,    \* the ways the tasks may be spread over the processes
    Workloads,     \* the requests the tasks may carry
    HasTimeout     \* timeout_seconds is set: a hung prime is killed

Holds == Chunks \cup {"base", "own", "nothing"}

\* A RunRequest: its reusable_context, its session_id ("minted" by the caller or
\* "resumed"), and whether unharness_idle_seconds is past the idle window.
AllRequests ==
    [chunk : Chunks \cup {"none"}, enable_session_reuse : BOOLEAN,
     session_id : {"none", "minted", "resumed"},
     resume_fallback_prompt : BOOLEAN, idle : BOOLEAN]

ASSUME SessionAssumption ==
    /\ TextChunks \subseteq Chunks
    /\ Chunks \cap {"base", "own", "nothing", "none", "part"} = {}
    /\ "none" \notin Dirs
    /\ DirOf \in [Tasks -> Dirs]
    /\ Placements \subseteq [Tasks -> Processes]
    /\ Workloads \subseteq [Tasks -> AllRequests]
    /\ HasTimeout \in BOOLEAN

VARIABLES
    request,       \* each task's request
    process,       \* the process each task runs in
    task,          \* each task's local state
    turns,         \* the turns each task's harness runs took
    transcripts,   \* the session jsonl files that exist
    torn,          \* those a copy left unfinished
    minted         \* session ids each task minted so far

storeVars == <<turns, transcripts, torn, minted>>
rigidVars == <<request, process>>

\* A session id is a fresh uuid: the n-th one a task minted. It is opaque to the
\* program; holds is what its transcript contains. No n: an earlier session.
Sessions == [holds : Holds, by : Tasks \cup {"earlier"}, n : Nat]
EarlierSession(holds) == [holds |-> holds, by |-> "earlier", n |-> 0]
NoSession == EarlierSession("nothing")

\* The session a resume turn names: the caller's own, from an earlier turn.
OwnSession == EarlierSession("own")

Transcripts == [dir : Dirs, session : Sessions]
At(dir, session) == [dir |-> dir, session |-> session]

\* What a harness run is given: the session it resumes or forks, the chunk if it
\* is prepended, and the task's own prompt or the resume fallback prompt.
LaunchTypes == [session : Sessions, chunk : Chunks \cup {"none"},
                prompt : {"task", "fallback"}]

\* A turn the harness took: what its session brought into the context ("part" of
\* a torn transcript), what the input brought, how the run ended, and whether the
\* harness had done the task's work by then. Of a crashed one nobody knows; one that
\* returned stands for the task's work whatever its result says.
Turns == [inherited : Holds \cup {"part"}, sent : Chunks \cup {"none"},
          prompt : {"task", "fallback"}, worked : BOOLEAN,
          outcome : {"running", "completed", "raised", "crashed"}]

Labels == {"start", "lookup", "prime", "priming", "record", "recording",
           "relocate", "copying", "forget", "forgetting", "base", "base_priming",
           "base_forget", "launch", "turn", "returned", "raised"}

Plain(t) == [session |-> NoSession, chunk |-> request[t].chunk, prompt |-> "task"]

NewTask == [at |-> "start", session |-> NoSession, source |-> "none",
            launch |-> [session |-> NoSession, chunk |-> "none", prompt |-> "task"]]

Launches(t, launch) ==
    task' = [task EXCEPT ![t] = [at |-> "launch", session |-> NoSession,
                                 source |-> "none", launch |-> launch]]

Goes(t, from, to) ==
    /\ task[t].at = from
    /\ task' = [task EXCEPT ![t].at = to]

\* Where an exception takes the task: a failed fork forgets its session first.
OnException(session) ==
    CASE session.holds \in Chunks -> "forget"
      [] session.holds = "base"   -> "base_forget"
      [] OTHER                    -> "raised"

StoreInit ==
    /\ request \in Workloads
    /\ process \in Placements
    /\ task = [t \in Tasks |-> NewTask]
    /\ turns = [t \in Tasks |-> <<>>]
    /\ torn = {} /\ minted = [t \in Tasks |-> 0]

------------------------------------------------------------------------------
(* Priming: a completing claude that ingests one prompt under a new id.      *)

LaunchPrime(t, holds, to) ==
    /\ minted' = [minted EXCEPT ![t] = @ + 1]
    /\ task' = [task EXCEPT
         ![t].at = to,
         ![t].session = [holds |-> holds, by |-> t, n |-> minted[t] + 1],
         ![t].source = DirOf[t]]
    /\ UNCHANGED <<turns, transcripts, torn>>

\* Exit 0: the transcript lies under the prime's cwd.
PrimeExits(t, from, to) ==
    /\ Goes(t, from, to)
    /\ transcripts' = transcripts \cup {At(DirOf[t], task[t].session)}
    /\ UNCHANGED <<turns, torn, minted>>

\* A launch failure, a non-zero exit or a timeout: nothing usable is left behind.
PrimeRaises(t, from) ==
    /\ Goes(t, from, OnException(task[t].session))
    /\ UNCHANGED storeVars

------------------------------------------------------------------------------
(* ensure_session_present_in_cwd: claude resumes only what lies in its cwd.  *)

Fork(t) == [session |-> task[t].session, chunk |-> "none", prompt |-> "task"]

SourceMissing(t) ==
    /\ At(task[t].source, task[t].session) \notin transcripts
    /\ Goes(t, "relocate", OnException(task[t].session))
    /\ UNCHANGED storeVars

AlreadyPresent(t) ==
    /\ task[t].at = "relocate"
    /\ At(task[t].source, task[t].session) \in transcripts
    /\ task[t].source = DirOf[t]
    /\ Launches(t, Fork(t))
    /\ UNCHANGED storeVars

\* copyfile truncates its target before it writes it.
CopyBegins(t) ==
    /\ At(task[t].source, task[t].session) \in transcripts
    /\ task[t].source # DirOf[t]
    /\ Goes(t, "relocate", "copying")
    /\ transcripts' = transcripts \cup {At(DirOf[t], task[t].session)}
    /\ torn' = torn \cup {At(DirOf[t], task[t].session)}
    /\ UNCHANGED <<turns, minted>>

CopyEnds(t) ==
    /\ task[t].at = "copying"
    /\ Launches(t, Fork(t))
    /\ torn' = torn \ {At(DirOf[t], task[t].session)}
    /\ UNCHANGED <<turns, transcripts, minted>>

\* Mistake: a copy that failed is used all the same.
CopyFailsUnnoticed(t) ==
    /\ task[t].at = "copying"
    /\ Launches(t, Fork(t))
    /\ UNCHANGED storeVars

CopyFails(t) ==
    /\ Goes(t, "copying", OnException(task[t].session))
    /\ UNCHANGED storeVars

------------------------------------------------------------------------------
(* The harness run: _stream_one_run from outside.                            *)

Resumed(t) == At(DirOf[t], task[t].launch.session)

\* claude refuses the session: it exits non-zero without a turn. That is a result
\* of the run like another, not an exception.
HarnessRefuses(t) ==
    /\ task[t].launch.session # NoSession
    /\ Goes(t, "launch", "returned")
    /\ UNCHANGED storeVars

Inherited(t) ==
    IF Resumed(t) \in torn THEN "part" ELSE task[t].launch.session.holds

HarnessTakesTurn(t) ==
    /\ task[t].launch.session = NoSession \/ Resumed(t) \in transcripts
    /\ Goes(t, "launch", "turn")
    /\ turns' = [turns EXCEPT ![t] =
         Append(@, [inherited |-> Inherited(t), sent |-> task[t].launch.chunk,
                    prompt |-> task[t].launch.prompt, worked |-> FALSE,
                    outcome |-> "running"])]
    /\ UNCHANGED <<transcripts, torn, minted>>

\* The turns taken, once the last of them has ended.
Ended(taken, outcome, worked) ==
    [taken EXCEPT ![Len(taken)].outcome = outcome, ![Len(taken)].worked = worked]

EndsTurn(t, outcome, worked) ==
    turns' = [turns EXCEPT ![t] = Ended(@, outcome, worked)]

\* Mistake: the result of a run forked from the base session is not returned.
RunCompletesUnlessForkedFromBase(t) ==
    /\ Goes(t, "turn", IF task[t].launch.session.holds = "base"
                       THEN "base_forget" ELSE "returned")
    /\ EndsTurn(t, "completed", TRUE)
    /\ UNCHANGED <<transcripts, torn, minted>>

RunCompletes(t) ==
    /\ Goes(t, "turn", "returned")
    /\ EndsTurn(t, "completed", TRUE)
    /\ UNCHANGED <<transcripts, torn, minted>>

\* Mistake: an exception of a run that forks a session ends the task.
LaunchRaisesForGood(t) ==
    /\ Goes(t, "launch", "raised")
    /\ UNCHANGED storeVars

\* Mistake: a fork that raised is launched again.
RunRaisesTryingAgain(t) ==
    /\ Goes(t, "turn", IF task[t].launch.session.n > 0 THEN "launch" ELSE "raised")
    /\ \E worked \in BOOLEAN : EndsTurn(t, "raised", worked)
    /\ UNCHANGED <<transcripts, torn, minted>>

\* The run raises before its harness took the turn (the live files or the process
\* cannot be opened), while it streams (the log cannot be written, a line cannot
\* be decoded), or when the work is done (a last write fails, the artifacts of the
\* workspace cannot be listed).
LaunchRaises(t) ==
    /\ Goes(t, "launch", OnException(task[t].launch.session))
    /\ UNCHANGED storeVars

RunRaises(t) ==
    /\ Goes(t, "turn", OnException(task[t].launch.session))
    /\ \E worked \in BOOLEAN : EndsTurn(t, "raised", worked)
    /\ UNCHANGED <<transcripts, torn, minted>>

\* What a task does with its session once it has one, in either kind of reuse.
SessionSteps(t) ==
    \/ SourceMissing(t) \/ AlreadyPresent(t)
    \/ CopyBegins(t) \/ CopyEnds(t) \/ CopyFails(t)
    \/ HarnessRefuses(t) \/ HarnessTakesTurn(t)
    \/ RunCompletes(t) \/ LaunchRaises(t) \/ RunRaises(t)

=============================================================================
