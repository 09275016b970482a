----------------------------- MODULE TaskDispatch -----------------------------
(***************************************************************************)
(* run_claude_code_task: concurrent tasks, each taking one of the ways to  *)
(* its harness run -- a fork of a session primed with its chunk, a resumed *)
(* session or its fallback, a fork of the warm base session, or a plain    *)
(* run with the chunk inline -- while runner processes crash, are called   *)
(* again, and transcripts vanish.                                          *)
(***************************************************************************)
EXTENDS SessionReuse, BaseSession

CONSTANTS
    SupportsFork,      \* capabilities.supports_session_prime_and_fork
    BaseForkEnabled,   \* _claude_base_session_fork_enabled
    MaxCrashes,        \* bound: crashes of runner processes
    MaxLosses          \* bound: transcripts that vanish

ASSUME DispatchAssumption ==
    /\ SupportsFork \in BOOLEAN /\ BaseForkEnabled \in BOOLEAN
    /\ MaxCrashes \in Nat /\ MaxLosses \in Nat

VARIABLES crashes, losses

faultVars == <<crashes, losses>>
vars == <<rigidVars, task, storeVars, registryVars, baseVars, faultVars>>

TypeOK ==
    /\ request \in Workloads /\ process \in Placements
    /\ task \in [Tasks -> [at : Labels, session : Sessions,
                           source : Dirs \cup {"none"}, launch : LaunchTypes]]
    /\ turns \in [Tasks -> Seq(Turns)]
    /\ transcripts \in SUBSET Transcripts
    /\ torn \in SUBSET Transcripts
    /\ minted \in [Tasks -> Nat]
    /\ registry \in [Chunks -> Records]
    /\ registry_read \in [Tasks -> [Chunks -> Records]]
    /\ registry_lock \in [Processes -> SUBSET Tasks]
    /\ base_store \in Records /\ base_aged \in BOOLEAN
    /\ base_lock \in [Processes -> SUBSET Tasks]
    /\ crashes \in Nat /\ losses \in Nat

\* The transcripts of earlier sessions: all there, or deleted since.
EarlierTranscripts ==
    {At(registry[c].source, registry[c].session) :
       c \in {d \in Chunks : registry[d].source # "none"}}
    \cup (IF base_store = NoBase THEN {}
          ELSE {At(base_store.source, base_store.session)})
    \cup {At(DirOf[t], OwnSession) :
            t \in {u \in Tasks : request[u].session_id = "resumed"}}

Init ==
    /\ StoreInit /\ RegistryInit /\ BaseInit
    /\ transcripts \in {{}, EarlierTranscripts}
    /\ crashes = 0 /\ losses = 0

------------------------------------------------------------------------------
(* Which way a task goes.                                                    *)

\* An explicit session id never goes through prime and fork.
ReusesSession(t) ==
    /\ request[t].chunk # "none" /\ request[t].session_id = "none"
    /\ SupportsFork /\ request[t].enable_session_reuse

MayFallBack(t) ==
    /\ SupportsFork /\ request[t].session_id = "resumed"
    /\ request[t].resume_fallback_prompt

TranscriptGone(t) == At(DirOf[t], OwnSession) \notin transcripts

\* A request whose chunk is not to be reused is not told apart from one without.
ForksBase(t) ==
    /\ SupportsFork /\ BaseForkEnabled
    /\ request[t].session_id # "resumed"

Dispatch(t, to, launch) ==
    /\ task[t].at = "start"
    /\ task' = [task EXCEPT ![t].at = to, ![t].launch = launch]
    /\ UNCHANGED <<storeVars, registryVars, baseVars>>

DispatchToReuse(t) ==
    /\ ReusesSession(t)
    /\ Dispatch(t, "lookup", NewTask.launch)

\* Mistake: the fresh session is sent the incremental turn.
DispatchToFallbackWithTurn(t) ==
    /\ MayFallBack(t) /\ TranscriptGone(t)
    /\ Dispatch(t, "launch", Plain(t))

\* The transcript is looked for before the run, not by the harness.
DispatchToFallback(t) ==
    /\ MayFallBack(t) /\ TranscriptGone(t)
    /\ Dispatch(t, "launch",
                [session |-> NoSession, chunk |-> "none", prompt |-> "fallback"])

DispatchToBase(t) ==
    /\ ~ReusesSession(t) /\ ForksBase(t)
    /\ Dispatch(t, "base", NewTask.launch)

\* A plain run: a resume turn carries the session, any other starts its own.
DispatchPlain(t) ==
    /\ ~ReusesSession(t) /\ ~ForksBase(t)
    /\ ~(MayFallBack(t) /\ TranscriptGone(t))
    /\ Dispatch(t, "launch",
                [Plain(t) EXCEPT !.session =
                   IF request[t].session_id = "resumed" THEN OwnSession ELSE @])

DispatchSteps(t) ==
    \/ DispatchToReuse(t) \/ DispatchToFallback(t)
    \/ DispatchToBase(t) \/ DispatchPlain(t)

------------------------------------------------------------------------------
(* Faults.                                                                   *)

Done(t) == task[t].at \in {"returned", "raised"}

\* A runner process dies and its unfinished tasks are called again: what it had in
\* memory, its locks included, is gone; the files are as it left them.
Crash(p) ==
    /\ crashes < MaxCrashes
    /\ \E t \in Tasks : process[t] = p /\ ~Done(t)
    /\ crashes' = crashes + 1
    /\ task' = [t \in Tasks |->
         IF process[t] = p /\ ~Done(t) THEN NewTask ELSE task[t]]
    /\ turns' = [t \in Tasks |->
         IF process[t] = p /\ task[t].at = "turn"
         THEN Ended(turns[t], "crashed", FALSE)
         ELSE turns[t]]
    /\ registry_lock' = [registry_lock EXCEPT ![p] = {}]
    /\ registry_read' = [t \in Tasks |->
         IF process[t] = p THEN NothingRead ELSE registry_read[t]]
    /\ base_lock' = [base_lock EXCEPT ![p] = {}]
    /\ UNCHANGED <<transcripts, torn, minted, registry, base_store, base_aged, losses>>

\* A transcript is deleted: claude's own cleanup, or a wiped projects directory.
TranscriptLost ==
    /\ losses < MaxLosses
    /\ \E file \in transcripts :
         transcripts' = transcripts \ {file} /\ torn' = torn \ {file}
    /\ losses' = losses + 1
    /\ UNCHANGED <<task, turns, minted, registryVars, baseVars, crashes>>

------------------------------------------------------------------------------
\* A thread's own steps. That a prime exits by itself, or that a harness refuses a
\* session, is up to claude.
TaskStep(t) ==
    /\ \/ DispatchSteps(t)
       \/ SessionSteps(t) /\ UNCHANGED <<registryVars, baseVars>>
       \/ ReuseSteps(t) /\ UNCHANGED baseVars
       \/ BaseSteps(t) /\ UNCHANGED registryVars
    /\ UNCHANGED <<rigidVars, faultVars>>

PrimeEnds(t) ==
    /\ \/ ChunkPrimeEnds(t) /\ UNCHANGED baseVars
       \/ BasePrimeEnds(t) /\ UNCHANGED registryVars
    /\ UNCHANGED <<rigidVars, faultVars>>

Faults ==
    /\ \/ \E p \in Processes : Crash(p)
       \/ TranscriptLost
       \/ BaseAges /\ UNCHANGED <<registryVars, faultVars>>
    /\ UNCHANGED rigidVars

\* Only finished tasks make the system stop.
AllDone == (\A t \in Tasks : Done(t)) /\ UNCHANGED vars

Next == (\E t \in Tasks : TaskStep(t) \/ PrimeEnds(t)) \/ Faults \/ AllDone

Spec == Init /\ [][Next]_vars

\* Threads are scheduled. A harness need not end its turn, nor a prime exit: the
\* runner looks at the deadline of a turn only after a line, so no step of a turn is
\* fair, with a timeout or without.
Fairness == \A t \in Tasks : WF_vars(task[t].at # "turn" /\ TaskStep(t))

FairSpec == Spec /\ Fairness

------------------------------------------------------------------------------
(* Safety.                                                                   *)

\* A task whose chunk is to be reused has it in the context of every turn exactly
\* once and whole, from its session or inline, and no task gets another's chunk:
\* whatever failed, crashed, raced or vanished on the way.
ChunkInContextOnce ==
    \A t \in Tasks : \A i \in 1 .. Len(turns[t]) :
        LET turn == turns[t][i]
            reached == (IF turn.inherited = request[t].chunk THEN 1 ELSE 0)
                       + (IF turn.sent = request[t].chunk THEN 1 ELSE 0)
            foreign == (Chunks \cup {"part"}) \ {request[t].chunk}
        IN  /\ turn.inherited \notin foreign /\ turn.sent \notin foreign
            /\ request[t].chunk # "none" => reached = 1

\* Unless its transcript was deleted, every session the tasks put on record can be
\* forked: its prime ended well and its transcript is whole, so a failed or killed
\* prime, a crash or a copy cut short never leaves an unusable session on record.
Whole(record) ==
    record.session.n > 0 => At(record.source, record.session) \in transcripts \ torn

RecordedSessionsAreWhole ==
    losses = 0 => Whole(base_store) /\ \A c \in Chunks : Whole(registry[c])

OneProcess == \A t, u \in Tasks : process[t] = process[u]

\* Within one process the registry's updates never undo each other: a chunk's
\* record changes only by a task that carries the chunk.
RecordsChangedByTheirTasks ==
    [][OneProcess =>
         \A c \in Chunks : registry'[c] # registry[c] =>
            \E t \in Tasks : request[t].chunk = c /\ task'[t].at # task[t].at]_vars

\* Within one process no base is primed beside a usable one: the lock is held
\* until the new base is on record.
BasePrimedOnlyWhenStale ==
    \A t \in Tasks :
        OneProcess /\ task[t].at = "base_priming" => ~FreshFor(t)

\* No lock outlives its use, whatever raises or crashes: who holds one is at work
\* under it in that process, waits for no lock itself, and so cannot be waited for in
\* a circle.
LocksAreInUse ==
    \A p \in Processes :
        /\ \A t \in registry_lock[p] :
             process[t] = p /\ task[t].at \in {"recording", "forgetting"}
        /\ \A t \in base_lock[p] :
             process[t] = p /\ task[t].at = "base_priming"

\* The incremental prompt of a resume turn is only ever read by the session it
\* continues, whatever happens to the transcript between the check and the run.
ResumePromptMeetsItsSession ==
    \A t \in Tasks : \A i \in 1 .. Len(turns[t]) :
        request[t].session_id = "resumed" /\ turns[t][i].prompt = "task" =>
            turns[t][i].inherited = "own"

------------------------------------------------------------------------------
(* Liveness, under Fairness.                                                 *)

\* With a timeout nothing but its own harness keeps a call from its end: neither a
\* lock, nor a prime that hangs, nor a turn of another task that never ends.
TasksEnd ==
    HasTimeout => \A t \in Tasks : <>[](Done(t) \/ task[t].at = "turn")

------------------------------------------------------------------------------
(* What a call promises: TaskCall.                                           *)

PlainSessions == {"own", "nothing"}

\* A task goes by its shortcut until it drops its session or launches without one.
WayOf(t) ==
    IF Done(t) THEN task[t].at
    ELSE IF \/ task[t].at \in {"forget", "forgetting", "base_forget"}
            \/ /\ task[t].at \in {"launch", "turn"}
               /\ task[t].launch.session.holds \in PlainSessions
         THEN "plain" ELSE "shortcut"

AttemptOf(turn) ==
    [way |-> IF turn.inherited \in PlainSessions THEN "plain" ELSE "shortcut",
     outcome |-> turn.outcome]

AttemptsOf(t) == [i \in 1 .. Len(turns[t]) |-> AttemptOf(turns[t][i])]

Calls == INSTANCE TaskCall WITH
    Callers   <- Tasks,
    continues <- {t \in Tasks : request[t].session_id = "resumed"},
    way       <- [t \in Tasks |-> WayOf(t)],
    attempts  <- [t \in Tasks |-> AttemptsOf(t)]

\* A call is tried by its shortcut at most once, then plainly at most once, one
\* attempt after the other, and ends with the first that completes, whatever failed,
\* raced or vanished; only a crash gives it its chances back.
ImplementsCalls == Calls!Spec

\* Work that was done is done again only after a crash, or when the run of a fork
\* raised once its harness had done it. It is then done once more at most, in a
\* session that starts from nothing: never after a run that returned, and never on
\* top of the session it was done in.
WorkRedoneOnlyAfterFork ==
    \A t \in Tasks : \A i, j \in 1 .. Len(turns[t]) :
        i < j /\ turns[t][i].worked =>
            \/ turns[t][i].outcome = "crashed"
            \/ /\ turns[t][i].outcome = "raised"
               /\ turns[t][i].inherited \notin PlainSessions
               /\ crashes = 0 => turns[t][j].inherited = "nothing"

------------------------------------------------------------------------------
(* What the documents promise.                                               *)

\* A chunk that is not reused is prepended inline.
DisabledReuseInlinesChunk ==
    \A t \in Tasks : \A i \in 1 .. Len(turns[t]) :
        request[t].chunk # "none" /\ ~request[t].enable_session_reuse =>
            turns[t][i].sent = request[t].chunk

\* When claude rejects the fork, the task still completes via the inline path.
RejectedForkRunsInline ==
    \A t \in Tasks :
        ReusesSession(t) /\ task[t].at = "returned" => turns[t] # <<>>

=============================================================================
