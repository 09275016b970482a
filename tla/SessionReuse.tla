----------------------------- MODULE SessionReuse -----------------------------
(***************************************************************************)
(* Prime once, fork per task: _run_with_session_reuse of runner.py and the *)
(* registry of session_registry.py that tasks share.                       *)
(*                                                                         *)
(* The registry is one JSON file. An update reads the whole file, changes  *)
(* one chunk and replaces the file atomically, under a lock that the       *)
(* threads of one process share and other processes do not see.            *)
(***************************************************************************)
EXTENDS SessionStore

VARIABLES
    registry,        \* each chunk's record in the file
    registry_lock,   \* per process: the task that is updating the registry
    registry_read    \* what each updating task read of the file

registryVars == <<registry, registry_lock, registry_read>>

NoRecord == [session |-> NoSession, source |-> "none"]
Records == [session : Sessions, source : Dirs \cup {"none"}]

NothingRead == [c \in Chunks |-> NoRecord]

\* What earlier runners may have left: nothing, bare session ids of the old file
\* format, or sessions primed in another workspace. Only text was ever primed.
EarlierRegistry(source) ==
    [c \in Chunks |-> IF c \in TextChunks
                      THEN [session |-> EarlierSession(c), source |-> source]
                      ELSE NoRecord]

RegistryInit ==
    /\ registry \in {NothingRead} \cup
         {EarlierRegistry(source) :
            source \in {"none"} \cup (Dirs \ {DirOf[t] : t \in Tasks})}
    /\ registry_lock = [p \in Processes |-> {}]
    /\ registry_read = [t \in Tasks |-> NothingRead]

\* Mistake: no lock.
RegistryNeverLocked(t) == TRUE

RegistryFree(t) == registry_lock[process[t]] = {}

Acquire(t) ==
    /\ RegistryFree(t)
    /\ registry_lock' = [registry_lock EXCEPT ![process[t]] = {t}]

ReleaseRegistry(t) ==
    /\ registry_lock' = [registry_lock EXCEPT ![process[t]] = {}]
    /\ registry_read' = [registry_read EXCEPT ![t] = NothingRead]

------------------------------------------------------------------------------
(* get_primed_record, and what the task makes of the record.                 *)

Looks(t) == task[t].at = "lookup" /\ RegistryFree(t)
Recorded(t) == registry[request[t].chunk]

LookupHits(t) ==
    /\ Looks(t)
    /\ Recorded(t).source # "none"
    /\ task' = [task EXCEPT ![t].at = "relocate",
                            ![t].session = Recorded(t).session,
                            ![t].source = Recorded(t).source]
    /\ UNCHANGED <<storeVars, registryVars>>

\* An entry of the old format has no transcript to relocate: an exception.
LookupHitsLegacy(t) ==
    /\ Looks(t)
    /\ Recorded(t) # NoRecord /\ Recorded(t).source = "none"
    /\ Goes(t, "lookup", "forget")
    /\ UNCHANGED <<storeVars, registryVars>>

\* Only a chunk of text can be primed; any other is an exception.
LookupMisses(t) ==
    /\ Looks(t)
    /\ Recorded(t) = NoRecord
    /\ Goes(t, "lookup", IF request[t].chunk \in TextChunks THEN "prime" ELSE "forget")
    /\ UNCHANGED <<storeVars, registryVars>>

------------------------------------------------------------------------------
(* Priming the chunk and recording its session.                              *)

PrimeChunk(t) ==
    /\ task[t].at = "prime"
    /\ LaunchPrime(t, request[t].chunk, "priming")
    /\ UNCHANGED registryVars

ChunkPrimed(t) == PrimeExits(t, "priming", "record") /\ UNCHANGED registryVars

\* Mistake: the exit code of the priming claude is not looked at.
ChunkPrimeFailsUnchecked(t) ==
    /\ Goes(t, "priming", "record")
    /\ UNCHANGED <<storeVars, registryVars>>

ChunkPrimeFails(t) == PrimeRaises(t, "priming") /\ UNCHANGED registryVars

ChunkPrimeTimesOut(t) ==
    HasTimeout /\ PrimeRaises(t, "priming") /\ UNCHANGED registryVars

\* Mistake: only the chunk's own record is read, not the whole file.
ReadsOneRecord(t, from, to) ==
    /\ Goes(t, from, to)
    /\ Acquire(t)
    /\ registry_read' = [registry_read EXCEPT ![t] = Recorded(t)]
    /\ UNCHANGED <<storeVars, registry>>

\* Either update of the registry: take the lock and read the whole file.
ReadsRegistry(t, from, to) ==
    /\ Goes(t, from, to)
    /\ Acquire(t)
    /\ registry_read' = [registry_read EXCEPT ![t] = registry]
    /\ UNCHANGED <<storeVars, registry>>

RecordReads(t) == ReadsRegistry(t, "record", "recording")

RecordWrites(t) ==
    /\ Goes(t, "recording", "relocate")
    /\ registry' = [registry_read[t] EXCEPT ![request[t].chunk] =
                      [session |-> task[t].session, source |-> task[t].source]]
    /\ ReleaseRegistry(t)
    /\ UNCHANGED storeVars

\* Mistake: an exception leaves the lock held.
RecordFailsHoldingLock(t) ==
    /\ Goes(t, "recording", "forget")
    /\ UNCHANGED <<storeVars, registryVars>>

\* The file cannot be written.
RecordFails(t) ==
    /\ Goes(t, "recording", "forget")
    /\ ReleaseRegistry(t)
    /\ UNCHANGED <<storeVars, registry>>

------------------------------------------------------------------------------
(* Any exception: forget_chunk, then the chunk inline.                       *)

ForgetReads(t) == ReadsRegistry(t, "forget", "forgetting")

\* Mistake: the task's input is sent without the chunk.
FallBackWithoutChunk(t) == [Plain(t) EXCEPT !.chunk = "none"]

FallBackInline(t) == Plain(t)

\* forget_chunk drops whatever is recorded for the chunk by now; an error of its
\* own is swallowed, and a chunk not on record needs no writing.
ForgetEnds(t) ==
    /\ task[t].at = "forgetting"
    /\ Launches(t, FallBackInline(t))
    /\ \/ /\ registry_read[t][request[t].chunk] # NoRecord
          /\ registry' = [registry_read[t] EXCEPT ![request[t].chunk] = NoRecord]
       \/ UNCHANGED registry
    /\ ReleaseRegistry(t)
    /\ UNCHANGED storeVars

\* The steps the thread takes; a prime that neither exits nor times out is
\* claude's affair.
ReuseSteps(t) ==
    \/ LookupHits(t) \/ LookupHitsLegacy(t) \/ LookupMisses(t)
    \/ PrimeChunk(t) \/ ChunkPrimeTimesOut(t)
    \/ RecordReads(t) \/ RecordWrites(t) \/ RecordFails(t)
    \/ ForgetReads(t) \/ ForgetEnds(t)

ChunkPrimeEnds(t) == ChunkPrimed(t) \/ ChunkPrimeFails(t)

=============================================================================
