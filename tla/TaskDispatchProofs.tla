-------------------------- MODULE TaskDispatchProofs --------------------------
(***************************************************************************)
(* What is proved of concurrent tasks, for any number of tasks, chunks,    *)
(* directories and runner processes, and any bound on crashes and losses.  *)
(*                                                                         *)
(* The types come first, then the parts of one inductive invariant: which  *)
(* locks are held, where each session on record lies, what each task will  *)
(* launch, which transcripts may be torn, what the turns were.             *)
(***************************************************************************)
EXTENDS TaskDispatch, TLAPS

USE DEF storeVars, rigidVars, registryVars, baseVars, faultVars

------------------------------------------------------------------------------
(* Types.                                                                    *)

TaskTypes == [at : Labels, session : Sessions, source : Dirs \cup {"none"},
              launch : LaunchTypes]

\* The constants of the model, and what a request is.
LEMMA ConstantsTyped ==
    /\ NoSession \in Sessions /\ OwnSession \in Sessions
    /\ \A c \in Chunks : EarlierSession(c) \in Sessions
    /\ EarlierSession("base") \in Sessions
    /\ NoRecord \in Records /\ NoBase = NoRecord
    /\ NothingRead \in [Chunks -> Records]
    /\ NewTask \in TaskTypes
<1>1. \A h \in Holds : EarlierSession(h) \in Sessions
  BY DEF EarlierSession, Sessions
<1>2. /\ NoSession \in Sessions /\ OwnSession \in Sessions
      /\ \A c \in Chunks : EarlierSession(c) \in Sessions
      /\ EarlierSession("base") \in Sessions
  BY <1>1 DEF NoSession, OwnSession, Holds
<1>3. NoRecord \in Records /\ NoBase = NoRecord
  BY <1>2 DEF NoRecord, NoBase, Records
<1>4. NothingRead \in [Chunks -> Records]
  BY <1>3 DEF NothingRead
<1>5. NewTask \in TaskTypes
  BY <1>2 DEF NewTask, TaskTypes, Labels, LaunchTypes
<1> QED
  BY <1>2, <1>3, <1>4, <1>5

LEMMA TaskTyped ==
    ASSUME TypeOK, NEW t \in Tasks
    PROVE  /\ request[t] \in AllRequests /\ process[t] \in Processes
           /\ DirOf[t] \in Dirs
           /\ task[t] \in TaskTypes
           /\ Plain(t) \in LaunchTypes /\ Fork(t) \in LaunchTypes
<1>1. /\ request[t] \in AllRequests /\ process[t] \in Processes /\ DirOf[t] \in Dirs
      /\ task[t] \in TaskTypes
  BY SessionAssumption DEF TypeOK, TaskTypes
<1>2. request[t].chunk \in Chunks \cup {"none"} /\ task[t].session \in Sessions
  BY <1>1 DEF AllRequests, TaskTypes
<1>3. Plain(t) \in LaunchTypes /\ Fork(t) \in LaunchTypes
  BY <1>2, ConstantsTyped DEF Plain, Fork, LaunchTypes
<1> QED
  BY <1>1, <1>3

\* The two ways a task moves: to a label, or to a launch.
LEMMA MovesTyped ==
    ASSUME TypeOK, NEW t \in Tasks
    PROVE  /\ \A from, to : Goes(t, from, to) /\ to \in Labels => task' \in [Tasks -> TaskTypes]
           /\ \A launch \in LaunchTypes : Launches(t, launch) => task' \in [Tasks -> TaskTypes]
           /\ \A session : OnException(session) \in Labels
<1>1. task \in [Tasks -> TaskTypes] /\ DOMAIN task = Tasks
  BY DEF TypeOK, TaskTypes
<1>2. ASSUME NEW from, NEW to, Goes(t, from, to), to \in Labels
      PROVE  task' \in [Tasks -> TaskTypes]
  <2>1. [task[t] EXCEPT !.at = to] \in TaskTypes
    BY <1>1, <1>2 DEF TaskTypes
  <2>2. task' = [task EXCEPT ![t] = [task[t] EXCEPT !.at = to]]
    BY <1>2 DEF Goes
  <2> HIDE DEF TaskTypes
  <2> QED
    BY <1>1, <2>1, <2>2
<1>3. ASSUME NEW launch \in LaunchTypes, Launches(t, launch)
      PROVE  task' \in [Tasks -> TaskTypes]
  <2> DEFINE new == [at |-> "launch", session |-> NoSession, source |-> "none",
                     launch |-> launch]
  <2>1. new \in TaskTypes
    BY ConstantsTyped DEF TaskTypes, Labels
  <2>2. task' = [task EXCEPT ![t] = new]
    BY <1>3 DEF Launches
  <2> HIDE DEF new
  <2> QED
    BY <1>1, <2>1, <2>2
<1>4. \A session : OnException(session) \in Labels
  BY DEF OnException, Labels
<1> QED
  BY <1>2, <1>3, <1>4

\* The sequence of a task's turns: a new one at its end, an outcome for the last.
LEMMA TurnsTyped ==
    ASSUME NEW s \in Seq(Turns),
           NEW outcome \in {"running", "completed", "raised", "crashed"}
    PROVE  /\ \A turn \in Turns : Append(s, turn) \in Seq(Turns)
           /\ \A worked \in BOOLEAN : Ended(s, outcome, worked) \in Seq(Turns)
<1>1. Len(s) \in Nat /\ DOMAIN s = 1 .. Len(s)
  OBVIOUS
<1>2. ASSUME NEW worked \in BOOLEAN  PROVE Ended(s, outcome, worked) \in Seq(Turns)
  <2> DEFINE n == Ended(s, outcome, worked)
  <2>1. \A i \in 1 .. Len(s) :
          /\ i # Len(s) => n[i] = s[i]
          /\ i = Len(s) =>
               n[i] = [[s[i] EXCEPT !.outcome = outcome] EXCEPT !.worked = worked]
    BY <1>1 DEF Ended
  <2>2. n = [i \in 1 .. Len(s) |-> n[i]]
    BY <1>1 DEF Ended
  <2> HIDE DEF n
  <2>4. ASSUME NEW i \in 1 .. Len(s)  PROVE n[i] \in Turns
    <3>1. s[i] \in Turns
      BY <1>1
    <3>2. [[s[i] EXCEPT !.outcome = outcome] EXCEPT !.worked = worked] \in Turns
      <4>1. [s[i] EXCEPT !.outcome = outcome] \in Turns
        BY <3>1 DEF Turns
      <4> QED
        BY <1>2, <4>1 DEF Turns
    <3> QED
      BY <2>1, <3>1, <3>2
  <2>5. n \in Seq(Turns)
    BY <2>2, <2>4
  <2> QED
    BY <2>5 DEF n
<1>3. \A turn \in Turns : Append(s, turn) \in Seq(Turns)
  OBVIOUS
<1> QED
  BY <1>2, <1>3

\* The parts of TypeOK that a step of a thread may change.
StoreTypes ==
    /\ task \in [Tasks -> TaskTypes]
    /\ turns \in [Tasks -> Seq(Turns)]
    /\ transcripts \in SUBSET Transcripts /\ torn \in SUBSET Transcripts
    /\ minted \in [Tasks -> Nat]

RegistryTypes ==
    /\ registry \in [Chunks -> Records]
    /\ registry_read \in [Tasks -> [Chunks -> Records]]
    /\ registry_lock \in [Processes -> SUBSET Tasks]

BaseTypes ==
    /\ base_store \in Records /\ base_aged \in BOOLEAN
    /\ base_lock \in [Processes -> SUBSET Tasks]

LEMMA TypeParts ==
    TypeOK <=> /\ request \in Workloads /\ process \in Placements
               /\ StoreTypes /\ RegistryTypes /\ BaseTypes
               /\ crashes \in Nat /\ losses \in Nat
BY DEF TypeOK, StoreTypes, RegistryTypes, BaseTypes, TaskTypes

\* The steps by which a task primes, relocates and uses a session.
LEMMA SessionStepsTyped ==
    ASSUME TypeOK, NEW t \in Tasks
    PROVE  /\ SessionSteps(t) => StoreTypes'
           /\ \A to \in Labels, holds \in Holds : LaunchPrime(t, holds, to) => StoreTypes'
           /\ \A from, to \in Labels : PrimeExits(t, from, to) => StoreTypes'
           /\ \A from : PrimeRaises(t, from) => StoreTypes'
<1>1. StoreTypes
  BY TypeParts
<1>2. DirOf[t] \in Dirs /\ task[t].session \in Sessions
  BY TaskTyped DEF TaskTypes
<1>3. /\ At(DirOf[t], task[t].session) \in Transcripts
      /\ {At(DirOf[t], task[t].session)} \subseteq Transcripts
  BY <1>2 DEF At, Transcripts
<1>4. {"returned", "turn", "copying"} \subseteq Labels
  BY DEF Labels
<1>5. ASSUME UNCHANGED storeVars, task' \in [Tasks -> TaskTypes]
      PROVE  StoreTypes'
  BY <1>1, <1>5 DEF StoreTypes
<1>6. ASSUME NEW outcome \in {"running", "completed", "raised", "crashed"},
             NEW worked \in BOOLEAN, EndsTurn(t, outcome, worked)
      PROVE  turns' \in [Tasks -> Seq(Turns)]
  <2>1. Ended(turns[t], outcome, worked) \in Seq(Turns)
    <3>1. turns[t] \in Seq(Turns)
      BY <1>1 DEF StoreTypes
    <3> QED
      BY <1>6, <3>1, TurnsTyped
  <2>2. turns' = [turns EXCEPT ![t] = Ended(turns[t], outcome, worked)]
    BY <1>6 DEF EndsTurn
  <2> QED
    BY <1>1, <2>1, <2>2 DEF StoreTypes
<1>7. ASSUME SessionSteps(t)  PROVE StoreTypes'
  <2>1. CASE SourceMissing(t)
    BY <1>5, <2>1, MovesTyped DEF SourceMissing
  <2>2. CASE AlreadyPresent(t)
    BY <1>5, <2>2, MovesTyped, TaskTyped DEF AlreadyPresent
  <2>3. CASE CopyBegins(t)
    <3>1. task' \in [Tasks -> TaskTypes]
      BY <2>3, <1>4, MovesTyped DEF CopyBegins
    <3> QED
      BY <1>1, <1>3, <2>3, <3>1 DEF CopyBegins, StoreTypes
  <2>4. CASE CopyEnds(t)
    <3>1. task' \in [Tasks -> TaskTypes]
      BY <2>4, MovesTyped, TaskTyped DEF CopyEnds
    <3> QED
      BY <1>1, <2>4, <3>1 DEF CopyEnds, StoreTypes
  <2>5. CASE CopyFails(t)
    BY <1>5, <2>5, MovesTyped DEF CopyFails
  <2>6. CASE HarnessRefuses(t)
    BY <1>4, <1>5, <2>6, MovesTyped DEF HarnessRefuses
  <2>7. CASE HarnessTakesTurn(t)
    <3> DEFINE turn == [inherited |-> Inherited(t), sent |-> task[t].launch.chunk,
                        prompt |-> task[t].launch.prompt, worked |-> FALSE,
                        outcome |-> "running"]
    <3>1. task' \in [Tasks -> TaskTypes]
      BY <2>7, <1>4, MovesTyped DEF HarnessTakesTurn
    <3>2. turn \in Turns
      BY TaskTyped DEF Turns, Inherited, TaskTypes, LaunchTypes, Sessions
    <3>3. turns' = [turns EXCEPT ![t] = Append(turns[t], turn)]
      BY <2>7 DEF HarnessTakesTurn
    <3> HIDE DEF turn
    <3>4. turns' \in [Tasks -> Seq(Turns)]
      BY <1>1, <3>2, <3>3 DEF StoreTypes
    <3> QED
      BY <1>1, <2>7, <3>1, <3>4 DEF HarnessTakesTurn, StoreTypes
  <2>8. CASE RunCompletes(t)
    <3>1. task' \in [Tasks -> TaskTypes]
      BY <2>8, <1>4, MovesTyped DEF RunCompletes
    <3> QED
      BY <1>1, <1>6, <2>8, <3>1 DEF RunCompletes, StoreTypes
  <2>9. CASE LaunchRaises(t)
    BY <1>5, <2>9, MovesTyped DEF LaunchRaises
  <2>10. CASE RunRaises(t)
    <3>1. task' \in [Tasks -> TaskTypes]
      BY <2>10, MovesTyped DEF RunRaises
    <3> QED
      BY <1>1, <1>6, <2>10, <3>1 DEF RunRaises, StoreTypes
  <2> QED
    BY <1>7, <2>1, <2>2, <2>3, <2>4, <2>5, <2>6, <2>7, <2>8, <2>9, <2>10
       DEF SessionSteps
<1>8. ASSUME NEW to \in Labels, NEW holds \in Holds, LaunchPrime(t, holds, to)
      PROVE  StoreTypes'
  <2> DEFINE session == [holds |-> holds, by |-> t, n |-> minted[t] + 1]
             new == [task[t] EXCEPT !.at = to, !.session = session,
                                    !.source = DirOf[t]]
  <2>1. minted' \in [Tasks -> Nat] /\ minted[t] + 1 \in Nat
    BY <1>1, <1>8 DEF LaunchPrime, StoreTypes
  <2>2. session \in Sessions
    BY <2>1 DEF Sessions
  <2>3. new \in TaskTypes
    <3> HIDE DEF session
    <3> QED
      BY <1>2, <2>2, TaskTyped DEF TaskTypes
  <2>4. task' = [task EXCEPT ![t] = new]
    BY <1>1, <1>8 DEF LaunchPrime, StoreTypes
  <2>5. task' \in [Tasks -> TaskTypes]
    <3> HIDE DEF new
    <3> QED
      BY <1>1, <2>3, <2>4 DEF StoreTypes
  <2> QED
    BY <1>1, <1>8, <2>1, <2>5 DEF LaunchPrime, StoreTypes
<1>9. ASSUME NEW from \in Labels, NEW to \in Labels, PrimeExits(t, from, to)
      PROVE  StoreTypes'
  <2>1. task' \in [Tasks -> TaskTypes]
    BY <1>9, MovesTyped DEF PrimeExits
  <2> QED
    BY <1>1, <1>3, <1>9, <2>1 DEF PrimeExits, StoreTypes
<1>10. ASSUME NEW from, PrimeRaises(t, from)  PROVE StoreTypes'
  BY <1>5, <1>10, MovesTyped DEF PrimeRaises
<1> QED
  BY <1>7, <1>8, <1>9, <1>10

------------------------------------------------------------------------------
(* The inductive invariant.                                                  *)

\* No two tasks share a project directory.
OwnDirectories == \A t, u \in Tasks : DirOf[t] = DirOf[u] => t = u

\* No request asks with its chunk for a way that drops the chunk: if not reused, it
\* is neither given to a task that forks the base session nor along with a resume
\* fallback prompt.
ChunksKept == \A w \in Workloads : \A t \in Tasks :
    LET r == w[t] IN
    r.chunk # "none" =>
        \/ SupportsFork /\ r.enable_session_reuse /\ r.session_id = "none"
        \/ ~SupportsFork
        \/ IF r.session_id = "resumed" THEN ~r.resume_fallback_prompt
                                     ELSE ~BaseForkEnabled

\* Where a session lies: one that a task minted under that task's directory, an
\* earlier one under none of them.
Rooted(session, source) ==
    IF session.n = 0 THEN \A u \in Tasks : source # DirOf[u]
                     ELSE session.by \in Tasks /\ source = DirOf[session.by]

SessionRooted(t) == Rooted(task[t].session, task[t].source)

\* A record for holds has a session of that content.
FitRecord(record, holds) ==
    /\ record = NoRecord \/ record.session.holds = holds
    /\ Rooted(record.session, record.source)

RecordsFit ==
    /\ FitRecord(base_store, "base")
    /\ \A c \in Chunks : FitRecord(registry[c], c)
    /\ \A t \in Tasks : \A c \in Chunks : FitRecord(registry_read[t][c], c)

\* Only copies are torn, and no copy lies where its session was primed.
TornAreCopies ==
    \A file \in torn :
        /\ file.session.holds \in Chunks \cup {"base"}
        /\ file.session.n # 0 => file.dir # DirOf[file.session.by]

\* The five things a task may launch, by what its session holds.
Meant(t, holds, sent, prompt) ==
    \/ /\ holds = "nothing" /\ prompt = "task" /\ sent = request[t].chunk
       /\ request[t].session_id # "resumed"
    \/ /\ holds = "nothing" /\ prompt = "fallback" /\ sent = "none"
       /\ MayFallBack(t)
    \/ /\ holds = "own" /\ prompt = "task" /\ sent = request[t].chunk
       /\ request[t].session_id = "resumed"
    \/ /\ holds = request[t].chunk /\ prompt = "task" /\ sent = "none"
       /\ ReusesSession(t)
    \/ /\ holds = "base" /\ prompt = "task" /\ sent = "none"
       /\ ~ReusesSession(t) /\ ForksBase(t)

ReuseLabels == {"lookup", "prime", "priming", "record", "recording", "forget", "forgetting"}
BaseLabels == {"base", "base_priming", "base_forget"}

\* What a task needs its session for, by where it is.
HoldsWhatItNeeds(t) ==
    \/ ReusesSession(t) /\ task[t].session.holds = request[t].chunk
    \/ ~ReusesSession(t) /\ ForksBase(t) /\ task[t].session.holds = "base"

TaskFits(t) ==
    /\ task[t].at \in ReuseLabels => ReusesSession(t)
    /\ task[t].at \in BaseLabels => ~ReusesSession(t) /\ ForksBase(t)
    /\ task[t].at \in {"priming", "record", "recording", "base_priming"} =>
         /\ HoldsWhatItNeeds(t) /\ SessionRooted(t)
         /\ task[t].session.n # 0 /\ task[t].source = DirOf[t]
    /\ task[t].at \in {"relocate", "copying"} => HoldsWhatItNeeds(t) /\ SessionRooted(t)
    /\ task[t].at = "copying" => task[t].source # DirOf[t]
    /\ task[t].at \in {"launch", "turn"} =>
         /\ Meant(t, task[t].launch.session.holds, task[t].launch.chunk,
                  task[t].launch.prompt)
         /\ OwnDirectories => Resumed(t) \notin torn

TasksFit == \A t \in Tasks : TaskFits(t)

\* A turn was one of those launches, from a torn copy only in a shared directory.
TurnsFit ==
    \A t \in Tasks : \A i \in 1 .. Len(turns[t]) :
        LET turn == turns[t][i]
        IN  \/ Meant(t, turn.inherited, turn.sent, turn.prompt)
            \/ /\ turn.inherited = "part" /\ ~OwnDirectories
               /\ request[t].session_id # "resumed"

\* The turn a task is taking is its last, and still running.
LastTurnRuns ==
    \A t \in Tasks : task[t].at = "turn" =>
        /\ Len(turns[t]) # 0
        /\ turns[t][Len(turns[t])].outcome = "running"

\* Whoever updates the registry or primes a base holds the lock of its process; in
\* one process what was read of the registry is still what it holds.
LocksHeld ==
    \A t \in Tasks :
        /\ task[t].at = "base_priming" => base_lock[process[t]] = {t}
        /\ task[t].at \in {"recording", "forgetting"} =>
             /\ registry_lock[process[t]] = {t}
             /\ OneProcess => registry_read[t] = registry

\* Unless one was lost, the transcript of every session on record exists, and that
\* of every session about to be recorded.
Kept(record) ==
    record.session.n # 0 => At(record.source, record.session) \in transcripts

TranscriptsKept ==
    losses = 0 =>
        /\ Kept(base_store)
        /\ \A c \in Chunks : Kept(registry[c])
        /\ \A t \in Tasks : \A c \in Chunks : Kept(registry_read[t][c])
        /\ \A t \in Tasks : task[t].at \in {"record", "recording"} => Kept(task[t])

Inv ==
    /\ TypeOK
    /\ RecordsFit /\ TornAreCopies /\ TasksFit /\ TurnsFit /\ LastTurnRuns
    /\ LocksHeld /\ BasePrimedOnlyWhenStale /\ TranscriptsKept

------------------------------------------------------------------------------
(* Types are kept.                                                           *)

\* What is known of the request and the session of a task.
LEMMA TaskKnown ==
    ASSUME Inv, NEW t \in Tasks
    PROVE  /\ ReusesSession(t) => request[t].chunk \in Chunks
           /\ request[t].chunk \in Chunks \cup {"none"}
           /\ Chunks \cap {"base", "own", "nothing", "none", "part"} = {}
           /\ HoldsWhatItNeeds(t) =>
                OnException(task[t].session) =
                    IF ReusesSession(t) THEN "forget" ELSE "base_forget"
           /\ TaskFits(t)
<1>1. request[t].chunk \in Chunks \cup {"none"}
  BY TaskTyped DEF Inv, AllRequests
<1>2. Chunks \cap {"base", "own", "nothing", "none", "part"} = {}
  BY SessionAssumption
<1>3. ReusesSession(t) => request[t].chunk \in Chunks
  BY <1>1 DEF ReusesSession
<1>4. TaskFits(t)
  BY DEF Inv, TasksFit
<1>5. ASSUME HoldsWhatItNeeds(t)
      PROVE  OnException(task[t].session) =
                 IF ReusesSession(t) THEN "forget" ELSE "base_forget"
  <2>1. CASE ReusesSession(t)
    BY <1>2, <1>3, <1>5, <2>1 DEF HoldsWhatItNeeds, OnException
  <2>2. CASE ~ReusesSession(t)
    <3>1. task[t].session.holds = "base" /\ "base" \notin Chunks
      BY <1>2, <1>5, <2>2 DEF HoldsWhatItNeeds
    <3> QED
      BY <2>2, <3>1 DEF OnException
  <2> QED
    BY <2>1, <2>2
<1> QED
  BY <1>1, <1>2, <1>3, <1>4, <1>5

\* A task takes the session of a record.
LEMMA TakesRecordTyped ==
    ASSUME TypeOK, NEW t \in Tasks, NEW record \in Records,
           task' = [task EXCEPT ![t].at = "relocate", ![t].session = record.session,
                                ![t].source = record.source]
    PROVE  task' \in [Tasks -> TaskTypes]
<1> DEFINE new == [task[t] EXCEPT !.at = "relocate", !.session = record.session,
                                  !.source = record.source]
<1>1. new \in TaskTypes
  BY TaskTyped DEF TaskTypes, Records, Labels
<1>2. task' = [task EXCEPT ![t] = new] /\ task \in [Tasks -> TaskTypes]
  BY TypeParts DEF StoreTypes
<1> HIDE DEF new
<1> QED
  BY <1>1, <1>2

LEMMA DispatchTyped ==
    ASSUME TypeOK, NEW t \in Tasks, DispatchSteps(t)
    PROVE  StoreTypes'
<1>1. task \in [Tasks -> TaskTypes]
  BY TypeParts DEF StoreTypes
<1>2. ASSUME NEW to \in Labels, NEW launch \in LaunchTypes, Dispatch(t, to, launch)
      PROVE  StoreTypes'
  <2> DEFINE new == [task[t] EXCEPT !.at = to, !.launch = launch]
  <2>1. new \in TaskTypes
    BY <1>2, TaskTyped DEF TaskTypes
  <2>2. task' = [task EXCEPT ![t] = new]
    BY <1>1, <1>2 DEF Dispatch
  <2>3. task' \in [Tasks -> TaskTypes]
    <3> HIDE DEF new
    <3> QED
      BY <1>1, <2>1, <2>2
  <2> QED
    BY <1>2, <2>3, TypeParts DEF Dispatch, StoreTypes
<1>3. /\ {"lookup", "launch", "base"} \subseteq Labels
      /\ NewTask.launch \in LaunchTypes
      /\ [session |-> NoSession, chunk |-> "none", prompt |-> "fallback"] \in LaunchTypes
  BY ConstantsTyped DEF Labels, NewTask, LaunchTypes
<1>4. [Plain(t) EXCEPT !.session =
         IF request[t].session_id = "resumed" THEN OwnSession ELSE @] \in LaunchTypes
  BY TaskTyped, ConstantsTyped DEF LaunchTypes
<1>5. CASE DispatchToReuse(t)
  BY <1>2, <1>3, <1>5 DEF DispatchToReuse
<1>6. CASE DispatchToFallback(t)
  BY <1>2, <1>3, <1>6 DEF DispatchToFallback
<1>7. CASE DispatchToBase(t)
  BY <1>2, <1>3, <1>7 DEF DispatchToBase
<1>8. CASE DispatchPlain(t)
  BY <1>2, <1>3, <1>4, <1>8 DEF DispatchPlain
<1> QED
  BY <1>5, <1>6, <1>7, <1>8 DEF DispatchSteps

\* The registry's updates: a whole file of records is read, and written back with
\* one of them changed.
LEMMA ReuseStepsTyped ==
    ASSUME Inv, NEW t \in Tasks, ReuseSteps(t) \/ ChunkPrimeEnds(t)
    PROVE  StoreTypes' /\ RegistryTypes'
<1> TypeOK
  BY DEF Inv
<1>1. /\ StoreTypes /\ RegistryTypes /\ task \in [Tasks -> TaskTypes]
      /\ registry \in [Chunks -> Records] /\ registry_read[t] \in [Chunks -> Records]
      /\ process[t] \in Processes
      /\ task[t].session \in Sessions /\ task[t].source \in Dirs \cup {"none"}
      /\ NothingRead \in [Chunks -> Records] /\ NoRecord \in Records
  BY TypeParts, TaskTyped, ConstantsTyped DEF StoreTypes, RegistryTypes, TaskTypes
<1>2. ASSUME UNCHANGED storeVars, task' \in [Tasks -> TaskTypes]
      PROVE  StoreTypes'
  BY <1>1, <1>2 DEF StoreTypes
<1>3. ASSUME UNCHANGED registryVars
      PROVE  RegistryTypes'
  BY <1>1, <1>3 DEF RegistryTypes
<1>4. ASSUME ReleaseRegistry(t), registry' \in [Chunks -> Records]
      PROVE  RegistryTypes'
  BY <1>1, <1>4 DEF RegistryTypes, ReleaseRegistry
<1>5. ASSUME NEW from, NEW to \in Labels, ReadsRegistry(t, from, to)
      PROVE  StoreTypes' /\ RegistryTypes'
  <2>1. task' \in [Tasks -> TaskTypes]
    BY <1>5, MovesTyped DEF ReadsRegistry
  <2> QED
    BY <1>1, <1>2, <1>5, <2>1 DEF ReadsRegistry, Acquire, RegistryTypes
<1>6. \A record \in Records : \A c : [registry_read[t] EXCEPT ![c] = record] \in [Chunks -> Records]
  BY <1>1
<1>7. {"forget", "prime", "priming", "record", "recording", "relocate", "forgetting",
       "lookup"} \subseteq Labels
  BY DEF Labels
<1>8. CASE LookupHits(t)
  <2>1. Recorded(t) \in Records
    BY <1>1, <1>8, TaskKnown DEF LookupHits, Looks, TaskFits, ReuseLabels, Recorded
  <2>2. task' \in [Tasks -> TaskTypes]
    BY <1>8, <2>1, TakesRecordTyped DEF LookupHits
  <2> QED
    BY <1>2, <1>3, <1>8, <2>2 DEF LookupHits
<1>9. CASE LookupHitsLegacy(t)
  BY <1>2, <1>3, <1>7, <1>9, MovesTyped DEF LookupHitsLegacy
<1>10. CASE LookupMisses(t)
  BY <1>2, <1>3, <1>7, <1>10, MovesTyped DEF LookupMisses
<1>11. CASE PrimeChunk(t)
  <2>1. request[t].chunk \in Holds
    BY <1>11, TaskKnown DEF PrimeChunk, TaskFits, ReuseLabels, Holds
  <2> QED
    BY <1>3, <1>7, <1>11, <2>1, SessionStepsTyped DEF PrimeChunk
<1>12. CASE ChunkPrimeTimesOut(t)
  BY <1>3, <1>12, SessionStepsTyped DEF ChunkPrimeTimesOut
<1>13. CASE RecordReads(t)
  BY <1>5, <1>7, <1>13 DEF RecordReads
<1>14. CASE RecordWrites(t)
  <2>1. task' \in [Tasks -> TaskTypes]
    BY <1>7, <1>14, MovesTyped DEF RecordWrites
  <2>2. [session |-> task[t].session, source |-> task[t].source] \in Records
    BY <1>1 DEF Records
  <2>3. registry' \in [Chunks -> Records]
    BY <1>6, <1>14, <2>2 DEF RecordWrites
  <2> QED
    BY <1>2, <1>4, <1>14, <2>1, <2>3 DEF RecordWrites
<1>15. CASE RecordFails(t)
  <2>1. task' \in [Tasks -> TaskTypes]
    BY <1>7, <1>15, MovesTyped DEF RecordFails
  <2> QED
    BY <1>1, <1>2, <1>4, <1>15, <2>1 DEF RecordFails
<1>16. CASE ForgetReads(t)
  BY <1>5, <1>7, <1>16 DEF ForgetReads
<1>17. CASE ForgetEnds(t)
  <2>1. task' \in [Tasks -> TaskTypes]
    BY <1>17, MovesTyped, TaskTyped DEF ForgetEnds, FallBackInline
  <2>2. registry' \in [Chunks -> Records]
    BY <1>1, <1>6, <1>17 DEF ForgetEnds
  <2> QED
    BY <1>2, <1>4, <1>17, <2>1, <2>2 DEF ForgetEnds
<1>18. CASE ChunkPrimed(t)
  BY <1>3, <1>7, <1>18, SessionStepsTyped DEF ChunkPrimed
<1>19. CASE ChunkPrimeFails(t)
  BY <1>3, <1>19, SessionStepsTyped DEF ChunkPrimeFails
<1> QED
  BY <1>8, <1>9, <1>10, <1>11, <1>12, <1>13, <1>14, <1>15, <1>16, <1>17, <1>18, <1>19
     DEF ReuseSteps, ChunkPrimeEnds

LEMMA BaseStepsTyped ==
    ASSUME TypeOK, NEW t \in Tasks, BaseSteps(t) \/ BasePrimeEnds(t)
    PROVE  StoreTypes' /\ BaseTypes'
<1>1. /\ StoreTypes /\ BaseTypes /\ task \in [Tasks -> TaskTypes]
      /\ process[t] \in Processes
      /\ task[t].session \in Sessions /\ task[t].source \in Dirs \cup {"none"}
      /\ NoBase \in Records
  BY TypeParts, TaskTyped, ConstantsTyped DEF StoreTypes, BaseTypes, TaskTypes
<1>2. {"base_priming", "relocate"} \subseteq Labels /\ "base" \in Holds
  BY DEF Labels, Holds
<1>3. ASSUME ReleaseBase(t), base_store' \in Records, base_aged' \in BOOLEAN
      PROVE  BaseTypes'
  BY <1>1, <1>3 DEF BaseTypes, ReleaseBase
<1>4. CASE UseFreshBase(t)
  <2>1. base_store \in Records
    BY <1>1 DEF BaseTypes
  <2>2. task' \in [Tasks -> TaskTypes]
    BY <1>4, <2>1, TakesRecordTyped DEF UseFreshBase
  <2> QED
    BY <1>1, <1>4, <2>2 DEF UseFreshBase, StoreTypes, BaseTypes
<1>5. CASE PrimeBase(t)
  <2>1. StoreTypes'
    BY <1>2, <1>5, SessionStepsTyped DEF PrimeBase
  <2> QED
    BY <1>1, <1>5, <2>1 DEF PrimeBase, BaseTypes
<1>6. CASE BasePrimeFails(t)
  <2>1. StoreTypes'
    BY <1>6, SessionStepsTyped DEF BasePrimeFails
  <2> QED
    BY <1>1, <1>3, <1>6, <2>1 DEF BasePrimeFails, BaseTypes
<1>7. CASE BasePrimed(t)
  <2>1. StoreTypes'
    BY <1>2, <1>7, SessionStepsTyped DEF BasePrimed
  <2>2. [session |-> task[t].session, source |-> task[t].source] \in Records
    BY <1>1 DEF Records
  <2> QED
    BY <1>3, <1>7, <2>1, <2>2 DEF BasePrimed
<1>8. CASE ForgetBase(t)
  <2>1. task' \in [Tasks -> TaskTypes]
    BY <1>8, MovesTyped, TaskTyped DEF ForgetBase
  <2> QED
    BY <1>1, <1>8, <2>1 DEF ForgetBase, StoreTypes, BaseTypes
<1> QED
  BY <1>4, <1>5, <1>6, <1>7, <1>8 DEF BaseSteps, BasePrimeEnds, BasePrimeTimesOut

LEMMA CrashTyped ==
    ASSUME TypeOK, NEW p \in Processes, Crash(p)
    PROVE  StoreTypes' /\ RegistryTypes' /\ BaseTypes' /\ crashes' \in Nat
<1>1. StoreTypes /\ RegistryTypes /\ BaseTypes /\ crashes \in Nat
  BY TypeParts
<1>2. task' \in [Tasks -> TaskTypes]
  BY <1>1, ConstantsTyped DEF Crash, StoreTypes
<1>3. turns' \in [Tasks -> Seq(Turns)]
  <2>1. \A t \in Tasks : turns[t] \in Seq(Turns)
    BY <1>1 DEF StoreTypes
  <2>2. \A t \in Tasks : Ended(turns[t], "crashed", FALSE) \in Seq(Turns)
    BY <2>1, TurnsTyped
  <2>3. turns' = [t \in Tasks |->
          IF process[t] = p /\ task[t].at = "turn"
          THEN Ended(turns[t], "crashed", FALSE)
          ELSE turns[t]]
    BY DEF Crash
  <2> QED
    BY <2>1, <2>2, <2>3, Zenon
<1>4. registry_read' \in [Tasks -> [Chunks -> Records]]
  BY <1>1, ConstantsTyped DEF Crash, RegistryTypes
<1>5. /\ registry_lock' = [registry_lock EXCEPT ![p] = {}]
      /\ base_lock' = [base_lock EXCEPT ![p] = {}] /\ crashes' = crashes + 1
      /\ UNCHANGED <<transcripts, torn, minted, registry, base_store, base_aged>>
  BY DEF Crash
<1>6. StoreTypes'
  BY <1>1, <1>2, <1>3, <1>5 DEF StoreTypes
<1>7. RegistryTypes'
  BY <1>1, <1>4, <1>5 DEF RegistryTypes
<1> QED
  BY <1>1, <1>5, <1>6, <1>7 DEF BaseTypes

LEMMA TypesKept ==
    ASSUME Inv, [Next]_vars
    PROVE  TypeOK'
<1> TypeOK
  BY DEF Inv
<1>1. /\ request \in Workloads /\ process \in Placements
      /\ StoreTypes /\ RegistryTypes /\ BaseTypes /\ crashes \in Nat /\ losses \in Nat
  BY TypeParts
<1>2. ASSUME UNCHANGED rigidVars, StoreTypes', RegistryTypes', BaseTypes',
             crashes' \in Nat, losses' \in Nat
      PROVE  TypeOK'
  BY <1>1, <1>2 DEF TypeOK, StoreTypes, RegistryTypes, BaseTypes, TaskTypes
<1>3. UNCHANGED registryVars => RegistryTypes'
  BY <1>1 DEF RegistryTypes
<1>4. UNCHANGED baseVars => BaseTypes'
  BY <1>1 DEF BaseTypes
<1>5. ASSUME NEW t \in Tasks, TaskStep(t) \/ PrimeEnds(t)
      PROVE  TypeOK'
  <2>1. UNCHANGED <<rigidVars, faultVars>>
    BY <1>5 DEF TaskStep, PrimeEnds
  <2>2. StoreTypes' /\ RegistryTypes' /\ BaseTypes'
    <3>1. CASE DispatchSteps(t)
      <4>1. StoreTypes'
        BY <3>1, DispatchTyped
      <4>2. UNCHANGED <<registryVars, baseVars>>
        BY <3>1 DEF DispatchSteps, Dispatch, DispatchToReuse, DispatchToFallback,
                    DispatchToBase, DispatchPlain
      <4> QED
        BY <1>3, <1>4, <4>1, <4>2
    <3>2. CASE SessionSteps(t) /\ UNCHANGED <<registryVars, baseVars>>
      BY <1>3, <1>4, <3>2, SessionStepsTyped
    <3>3. CASE (ReuseSteps(t) \/ ChunkPrimeEnds(t)) /\ UNCHANGED baseVars
      BY <1>4, <3>3, ReuseStepsTyped
    <3>4. CASE (BaseSteps(t) \/ BasePrimeEnds(t)) /\ UNCHANGED registryVars
      BY <1>3, <3>4, BaseStepsTyped
    <3> QED
      BY <1>5, <3>1, <3>2, <3>3, <3>4 DEF TaskStep, PrimeEnds
  <2> QED
    BY <1>1, <1>2, <2>1, <2>2
<1>6. CASE \E p \in Processes : Crash(p) /\ UNCHANGED rigidVars
  <2>1. StoreTypes' /\ RegistryTypes' /\ BaseTypes' /\ crashes' \in Nat /\ losses' = losses
    BY <1>6, CrashTyped DEF Crash
  <2> QED
    BY <1>1, <1>2, <1>6, <2>1
<1>7. CASE TranscriptLost /\ UNCHANGED rigidVars
  <2>1. transcripts' \in SUBSET Transcripts /\ torn' \in SUBSET Transcripts
    BY <1>1, <1>7 DEF TranscriptLost, StoreTypes
  <2>2. StoreTypes' /\ RegistryTypes' /\ BaseTypes'
    BY <1>1, <1>3, <1>4, <1>7, <2>1 DEF TranscriptLost, StoreTypes
  <2> QED
    BY <1>1, <1>2, <1>7, <2>2 DEF TranscriptLost
<1>8. CASE BaseAges /\ UNCHANGED <<registryVars, faultVars, rigidVars>>
  <2>1. StoreTypes' /\ RegistryTypes' /\ BaseTypes'
    BY <1>1, <1>3, <1>8 DEF BaseAges, StoreTypes, BaseTypes
  <2> QED
    BY <1>1, <1>2, <1>8, <2>1
<1>9. CASE UNCHANGED vars
  BY <1>1, <1>2, <1>3, <1>4, <1>9 DEF vars, StoreTypes
<1> QED
  BY <1>5, <1>6, <1>7, <1>8, <1>9 DEF Next, Faults, AllDone

------------------------------------------------------------------------------
(* The frame of a thread's step.                                             *)

\* The state of the other tasks.
OthersKept(t) ==
    \A u \in Tasks : u # t =>
        /\ task'[u] = task[u] /\ turns'[u] = turns[u]
        /\ registry_read'[u] = registry_read[u]

\* A step of one task's thread leaves the other tasks, what was asked of them and
\* the faults alone, loses no transcript, and tears at most its own copy.
LEMMA StepFrame ==
    ASSUME Inv, NEW t \in Tasks, TaskStep(t) \/ PrimeEnds(t)
    PROVE  /\ UNCHANGED <<request, process, crashes, losses>>
           /\ OthersKept(t)
           /\ transcripts \subseteq transcripts'
           /\ torn' \subseteq torn \cup {At(DirOf[t], task[t].session)}
           /\ CopyBegins(t) \/ torn' \subseteq torn
<1>1. UNCHANGED <<request, process, crashes, losses>>
  BY DEF TaskStep, PrimeEnds
<1>2. TypeOK
  BY DEF Inv
<1> DEFINE Framed == /\ OthersKept(t)
                     /\ transcripts \subseteq transcripts'
                     /\ torn' \subseteq torn \cup {At(DirOf[t], task[t].session)}
                     /\ CopyBegins(t) \/ torn' \subseteq torn
           Local == \A u \in Tasks : u # t => task'[u] = task[u]
<1>3. ASSUME NEW to, Goes(t, task[t].at, to)
      PROVE  Local
  BY <1>2, <1>3 DEF Goes, TypeOK
<1>4. ASSUME NEW launch, Launches(t, launch)
      PROVE  Local
  BY <1>2, <1>4 DEF Launches, TypeOK
<1>5. ASSUME Local, UNCHANGED <<storeVars, registry_read>>
      PROVE  Framed
  BY <1>5 DEF OthersKept
<1>6. \A outcome, worked : EndsTurn(t, outcome, worked) =>
        \A u \in Tasks : u # t => turns'[u] = turns[u]
  BY <1>2 DEF EndsTurn, TypeOK
<1>7. ASSUME DispatchSteps(t) /\ UNCHANGED <<registryVars, baseVars>>
      PROVE  Framed
  <2>1. Local /\ UNCHANGED storeVars
    BY <1>2, <1>7 DEF DispatchSteps, DispatchToReuse, DispatchToFallback, DispatchToBase,
                      DispatchPlain, Dispatch, TypeOK
  <2> QED
    BY <1>5, <1>7, <2>1
<1>8. ASSUME SessionSteps(t) /\ UNCHANGED <<registryVars, baseVars>>
      PROVE  Framed
  <2>1. CASE SourceMissing(t)
    BY <1>3, <1>5, <1>8, <2>1 DEF SourceMissing, Goes
  <2>2. CASE AlreadyPresent(t)
    BY <1>4, <1>5, <1>8, <2>2 DEF AlreadyPresent
  <2>3. CASE CopyBegins(t)
    BY <1>3, <1>8, <2>3 DEF CopyBegins, Goes, OthersKept
  <2>4. CASE CopyEnds(t)
    BY <1>4, <1>8, <2>4 DEF CopyEnds, OthersKept
  <2>5. CASE CopyFails(t)
    BY <1>3, <1>5, <1>8, <2>5 DEF CopyFails, Goes
  <2>6. CASE HarnessRefuses(t)
    BY <1>3, <1>5, <1>8, <2>6 DEF HarnessRefuses, Goes
  <2>7. CASE HarnessTakesTurn(t)
    BY <1>2, <1>3, <1>8, <2>7 DEF HarnessTakesTurn, Goes, OthersKept, TypeOK
  <2>8. CASE RunCompletes(t)
    BY <1>3, <1>6, <1>8, <2>8 DEF RunCompletes, Goes, OthersKept
  <2>9. CASE LaunchRaises(t)
    BY <1>3, <1>5, <1>8, <2>9 DEF LaunchRaises, Goes
  <2>10. CASE RunRaises(t)
    BY <1>3, <1>6, <1>8, <2>10 DEF RunRaises, Goes, OthersKept
  <2> QED
    BY <1>8, <2>1, <2>2, <2>3, <2>4, <2>5, <2>6, <2>7, <2>8, <2>9, <2>10
       DEF SessionSteps
<1>9. ASSUME NEW holds, NEW to, LaunchPrime(t, holds, to), UNCHANGED registry_read
      PROVE  Framed
  BY <1>2, <1>9 DEF LaunchPrime, OthersKept, TypeOK
<1>10. ASSUME NEW from, NEW to, PrimeExits(t, from, to), UNCHANGED registry_read
      PROVE  Framed
  BY <1>3, <1>10 DEF PrimeExits, Goes, OthersKept
<1>11. ASSUME NEW from, PrimeRaises(t, from), UNCHANGED registry_read
      PROVE  Framed
  BY <1>3, <1>5, <1>11 DEF PrimeRaises, Goes
<1>12. ASSUME NEW from, NEW to, ReadsRegistry(t, from, to)
       PROVE  Framed
  BY <1>2, <1>3, <1>12 DEF ReadsRegistry, Goes, OthersKept, TypeOK
<1>13. ASSUME Local, UNCHANGED storeVars, ReleaseRegistry(t)
       PROVE  Framed
  BY <1>2, <1>13 DEF ReleaseRegistry, OthersKept, TypeOK
<1>14. ASSUME (ReuseSteps(t) \/ ChunkPrimeEnds(t)) /\ UNCHANGED baseVars
      PROVE  Framed
  <2>1. CASE LookupHits(t)
    BY <1>2, <1>5, <2>1 DEF LookupHits, TypeOK
  <2>2. CASE LookupHitsLegacy(t) \/ LookupMisses(t)
    BY <1>3, <1>5, <2>2 DEF LookupHitsLegacy, LookupMisses, Goes
  <2>3. CASE PrimeChunk(t)
    BY <1>9, <2>3 DEF PrimeChunk
  <2>4. CASE ChunkPrimeTimesOut(t) \/ ChunkPrimeFails(t)
    BY <1>11, <2>4 DEF ChunkPrimeTimesOut, ChunkPrimeFails
  <2>5. CASE ChunkPrimed(t)
    BY <1>10, <2>5 DEF ChunkPrimed
  <2>6. CASE RecordReads(t) \/ ForgetReads(t)
    BY <1>12, <2>6 DEF RecordReads, ForgetReads
  <2>7. CASE RecordWrites(t)
    BY <1>3, <1>13, <2>7 DEF RecordWrites, Goes
  <2>8. CASE RecordFails(t)
    BY <1>3, <1>13, <2>8 DEF RecordFails, Goes
  <2>9. CASE ForgetEnds(t)
    BY <1>4, <1>13, <2>9 DEF ForgetEnds
  <2> QED
    BY <1>14, <2>1, <2>2, <2>3, <2>4, <2>5, <2>6, <2>7, <2>8, <2>9
       DEF ReuseSteps, ChunkPrimeEnds
<1>15. ASSUME (BaseSteps(t) \/ BasePrimeEnds(t)) /\ UNCHANGED registryVars
      PROVE  Framed
  <2>1. CASE UseFreshBase(t)
    BY <1>2, <1>5, <1>15, <2>1 DEF UseFreshBase, TypeOK
  <2>2. CASE PrimeBase(t)
    BY <1>9, <1>15, <2>2 DEF PrimeBase
  <2>3. CASE BasePrimeFails(t)
    BY <1>11, <1>15, <2>3 DEF BasePrimeFails
  <2>4. CASE BasePrimed(t)
    BY <1>10, <1>15, <2>4 DEF BasePrimed
  <2>5. CASE ForgetBase(t)
    BY <1>4, <1>5, <1>15, <2>5 DEF ForgetBase
  <2> QED
    BY <1>15, <2>1, <2>2, <2>3, <2>4, <2>5 DEF BaseSteps, BasePrimeEnds, BasePrimeTimesOut
<1> QED
  BY <1>1, <1>7, <1>8, <1>14, <1>15
     DEF TaskStep, PrimeEnds, DispatchSteps, Dispatch, DispatchToReuse,
         DispatchToFallback, DispatchToBase, DispatchPlain

------------------------------------------------------------------------------
(* Records and copies.                                                       *)

\* No record is fit for everything.
LEMMA NoRecordFits == \A holds : FitRecord(NoRecord, holds)
BY SessionAssumption DEF FitRecord, Rooted, NoRecord, NoSession, EarlierSession

\* A session about to be recorded is fit for its record, one that is taken from a
\* record keeps its root.
LEMMA TaskRecordFits ==
    ASSUME Inv, NEW t \in Tasks
    PROVE  /\ task[t].at = "recording" =>
                FitRecord([session |-> task[t].session, source |-> task[t].source],
                          request[t].chunk)
           /\ task[t].at = "base_priming" =>
                FitRecord([session |-> task[t].session, source |-> task[t].source],
                          "base")
<1>1. TaskFits(t)
  BY TaskKnown
<1>2. CASE task[t].at = "recording"
  BY <1>1, <1>2 DEF TaskFits, ReuseLabels, HoldsWhatItNeeds, SessionRooted, FitRecord
<1>3. CASE task[t].at = "base_priming"
  BY <1>1, <1>3 DEF TaskFits, BaseLabels, HoldsWhatItNeeds, SessionRooted, FitRecord
<1> QED
  BY <1>2, <1>3

\* Whatever a thread writes into the registry, the base store or its own memory of
\* the registry is fit for where it is written.
LEMMA RecordsStayFit ==
    ASSUME Inv, NEW t \in Tasks, TaskStep(t) \/ PrimeEnds(t)
    PROVE  RecordsFit'
<1>1. /\ RecordsFit /\ TypeOK
      /\ registry \in [Chunks -> Records] /\ registry_read \in [Tasks -> [Chunks -> Records]]
      /\ registry_read[t] \in [Chunks -> Records]
  BY DEF Inv, TypeOK
<1>2. \A c \in Chunks : NothingRead[c] = NoRecord
  BY DEF NothingRead
<1>3. ASSUME UNCHANGED <<registry, registry_read>>, base_store' = base_store
      PROVE  RecordsFit'
  BY <1>1, <1>3 DEF RecordsFit, FitRecord, Rooted
<1>4. ASSUME NEW from, NEW to, ReadsRegistry(t, from, to), base_store' = base_store
      PROVE  RecordsFit'
  <2>1. \A u \in Tasks : registry_read'[u] = IF u = t THEN registry ELSE registry_read[u]
    BY <1>1, <1>4 DEF ReadsRegistry
  <2>2. registry' = registry
    BY <1>4 DEF ReadsRegistry
  <2> QED
    BY <1>1, <1>4, <2>1, <2>2 DEF RecordsFit, FitRecord, Rooted
<1>5. ASSUME ReleaseRegistry(t), base_store' = base_store,
             \A c \in Chunks : FitRecord(registry'[c], c)
      PROVE  RecordsFit'
  <2>1. \A u \in Tasks : registry_read'[u] = IF u = t THEN NothingRead ELSE registry_read[u]
    BY <1>1, <1>5 DEF ReleaseRegistry
  <2> QED
    BY <1>1, <1>2, <1>5, <2>1, NoRecordFits DEF RecordsFit, FitRecord, Rooted
<1>6. ASSUME NEW record, FitRecord(record, request[t].chunk),
             registry' = [registry_read[t] EXCEPT ![request[t].chunk] = record]
      PROVE  \A c \in Chunks : FitRecord(registry'[c], c)
  BY <1>1, <1>6 DEF RecordsFit
<1>7. ASSUME DispatchSteps(t)  PROVE RecordsFit'
  BY <1>3, <1>7 DEF DispatchSteps, Dispatch, DispatchToReuse, DispatchToFallback,
                    DispatchToBase, DispatchPlain
<1>8. ASSUME (ReuseSteps(t) \/ ChunkPrimeEnds(t)) /\ UNCHANGED baseVars
      PROVE  RecordsFit'
  <2>1. CASE LookupHits(t) \/ LookupHitsLegacy(t) \/ LookupMisses(t) \/ PrimeChunk(t)
    BY <1>3, <1>8, <2>1 DEF LookupHits, LookupHitsLegacy, LookupMisses, PrimeChunk
  <2>2. CASE ChunkPrimeTimesOut(t) \/ ChunkPrimeFails(t) \/ ChunkPrimed(t)
    BY <1>3, <1>8, <2>2 DEF ChunkPrimeTimesOut, ChunkPrimeFails, ChunkPrimed
  <2>3. CASE RecordReads(t) \/ ForgetReads(t)
    BY <1>4, <1>8, <2>3 DEF RecordReads, ForgetReads
  <2>4. CASE RecordWrites(t)
    BY <1>5, <1>6, <1>8, <2>4, TaskRecordFits DEF RecordWrites, Goes
  <2>5. CASE RecordFails(t)
    BY <1>1, <1>5, <1>8, <2>5 DEF RecordFails, RecordsFit
  <2>6. CASE ForgetEnds(t)
    <3>1. ReleaseRegistry(t)
      BY <2>6 DEF ForgetEnds
    <3>2. CASE UNCHANGED registry
      BY <1>1, <1>5, <1>8, <3>1, <3>2 DEF RecordsFit
    <3>3. CASE registry' = [registry_read[t] EXCEPT ![request[t].chunk] = NoRecord]
      BY <1>5, <1>6, <1>8, <3>1, <3>3, NoRecordFits
    <3> QED
      BY <2>6, <3>2, <3>3 DEF ForgetEnds
  <2> QED
    BY <1>8, <2>1, <2>2, <2>3, <2>4, <2>5, <2>6 DEF ReuseSteps, ChunkPrimeEnds
<1>9. ASSUME (BaseSteps(t) \/ BasePrimeEnds(t)) /\ UNCHANGED registryVars
      PROVE  RecordsFit'
  <2>1. CASE base_store' = base_store
    BY <1>3, <1>9, <2>1
  <2>2. ASSUME FitRecord(base_store', "base")
        PROVE  RecordsFit'
    BY <1>1, <1>9, <2>2 DEF RecordsFit, FitRecord, Rooted
  <2>3. CASE BasePrimed(t)
    BY <2>2, <2>3, TaskRecordFits DEF BasePrimed, PrimeExits, Goes
  <2>4. CASE ForgetBase(t)
    BY <2>1, <2>2, <2>4, NoRecordFits, ConstantsTyped DEF ForgetBase
  <2> QED
    BY <1>9, <2>1, <2>3, <2>4
       DEF BaseSteps, BasePrimeEnds, UseFreshBase, PrimeBase, BasePrimeTimesOut, BasePrimeFails
<1> QED
  BY <1>3, <1>7, <1>8, <1>9 DEF TaskStep, PrimeEnds

\* Only the beginning of a copy tears a file, and it copies out of another directory.
LEMMA TornStayCopies ==
    ASSUME Inv, NEW t \in Tasks, TaskStep(t) \/ PrimeEnds(t)
    PROVE  TornAreCopies'
<1>1. TornAreCopies /\ TaskFits(t)
  BY TaskKnown DEF Inv
<1>2. CASE torn' \subseteq torn
  BY <1>1, <1>2 DEF TornAreCopies
<1>3. CASE CopyBegins(t)
  <2> DEFINE file == At(DirOf[t], task[t].session)
  <2>1. /\ HoldsWhatItNeeds(t) /\ SessionRooted(t) /\ task[t].source # DirOf[t]
    BY <1>1, <1>3 DEF TaskFits, CopyBegins, Goes
  <2>2. file.session.holds \in Chunks \cup {"base"}
    BY <2>1, TaskKnown DEF HoldsWhatItNeeds, At
  <2>3. file.session.n # 0 => file.dir # DirOf[file.session.by]
    BY <2>1 DEF SessionRooted, Rooted, At
  <2>4. torn' \subseteq torn \cup {file}
    BY StepFrame
  <2> HIDE DEF file
  <2> QED
    BY <1>1, <2>2, <2>3, <2>4 DEF TornAreCopies
<1> QED
  BY <1>2, <1>3, StepFrame

------------------------------------------------------------------------------
(* What the tasks do with their sessions.                                    *)

\* Another task's step disturbs none of this: a copy it tears is in its own
\* directory.
LEMMA OthersStayFit ==
    ASSUME Inv, NEW t \in Tasks, UNCHANGED request, OthersKept(t),
           torn' \subseteq torn \cup {At(DirOf[t], task[t].session)},
           NEW u \in Tasks, u # t
    PROVE  TaskFits(u)'
<1>1. TaskFits(u)
  BY TaskKnown
<1>2. task'[u] = task[u] /\ request'[u] = request[u] /\ Resumed(u)' = Resumed(u)
  BY DEF OthersKept, Resumed
<1>3. OwnDirectories => Resumed(u) # At(DirOf[t], task[t].session)
  BY DEF OwnDirectories, Resumed, At
<1>4. \A holds, sent, prompt : Meant(u, holds, sent, prompt)' <=> Meant(u, holds, sent, prompt)
  BY <1>2 DEF Meant, ReusesSession, ForksBase, MayFallBack
<1> QED
  BY <1>1, <1>2, <1>3, <1>4
     DEF TaskFits, HoldsWhatItNeeds, SessionRooted, ReusesSession, ForksBase

\* A task that goes to a label with the session it has.
LEMMA GoesFit ==
    ASSUME Inv, NEW t \in Tasks, NEW to, Goes(t, task[t].at, to),
           UNCHANGED request, torn' \subseteq torn,
           to \in ReuseLabels => ReusesSession(t),
           to \in BaseLabels => ~ReusesSession(t) /\ ForksBase(t),
           to \in {"record", "recording", "relocate"} =>
               task[t].at \in {"priming", "record", "recording", "base_priming"},
           to \notin {"priming", "base_priming", "copying", "launch"},
           to = "turn" => task[t].at = "launch"
    PROVE  TaskFits(t)'
<1>1. /\ TaskFits(t) /\ task'[t] = [task[t] EXCEPT !.at = to]
      /\ task[t] \in TaskTypes
  BY TaskKnown, TaskTyped DEF Goes, Inv, TypeOK
<1>2. /\ task'[t].at = to /\ task'[t].session = task[t].session
      /\ task'[t].source = task[t].source /\ task'[t].launch = task[t].launch
  BY <1>1 DEF TaskTypes
<1>3. \A holds, sent, prompt : Meant(t, holds, sent, prompt)' <=> Meant(t, holds, sent, prompt)
  BY DEF Meant, ReusesSession, ForksBase, MayFallBack
<1>4. /\ Resumed(t)' = Resumed(t) /\ (ReusesSession(t)' <=> ReusesSession(t))
      /\ (ForksBase(t)' <=> ForksBase(t))
      /\ (HoldsWhatItNeeds(t)' <=> HoldsWhatItNeeds(t))
      /\ (SessionRooted(t)' <=> SessionRooted(t))
  BY <1>2 DEF Resumed, ReusesSession, ForksBase, HoldsWhatItNeeds, SessionRooted
<1> QED
  BY <1>1, <1>2, <1>3, <1>4 DEF TaskFits, ReuseLabels, BaseLabels

\* A task that goes to its launch.
LEMMA LaunchesFit ==
    ASSUME Inv, NEW t \in Tasks, NEW launch, task'[t].at = "launch",
           task'[t].launch = launch, UNCHANGED request,
           Meant(t, launch.session.holds, launch.chunk, launch.prompt),
           OwnDirectories => At(DirOf[t], launch.session) \notin torn'
    PROVE  TaskFits(t)'
<1>1. \A holds, sent, prompt : Meant(t, holds, sent, prompt)' <=> Meant(t, holds, sent, prompt)
  BY DEF Meant, ReusesSession, ForksBase, MayFallBack
<1> QED
  BY <1>1 DEF TaskFits, Resumed, ReuseLabels, BaseLabels

\* Without a session, or with the caller's own, nothing torn is resumed.
LEMMA NothingTorn ==
    ASSUME Inv, NEW dir, NEW session, session.holds \in {"nothing", "own"}
    PROVE  At(dir, session) \notin torn
BY SessionAssumption DEF Inv, TornAreCopies, At

\* The plain launch is right for whoever does not resume a session.
LEMMA PlainMeant ==
    ASSUME NEW t \in Tasks, request[t].session_id # "resumed"
    PROVE  /\ Plain(t).session.holds = "nothing"
           /\ Meant(t, Plain(t).session.holds, Plain(t).chunk, Plain(t).prompt)
BY DEF Plain, NoSession, EarlierSession, Meant

\* The fork of a session is right for whoever has the session it needs.
LEMMA ForkMeant ==
    ASSUME NEW t \in Tasks, HoldsWhatItNeeds(t)
    PROVE  Meant(t, Fork(t).session.holds, Fork(t).chunk, Fork(t).prompt)
BY DEF Fork, Meant, HoldsWhatItNeeds

\* A dispatched task.
LEMMA DispatchFits ==
    ASSUME Inv, NEW t \in Tasks, DispatchSteps(t), UNCHANGED request
    PROVE  TaskFits(t)'
<1>1. torn' = torn
  BY DEF DispatchSteps, Dispatch, DispatchToReuse, DispatchToFallback, DispatchToBase,
         DispatchPlain
<1>2. ASSUME NEW to, NEW launch, Dispatch(t, to, launch)
      PROVE  task'[t].at = to /\ task'[t].launch = launch
  BY <1>2, TaskTyped DEF Dispatch, Inv, TypeOK, TaskTypes
<1>3. (ReusesSession(t)' <=> ReusesSession(t)) /\ (ForksBase(t)' <=> ForksBase(t))
  BY DEF ReusesSession, ForksBase
<1>4. CASE DispatchToReuse(t)
  <2>1. task'[t].at = "lookup" /\ ReusesSession(t)
    BY <1>2, <1>4 DEF DispatchToReuse
  <2> QED
    BY <1>3, <2>1 DEF TaskFits, ReuseLabels, BaseLabels
<1>5. CASE DispatchToBase(t)
  <2>1. task'[t].at = "base" /\ ~ReusesSession(t) /\ ForksBase(t)
    BY <1>2, <1>5 DEF DispatchToBase
  <2> QED
    BY <1>3, <2>1 DEF TaskFits, ReuseLabels, BaseLabels
<1>6. CASE DispatchToFallback(t)
  <2> DEFINE launch == [session |-> NoSession, chunk |-> "none", prompt |-> "fallback"]
  <2>1. task'[t].at = "launch" /\ task'[t].launch = launch
    BY <1>2, <1>6 DEF DispatchToFallback
  <2>2. /\ Meant(t, launch.session.holds, launch.chunk, launch.prompt)
        /\ launch.session.holds = "nothing"
    BY <1>6 DEF DispatchToFallback, MayFallBack, Meant, NoSession, EarlierSession
  <2> HIDE DEF launch
  <2> QED
    BY <1>1, <2>1, <2>2, LaunchesFit, NothingTorn
<1>7. CASE DispatchPlain(t)
  <2> DEFINE launch == [Plain(t) EXCEPT !.session =
                          IF request[t].session_id = "resumed" THEN OwnSession ELSE @]
  <2>1. task'[t].at = "launch" /\ task'[t].launch = launch
    BY <1>2, <1>7 DEF DispatchPlain
  <2>2. /\ Meant(t, launch.session.holds, launch.chunk, launch.prompt)
        /\ launch.session.holds \in {"nothing", "own"}
    BY DEF Plain, NoSession, OwnSession, EarlierSession, Meant
  <2> HIDE DEF launch
  <2> QED
    BY <1>1, <2>1, <2>2, LaunchesFit, NothingTorn
<1> QED
  BY <1>4, <1>5, <1>6, <1>7 DEF DispatchSteps

\* A relocated session, and a launched one.
LEMMA SessionStepFits ==
    ASSUME Inv, NEW t \in Tasks, SessionSteps(t), UNCHANGED request
    PROVE  TaskFits(t)'
<1>1. TaskFits(t) /\ task \in [Tasks -> TaskTypes]
  BY TaskKnown DEF Inv, TypeOK, TaskTypes
<1>2. \A launch : Launches(t, launch) => task'[t].at = "launch" /\ task'[t].launch = launch
  BY <1>1 DEF Launches
<1>3. ASSUME HoldsWhatItNeeds(t)
      PROVE  /\ ReusesSession(t) => OnException(task[t].session) = "forget"
             /\ ~ReusesSession(t) =>
                  ForksBase(t) /\ OnException(task[t].session) = "base_forget"
  BY <1>3, TaskKnown DEF HoldsWhatItNeeds
<1>4. ASSUME task[t].at \in {"launch", "turn"}
      PROVE  \/ ReusesSession(t) /\ OnException(task[t].launch.session) = "forget"
             \/ /\ ~ReusesSession(t) /\ ForksBase(t)
                /\ OnException(task[t].launch.session) = "base_forget"
             \/ OnException(task[t].launch.session) = "raised"
  <2> DEFINE holds == task[t].launch.session.holds
  <2>1. Meant(t, holds, task[t].launch.chunk, task[t].launch.prompt)
    BY <1>1, <1>4 DEF TaskFits
  <2>2. \/ holds \in {"nothing", "own"} \ Chunks
        \/ holds \in Chunks \ {"base"} /\ ReusesSession(t)
        \/ holds = "base" /\ holds \notin Chunks /\ ~ReusesSession(t) /\ ForksBase(t)
    BY <2>1, TaskKnown DEF Meant
  <2> QED
    BY <2>2 DEF OnException
<1>5. CASE SourceMissing(t) \/ CopyFails(t)
  <2>1. HoldsWhatItNeeds(t)
    BY <1>1, <1>5 DEF SourceMissing, CopyFails, Goes, TaskFits
  <2>2. Goes(t, task[t].at, OnException(task[t].session)) /\ torn' = torn
    BY <1>5 DEF SourceMissing, CopyFails, Goes
  <2>3. \/ ReusesSession(t) /\ OnException(task[t].session) = "forget"
        \/ /\ ~ReusesSession(t) /\ ForksBase(t)
           /\ OnException(task[t].session) = "base_forget"
    BY <1>3, <2>1
  <2> QED
    BY <2>2, <2>3, GoesFit DEF ReuseLabels, BaseLabels
<1>6. CASE AlreadyPresent(t)
  <2>1. HoldsWhatItNeeds(t) /\ SessionRooted(t) /\ task[t].source = DirOf[t] /\ torn' = torn
    BY <1>1, <1>6 DEF AlreadyPresent, TaskFits
  <2>2. task[t].session.n # 0 /\ DirOf[t] = DirOf[task[t].session.by]
    BY <2>1 DEF SessionRooted, Rooted
  <2>3. At(DirOf[t], Fork(t).session) \notin torn
    BY <2>2 DEF Inv, TornAreCopies, At, Fork
  <2> QED
    BY <1>2, <1>6, <2>1, <2>3, ForkMeant, LaunchesFit DEF AlreadyPresent
<1>7. CASE CopyBegins(t)
  <2>1. HoldsWhatItNeeds(t) /\ SessionRooted(t) /\ task[t].source # DirOf[t]
    BY <1>1, <1>7 DEF CopyBegins, Goes, TaskFits
  <2>2. task'[t] = [task[t] EXCEPT !.at = "copying"] /\ task[t] \in TaskTypes
    BY <1>1, <1>7 DEF CopyBegins, Goes
  <2>3. /\ task'[t].at = "copying" /\ task'[t].session = task[t].session
        /\ task'[t].source = task[t].source
    BY <2>2 DEF TaskTypes
  <2> QED
    BY <2>1, <2>3 DEF TaskFits, HoldsWhatItNeeds, SessionRooted, ReusesSession, ForksBase,
                      ReuseLabels, BaseLabels
<1>8. CASE CopyEnds(t)
  <2>1. HoldsWhatItNeeds(t)
    BY <1>1, <1>8 DEF CopyEnds, TaskFits
  <2>2. At(DirOf[t], Fork(t).session) \notin torn'
    BY <1>8 DEF CopyEnds, Fork
  <2> QED
    BY <1>2, <1>8, <2>1, <2>2, ForkMeant, LaunchesFit DEF CopyEnds
<1>9. CASE HarnessRefuses(t) \/ RunCompletes(t)
  <2>1. Goes(t, task[t].at, "returned") /\ torn' = torn
    BY <1>9 DEF HarnessRefuses, RunCompletes, Goes
  <2> QED
    BY <2>1, GoesFit DEF ReuseLabels, BaseLabels
<1>10. CASE HarnessTakesTurn(t)
  <2>1. Goes(t, task[t].at, "turn") /\ torn' = torn /\ task[t].at = "launch"
    BY <1>10 DEF HarnessTakesTurn, Goes
  <2> QED
    BY <2>1, GoesFit DEF ReuseLabels, BaseLabels
<1>11. CASE LaunchRaises(t) \/ RunRaises(t)
  <2>1. /\ Goes(t, task[t].at, OnException(task[t].launch.session)) /\ torn' = torn
        /\ task[t].at \in {"launch", "turn"}
    BY <1>11 DEF LaunchRaises, RunRaises, Goes
  <2> QED
    BY <1>4, <2>1, GoesFit DEF ReuseLabels, BaseLabels
<1> QED
  BY <1>5, <1>6, <1>7, <1>8, <1>9, <1>10, <1>11 DEF SessionSteps

\* A primed session belongs to the task that primed it.
LEMMA PrimeFits ==
    ASSUME Inv, NEW t \in Tasks, NEW holds, NEW to, LaunchPrime(t, holds, to),
           UNCHANGED request,
           \/ to = "priming" /\ ReusesSession(t) /\ holds = request[t].chunk
           \/ to = "base_priming" /\ ~ReusesSession(t) /\ ForksBase(t) /\ holds = "base"
    PROVE  TaskFits(t)'
<1>1. /\ task'[t] = [task[t] EXCEPT !.at = to,
           !.session = [holds |-> holds, by |-> t, n |-> minted[t] + 1],
           !.source = DirOf[t]]
      /\ task[t] \in TaskTypes /\ minted[t] \in Nat
  BY TaskTyped DEF LaunchPrime, Inv, TypeOK
<1>2. /\ task'[t].at = to /\ task'[t].source = DirOf[t]
      /\ task'[t].session = [holds |-> holds, by |-> t, n |-> minted[t] + 1]
  BY <1>1 DEF TaskTypes
<1>3. /\ task'[t].session.holds = holds /\ task'[t].session.by = t
      /\ task'[t].session.n # 0
  BY <1>1, <1>2
<1> QED
  BY <1>2, <1>3 DEF TaskFits, HoldsWhatItNeeds, SessionRooted, Rooted, ReusesSession,
                    ForksBase, ReuseLabels, BaseLabels

\* A task that takes the session of a record takes what it needs.
LEMMA TakesRecordFits ==
    ASSUME Inv, NEW t \in Tasks, NEW record, UNCHANGED request,
           task' = [task EXCEPT ![t].at = "relocate", ![t].session = record.session,
                                ![t].source = record.source],
           Rooted(record.session, record.source),
           \/ ReusesSession(t) /\ record.session.holds = request[t].chunk
           \/ ~ReusesSession(t) /\ ForksBase(t) /\ record.session.holds = "base"
    PROVE  TaskFits(t)'
<1>1. /\ task'[t].at = "relocate" /\ task'[t].session = record.session
      /\ task'[t].source = record.source
  BY TaskTyped DEF Inv, TypeOK, TaskTypes
<1> QED
  BY <1>1 DEF TaskFits, HoldsWhatItNeeds, SessionRooted, ReusesSession,
              ForksBase, ReuseLabels, BaseLabels

\* Looking a chunk up, priming and recording it, forgetting it.
LEMMA ReuseStepFits ==
    ASSUME Inv, NEW t \in Tasks, ReuseSteps(t) \/ ChunkPrimeEnds(t), UNCHANGED request
    PROVE  TaskFits(t)'
<1>1. TaskFits(t) /\ task \in [Tasks -> TaskTypes]
  BY TaskKnown DEF Inv, TypeOK, TaskTypes
<1>2. ReusesSession(t) /\ request[t].chunk \in Chunks /\ request[t].session_id # "resumed"
  <2>1. task[t].at \in ReuseLabels
    BY DEF ReuseSteps, ChunkPrimeEnds, LookupHits, LookupHitsLegacy, LookupMisses, Looks,
           PrimeChunk, ChunkPrimeTimesOut, ChunkPrimeFails, ChunkPrimed, PrimeRaises,
           PrimeExits, RecordReads, ForgetReads, ReadsRegistry, RecordWrites, RecordFails,
           ForgetEnds, Goes, ReuseLabels
  <2> QED
    BY <1>1, <2>1, TaskKnown DEF TaskFits, ReusesSession
<1>3. torn' = torn
  BY DEF ReuseSteps, ChunkPrimeEnds, LookupHits, LookupHitsLegacy, LookupMisses,
         PrimeChunk, LaunchPrime, ChunkPrimeTimesOut, ChunkPrimeFails, ChunkPrimed,
         PrimeRaises, PrimeExits, RecordReads, ForgetReads, ReadsRegistry, RecordWrites,
         RecordFails, ForgetEnds
<1>4. CASE LookupHits(t)
  <2>1. Recorded(t) # NoRecord /\ FitRecord(Recorded(t), request[t].chunk)
    BY <1>2, <1>4 DEF LookupHits, Recorded, NoRecord, Inv, RecordsFit
  <2> QED
    BY <1>2, <1>4, <2>1, TakesRecordFits DEF LookupHits, FitRecord
<1>5. CASE LookupHitsLegacy(t) \/ LookupMisses(t)
  <2>1. Goes(t, task[t].at, "forget") \/ Goes(t, task[t].at, "prime")
    BY <1>5 DEF LookupHitsLegacy, LookupMisses, Goes
  <2> QED
    BY <1>2, <1>3, <2>1, GoesFit DEF ReuseLabels, BaseLabels
<1>6. CASE PrimeChunk(t)
  BY <1>2, <1>6, PrimeFits DEF PrimeChunk
<1>7. CASE ChunkPrimeTimesOut(t) \/ ChunkPrimeFails(t)
  <2>1. HoldsWhatItNeeds(t) /\ Goes(t, task[t].at, OnException(task[t].session))
    BY <1>1, <1>7 DEF ChunkPrimeTimesOut, ChunkPrimeFails, PrimeRaises, Goes, TaskFits
  <2>2. Goes(t, task[t].at, "forget")
    BY <1>2, <2>1, TaskKnown
  <2> QED
    BY <1>2, <1>3, <2>2, GoesFit DEF ReuseLabels, BaseLabels
<1>8. CASE ChunkPrimed(t) \/ RecordReads(t) \/ RecordWrites(t)
  <2>1. /\ \E to \in {"record", "recording", "relocate"} : Goes(t, task[t].at, to)
        /\ task[t].at \in {"priming", "record", "recording"}
    BY <1>8 DEF ChunkPrimed, PrimeExits, RecordReads, ReadsRegistry, RecordWrites, Goes
  <2> QED
    BY <1>2, <1>3, <2>1, GoesFit DEF ReuseLabels, BaseLabels
<1>9. CASE RecordFails(t) \/ ForgetReads(t)
  <2>1. Goes(t, task[t].at, "forget") \/ Goes(t, task[t].at, "forgetting")
    BY <1>9 DEF RecordFails, ForgetReads, ReadsRegistry, Goes
  <2> QED
    BY <1>2, <1>3, <2>1, GoesFit DEF ReuseLabels, BaseLabels
<1>10. CASE ForgetEnds(t)
  <2>1. task'[t].at = "launch" /\ task'[t].launch = Plain(t)
    BY <1>1, <1>10 DEF ForgetEnds, Launches, FallBackInline
  <2> QED
    BY <1>2, <1>3, <2>1, LaunchesFit, NothingTorn, PlainMeant
<1> QED
  BY <1>4, <1>5, <1>6, <1>7, <1>8, <1>9, <1>10 DEF ReuseSteps, ChunkPrimeEnds

\* Using, priming and forgetting the base.
LEMMA BaseStepFits ==
    ASSUME Inv, NEW t \in Tasks, BaseSteps(t) \/ BasePrimeEnds(t), UNCHANGED request
    PROVE  TaskFits(t)'
<1>1. TaskFits(t) /\ task \in [Tasks -> TaskTypes]
  BY TaskKnown DEF Inv, TypeOK, TaskTypes
<1>2. ~ReusesSession(t) /\ ForksBase(t) /\ request[t].session_id # "resumed"
  <2>1. task[t].at \in BaseLabels
    BY DEF BaseSteps, BasePrimeEnds, UseFreshBase, PrimeBase, BasePrimeTimesOut,
           BasePrimeFails, BasePrimed, PrimeRaises, PrimeExits, ForgetBase, Goes, BaseLabels
  <2> QED
    BY <1>1, <2>1 DEF TaskFits, ForksBase
<1>3. torn' = torn
  BY DEF BaseSteps, BasePrimeEnds, UseFreshBase, PrimeBase, LaunchPrime, BasePrimeTimesOut,
         BasePrimeFails, BasePrimed, PrimeRaises, PrimeExits, ForgetBase
<1>4. CASE UseFreshBase(t)
  <2>1. At(base_store.source, base_store.session) \in Transcripts
    BY <1>4 DEF UseFreshBase, FreshFor, Fresh, Inv, TypeOK
  <2>2. base_store # NoRecord
    <3>1. base_store.source \in Dirs
      BY <2>1 DEF At, Transcripts
    <3> QED
      BY <3>1, SessionAssumption DEF NoRecord
  <2>3. FitRecord(base_store, "base")
    BY DEF Inv, RecordsFit
  <2> QED
    BY <1>2, <1>4, <2>2, <2>3, TakesRecordFits DEF UseFreshBase, FitRecord
<1>5. CASE PrimeBase(t)
  BY <1>2, <1>5, PrimeFits DEF PrimeBase
<1>6. CASE BasePrimeFails(t)
  <2>1. HoldsWhatItNeeds(t) /\ Goes(t, task[t].at, OnException(task[t].session))
    BY <1>1, <1>6 DEF BasePrimeFails, PrimeRaises, Goes, TaskFits
  <2>2. Goes(t, task[t].at, "base_forget")
    BY <1>2, <2>1, TaskKnown
  <2> QED
    BY <1>2, <1>3, <2>2, GoesFit DEF ReuseLabels, BaseLabels
<1>7. CASE BasePrimed(t)
  <2>1. Goes(t, task[t].at, "relocate") /\ task[t].at = "base_priming"
    BY <1>7 DEF BasePrimed, PrimeExits, Goes
  <2> QED
    BY <1>2, <1>3, <2>1, GoesFit DEF ReuseLabels, BaseLabels
<1>8. CASE ForgetBase(t)
  <2>1. task'[t].at = "launch" /\ task'[t].launch = Plain(t)
    BY <1>1, <1>8 DEF ForgetBase, Launches
  <2> QED
    BY <1>2, <1>3, <2>1, LaunchesFit, NothingTorn, PlainMeant
<1> QED
  BY <1>4, <1>5, <1>6, <1>7, <1>8 DEF BaseSteps, BasePrimeEnds, BasePrimeTimesOut

LEMMA TasksStayFit ==
    ASSUME Inv, NEW t \in Tasks, TaskStep(t) \/ PrimeEnds(t)
    PROVE  TasksFit'
<1>1. TaskFits(t)'
  BY StepFrame, DispatchFits, SessionStepFits, ReuseStepFits, BaseStepFits
     DEF TaskStep, PrimeEnds
<1>2. \A u \in Tasks : u # t => TaskFits(u)'
  BY StepFrame, OthersStayFit
<1> QED
  BY <1>1, <1>2 DEF TasksFit

------------------------------------------------------------------------------
(* Turns.                                                                    *)

\* Only taking a turn and ending one change a task's turns, and only a task that
\* ends its turn leaves "turn".
LEMMA TurnSteps ==
    ASSUME Inv, NEW t \in Tasks, TaskStep(t) \/ PrimeEnds(t)
    PROVE  \/ HarnessTakesTurn(t)
           \/ RunCompletes(t)
           \/ RunRaises(t)
           \/ UNCHANGED turns /\ task[t].at \notin {"turn", "returned"} /\ task'[t].at # "turn"
<1>1. /\ task \in [Tasks -> TaskTypes] /\ task[t] \in TaskTypes
      /\ \A session : OnException(session) # "turn"
  BY DEF Inv, TypeOK, TaskTypes, OnException
<1> DEFINE Calm == UNCHANGED turns /\ task[t].at \notin {"turn", "returned"} /\ task'[t].at # "turn"
<1>2. ASSUME NEW from, NEW to, Goes(t, from, to), from \notin {"turn", "returned"}, to # "turn",
             UNCHANGED turns
      PROVE  Calm
  BY <1>1, <1>2 DEF Goes, TaskTypes
<1>3. ASSUME NEW launch, Launches(t, launch)
      PROVE  task'[t].at # "turn"
  BY <1>1, <1>3 DEF Launches
<1>4. ASSUME DispatchSteps(t)  PROVE Calm
  <2>1. ASSUME NEW to, NEW launch, Dispatch(t, to, launch)
        PROVE  task'[t].at = to /\ UNCHANGED turns /\ task[t].at = "start"
    BY <1>1, <2>1 DEF Dispatch, TaskTypes
  <2> QED
    BY <1>4, <2>1 DEF DispatchSteps, DispatchToReuse, DispatchToFallback, DispatchToBase,
                      DispatchPlain
<1>5. ASSUME SessionSteps(t)
      PROVE  HarnessTakesTurn(t) \/ RunCompletes(t) \/ RunRaises(t) \/ Calm
  <2>1. CASE SourceMissing(t) \/ CopyFails(t) \/ HarnessRefuses(t) \/ LaunchRaises(t)
    BY <1>1, <1>2, <2>1 DEF SourceMissing, CopyFails, HarnessRefuses, LaunchRaises
  <2>2. CASE CopyBegins(t)
    BY <1>2, <2>2 DEF CopyBegins
  <2>3. CASE AlreadyPresent(t) \/ CopyEnds(t)
    BY <1>3, <2>3 DEF AlreadyPresent, CopyEnds
  <2> QED
    BY <1>5, <2>1, <2>2, <2>3 DEF SessionSteps
<1>6. ASSUME NEW holds, NEW to, LaunchPrime(t, holds, to), to # "turn"
      PROVE  UNCHANGED turns /\ task'[t].at # "turn"
  BY <1>1, <1>6 DEF LaunchPrime, TaskTypes
<1>7. ASSUME NEW record, task' = [task EXCEPT ![t].at = "relocate",
                ![t].session = record.session, ![t].source = record.source]
      PROVE  task'[t].at # "turn"
  BY <1>1, <1>7 DEF TaskTypes
<1>8. ASSUME ReuseSteps(t) \/ ChunkPrimeEnds(t)  PROVE Calm
  <2>1. CASE LookupHits(t)
    BY <1>7, <2>1 DEF LookupHits, Looks
  <2>2. CASE LookupHitsLegacy(t) \/ LookupMisses(t)
    BY <1>2, <2>2 DEF LookupHitsLegacy, LookupMisses
  <2>3. CASE PrimeChunk(t)
    BY <1>6, <2>3 DEF PrimeChunk
  <2>4. CASE ChunkPrimeTimesOut(t) \/ ChunkPrimeFails(t) \/ ChunkPrimed(t)
    BY <1>1, <1>2, <2>4 DEF ChunkPrimeTimesOut, ChunkPrimeFails, ChunkPrimed, PrimeRaises,
                            PrimeExits
  <2>5. CASE RecordReads(t) \/ ForgetReads(t) \/ RecordWrites(t) \/ RecordFails(t)
    BY <1>2, <2>5 DEF RecordReads, ForgetReads, ReadsRegistry, RecordWrites, RecordFails
  <2>6. CASE ForgetEnds(t)
    BY <1>3, <2>6 DEF ForgetEnds
  <2> QED
    BY <1>8, <2>1, <2>2, <2>3, <2>4, <2>5, <2>6 DEF ReuseSteps, ChunkPrimeEnds
<1>9. ASSUME BaseSteps(t) \/ BasePrimeEnds(t)  PROVE Calm
  <2>1. CASE UseFreshBase(t)
    BY <1>7, <2>1 DEF UseFreshBase
  <2>2. CASE PrimeBase(t)
    BY <1>6, <2>2 DEF PrimeBase
  <2>3. CASE BasePrimeFails(t) \/ BasePrimed(t)
    BY <1>1, <1>2, <2>3 DEF BasePrimeFails, BasePrimed, PrimeRaises, PrimeExits
  <2>4. CASE ForgetBase(t)
    BY <1>3, <2>4 DEF ForgetBase
  <2> QED
    BY <1>9, <2>1, <2>2, <2>3, <2>4 DEF BaseSteps, BasePrimeEnds, BasePrimeTimesOut
<1> QED
  BY <1>4, <1>5, <1>8, <1>9 DEF TaskStep, PrimeEnds

\* An outcome changes nothing else of a task's turns but whether the work was done.
LEMMA EndsTurnKnown ==
    ASSUME TypeOK, NEW t \in Tasks,
           NEW outcome \in {"running", "completed", "raised", "crashed"},
           \E worked \in BOOLEAN : turns'[t] = Ended(turns[t], outcome, worked)
    PROVE  /\ Len(turns'[t]) = Len(turns[t])
           /\ \A i \in 1 .. Len(turns[t]) :
                /\ turns'[t][i].inherited = turns[t][i].inherited
                /\ turns'[t][i].sent = turns[t][i].sent
                /\ turns'[t][i].prompt = turns[t][i].prompt
                /\ turns'[t][i].outcome =
                     IF i = Len(turns[t]) THEN outcome ELSE turns[t][i].outcome
<1> DEFINE s == turns[t]
           n == turns'[t]
<1>1. s \in Seq(Turns)
  BY DEF TypeOK
<1>2. PICK worked \in BOOLEAN : n = Ended(s, outcome, worked)
  OBVIOUS
<1> HIDE DEF s, n
<1>3. Len(s) \in Nat /\ DOMAIN s = 1 .. Len(s)
  BY <1>1
<1>4. DOMAIN n = 1 .. Len(s)
  BY <1>2, <1>3 DEF Ended
<1>5. \A i \in 1 .. Len(s) :
        /\ i # Len(s) => n[i] = s[i]
        /\ i = Len(s) =>
             n[i] = [[s[i] EXCEPT !.outcome = outcome] EXCEPT !.worked = worked]
  BY <1>2, <1>3 DEF Ended
<1>6. n = [i \in 1 .. Len(s) |-> n[i]]
  BY <1>2, <1>3 DEF Ended
<1>7. Len(n) = Len(s)
  BY <1>3, <1>6
<1>8. ASSUME NEW i \in 1 .. Len(s)
      PROVE  /\ n[i].inherited = s[i].inherited /\ n[i].sent = s[i].sent
             /\ n[i].prompt = s[i].prompt
             /\ n[i].outcome = IF i = Len(s) THEN outcome ELSE s[i].outcome
  <2>1. s[i] \in Turns
    BY <1>1
  <2> QED
    BY <1>5, <2>1 DEF Turns
<1> QED
  BY <1>7, <1>8 DEF s, n

\* One turn more.
LEMMA AppendKnown ==
    ASSUME NEW s \in Seq(Turns), NEW turn
    PROVE  /\ Len(Append(s, turn)) = Len(s) + 1 /\ Len(s) \in Nat
           /\ Append(s, turn)[Len(s) + 1] = turn
           /\ \A i \in 1 .. Len(s) : Append(s, turn)[i] = s[i]
OBVIOUS

LEMMA TurnsStayFit ==
    ASSUME Inv, NEW t \in Tasks, TaskStep(t) \/ PrimeEnds(t)
    PROVE  TurnsFit'
<1> DEFINE Fit(u, turn) == \/ Meant(u, turn.inherited, turn.sent, turn.prompt)
                           \/ /\ turn.inherited = "part" /\ ~OwnDirectories
                              /\ request[u].session_id # "resumed"
<1>1. /\ TypeOK /\ TaskFits(t) /\ UNCHANGED request /\ OthersKept(t)
      /\ \A u \in Tasks : \A i \in 1 .. Len(turns[u]) : Fit(u, turns[u][i])
  BY TaskKnown, StepFrame DEF Inv, TurnsFit
<1>2. SUFFICES \A u \in Tasks : \A i \in 1 .. Len(turns'[u]) : Fit(u, turns'[u][i])
  BY <1>1 DEF TurnsFit, Meant, ReusesSession, ForksBase, MayFallBack
<1>3. \A u \in Tasks : u # t => turns'[u] = turns[u]
  BY <1>1 DEF OthersKept
<1>4. SUFFICES \A i \in 1 .. Len(turns'[t]) : Fit(t, turns'[t][i])
  BY <1>1, <1>3
<1>5. CASE UNCHANGED turns
  BY <1>1, <1>5
<1>6. CASE HarnessTakesTurn(t)
  <2> DEFINE turn == [inherited |-> Inherited(t), sent |-> task[t].launch.chunk,
                      prompt |-> task[t].launch.prompt, worked |-> FALSE,
                      outcome |-> "running"]
  <2>1. turns'[t] = Append(turns[t], turn) /\ turns[t] \in Seq(Turns)
    BY <1>1, <1>6 DEF HarnessTakesTurn, TypeOK
  <2>2. /\ Meant(t, task[t].launch.session.holds, turn.sent, turn.prompt)
        /\ OwnDirectories => Resumed(t) \notin torn
    BY <1>1, <1>6 DEF HarnessTakesTurn, Goes, TaskFits
  <2>3. Fit(t, turn)
    <3>1. CASE Resumed(t) \notin torn
      BY <2>2, <3>1 DEF Inherited
    <3>2. CASE Resumed(t) \in torn
      <4>1. turn.inherited = "part" /\ ~OwnDirectories
        BY <2>2, <3>2 DEF Inherited
      <4>2. task[t].launch.session.holds \in Chunks \cup {"base"}
        BY <3>2 DEF Inv, TornAreCopies, Resumed, At
      <4>3. request[t].session_id # "resumed"
        BY <2>2, <4>2, TaskKnown DEF Meant, ReusesSession, ForksBase, MayFallBack
      <4> QED
        BY <4>1, <4>3
    <3> QED
      BY <3>1, <3>2
  <2> HIDE DEF turn, Fit
  <2> QED
    BY <1>1, <2>1, <2>3, AppendKnown
<1>7. CASE RunCompletes(t) \/ RunRaises(t)
  <2>1. \E outcome \in {"completed", "raised"} : \E worked \in BOOLEAN :
          turns'[t] = Ended(turns[t], outcome, worked)
    BY <1>1, <1>7 DEF RunCompletes, RunRaises, EndsTurn, TypeOK
  <2> QED
    BY <1>1, <2>1, EndsTurnKnown
<1> QED
  BY <1>5, <1>6, <1>7, TurnSteps

\* A task enters its turn with a running one, and leaves it as the turn ends.
LEMMA LastTurnStillRuns ==
    ASSUME Inv, NEW t \in Tasks, TaskStep(t) \/ PrimeEnds(t)
    PROVE  LastTurnRuns'
<1> DEFINE Runs(u) == task[u].at = "turn" =>
      /\ Len(turns[u]) # 0
      /\ turns[u][Len(turns[u])].outcome = "running"
<1>1. /\ TypeOK /\ OthersKept(t) /\ turns[t] \in Seq(Turns) /\ Len(turns[t]) \in Nat
      /\ task \in [Tasks -> TaskTypes] /\ task[t] \in TaskTypes
      /\ \A u \in Tasks : Runs(u)
  BY StepFrame DEF Inv, LastTurnRuns, TypeOK, TaskTypes
<1>2. \A u \in Tasks : u # t => Runs(u)'
  BY <1>1 DEF OthersKept
<1>3. SUFFICES Runs(t)'
  BY <1>2 DEF LastTurnRuns
<1>4. CASE HarnessTakesTurn(t)
  <2> DEFINE turn == [inherited |-> Inherited(t), sent |-> task[t].launch.chunk,
                      prompt |-> task[t].launch.prompt, worked |-> FALSE,
                      outcome |-> "running"]
  <2>1. turns'[t] = Append(turns[t], turn)
    BY <1>1, <1>4 DEF HarnessTakesTurn, TypeOK
  <2>2. turn.outcome = "running"
    OBVIOUS
  <2> HIDE DEF turn
  <2> QED
    BY <1>1, <2>1, <2>2, AppendKnown
<1>5. CASE RunCompletes(t) \/ RunRaises(t)
  <2>1. task'[t].at # "turn"
    BY <1>1, <1>5 DEF RunCompletes, RunRaises, Goes, OnException, TaskTypes
  <2> QED
    BY <2>1
<1>6. CASE task'[t].at # "turn"
  BY <1>6
<1> QED
  BY <1>4, <1>5, <1>6, TurnSteps

------------------------------------------------------------------------------
(* Locks, and what they protect.                                             *)

Updating(t) == task[t].at \in {"recording", "forgetting"}

\* A thread uses the registry in three ways: not at all, reading it as it takes the
\* free lock, or changing at most its chunk's record in what it read as it lets go.
RegistryUse(t) ==
    \/ /\ UNCHANGED registryVars
       /\ ~Updating(t) /\ ~Updating(t)'
    \/ /\ RegistryFree(t) /\ ~Updating(t) /\ Updating(t)'
       /\ registry' = registry
       /\ registry_lock' = [registry_lock EXCEPT ![process[t]] = {t}]
       /\ registry_read' = [registry_read EXCEPT ![t] = registry]
    \/ /\ Updating(t) /\ ~Updating(t)' /\ task'[t].at # task[t].at
       /\ ReleaseRegistry(t)
       /\ \/ registry' = registry
          \/ \E record : registry' = [registry_read[t] EXCEPT ![request[t].chunk] = record]

LEMMA RegistryUses ==
    ASSUME Inv, NEW t \in Tasks, TaskStep(t) \/ PrimeEnds(t)
    PROVE  RegistryUse(t)
<1>1. /\ task \in [Tasks -> TaskTypes] /\ task[t] \in TaskTypes
      /\ \A session : OnException(session) \notin {"recording", "forgetting"}
  BY DEF Inv, TypeOK, TaskTypes, OnException
<1> DEFINE Calm == ~Updating(t) /\ ~Updating(t)'
<1>2. ASSUME NEW from, NEW to, Goes(t, from, to)
      PROVE  task[t].at = from /\ task'[t].at = to
  BY <1>1, <1>2 DEF Goes, TaskTypes
<1>3. ASSUME NEW launch, Launches(t, launch)
      PROVE  task'[t].at = "launch"
  BY <1>1, <1>3 DEF Launches
<1>4. ASSUME NEW holds, NEW to, LaunchPrime(t, holds, to)
      PROVE  task'[t].at = to
  BY <1>1, <1>4 DEF LaunchPrime, TaskTypes
<1>5. ASSUME NEW record, task' = [task EXCEPT ![t].at = "relocate",
                ![t].session = record.session, ![t].source = record.source]
      PROVE  task'[t].at = "relocate"
  BY <1>1, <1>5 DEF TaskTypes
<1>6. ASSUME DispatchSteps(t)  PROVE Calm /\ UNCHANGED registryVars
  <2>1. ASSUME NEW to, NEW launch, Dispatch(t, to, launch)
        PROVE  task'[t].at = to /\ UNCHANGED registryVars /\ task[t].at = "start"
    BY <1>1, <2>1 DEF Dispatch, TaskTypes
  <2> QED
    BY <1>6, <2>1 DEF DispatchSteps, DispatchToReuse, DispatchToFallback, DispatchToBase,
                      DispatchPlain, Updating
<1>7. ASSUME SessionSteps(t)  PROVE Calm
  <2>1. CASE \E from, to : Goes(t, from, to) /\ from \notin {"recording", "forgetting"}
                                            /\ to \notin {"recording", "forgetting"}
    BY <1>2, <2>1 DEF Updating
  <2>2. CASE AlreadyPresent(t) \/ CopyEnds(t)
    BY <1>3, <2>2 DEF AlreadyPresent, CopyEnds, Updating
  <2>3. CASE SourceMissing(t) \/ CopyFails(t) \/ LaunchRaises(t) \/ RunRaises(t)
    BY <1>1, <2>1, <2>3 DEF SourceMissing, CopyFails, LaunchRaises, RunRaises
  <2>4. CASE HarnessRefuses(t) \/ CopyBegins(t) \/ HarnessTakesTurn(t) \/ RunCompletes(t)
    <3>1. \/ Goes(t, "launch", "returned") \/ Goes(t, "relocate", "copying")
          \/ Goes(t, "launch", "turn") \/ Goes(t, "turn", "returned")
      BY <2>4 DEF HarnessRefuses, CopyBegins, HarnessTakesTurn, RunCompletes
    <3> QED
      BY <2>1, <3>1
  <2> QED
    BY <1>7, <2>2, <2>3, <2>4 DEF SessionSteps
<1>8. ASSUME ReuseSteps(t) \/ ChunkPrimeEnds(t)  PROVE RegistryUse(t)
  <2>1. CASE LookupHits(t)
    BY <1>5, <2>1 DEF LookupHits, Looks, RegistryUse, Updating
  <2>2. CASE LookupHitsLegacy(t) \/ LookupMisses(t)
    BY <1>2, <2>2 DEF LookupHitsLegacy, LookupMisses, RegistryUse, Updating
  <2>3. CASE PrimeChunk(t)
    BY <1>4, <2>3 DEF PrimeChunk, RegistryUse, Updating
  <2>4. CASE ChunkPrimeTimesOut(t) \/ ChunkPrimeFails(t) \/ ChunkPrimed(t)
    BY <1>1, <1>2, <2>4 DEF ChunkPrimeTimesOut, ChunkPrimeFails, ChunkPrimed, PrimeRaises,
                            PrimeExits, RegistryUse, Updating
  <2>5. CASE RecordReads(t) \/ ForgetReads(t)
    BY <1>2, <2>5 DEF RecordReads, ForgetReads, ReadsRegistry, Acquire, RegistryUse, Updating
  <2>6. CASE RecordWrites(t)
    <3>1. \E record : registry' = [registry_read[t] EXCEPT ![request[t].chunk] = record]
      BY <2>6 DEF RecordWrites
    <3>2. /\ task[t].at = "recording" /\ task'[t].at = "relocate"
          /\ ReleaseRegistry(t)
      BY <1>2, <2>6 DEF RecordWrites
    <3> QED
      BY <3>1, <3>2 DEF RegistryUse, Updating
  <2>7. CASE RecordFails(t)
    BY <1>2, <2>7 DEF RecordFails, RegistryUse, Updating
  <2>8. CASE ForgetEnds(t)
    BY <1>3, <2>8 DEF ForgetEnds, RegistryUse, Updating
  <2> QED
    BY <1>8, <2>1, <2>2, <2>3, <2>4, <2>5, <2>6, <2>7, <2>8 DEF ReuseSteps, ChunkPrimeEnds
<1>9. ASSUME BaseSteps(t) \/ BasePrimeEnds(t)  PROVE Calm
  <2>1. CASE UseFreshBase(t)
    BY <1>5, <2>1 DEF UseFreshBase, Updating
  <2>2. CASE PrimeBase(t)
    BY <1>4, <2>2 DEF PrimeBase, Updating
  <2>3. CASE BasePrimeFails(t) \/ BasePrimed(t)
    BY <1>1, <1>2, <2>3 DEF BasePrimeFails, BasePrimed, PrimeRaises, PrimeExits, Updating
  <2>4. CASE ForgetBase(t)
    BY <1>3, <2>4 DEF ForgetBase, Updating
  <2> QED
    BY <1>9, <2>1, <2>2, <2>3, <2>4 DEF BaseSteps, BasePrimeEnds, BasePrimeTimesOut
<1> QED
  BY <1>6, <1>7, <1>8, <1>9 DEF TaskStep, PrimeEnds, RegistryUse

\* A thread uses the base in three ways: it leaves the record alone, it primes one
\* as it takes the free lock, or it puts in or drops a record as the only one to.
BaseUse(t) ==
    \/ /\ UNCHANGED baseVars
       /\ task[t].at # "base_priming" /\ task'[t].at # "base_priming"
    \/ PrimeBase(t) /\ task[t].at # "base_priming"
    \/ /\ task[t].at = "base_priming" /\ task'[t].at # "base_priming"
       /\ ReleaseBase(t)
    \/ /\ BaseFree(t) /\ UNCHANGED base_lock
       /\ task[t].at # "base_priming" /\ task'[t].at # "base_priming"

LEMMA BaseUses ==
    ASSUME Inv, NEW t \in Tasks, TaskStep(t) \/ PrimeEnds(t)
    PROVE  BaseUse(t)
<1>1. /\ task \in [Tasks -> TaskTypes] /\ task[t] \in TaskTypes
      /\ \A session : OnException(session) # "base_priming"
  BY DEF Inv, TypeOK, TaskTypes, OnException
<1> DEFINE Calm == task[t].at # "base_priming" /\ task'[t].at # "base_priming"
<1>2. ASSUME NEW from, NEW to, Goes(t, from, to)
      PROVE  task[t].at = from /\ task'[t].at = to
  BY <1>1, <1>2 DEF Goes, TaskTypes
<1>3. ASSUME NEW launch, Launches(t, launch)
      PROVE  task'[t].at = "launch"
  BY <1>1, <1>3 DEF Launches
<1>4. ASSUME NEW holds, NEW to, LaunchPrime(t, holds, to)
      PROVE  task'[t].at = to
  BY <1>1, <1>4 DEF LaunchPrime, TaskTypes
<1>5. ASSUME NEW record, task' = [task EXCEPT ![t].at = "relocate",
                ![t].session = record.session, ![t].source = record.source]
      PROVE  task'[t].at = "relocate"
  BY <1>1, <1>5 DEF TaskTypes
<1>6. ASSUME DispatchSteps(t)  PROVE Calm /\ UNCHANGED baseVars
  <2>1. ASSUME NEW to, NEW launch, Dispatch(t, to, launch)
        PROVE  task'[t].at = to /\ UNCHANGED baseVars /\ task[t].at = "start"
    BY <1>1, <2>1 DEF Dispatch, TaskTypes
  <2> QED
    BY <1>6, <2>1 DEF DispatchSteps, DispatchToReuse, DispatchToFallback, DispatchToBase,
                      DispatchPlain
<1>7. ASSUME SessionSteps(t)  PROVE Calm
  <2>1. CASE \E from, to : Goes(t, from, to) /\ from # "base_priming" /\ to # "base_priming"
    BY <1>2, <2>1
  <2>2. CASE AlreadyPresent(t) \/ CopyEnds(t)
    BY <1>3, <2>2 DEF AlreadyPresent, CopyEnds
  <2>3. CASE SourceMissing(t) \/ CopyFails(t) \/ LaunchRaises(t) \/ RunRaises(t)
    BY <1>1, <2>1, <2>3 DEF SourceMissing, CopyFails, LaunchRaises, RunRaises
  <2>4. CASE HarnessRefuses(t) \/ CopyBegins(t) \/ HarnessTakesTurn(t) \/ RunCompletes(t)
    BY <2>1, <2>4 DEF HarnessRefuses, CopyBegins, HarnessTakesTurn, RunCompletes
  <2> QED
    BY <1>7, <2>2, <2>3, <2>4 DEF SessionSteps
<1>8. ASSUME ReuseSteps(t) \/ ChunkPrimeEnds(t)  PROVE Calm
  <2>1. CASE LookupHits(t)
    BY <1>5, <2>1 DEF LookupHits, Looks
  <2>2. CASE LookupHitsLegacy(t) \/ LookupMisses(t)
    BY <1>2, <2>2 DEF LookupHitsLegacy, LookupMisses
  <2>3. CASE PrimeChunk(t)
    BY <1>4, <2>3 DEF PrimeChunk
  <2>4. CASE ChunkPrimeTimesOut(t) \/ ChunkPrimeFails(t) \/ ChunkPrimed(t)
    BY <1>1, <1>2, <2>4 DEF ChunkPrimeTimesOut, ChunkPrimeFails, ChunkPrimed, PrimeRaises,
                            PrimeExits
  <2>5. CASE RecordReads(t) \/ ForgetReads(t) \/ RecordWrites(t) \/ RecordFails(t)
    BY <1>2, <2>5 DEF RecordReads, ForgetReads, ReadsRegistry, RecordWrites, RecordFails
  <2>6. CASE ForgetEnds(t)
    BY <1>3, <2>6 DEF ForgetEnds
  <2> QED
    BY <1>8, <2>1, <2>2, <2>3, <2>4, <2>5, <2>6 DEF ReuseSteps, ChunkPrimeEnds
<1>9. ASSUME BaseSteps(t) \/ BasePrimeEnds(t)  PROVE BaseUse(t)
  <2>1. CASE UseFreshBase(t)
    BY <1>5, <2>1 DEF UseFreshBase, BaseUse
  <2>2. CASE PrimeBase(t)
    BY <2>2 DEF PrimeBase, BaseUse
  <2>3. CASE BasePrimeFails(t) \/ BasePrimed(t)
    BY <1>1, <1>2, <2>3 DEF BasePrimeFails, BasePrimed, PrimeRaises, PrimeExits, BaseUse
  <2>4. CASE ForgetBase(t)
    BY <1>3, <2>4 DEF ForgetBase, BaseUse
  <2> QED
    BY <1>9, <2>1, <2>2, <2>3, <2>4 DEF BaseSteps, BasePrimeEnds, BasePrimeTimesOut
<1> QED
  BY <1>6, <1>7, <1>8, <1>9 DEF TaskStep, PrimeEnds, BaseUse

LEMMA LocksStayHeld ==
    ASSUME Inv, NEW t \in Tasks, TaskStep(t) \/ PrimeEnds(t)
    PROVE  LocksHeld'
<1> DEFINE BaseHeld(u) == task[u].at = "base_priming" => base_lock[process[u]] = {u}
           RegistryHeld(u) == Updating(u) => registry_lock[process[u]] = {u}
           ReadHolds(u) == Updating(u) /\ OneProcess => registry_read[u] = registry
<1>1. /\ UNCHANGED process /\ OthersKept(t) /\ process \in [Tasks -> Processes]
      /\ registry_lock \in [Processes -> SUBSET Tasks]
      /\ registry_read \in [Tasks -> [Chunks -> Records]]
      /\ base_lock \in [Processes -> SUBSET Tasks]
      /\ process[t] \in Processes
      /\ \A u \in Tasks : BaseHeld(u) /\ RegistryHeld(u) /\ ReadHolds(u)
  BY StepFrame, TaskTyped, SessionAssumption DEF Inv, TypeOK, LocksHeld, Updating
<1>2. OneProcess' <=> OneProcess
  BY <1>1 DEF OneProcess
<1>3. \A u \in Tasks : u # t => task'[u] = task[u] /\ registry_read'[u] = registry_read[u]
  BY <1>1 DEF OthersKept
<1>4. \A u \in Tasks : BaseHeld(u)'
  <2>1. CASE UNCHANGED base_lock /\ task'[t].at # "base_priming"
    BY <1>1, <1>3, <2>1
  <2>2. CASE PrimeBase(t)
    BY <1>1, <1>3, <2>2 DEF PrimeBase, BaseFree
  <2>3. CASE task[t].at = "base_priming" /\ task'[t].at # "base_priming" /\ ReleaseBase(t)
    BY <1>1, <1>3, <2>3 DEF ReleaseBase
  <2> QED
    BY <2>1, <2>2, <2>3, BaseUses DEF BaseUse
<1>5. \A u \in Tasks : RegistryHeld(u)' /\ ReadHolds(u)'
  <2>1. CASE UNCHANGED registryVars /\ ~Updating(t)'
    BY <1>1, <1>2, <1>3, <2>1 DEF Updating
  <2>2. CASE /\ RegistryFree(t) /\ registry' = registry
             /\ registry_lock' = [registry_lock EXCEPT ![process[t]] = {t}]
             /\ registry_read' = [registry_read EXCEPT ![t] = registry]
    <3>1. /\ registry_lock'[process[t]] = {t} /\ registry_read'[t] = registry
          /\ \A p \in Processes : p # process[t] => registry_lock'[p] = registry_lock[p]
      BY <1>1, <2>2
    <3>2. \A u \in Tasks : u # t /\ Updating(u)' => Updating(u) /\ process[u] # process[t]
      BY <1>1, <1>3, <2>2 DEF Updating, RegistryFree
    <3> QED
      BY <1>1, <1>2, <1>3, <2>2, <3>1, <3>2 DEF Updating
  <2>3. CASE Updating(t) /\ ~Updating(t)' /\ ReleaseRegistry(t)
    <3>1. \A u \in Tasks : u # t /\ Updating(u) => process[u] # process[t]
      BY <1>1, <2>3
    <3>2. \A u \in Tasks : u # t /\ Updating(u) => ~OneProcess
      BY <3>1 DEF OneProcess
    <3> QED
      BY <1>1, <1>2, <1>3, <2>3, <3>1, <3>2 DEF ReleaseRegistry, Updating
  <2> QED
    BY <2>1, <2>2, <2>3, RegistryUses DEF RegistryUse
<1> QED
  BY <1>4, <1>5 DEF LocksHeld, Updating

------------------------------------------------------------------------------
(* Transcripts.                                                              *)

\* A transcript appears where a prime ends or a copy begins; a session about to be
\* recorded is one that was just primed.
LEMMA TranscriptSteps ==
    ASSUME Inv, NEW t \in Tasks, TaskStep(t) \/ PrimeEnds(t)
    PROVE  /\ \/ transcripts' = transcripts
              \/ CopyBegins(t)
              \/ ChunkPrimed(t)
              \/ BasePrimed(t)
           /\ \/ task'[t].at \notin {"record", "recording"}
              \/ ChunkPrimed(t)
              \/ RecordReads(t)
<1>1. /\ task \in [Tasks -> TaskTypes] /\ task[t] \in TaskTypes
      /\ \A session : OnException(session) \notin {"record", "recording"}
  BY DEF Inv, TypeOK, TaskTypes, OnException
<1> DEFINE Same == transcripts' = transcripts
           Elsewhere == task'[t].at \notin {"record", "recording"}
<1>2. ASSUME NEW from, NEW to, Goes(t, from, to), to \notin {"record", "recording"}
      PROVE  Elsewhere
  BY <1>1, <1>2 DEF Goes, TaskTypes
<1>3. ASSUME NEW launch, Launches(t, launch)
      PROVE  Elsewhere
  BY <1>1, <1>3 DEF Launches
<1>4. ASSUME NEW holds, NEW to, LaunchPrime(t, holds, to), to \notin {"record", "recording"}
      PROVE  Same /\ Elsewhere
  BY <1>1, <1>4 DEF LaunchPrime, TaskTypes
<1>5. ASSUME NEW record, task' = [task EXCEPT ![t].at = "relocate",
                ![t].session = record.session, ![t].source = record.source]
      PROVE  Elsewhere
  BY <1>1, <1>5 DEF TaskTypes
<1>6. ASSUME DispatchSteps(t)  PROVE Same /\ Elsewhere
  <2>1. ASSUME NEW to, NEW launch, Dispatch(t, to, launch)
        PROVE  task'[t].at = to /\ Same
    BY <1>1, <2>1 DEF Dispatch, TaskTypes
  <2> QED
    BY <1>6, <2>1 DEF DispatchSteps, DispatchToReuse, DispatchToFallback, DispatchToBase,
                      DispatchPlain
<1>7. ASSUME SessionSteps(t)  PROVE (Same \/ CopyBegins(t)) /\ Elsewhere
  <2>1. CASE SourceMissing(t) \/ CopyFails(t) \/ LaunchRaises(t) \/ RunRaises(t)
    BY <1>1, <1>2, <2>1 DEF SourceMissing, CopyFails, LaunchRaises, RunRaises
  <2>2. CASE HarnessRefuses(t) \/ HarnessTakesTurn(t) \/ RunCompletes(t)
    BY <1>2, <2>2 DEF HarnessRefuses, HarnessTakesTurn, RunCompletes
  <2>3. CASE CopyBegins(t)
    BY <1>2, <2>3 DEF CopyBegins
  <2>4. CASE AlreadyPresent(t) \/ CopyEnds(t)
    BY <1>3, <2>4 DEF AlreadyPresent, CopyEnds
  <2> QED
    BY <1>7, <2>1, <2>2, <2>3, <2>4 DEF SessionSteps
<1>8. ASSUME ReuseSteps(t) \/ ChunkPrimeEnds(t)
      PROVE  ChunkPrimed(t) \/ (Same /\ (Elsewhere \/ RecordReads(t)))
  <2>1. CASE LookupHits(t)
    BY <1>5, <2>1 DEF LookupHits
  <2>2. CASE LookupHitsLegacy(t) \/ LookupMisses(t)
    BY <1>2, <2>2 DEF LookupHitsLegacy, LookupMisses
  <2>3. CASE PrimeChunk(t)
    BY <1>4, <2>3 DEF PrimeChunk
  <2>4. CASE ChunkPrimeTimesOut(t) \/ ChunkPrimeFails(t)
    BY <1>1, <1>2, <2>4 DEF ChunkPrimeTimesOut, ChunkPrimeFails, PrimeRaises
  <2>5. CASE RecordReads(t)
    BY <2>5 DEF RecordReads, ReadsRegistry
  <2>6. CASE ForgetReads(t) \/ RecordWrites(t) \/ RecordFails(t)
    BY <1>2, <2>6 DEF ForgetReads, ReadsRegistry, RecordWrites, RecordFails
  <2>7. CASE ForgetEnds(t)
    BY <1>3, <2>7 DEF ForgetEnds
  <2> QED
    BY <1>8, <2>1, <2>2, <2>3, <2>4, <2>5, <2>6, <2>7 DEF ReuseSteps, ChunkPrimeEnds
<1>9. ASSUME BaseSteps(t) \/ BasePrimeEnds(t)
      PROVE  (Same \/ BasePrimed(t)) /\ Elsewhere
  <2>1. CASE UseFreshBase(t)
    BY <1>5, <2>1 DEF UseFreshBase
  <2>2. CASE PrimeBase(t)
    BY <1>4, <2>2 DEF PrimeBase
  <2>3. CASE BasePrimeFails(t)
    BY <1>1, <1>2, <2>3 DEF BasePrimeFails, PrimeRaises
  <2>4. CASE BasePrimed(t)
    BY <1>2, <2>4 DEF BasePrimed, PrimeExits
  <2>5. CASE ForgetBase(t)
    BY <1>3, <2>5 DEF ForgetBase
  <2> QED
    BY <1>9, <2>1, <2>2, <2>3, <2>4, <2>5 DEF BaseSteps, BasePrimeEnds, BasePrimeTimesOut
<1> QED
  BY <1>6, <1>7, <1>8, <1>9 DEF TaskStep, PrimeEnds

\* No transcript that appears without priming a base is the recorded base's.
LEMMA NoBaseAppears ==
    ASSUME Inv, NEW t \in Tasks, TaskStep(t) \/ PrimeEnds(t), ~BasePrimed(t),
           At(base_store.source, base_store.session) \in transcripts'
    PROVE  At(base_store.source, base_store.session) \in transcripts
<1> DEFINE base == At(base_store.source, base_store.session)
           new == At(DirOf[t], task[t].session)
<1>1. TaskFits(t) /\ FitRecord(base_store, "base") /\ DirOf[t] \in Dirs
  BY TaskKnown, TaskTyped DEF Inv, RecordsFit
<1>2. CASE CopyBegins(t)
  <2>1. SessionRooted(t) /\ task[t].source # DirOf[t]
    BY <1>1, <1>2 DEF CopyBegins, Goes, TaskFits
  <2>2. base # new
    BY <1>1, <2>1 DEF FitRecord, SessionRooted, Rooted, At
  <2> QED
    BY <1>2, <2>2 DEF CopyBegins
<1>3. CASE ChunkPrimed(t)
  <2>1. task[t].session.holds \in Chunks
    BY <1>1, <1>3, TaskKnown DEF ChunkPrimed, PrimeExits, Goes, TaskFits, ReuseLabels,
                                 HoldsWhatItNeeds
  <2>2. base # new
    BY <1>1, <2>1, SessionAssumption DEF FitRecord, NoRecord, At
  <2> QED
    BY <1>3, <2>2 DEF ChunkPrimed, PrimeExits
<1> QED
  BY <1>2, <1>3, TranscriptSteps

LEMMA BaseStillPrimedWhenStale ==
    ASSUME Inv, NEW t \in Tasks, TaskStep(t) \/ PrimeEnds(t)
    PROVE  BasePrimedOnlyWhenStale'
<1>1. /\ UNCHANGED <<request, process>> /\ OthersKept(t)
      /\ \A u \in Tasks : OneProcess /\ task[u].at = "base_priming" =>
           base_lock[process[u]] = {u} /\ ~FreshFor(u)
  BY StepFrame DEF Inv, BasePrimedOnlyWhenStale, LocksHeld
<1>2. SUFFICES ASSUME NEW u \in Tasks, OneProcess, task'[u].at = "base_priming"
               PROVE  ~FreshFor(u)'
  BY <1>1 DEF BasePrimedOnlyWhenStale, OneProcess
<1>3. CASE u = t
  <2>1. PrimeBase(t)
    BY <1>2, <1>3, BaseUses DEF BaseUse
  <2> QED
    BY <1>1, <1>3, <2>1 DEF PrimeBase, LaunchPrime, FreshFor, Fresh
<1>4. CASE u # t
  <2>1. task[u].at = "base_priming" /\ process[u] = process[t] /\ base_lock[process[t]] = {u}
    BY <1>1, <1>2, <1>4 DEF OthersKept, OneProcess
  <2>2. ~FreshFor(u)
    BY <1>1, <1>2, <2>1
  <2>3. task[t].at # "base_priming" /\ ~BaseFree(t)
    BY <1>1, <1>2, <1>4, <2>1 DEF BaseFree
  <2>4. UNCHANGED baseVars
    BY <2>3, BaseUses DEF BaseUse, PrimeBase
  <2>5. ~BasePrimed(t)
    BY <2>3 DEF BasePrimed, PrimeExits, Goes
  <2> QED
    BY <1>1, <2>2, <2>4, <2>5, NoBaseAppears DEF FreshFor, Fresh
<1> QED
  BY <1>3, <1>4

\* What a thread puts on record it has primed, and its transcript is there.
LEMMA TranscriptsStayKept ==
    ASSUME Inv, NEW t \in Tasks, TaskStep(t) \/ PrimeEnds(t)
    PROVE  TranscriptsKept'
<1>1. /\ UNCHANGED losses /\ transcripts \subseteq transcripts' /\ OthersKept(t)
      /\ registry \in [Chunks -> Records] /\ registry_read \in [Tasks -> [Chunks -> Records]]
      /\ registry_read[t] \in [Chunks -> Records]
      /\ TaskFits(t) /\ task[t] \in TaskTypes /\ task \in [Tasks -> TaskTypes]
  BY StepFrame, TaskKnown, TaskTyped DEF Inv, TypeOK, TaskTypes
<1>2. SUFFICES ASSUME losses = 0
               PROVE  /\ Kept(base_store)'
                      /\ \A c \in Chunks : Kept(registry[c])'
                      /\ \A u \in Tasks : \A c \in Chunks : Kept(registry_read[u][c])'
                      /\ \A u \in Tasks : task'[u].at \in {"record", "recording"} => Kept(task[u])'
  BY <1>1 DEF TranscriptsKept
<1>3. /\ Kept(base_store)
      /\ \A c \in Chunks : Kept(registry[c])
      /\ \A u \in Tasks : \A c \in Chunks : Kept(registry_read[u][c])
      /\ \A u \in Tasks : task[u].at \in {"record", "recording"} => Kept(task[u])
  BY <1>2 DEF Inv, TranscriptsKept
<1> DEFINE KeptNow(record) ==
             record.session.n # 0 => At(record.source, record.session) \in transcripts'
<1>4. \A record : Kept(record) => KeptNow(record)
  BY <1>1 DEF Kept
<1>5. KeptNow(NoRecord)
  BY DEF NoRecord, NoSession, EarlierSession
<1>6. KeptNow(base_store')
  <2>1. CASE base_store' = base_store
    BY <1>3, <1>4, <2>1
  <2>2. CASE BasePrimed(t)
    <3>1. task[t].source = DirOf[t]
      BY <1>1, <2>2 DEF BasePrimed, PrimeExits, Goes, TaskFits
    <3> QED
      BY <2>2, <3>1 DEF BasePrimed, PrimeExits
  <2>3. CASE ForgetBase(t)
    BY <1>3, <1>4, <1>5, <2>3, ConstantsTyped DEF ForgetBase
  <2> QED
    BY <2>1, <2>2, <2>3
       DEF TaskStep, PrimeEnds, DispatchSteps, Dispatch, DispatchToReuse, DispatchToFallback,
           DispatchToBase, DispatchPlain, BaseSteps, BasePrimeEnds, UseFreshBase, PrimeBase,
           BasePrimeTimesOut, BasePrimeFails
<1>7. \A u \in Tasks : task'[u].at \in {"record", "recording"} => KeptNow(task'[u])
  <2>1. SUFFICES ASSUME task'[t].at \in {"record", "recording"}  PROVE KeptNow(task'[t])
    BY <1>1, <1>3, <1>4 DEF OthersKept
  <2>2. CASE ChunkPrimed(t)
    <3>1. task[t].source = DirOf[t]
      BY <1>1, <2>2 DEF ChunkPrimed, PrimeExits, Goes, TaskFits
    <3>2. task'[t].source = task[t].source /\ task'[t].session = task[t].session
      BY <1>1, <2>2 DEF ChunkPrimed, PrimeExits, Goes, TaskTypes
    <3> QED
      BY <2>2, <3>1, <3>2 DEF ChunkPrimed, PrimeExits
  <2>3. CASE RecordReads(t)
    <3>1. /\ task'[t].source = task[t].source /\ task'[t].session = task[t].session
          /\ task[t].at = "record"
      BY <1>1, <2>3 DEF RecordReads, ReadsRegistry, Goes, TaskTypes
    <3> QED
      BY <1>3, <1>4, <3>1 DEF Kept
  <2> QED
    BY <2>1, <2>2, <2>3, TranscriptSteps
<1>8. /\ \A c \in Chunks : KeptNow(registry'[c])
      /\ \A u \in Tasks : \A c \in Chunks : KeptNow(registry_read'[u][c])
  <2>1. \A u \in Tasks : u # t => registry_read'[u] = registry_read[u]
    BY <1>1 DEF OthersKept
  <2>2. SUFFICES /\ \A c \in Chunks : KeptNow(registry'[c])
                 /\ \A c \in Chunks : KeptNow(registry_read'[t][c])
    BY <1>3, <1>4, <2>1
  <2>3. ASSUME ReleaseRegistry(t)
        PROVE  \A c \in Chunks : KeptNow(registry_read'[t][c])
    BY <1>1, <1>5, <2>3 DEF ReleaseRegistry, NothingRead
  <2>4. ASSUME NEW record, KeptNow(record),
               registry' = [registry_read[t] EXCEPT ![request[t].chunk] = record]
        PROVE  \A c \in Chunks : KeptNow(registry'[c])
    BY <1>1, <1>3, <1>4, <2>4
  <2>5. CASE UNCHANGED <<registry, registry_read>>
    BY <1>3, <1>4, <2>5
  <2>6. CASE RecordReads(t) \/ ForgetReads(t)
    BY <1>1, <1>3, <1>4, <2>6 DEF RecordReads, ForgetReads, ReadsRegistry
  <2>7. CASE RecordWrites(t)
    <3> DEFINE record == [session |-> task[t].session, source |-> task[t].source]
    <3>1. Kept(task[t])
      BY <1>3, <2>7 DEF RecordWrites, Goes
    <3>2. KeptNow(record)
      BY <1>4, <3>1 DEF Kept
    <3>3. registry' = [registry_read[t] EXCEPT ![request[t].chunk] = record]
          /\ ReleaseRegistry(t)
      BY <2>7 DEF RecordWrites
    <3> HIDE DEF record, KeptNow
    <3> QED
      BY <2>3, <2>4, <3>2, <3>3
  <2>8. CASE RecordFails(t)
    BY <1>3, <1>4, <2>3, <2>8 DEF RecordFails
  <2>9. CASE ForgetEnds(t)
    BY <1>3, <1>4, <1>5, <2>3, <2>4, <2>9 DEF ForgetEnds
  <2> QED
    BY <2>5, <2>6, <2>7, <2>8, <2>9
       DEF TaskStep, PrimeEnds, DispatchSteps, Dispatch, DispatchToReuse, DispatchToFallback,
           DispatchToBase, DispatchPlain, ReuseSteps, ChunkPrimeEnds, LookupHits,
           LookupHitsLegacy, LookupMisses, PrimeChunk, ChunkPrimeTimesOut, ChunkPrimeFails,
           ChunkPrimed
<1> QED
  BY <1>6, <1>7, <1>8 DEF Kept

------------------------------------------------------------------------------
(* Faults.                                                                   *)

\* After a crash the tasks of the process start again, without locks and without
\* what they had read; the turn that was under way has crashed.
LEMMA CrashKeepsInv ==
    ASSUME Inv, NEW p \in Processes, Crash(p), UNCHANGED rigidVars, TypeOK'
    PROVE  Inv'
<1> DEFINE Hit(u) == process[u] = p /\ ~Done(u)
<1>1. /\ task \in [Tasks -> TaskTypes] /\ turns \in [Tasks -> Seq(Turns)]
      /\ \A u \in Tasks : /\ task'[u] = IF Hit(u) THEN NewTask ELSE task[u]
                          /\ process[u] \in Processes
      /\ registry_lock \in [Processes -> SUBSET Tasks]
      /\ base_lock \in [Processes -> SUBSET Tasks]
  BY TaskTyped DEF Inv, TypeOK, TaskTypes, Crash
<1>2. /\ \A u \in Tasks : registry_read'[u] =
           IF process[u] = p THEN NothingRead ELSE registry_read[u]
      /\ registry_lock' = [registry_lock EXCEPT ![p] = {}]
      /\ base_lock' = [base_lock EXCEPT ![p] = {}]
      /\ UNCHANGED <<request, process, transcripts, torn, registry, base_store, base_aged,
                     losses>>
  BY DEF Crash
<1>3. \A u \in Tasks :
        \/ turns'[u] = turns[u] /\ (Hit(u) => task[u].at # "turn")
        \/ /\ turns'[u] = Ended(turns[u], "crashed", FALSE)
           /\ Hit(u) /\ task[u].at = "turn"
  BY DEF Crash, Done
<1>4. NewTask.at = "start"
  BY DEF NewTask
<1>5. RecordsFit'
  <2>1. \A c \in Chunks : NothingRead[c] = NoRecord
    BY DEF NothingRead
  <2> QED
    BY <1>2, <2>1, NoRecordFits DEF Inv, RecordsFit, FitRecord, Rooted
<1>6. TornAreCopies'
  BY <1>2 DEF Inv, TornAreCopies
<1>7. TasksFit'
  <2> SUFFICES ASSUME NEW u \in Tasks  PROVE TaskFits(u)'
    BY DEF TasksFit
  <2>1. CASE Hit(u)
    BY <1>1, <1>4, <2>1 DEF TaskFits, ReuseLabels, BaseLabels
  <2>2. CASE ~Hit(u)
    <3>1. task'[u] = task[u] /\ request' = request /\ torn' = torn
      BY <1>1, <1>2, <2>2
    <3>2. \A holds, sent, prompt : Meant(u, holds, sent, prompt)' <=> Meant(u, holds, sent, prompt)
      BY <3>1 DEF Meant, ReusesSession, ForksBase, MayFallBack
    <3> QED
      BY <3>1, <3>2, TaskKnown
         DEF TaskFits, HoldsWhatItNeeds, SessionRooted, ReusesSession, ForksBase, Resumed
  <2> QED
    BY <2>1, <2>2
<1>8. TurnsFit'
  <2> SUFFICES ASSUME NEW u \in Tasks, NEW i \in 1 .. Len(turns'[u])
               PROVE  \/ Meant(u, turns'[u][i].inherited, turns'[u][i].sent, turns'[u][i].prompt)
                      \/ /\ turns'[u][i].inherited = "part" /\ ~OwnDirectories
                         /\ request[u].session_id # "resumed"
    BY <1>2 DEF TurnsFit, Meant, ReusesSession, ForksBase, MayFallBack
  <2>1. /\ Len(turns'[u]) = Len(turns[u])
        /\ turns'[u][i].inherited = turns[u][i].inherited
        /\ turns'[u][i].sent = turns[u][i].sent
        /\ turns'[u][i].prompt = turns[u][i].prompt
    <3>1. CASE turns'[u] = turns[u]
      BY <3>1
    <3>2. CASE turns'[u] = Ended(turns[u], "crashed", FALSE)
      <4>1. /\ Len(turns'[u]) = Len(turns[u])
            /\ \A j \in 1 .. Len(turns[u]) :
                 /\ turns'[u][j].inherited = turns[u][j].inherited
                 /\ turns'[u][j].sent = turns[u][j].sent
                 /\ turns'[u][j].prompt = turns[u][j].prompt
        BY <3>2, EndsTurnKnown DEF Inv
      <4> QED
        BY <4>1
    <3> QED
      BY <1>3, <3>1, <3>2
  <2> QED
    BY <2>1 DEF Inv, TurnsFit
<1>9. LastTurnRuns'
  <2> SUFFICES ASSUME NEW u \in Tasks, task'[u].at = "turn"
               PROVE  /\ Len(turns'[u]) # 0
                      /\ turns'[u][Len(turns'[u])].outcome = "running"
    BY DEF LastTurnRuns
  <2>1. ~Hit(u) /\ task[u].at = "turn" /\ turns'[u] = turns[u]
    BY <1>1, <1>3, <1>4
  <2> QED
    BY <2>1 DEF Inv, LastTurnRuns
<1>10. LocksHeld'
  <2>1. \A u \in Tasks : process[u] = p =>
          task'[u].at \notin {"base_priming", "recording", "forgetting"}
    BY <1>1, <1>4 DEF Done
  <2>2. \A u \in Tasks : process[u] # p =>
          /\ task'[u] = task[u] /\ registry_read'[u] = registry_read[u]
          /\ registry_lock'[process[u]] = registry_lock[process[u]]
          /\ base_lock'[process[u]] = base_lock[process[u]]
    BY <1>1, <1>2
  <2> QED
    BY <1>2, <2>1, <2>2 DEF Inv, LocksHeld, OneProcess
<1>11. BasePrimedOnlyWhenStale'
  <2>1. \A u \in Tasks : task'[u].at = "base_priming" => task[u].at = "base_priming"
    BY <1>1, <1>4
  <2> QED
    BY <1>2, <2>1 DEF Inv, BasePrimedOnlyWhenStale, OneProcess, FreshFor, Fresh
<1>12. TranscriptsKept'
  <2>1. \A c \in Chunks : NothingRead[c].session.n = 0
    BY DEF NothingRead, NoRecord, NoSession, EarlierSession
  <2>2. \A u \in Tasks : task'[u].at \in {"record", "recording"} => task'[u] = task[u]
    BY <1>1, <1>4
  <2> QED
    BY <1>2, <2>1, <2>2 DEF Inv, TranscriptsKept, Kept
<1> QED
  BY <1>5, <1>6, <1>7, <1>8, <1>9, <1>10, <1>11, <1>12 DEF Inv

\* A transcript less, or an older base, disturbs nothing.
LEMMA OtherFaultsKeepInv ==
    ASSUME Inv, TypeOK',
           UNCHANGED <<rigidVars, task, turns, registryVars, base_store, base_lock>>,
           transcripts' \subseteq transcripts, torn' \subseteq torn,
           base_aged => base_aged',
           (losses' = losses /\ transcripts' = transcripts) \/ losses' # 0
    PROVE  Inv'
<1>1. RecordsFit' /\ TornAreCopies'
  BY DEF Inv, RecordsFit, FitRecord, Rooted, TornAreCopies
<1>2. \A u, holds, sent, prompt : Meant(u, holds, sent, prompt)' <=> Meant(u, holds, sent, prompt)
  BY DEF Meant, ReusesSession, ForksBase, MayFallBack
<1>3. TasksFit'
  <2> SUFFICES ASSUME NEW u \in Tasks  PROVE TaskFits(u)'
    BY DEF TasksFit
  <2> QED
    BY <1>2, TaskKnown
       DEF TaskFits, HoldsWhatItNeeds, SessionRooted, ReusesSession, ForksBase, Resumed
<1>4. TurnsFit' /\ LastTurnRuns'
  BY <1>2 DEF Inv, TurnsFit, LastTurnRuns
<1>5. LocksHeld'
  BY DEF Inv, LocksHeld, OneProcess
<1>6. BasePrimedOnlyWhenStale'
  BY DEF Inv, BasePrimedOnlyWhenStale, OneProcess, FreshFor, Fresh
<1>7. TranscriptsKept'
  BY DEF Inv, TranscriptsKept, Kept
<1> QED
  BY <1>1, <1>3, <1>4, <1>5, <1>6, <1>7 DEF Inv

------------------------------------------------------------------------------
(* The invariant.                                                            *)

LEMMA InitInv == Init => Inv
<1> SUFFICES ASSUME Init  PROVE Inv
  OBVIOUS
<1>1. /\ request \in Workloads /\ process \in Placements
      /\ task = [t \in Tasks |-> NewTask] /\ turns = [t \in Tasks |-> <<>>]
      /\ torn = {} /\ minted = [t \in Tasks |-> 0]
      /\ registry_lock = [p \in Processes |-> {}]
      /\ registry_read = [t \in Tasks |-> NothingRead]
      /\ base_lock = [p \in Processes |-> {}] /\ base_aged = FALSE
      /\ crashes = 0 /\ losses = 0
  BY DEF Init, StoreInit, RegistryInit, BaseInit
<1>2. \A c \in Chunks : NothingRead[c] = NoRecord
  BY DEF NothingRead
<1>3. /\ registry \in [Chunks -> Records]
      /\ \A c \in Chunks : FitRecord(registry[c], c) /\ registry[c].session.n = 0
  <2>1. CASE registry = NothingRead
    BY <1>2, <2>1, ConstantsTyped, NoRecordFits DEF NoRecord, NoSession, EarlierSession
  <2>2. CASE \E source \in {"none"} \cup (Dirs \ {DirOf[t] : t \in Tasks}) :
               registry = EarlierRegistry(source)
    <3>1. PICK source \in {"none"} \cup (Dirs \ {DirOf[t] : t \in Tasks}) :
            registry = EarlierRegistry(source)
      BY <2>2
    <3>2. source \in Dirs \cup {"none"} /\ \A t \in Tasks : source # DirOf[t]
      BY SessionAssumption
    <3>3. ASSUME NEW c \in Chunks
          PROVE  /\ EarlierRegistry(source)[c] \in Records
                 /\ FitRecord(EarlierRegistry(source)[c], c)
                 /\ EarlierRegistry(source)[c].session.n = 0
      <4> DEFINE record == [session |-> EarlierSession(c), source |-> source]
      <4>1. /\ EarlierRegistry(source)[c] = record \/ EarlierRegistry(source)[c] = NoRecord
            /\ NoRecord.session.n = 0
        BY <3>3 DEF EarlierRegistry, NoRecord, NoSession, EarlierSession
      <4>2. /\ record \in Records /\ record.session.n = 0 /\ record.session.holds = c
        BY <3>2, <3>3, ConstantsTyped DEF Records, EarlierSession
      <4>3. FitRecord(record, c)
        BY <3>2, <4>2 DEF FitRecord, Rooted
      <4> HIDE DEF record
      <4> QED
        BY <4>1, <4>2, <4>3, NoRecordFits, ConstantsTyped
    <3>4. EarlierRegistry(source) \in [Chunks -> Records]
      <4>1. DOMAIN EarlierRegistry(source) = Chunks
            /\ EarlierRegistry(source) = [c \in Chunks |-> EarlierRegistry(source)[c]]
        BY DEF EarlierRegistry
      <4> QED
        BY <3>3, <4>1
    <3> QED
      BY <3>1, <3>3, <3>4
  <2> QED
    BY <2>1, <2>2 DEF Init, RegistryInit
<1>4. base_store \in Records /\ FitRecord(base_store, "base") /\ base_store.session.n = 0
  <2>1. CASE base_store = NoBase
    BY <2>1, ConstantsTyped, NoRecordFits DEF NoRecord, NoSession, EarlierSession
  <2>2. CASE base_store \in [session : {EarlierSession("base")},
                             source : Dirs \ {DirOf[t] : t \in Tasks}]
    <3>1. /\ base_store = [session |-> EarlierSession("base"), source |-> base_store.source]
          /\ base_store.source \in Dirs /\ \A t \in Tasks : base_store.source # DirOf[t]
      BY <2>2
    <3>2. base_store.session.n = 0 /\ base_store.session.holds = "base"
      BY <3>1 DEF EarlierSession
    <3> QED
      BY <3>1, <3>2, ConstantsTyped DEF Records, FitRecord, Rooted
  <2> QED
    BY <2>1, <2>2 DEF Init, BaseInit
<1>5. transcripts \in SUBSET Transcripts
  <2>1. \A t \in Tasks : DirOf[t] \in Dirs
    BY SessionAssumption
  <2>2. \A record \in Records : record.source # "none" =>
          At(record.source, record.session) \in Transcripts
    BY DEF Records, At, Transcripts
  <2>3. \A t \in Tasks : At(DirOf[t], OwnSession) \in Transcripts
    BY <2>1, ConstantsTyped DEF At, Transcripts
  <2>4. base_store = NoBase \/ base_store.source # "none"
    <3>1. base_store = NoBase \/ base_store.source \in Dirs
      BY DEF Init, BaseInit
    <3> QED
      BY <3>1, SessionAssumption
  <2>5. EarlierTranscripts \subseteq Transcripts
    <3> SUFFICES ASSUME NEW file \in EarlierTranscripts  PROVE file \in Transcripts
      OBVIOUS
    <3>1. CASE file \in {At(registry[c].source, registry[c].session) :
                           c \in {d \in Chunks : registry[d].source # "none"}}
      BY <1>3, <2>2, <3>1
    <3>2. CASE base_store # NoBase /\ file = At(base_store.source, base_store.session)
      BY <1>4, <2>2, <2>4, <3>2
    <3>3. CASE file \in {At(DirOf[t], OwnSession) :
                           t \in {u \in Tasks : request[u].session_id = "resumed"}}
      BY <2>3, <3>3
    <3> QED
      BY <3>1, <3>2, <3>3 DEF EarlierTranscripts
  <2> QED
    BY <2>5 DEF Init
<1>6. TypeOK
  <2>1. StoreTypes
    BY <1>1, <1>5, ConstantsTyped DEF StoreTypes
  <2>2. RegistryTypes
    BY <1>1, <1>3, ConstantsTyped DEF RegistryTypes
  <2>3. BaseTypes
    BY <1>1, <1>4 DEF BaseTypes
  <2> QED
    BY <1>1, <2>1, <2>2, <2>3, TypeParts
<1>7. \A t \in Tasks : task[t].at = "start" /\ turns[t] = <<>> /\ registry_read[t] = NothingRead
  BY <1>1 DEF NewTask
<1>8. RecordsFit /\ TornAreCopies
  BY <1>1, <1>2, <1>3, <1>4, <1>7, NoRecordFits DEF RecordsFit, TornAreCopies
<1>9. TasksFit
  BY <1>7 DEF TasksFit, TaskFits, ReuseLabels, BaseLabels
<1>10. TurnsFit /\ LastTurnRuns
  BY <1>7 DEF TurnsFit, LastTurnRuns
<1>11. LocksHeld /\ BasePrimedOnlyWhenStale
  BY <1>7 DEF LocksHeld, BasePrimedOnlyWhenStale
<1>12. TranscriptsKept
  <2>1. \A c \in Chunks : NoRecord.session.n = 0
    BY DEF NoRecord, NoSession, EarlierSession
  <2> QED
    BY <1>2, <1>3, <1>4, <1>7, <2>1 DEF TranscriptsKept, Kept
<1> QED
  BY <1>6, <1>8, <1>9, <1>10, <1>11, <1>12 DEF Inv

LEMMA StepInv == Inv /\ [Next]_vars => Inv'
<1> SUFFICES ASSUME Inv, [Next]_vars  PROVE Inv'
  OBVIOUS
<1>1. TypeOK'
  BY TypesKept
<1>2. ASSUME NEW t \in Tasks, TaskStep(t) \/ PrimeEnds(t)
      PROVE  Inv'
  BY <1>1, <1>2, RecordsStayFit, TornStayCopies, TasksStayFit, TurnsStayFit,
     LastTurnStillRuns, LocksStayHeld, BaseStillPrimedWhenStale, TranscriptsStayKept DEF Inv
<1>3. CASE \E p \in Processes : Crash(p) /\ UNCHANGED rigidVars
  BY <1>1, <1>3, CrashKeepsInv
<1>4. CASE TranscriptLost /\ UNCHANGED rigidVars
  <2>1. losses' # 0 /\ transcripts' \subseteq transcripts /\ torn' \subseteq torn
    BY <1>4 DEF TranscriptLost, Inv, TypeOK
  <2> QED
    BY <1>1, <1>4, <2>1, OtherFaultsKeepInv DEF TranscriptLost
<1>5. CASE BaseAges /\ UNCHANGED <<registryVars, faultVars, rigidVars>>
  BY <1>1, <1>5, OtherFaultsKeepInv DEF BaseAges
<1>6. CASE UNCHANGED vars
  BY <1>1, <1>6, OtherFaultsKeepInv DEF vars
<1> QED
  BY <1>2, <1>3, <1>4, <1>5, <1>6 DEF Next, Faults, AllDone

\* The inductive invariant holds in every state of every behaviour.
THEOREM InductiveInvariant == Spec => []Inv
<1>1. Init => Inv
  BY InitInv
<1>2. Inv /\ [Next]_vars => Inv'
  BY StepInv
<1> QED
  BY <1>1, <1>2, PTL DEF Spec

------------------------------------------------------------------------------
(* What follows.                                                             *)

\* Every variable keeps its type, and every label a task goes to is a known one.
THEOREM TypeCorrect == Spec => []TypeOK
<1>1. Inv => TypeOK
  BY DEF Inv
<1> QED
  BY <1>1, InductiveInvariant, PTL

\* Whatever crashes, races or vanishes, each turn of a task has its chunk in context
\* exactly once and whole, from its session or inline, as long as no two workspaces
\* share a project directory and no request asks for a way that drops the chunk
\* (chunk_dropped): however run_claude_code_task came to launch the harness, it
\* meant one of five things.
THEOREM ChunkReachesEachTurnOnce ==
    ASSUME OwnDirectories, ChunksKept
    PROVE  Spec => []ChunkInContextOnce
<1>1. ASSUME Inv  PROVE ChunkInContextOnce
  <2> SUFFICES ASSUME NEW t \in Tasks, NEW i \in 1 .. Len(turns[t])
               PROVE  LET turn == turns[t][i]
                          reached == (IF turn.inherited = request[t].chunk THEN 1 ELSE 0)
                                     + (IF turn.sent = request[t].chunk THEN 1 ELSE 0)
                          foreign == (Chunks \cup {"part"}) \ {request[t].chunk}
                      IN  /\ turn.inherited \notin foreign /\ turn.sent \notin foreign
                          /\ request[t].chunk # "none" => reached = 1
    BY DEF ChunkInContextOnce
  <2>1. Meant(t, turns[t][i].inherited, turns[t][i].sent, turns[t][i].prompt)
    BY <1>1 DEF Inv, TurnsFit
  <2>2. request[t].chunk # "none" =>
          ReusesSession(t) \/ (~ForksBase(t) /\ ~MayFallBack(t))
    BY <1>1 DEF Inv, TypeOK, ChunksKept, ReusesSession, ForksBase, MayFallBack
  <2>3. /\ request[t].chunk \in Chunks \cup {"none"}
        /\ Chunks \cap {"base", "own", "nothing", "none", "part"} = {}
    BY <1>1, TaskKnown
  <2>4. CASE request[t].chunk = "none"
    <3>1. /\ turns[t][i].inherited \in {"nothing", "own", "base"}
          /\ turns[t][i].sent = "none"
      BY <2>1, <2>4 DEF Meant, ReusesSession
    <3> QED
      BY <2>3, <2>4, <3>1
  <2>5. CASE request[t].chunk # "none"
    <3>1. \/ /\ turns[t][i].inherited \in {"nothing", "own"}
             /\ turns[t][i].sent = request[t].chunk
          \/ turns[t][i].inherited = request[t].chunk /\ turns[t][i].sent = "none"
      BY <2>1, <2>2, <2>5 DEF Meant, ReusesSession, MayFallBack
    <3> QED
      BY <2>3, <2>5, <3>1
  <2> QED
    BY <2>4, <2>5
<1> QED
  BY <1>1, InductiveInvariant, PTL

\* No session goes on record that cannot be forked, unless its transcript is lost:
\* what is recorded was primed to the end, and only copies are ever torn.
THEOREM RecordsWhole == Spec => []RecordedSessionsAreWhole
<1>1. ASSUME Inv  PROVE RecordedSessionsAreWhole
  <2>1. ASSUME NEW record \in Records, NEW holds, FitRecord(record, holds), Kept(record)
        PROVE  Whole(record)
    <3> SUFFICES ASSUME record.session.n > 0
                 PROVE  At(record.source, record.session) \in transcripts \ torn
      BY DEF Whole
    <3>1. record.session.n # 0
      BY <2>1 DEF Records, Sessions
    <3>2. At(record.source, record.session) \notin torn
      BY <1>1, <2>1, <3>1 DEF Inv, TornAreCopies, FitRecord, Rooted, At
    <3> QED
      BY <2>1, <3>1, <3>2 DEF Kept
  <2> QED
    BY <1>1, <2>1 DEF RecordedSessionsAreWhole, Inv, TypeOK, RecordsFit, TranscriptsKept
<1> QED
  BY <1>1, InductiveInvariant, PTL

\* Within one process no base is primed beside a usable one: nobody else can put
\* one on record or bring its transcript back while the lock is held.
THEOREM BasePrimedStale == Spec => []BasePrimedOnlyWhenStale
<1>1. Inv => BasePrimedOnlyWhenStale
  BY DEF Inv
<1> QED
  BY <1>1, InductiveInvariant, PTL

\* A thread lets go of a lock in the step that ends what it did under it.
LEMMA LocksStayInUse ==
    ASSUME Inv, LocksAreInUse, NEW t \in Tasks, TaskStep(t) \/ PrimeEnds(t)
    PROVE  LocksAreInUse'
<1>1. /\ UNCHANGED process /\ process[t] \in Processes
      /\ \A u \in Tasks : u # t => task'[u] = task[u]
      /\ registry_lock \in [Processes -> SUBSET Tasks]
      /\ base_lock \in [Processes -> SUBSET Tasks]
  BY StepFrame, TaskTyped DEF Inv, TypeOK, OthersKept
<1>2. \A p \in Processes : \A u \in registry_lock[p] : process[u] = p /\ Updating(u)
  BY DEF LocksAreInUse, Updating
<1>3. \A p \in Processes : \A u \in registry_lock'[p] : process[u] = p /\ Updating(u)'
  <2>1. CASE UNCHANGED registryVars /\ ~Updating(t)
    BY <1>1, <1>2, <2>1 DEF registryVars, Updating
  <2>2. CASE /\ ~Updating(t) /\ Updating(t)'
             /\ registry_lock' = [registry_lock EXCEPT ![process[t]] = {t}]
    BY <1>1, <1>2, <2>2 DEF Updating
  <2>3. CASE Updating(t) /\ ReleaseRegistry(t)
    <3>1. /\ registry_lock'[process[t]] = {}
          /\ \A p \in Processes \ {process[t]} : registry_lock'[p] = registry_lock[p]
      BY <1>1, <2>3 DEF ReleaseRegistry
    <3> QED
      BY <1>1, <1>2, <3>1 DEF Updating
  <2> QED
    BY <2>1, <2>2, <2>3, RegistryUses DEF RegistryUse, Updating
<1>4. \A p \in Processes : \A u \in base_lock'[p] :
        process[u] = p /\ task'[u].at = "base_priming"
  <2>1. CASE UNCHANGED base_lock /\ task[t].at # "base_priming"
    BY <1>1, <2>1 DEF LocksAreInUse
  <2>2. CASE PrimeBase(t) /\ task[t].at # "base_priming"
    <3>1. task'[t].at = "base_priming"
      BY <2>2 DEF PrimeBase, LaunchPrime, Inv, TypeOK
    <3>2. /\ base_lock'[process[t]] = {t}
          /\ \A p \in Processes \ {process[t]} : base_lock'[p] = base_lock[p]
      BY <1>1, <2>2 DEF PrimeBase
    <3> QED
      BY <1>1, <2>2, <3>1, <3>2 DEF LocksAreInUse
  <2>3. CASE task[t].at = "base_priming" /\ ReleaseBase(t)
    <3>1. /\ base_lock'[process[t]] = {}
          /\ \A p \in Processes \ {process[t]} : base_lock'[p] = base_lock[p]
      BY <1>1, <2>3 DEF ReleaseBase
    <3> QED
      BY <1>1, <3>1 DEF LocksAreInUse
  <2> QED
    BY <2>1, <2>2, <2>3, BaseUses DEF BaseUse, baseVars
<1> QED
  BY <1>1, <1>3, <1>4 DEF LocksAreInUse, Updating

\* A lock is held by a task at work under it and by no other: the safety half of
\* every call's coming back. Locks are what a crash takes with it.
THEOREM LocksInUse == Spec => []LocksAreInUse
<1>1. Init => LocksAreInUse
  BY DEF Init, RegistryInit, BaseInit, LocksAreInUse
<1>2. ASSUME Inv, LocksAreInUse, [Next]_vars
      PROVE  LocksAreInUse'
  <2>1. ASSUME NEW p \in Processes, Crash(p), UNCHANGED rigidVars
        PROVE  LocksAreInUse'
    <3>1. /\ registry_lock'[p] = {} /\ base_lock'[p] = {}
          /\ \A q \in Processes \ {p} : /\ registry_lock'[q] = registry_lock[q]
                                        /\ base_lock'[q] = base_lock[q]
          /\ UNCHANGED process
      BY <1>2, <2>1 DEF Crash, Inv, TypeOK, rigidVars
    <3>2. \A u \in Tasks : process[u] # p => task'[u] = task[u]
      BY <2>1 DEF Crash
    <3>3. \A q \in Processes : registry_lock[q] \subseteq Tasks /\ base_lock[q] \subseteq Tasks
      BY <1>2 DEF Inv, TypeOK
    <3> QED
      BY <1>2, <3>1, <3>2, <3>3 DEF LocksAreInUse
  <2>2. CASE \/ TranscriptLost /\ UNCHANGED rigidVars
             \/ BaseAges /\ UNCHANGED <<registryVars, rigidVars>>
             \/ UNCHANGED vars
    BY <1>2, <2>2 DEF TranscriptLost, BaseAges, vars, LocksAreInUse, registryVars, baseVars,
                      rigidVars
  <2> QED
    BY <1>2, <2>1, <2>2, LocksStayInUse DEF Next, Faults, AllDone
<1> QED
  BY <1>1, <1>2, InductiveInvariant, PTL DEF Spec

\* The incremental prompt of a resume turn reaches the session it continues only.
THEOREM ResumePromptMeets == Spec => []ResumePromptMeetsItsSession
<1>1. ASSUME Inv  PROVE ResumePromptMeetsItsSession
  <2> SUFFICES ASSUME NEW t \in Tasks, NEW i \in 1 .. Len(turns[t]),
                      request[t].session_id = "resumed", turns[t][i].prompt = "task"
               PROVE  turns[t][i].inherited = "own"
    BY DEF ResumePromptMeetsItsSession
  <2>1. Meant(t, turns[t][i].inherited, turns[t][i].sent, turns[t][i].prompt)
    BY <1>1 DEF Inv, TurnsFit
  <2> QED
    BY <2>1 DEF Meant, ReusesSession, ForksBase, MayFallBack
<1> QED
  BY <1>1, InductiveInvariant, PTL

\* Within one process a chunk's record changes only by a step of a task that carries
\* the chunk: what an update read of the others is still what the file holds.
THEOREM RecordsChanged == Spec => RecordsChangedByTheirTasks
<1>1. ASSUME Inv, [Next]_vars
      PROVE  [OneProcess => \A c \in Chunks : registry'[c] # registry[c] =>
                \E t \in Tasks : request[t].chunk = c /\ task'[t].at # task[t].at]_vars
  <2> SUFFICES ASSUME OneProcess, NEW c \in Chunks, registry'[c] # registry[c]
               PROVE  \E t \in Tasks : request[t].chunk = c /\ task'[t].at # task[t].at
    OBVIOUS
  <2>1. ASSUME NEW t \in Tasks, TaskStep(t) \/ PrimeEnds(t)
        PROVE  \E u \in Tasks : request[u].chunk = c /\ task'[u].at # task[u].at
    <3>1. PICK record : /\ Updating(t) /\ task'[t].at # task[t].at
                        /\ registry' = [registry_read[t] EXCEPT ![request[t].chunk] = record]
      BY <1>1, <2>1, RegistryUses DEF RegistryUse
    <3>2. registry_read[t] = registry /\ registry_read[t] \in [Chunks -> Records]
      BY <1>1, <3>1 DEF Inv, TypeOK, LocksHeld, Updating
    <3>3. request[t].chunk = c
      BY <3>1, <3>2
    <3> QED
      BY <3>1, <3>3
  <2>2. CASE Faults \/ AllDone \/ UNCHANGED vars
    BY <2>2 DEF Faults, AllDone, vars, Crash, TranscriptLost
  <2> QED
    BY <1>1, <2>1, <2>2 DEF Next
<1> QED
  BY <1>1, InductiveInvariant, PTL DEF Spec, RecordsChangedByTheirTasks

=============================================================================
