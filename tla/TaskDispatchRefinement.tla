------------------------ MODULE TaskDispatchRefinement ------------------------
(***************************************************************************)
(* Concurrent tasks implement TaskCall, for every value of the constants.  *)
(* The inductive invariant of TaskDispatchProofs says what each task holds *)
(* and what it launches; CallInv adds that a turn runs only in its task's  *)
(* "turn", and that a run without a session has none to be refused. From   *)
(* the same two, work that was done is redone only as WorkRedone says.     *)
(***************************************************************************)
EXTENDS TaskDispatchProofs

USE DEF storeVars, rigidVars, registryVars, baseVars, faultVars

------------------------------------------------------------------------------
(* What the mapping needs.                                                   *)

RunningInTurn(t) ==
    \A i \in 1 .. Len(turns[t]) : turns[t][i].outcome = "running" =>
        task[t].at = "turn" /\ i = Len(turns[t])

NothingToRefuse(t) ==
    task[t].launch.session.holds = "nothing" => task[t].launch.session = NoSession

CallInv == \A t \in Tasks : RunningInTurn(t) /\ NothingToRefuse(t)

Invariant == Inv /\ CallInv

\* The latest turn of a task ends, its work done or not.
EndsAs(t, outcome) ==
    \E worked \in BOOLEAN : turns'[t] = Ended(turns[t], outcome, worked)

\* The ways a task moves, as the mapping sees them.
LEMMA Going ==
    ASSUME TypeOK, NEW t \in Tasks, NEW from, NEW to, Goes(t, from, to)
    PROVE  /\ task[t].at = from /\ task'[t].at = to
           /\ task'[t].launch = task[t].launch
BY DEF TypeOK, Goes

LEMMA Launched ==
    ASSUME TypeOK, NEW t \in Tasks, NEW launch, Launches(t, launch)
    PROVE  task'[t].at = "launch" /\ task'[t].launch = launch
BY DEF TypeOK, Launches

LEMMA Dispatched ==
    ASSUME TypeOK, NEW t \in Tasks, NEW to, NEW launch, Dispatch(t, to, launch)
    PROVE  task[t].at = "start" /\ task'[t].at = to /\ task'[t].launch = launch
BY DEF TypeOK, Dispatch

LEMMA TakesRecord ==
    ASSUME TypeOK, NEW t \in Tasks, NEW record, NEW to,
           task' = [task EXCEPT ![t].at = to, ![t].session = record.session,
                                ![t].source = record.source]
    PROVE  task'[t].at = to /\ task'[t].launch = task[t].launch
BY DEF TypeOK

LEMMA Primes ==
    ASSUME TypeOK, NEW t \in Tasks, NEW holds, NEW to, LaunchPrime(t, holds, to)
    PROVE  task'[t].at = to /\ task'[t].launch = task[t].launch
BY DEF TypeOK, LaunchPrime

\* A step that takes no turn and ends none: the way goes on, or is lost.
WayMoves(t) ==
    \/ WayOf(t)' = WayOf(t)
    \/ WayOf(t) = "shortcut" /\ WayOf(t)' = "plain"
    \/ WayOf(t) = "plain" /\ WayOf(t)' = "raised"
    \/ /\ WayOf(t)' = "returned" /\ WayOf(t) \in {"shortcut", "plain"}
       /\ WayOf(t) = "shortcut" \/ request[t].session_id = "resumed"

\* The labels at which a task still has its shortcut, and has just lost it.
Promising == {"start", "lookup", "prime", "priming", "record", "recording", "relocate",
              "copying", "base", "base_priming"}
Losing == {"forget", "forgetting", "base_forget"}

LEMMA WaysByLabel ==
    ASSUME NEW t \in Tasks
    PROVE  /\ task[t].at \in Promising => WayOf(t) = "shortcut"
           /\ task[t].at \in Losing => WayOf(t) = "plain"
           /\ task[t].at \in {"launch", "turn"} =>
                WayOf(t) = IF task[t].launch.session.holds \in PlainSessions
                           THEN "plain" ELSE "shortcut"
           /\ task[t].at \in {"returned", "raised"} => WayOf(t) = task[t].at
           /\ task'[t].at \in Promising => WayOf(t)' = "shortcut"
           /\ task'[t].at \in Losing => WayOf(t)' = "plain"
           /\ task'[t].at \in {"launch", "turn"} =>
                WayOf(t)' = IF task'[t].launch.session.holds \in PlainSessions
                            THEN "plain" ELSE "shortcut"
           /\ task'[t].at \in {"returned", "raised"} => WayOf(t)' = task'[t].at
BY DEF WayOf, Done, Promising, Losing

\* What the sessions that are launched hold.
LEMMA SessionsHold ==
    ASSUME Inv, NEW t \in Tasks
    PROVE  /\ NoSession.holds = "nothing" /\ OwnSession.holds = "own"
           /\ HoldsWhatItNeeds(t) =>
                /\ task[t].session.holds \notin PlainSessions
                /\ OnException(task[t].session) \in {"forget", "base_forget"}
           /\ Plain(t).session = NoSession
           /\ \A session : OnException(session) =
                IF session.holds \in Chunks THEN "forget"
                ELSE IF session.holds = "base" THEN "base_forget" ELSE "raised"
<1>1. /\ Chunks \cap {"base", "own", "nothing", "none", "part"} = {}
      /\ ReusesSession(t) => request[t].chunk \in Chunks
      /\ HoldsWhatItNeeds(t) =>
           OnException(task[t].session) = IF ReusesSession(t) THEN "forget" ELSE "base_forget"
  BY TaskKnown
<1>2. HoldsWhatItNeeds(t) => task[t].session.holds \notin PlainSessions
  BY <1>1 DEF HoldsWhatItNeeds, PlainSessions
<1>3. \A session : OnException(session) =
        IF session.holds \in Chunks THEN "forget"
        ELSE IF session.holds = "base" THEN "base_forget" ELSE "raised"
  BY <1>1 DEF OnException
<1>4. NoSession.holds = "nothing" /\ OwnSession.holds = "own"
  BY DEF NoSession, OwnSession, EarlierSession
<1>5. Plain(t).session = NoSession
  BY DEF Plain
<1> QED
  BY <1>1, <1>2, <1>3, <1>4, <1>5

------------------------------------------------------------------------------
(* The steps of a task's thread.                                             *)

\* What each step that neither takes a turn nor ends one does to the way of its task,
\* and to what it launches.
LEMMA WaySteps ==
    ASSUME Invariant, NEW t \in Tasks, TaskStep(t) \/ PrimeEnds(t),
           ~HarnessTakesTurn(t), ~RunCompletes(t), ~RunRaises(t)
    PROVE  WayMoves(t) /\ NothingToRefuse(t)'
<1>1. TypeOK /\ Inv /\ NothingToRefuse(t) /\ TaskFits(t)
  BY TaskKnown DEF Invariant, Inv, CallInv
<1> DEFINE Sound == WayMoves(t) /\ NothingToRefuse(t)'
\* A step that keeps its launch, and one that makes one.
<1>2. ASSUME task'[t].launch = task[t].launch,
             \/ task[t].at \in Promising /\ task'[t].at \in Promising \cup Losing
             \/ task[t].at \in Losing /\ task'[t].at \in Losing
      PROVE  Sound
  BY <1>1, <1>2, WaysByLabel DEF WayMoves, NothingToRefuse
<1>3. ASSUME task'[t].at = "launch", task[t].at \in Promising \cup Losing,
             task'[t].launch.session \in {NoSession, OwnSession}
      PROVE  Sound
  BY <1>1, <1>3, WaysByLabel, SessionsHold DEF WayMoves, NothingToRefuse, PlainSessions
<1>4. ASSUME task'[t].at = "launch", task[t].at \in Promising,
             task'[t].launch = Fork(t), HoldsWhatItNeeds(t)
      PROVE  Sound
  <2>1. task'[t].launch.session.holds \notin PlainSessions
    BY <1>1, <1>4, SessionsHold DEF Fork
  <2> QED
    BY <1>4, <2>1, WaysByLabel DEF WayMoves, NothingToRefuse, PlainSessions
<1>5. ASSUME DispatchSteps(t)  PROVE Sound
  <2>1. CASE DispatchToReuse(t) \/ DispatchToBase(t)
    <3>1. /\ task[t].at = "start" /\ task'[t].at \in {"lookup", "base"}
          /\ task'[t].launch.session = NoSession
      BY <1>1, <2>1, Dispatched DEF DispatchToReuse, DispatchToBase, NewTask
    <3> QED
      BY <3>1, WaysByLabel DEF WayMoves, NothingToRefuse, Promising
  <2>2. CASE DispatchToFallback(t)
    <3>1. /\ task[t].at = "start" /\ task'[t].at = "launch"
          /\ task'[t].launch.session = NoSession
      <4>1. Dispatch(t, "launch",
                     [session |-> NoSession, chunk |-> "none", prompt |-> "fallback"])
        BY <2>2 DEF DispatchToFallback
      <4> QED
        BY <1>1, <4>1, Dispatched
    <3> QED
      BY <1>3, <3>1 DEF Promising
  <2>3. CASE DispatchPlain(t)
    <3>1. /\ task[t].at = "start" /\ task'[t].at = "launch"
          /\ task'[t].launch.session \in {NoSession, OwnSession}
      <4> DEFINE launch == [Plain(t) EXCEPT !.session =
                             IF request[t].session_id = "resumed" THEN OwnSession ELSE @]
      <4>1. Dispatch(t, "launch", launch)
        BY <2>3 DEF DispatchPlain
      <4>2. launch.session \in {NoSession, OwnSession}
        BY DEF Plain
      <4> QED
        BY <1>1, <4>1, <4>2, Dispatched
    <3> QED
      BY <1>3, <3>1 DEF Promising
  <2> QED
    BY <1>5, <2>1, <2>2, <2>3 DEF DispatchSteps
<1>6. ASSUME SessionSteps(t)  PROVE Sound
  <2>1. CASE SourceMissing(t) \/ CopyFails(t)
    <3>1. /\ task[t].at \in {"relocate", "copying"} /\ HoldsWhatItNeeds(t)
          /\ task'[t].at = OnException(task[t].session)
          /\ task'[t].launch = task[t].launch
      BY <1>1, <2>1, Going DEF SourceMissing, CopyFails, TaskFits
    <3> QED
      BY <1>1, <1>2, <3>1, SessionsHold DEF Promising, Losing
  <2>2. CASE AlreadyPresent(t) \/ CopyEnds(t)
    <3>1. task[t].at \in {"relocate", "copying"} /\ HoldsWhatItNeeds(t)
      BY <1>1, <2>2 DEF AlreadyPresent, CopyEnds, TaskFits
    <3>2. task'[t].at = "launch" /\ task'[t].launch = Fork(t)
      BY <1>1, <2>2, Launched DEF AlreadyPresent, CopyEnds
    <3> QED
      BY <1>4, <3>1, <3>2 DEF Promising
  <2>3. CASE CopyBegins(t)
    <3>1. /\ task[t].at = "relocate" /\ task'[t].at = "copying"
          /\ task'[t].launch = task[t].launch
      BY <1>1, <2>3, Going DEF CopyBegins
    <3> QED
      BY <1>2, <3>1 DEF Promising
  <2>4. CASE HarnessRefuses(t)
    <3>1. /\ task[t].at = "launch" /\ task'[t].at = "returned"
          /\ task'[t].launch = task[t].launch /\ task[t].launch.session # NoSession
      BY <1>1, <2>4, Going DEF HarnessRefuses
    <3>2. task[t].launch.session.holds = "own" => request[t].session_id = "resumed"
      <4>1. Meant(t, task[t].launch.session.holds, task[t].launch.chunk, task[t].launch.prompt)
        BY <1>1, <3>1 DEF TaskFits
      <4> QED
        BY <1>1, <4>1, TaskKnown DEF Meant
    <3> QED
      BY <1>1, <3>1, <3>2, WaysByLabel DEF WayMoves, NothingToRefuse, PlainSessions
  <2>5. CASE LaunchRaises(t)
    <3>1. /\ task[t].at = "launch" /\ task'[t].at = OnException(task[t].launch.session)
          /\ task'[t].launch = task[t].launch
      BY <1>1, <2>5, Going DEF LaunchRaises
    <3>2. task[t].launch.session.holds \in Chunks \cup {"base", "own", "nothing"}
      BY <1>1 DEF TypeOK, LaunchTypes, Sessions, Holds
    <3>3. Chunks \cap {"base", "own", "nothing"} = {}
      BY <1>1, TaskKnown
    <3> QED
      BY <1>1, <3>1, <3>2, <3>3, WaysByLabel, SessionsHold
         DEF WayMoves, NothingToRefuse, PlainSessions, Losing
  <2> QED
    BY <1>6, <2>1, <2>2, <2>3, <2>4, <2>5 DEF SessionSteps
<1>7. ASSUME ReuseSteps(t) \/ ChunkPrimeEnds(t)  PROVE Sound
  <2>1. CASE LookupHits(t) \/ LookupHitsLegacy(t) \/ LookupMisses(t)
    <3>1. /\ task[t].at = "lookup" /\ task'[t].at \in {"relocate", "forget", "prime"}
          /\ task'[t].launch = task[t].launch
      <4>1. CASE LookupHits(t)
        BY <1>1, <4>1, TakesRecord DEF LookupHits, Looks
      <4>2. CASE LookupHitsLegacy(t) \/ LookupMisses(t)
        BY <1>1, <4>2, Going DEF LookupHitsLegacy, LookupMisses
      <4> QED
        BY <2>1, <4>1, <4>2
    <3> QED
      BY <1>2, <3>1 DEF Promising, Losing
  <2>2. CASE PrimeChunk(t)
    <3>1. /\ task[t].at = "prime" /\ task'[t].at = "priming"
          /\ task'[t].launch = task[t].launch
      BY <1>1, <2>2, Primes DEF PrimeChunk
    <3> QED
      BY <1>2, <3>1 DEF Promising
  <2>3. CASE ChunkPrimeTimesOut(t) \/ ChunkPrimeFails(t)
    <3>1. /\ task[t].at = "priming" /\ task'[t].at = OnException(task[t].session)
          /\ task'[t].launch = task[t].launch /\ HoldsWhatItNeeds(t)
      BY <1>1, <2>3, Going DEF ChunkPrimeTimesOut, ChunkPrimeFails, PrimeRaises, TaskFits
    <3> QED
      BY <1>1, <1>2, <3>1, SessionsHold DEF Promising, Losing
  <2>4. CASE \/ ChunkPrimed(t) \/ RecordReads(t) \/ ForgetReads(t)
             \/ RecordWrites(t) \/ RecordFails(t)
    <3>1. /\ \/ task[t].at = "priming" /\ task'[t].at = "record"
             \/ task[t].at = "record" /\ task'[t].at = "recording"
             \/ task[t].at = "forget" /\ task'[t].at = "forgetting"
             \/ task[t].at = "recording" /\ task'[t].at \in {"relocate", "forget"}
          /\ task'[t].launch = task[t].launch
      BY <1>1, <2>4, Going DEF ChunkPrimed, PrimeExits, RecordReads, ForgetReads,
          ReadsRegistry, RecordWrites, RecordFails
    <3> QED
      BY <1>2, <3>1 DEF Promising, Losing
  <2>5. CASE ForgetEnds(t)
    <3>1. /\ task[t].at = "forgetting" /\ task'[t].at = "launch"
          /\ task'[t].launch.session = NoSession
      BY <1>1, <2>5, Launched, SessionsHold DEF ForgetEnds, FallBackInline
    <3> QED
      BY <1>3, <3>1 DEF Losing
  <2> QED
    BY <1>7, <2>1, <2>2, <2>3, <2>4, <2>5 DEF ReuseSteps, ChunkPrimeEnds
<1>8. ASSUME BaseSteps(t) \/ BasePrimeEnds(t)  PROVE Sound
  <2>1. CASE UseFreshBase(t) \/ PrimeBase(t) \/ BasePrimed(t)
    <3>1. /\ task[t].at \in {"base", "base_priming"}
          /\ task'[t].at \in {"relocate", "base_priming"}
          /\ task'[t].launch = task[t].launch
      <4>1. CASE UseFreshBase(t)
        BY <1>1, <4>1, TakesRecord DEF UseFreshBase
      <4>2. CASE PrimeBase(t)
        BY <1>1, <4>2, Primes DEF PrimeBase
      <4>3. CASE BasePrimed(t)
        BY <1>1, <4>3, Going DEF BasePrimed, PrimeExits
      <4> QED
        BY <2>1, <4>1, <4>2, <4>3
    <3> QED
      BY <1>2, <3>1 DEF Promising
  <2>2. CASE BasePrimeFails(t)
    <3>1. /\ task[t].at = "base_priming" /\ task'[t].at = OnException(task[t].session)
          /\ task'[t].launch = task[t].launch /\ HoldsWhatItNeeds(t)
      BY <1>1, <2>2, Going DEF BasePrimeFails, PrimeRaises, TaskFits
    <3> QED
      BY <1>1, <1>2, <3>1, SessionsHold DEF Promising, Losing
  <2>3. CASE ForgetBase(t)
    <3>1. /\ task[t].at = "base_forget" /\ task'[t].at = "launch"
          /\ task'[t].launch.session = NoSession
      BY <1>1, <2>3, Launched, SessionsHold DEF ForgetBase
    <3> QED
      BY <1>3, <3>1 DEF Losing
  <2> QED
    BY <1>8, <2>1, <2>2, <2>3 DEF BaseSteps, BasePrimeEnds, BasePrimeTimesOut
<1> QED
  BY <1>5, <1>6, <1>7, <1>8 DEF TaskStep, PrimeEnds

------------------------------------------------------------------------------
(* Attempts.                                                                 *)

LEMMA AttemptsKnown ==
    ASSUME TypeOK, NEW t \in Tasks
    PROVE  /\ Len(turns[t]) \in Nat
           /\ Len(AttemptsOf(t)) = Len(turns[t])
           /\ AttemptsOf(t) = <<>> <=> Len(turns[t]) = 0
           /\ DOMAIN AttemptsOf(t) = 1 .. Len(turns[t])
           /\ \A i \in 1 .. Len(turns[t]) :
                /\ AttemptsOf(t)[i] = AttemptOf(turns[t][i])
                /\ AttemptsOf(t)[i].outcome = turns[t][i].outcome
<1>1. turns[t] \in Seq(Turns) /\ Len(turns[t]) \in Nat
  BY DEF TypeOK
<1>2. AttemptsOf(t) \in Seq({AttemptOf(turns[t][i]) : i \in 1 .. Len(turns[t])})
  BY <1>1 DEF AttemptsOf
<1>3. Len(AttemptsOf(t)) = Len(turns[t])
  BY <1>1 DEF AttemptsOf
<1>4. \A turn : AttemptOf(turn).outcome = turn.outcome
  BY DEF AttemptOf
<1> QED
  BY <1>1, <1>2, <1>3, <1>4 DEF AttemptsOf

\* One attempt more.
LEMMA AttemptTaken ==
    ASSUME TypeOK, NEW t \in Tasks, NEW turn, turns'[t] = Append(turns[t], turn)
    PROVE  AttemptsOf(t)' = Append(AttemptsOf(t), AttemptOf(turn))
<1>1. /\ turns[t] \in Seq(Turns) /\ Len(turns[t]) \in Nat
      /\ Len(turns'[t]) = Len(turns[t]) + 1
      /\ turns'[t][Len(turns[t]) + 1] = turn
      /\ \A i \in 1 .. Len(turns[t]) : turns'[t][i] = turns[t][i]
  BY AppendKnown DEF TypeOK
<1>2. AttemptsOf(t)' = [i \in 1 .. Len(turns'[t]) |-> AttemptOf(turns'[t][i])]
  BY DEF AttemptsOf, AttemptOf
<1>3. AttemptsOf(t)' = [i \in 1 .. Len(turns[t]) + 1 |->
                          IF i = Len(turns[t]) + 1 THEN AttemptOf(turn) ELSE AttemptsOf(t)[i]]
  BY <1>1, <1>2, AttemptsKnown
<1>4. Append(AttemptsOf(t), AttemptOf(turn)) =
        [i \in 1 .. Len(AttemptsOf(t)) + 1 |->
           IF i = Len(AttemptsOf(t)) + 1 THEN AttemptOf(turn) ELSE AttemptsOf(t)[i]]
  BY AttemptsKnown DEF AttemptsOf
<1> QED
  BY <1>3, <1>4, AttemptsKnown

\* The latest attempt ends.
LEMMA AttemptEnded ==
    ASSUME TypeOK, NEW t \in Tasks, Len(turns[t]) # 0,
           NEW outcome \in {"running", "completed", "raised", "crashed"},
           EndsAs(t, outcome)
    PROVE  AttemptsOf(t)' =
             [AttemptsOf(t) EXCEPT ![Len(AttemptsOf(t))].outcome = outcome]
<1> DEFINE n == Len(turns[t])
<1>1. /\ n \in Nat /\ n # 0 /\ Len(turns'[t]) = n
      /\ \A i \in 1 .. n :
           /\ turns'[t][i].inherited = turns[t][i].inherited
           /\ turns'[t][i].outcome = IF i = n THEN outcome ELSE turns[t][i].outcome
  BY EndsTurnKnown, AttemptsKnown DEF EndsAs
<1>2. AttemptsOf(t)' = [i \in 1 .. Len(turns'[t]) |-> AttemptOf(turns'[t][i])]
  BY DEF AttemptsOf, AttemptOf
<1>3. /\ Len(AttemptsOf(t)) = n /\ DOMAIN AttemptsOf(t) = 1 .. n
      /\ \A i \in 1 .. n : AttemptsOf(t)[i] = AttemptOf(turns[t][i])
  BY AttemptsKnown
<1>4. \A i \in 1 .. n : AttemptOf(turns'[t][i]) =
        IF i = n THEN [AttemptOf(turns[t][i]) EXCEPT !.outcome = outcome]
                 ELSE AttemptOf(turns[t][i])
  BY <1>1 DEF AttemptOf
<1>5. AttemptsOf(t)' = [i \in 1 .. n |->
        IF i = n THEN [AttemptsOf(t)[i] EXCEPT !.outcome = outcome] ELSE AttemptsOf(t)[i]]
  <2>1. \A i \in 1 .. n : AttemptOf(turns'[t][i]) =
          IF i = n THEN [AttemptsOf(t)[i] EXCEPT !.outcome = outcome] ELSE AttemptsOf(t)[i]
    BY <1>3, <1>4
  <2>2. AttemptsOf(t)' = [i \in 1 .. n |-> AttemptOf(turns'[t][i])]
    BY <1>1, <1>2
  <2> HIDE DEF n
  <2> QED
    BY <2>1, <2>2
<1> HIDE DEF n
<1>6. n \in 1 .. n
  BY <1>1
<1>7. [AttemptsOf(t) EXCEPT ![n].outcome = outcome] =
        [i \in 1 .. n |->
           IF i = n THEN [AttemptsOf(t)[i] EXCEPT !.outcome = outcome] ELSE AttemptsOf(t)[i]]
  BY <1>3, <1>6
<1> QED
  BY <1>3, <1>5, <1>7

\* A call is attempting while its task is in its turn.
LEMMA AttemptingInTurn ==
    ASSUME Invariant, NEW t \in Tasks
    PROVE  (AttemptsOf(t) # <<>> /\ AttemptsOf(t)[Len(AttemptsOf(t))].outcome = "running")
             <=> task[t].at = "turn"
<1>1. RunningInTurn(t) /\ TypeOK
  BY DEF Invariant, CallInv, Inv
<1>2. task[t].at = "turn" =>
        Len(turns[t]) # 0 /\ turns[t][Len(turns[t])].outcome = "running"
  BY DEF Invariant, Inv, LastTurnRuns
<1>3. Len(turns[t]) # 0 => Len(turns[t]) \in 1 .. Len(turns[t])
  BY <1>1, AttemptsKnown
<1> QED
  BY <1>1, <1>2, <1>3, AttemptsKnown DEF RunningInTurn

------------------------------------------------------------------------------
(* CallInv is inductive, given the invariant of TaskDispatchProofs.          *)

\* What a step that takes or ends a turn does.
LEMMA TurnMoves ==
    ASSUME Inv, NEW t \in Tasks
    PROVE  /\ HarnessTakesTurn(t) =>
                /\ task[t].at = "launch" /\ task'[t].at = "turn"
                /\ task'[t].launch = task[t].launch
                /\ turns'[t] = Append(turns[t],
                     [inherited |-> Inherited(t), sent |-> task[t].launch.chunk,
                      prompt |-> task[t].launch.prompt, worked |-> FALSE,
                      outcome |-> "running"])
           /\ RunCompletes(t) =>
                /\ task[t].at = "turn" /\ task'[t].at = "returned"
                /\ task'[t].launch = task[t].launch
                /\ EndsAs(t, "completed")
           /\ RunRaises(t) =>
                /\ task[t].at = "turn"
                /\ task'[t].at = OnException(task[t].launch.session)
                /\ task'[t].launch = task[t].launch
                /\ EndsAs(t, "raised")
           /\ task[t].at = "turn" =>
                Len(turns[t]) # 0 /\ turns[t][Len(turns[t])].outcome = "running"
<1>1. TypeOK
  BY DEF Inv
<1>2. turns \in [Tasks -> Seq(Turns)]
  BY <1>1 DEF TypeOK
<1>3. task[t].at = "turn" =>
        Len(turns[t]) # 0 /\ turns[t][Len(turns[t])].outcome = "running"
  BY DEF Inv, LastTurnRuns
<1>4. HarnessTakesTurn(t) =>
        /\ task[t].at = "launch" /\ task'[t].at = "turn"
        /\ task'[t].launch = task[t].launch
        /\ turns'[t] = Append(turns[t],
             [inherited |-> Inherited(t), sent |-> task[t].launch.chunk,
              prompt |-> task[t].launch.prompt, worked |-> FALSE,
              outcome |-> "running"])
  BY <1>1, <1>2, Going DEF HarnessTakesTurn
<1>5. RunCompletes(t) =>
        /\ task[t].at = "turn" /\ task'[t].at = "returned"
        /\ task'[t].launch = task[t].launch
        /\ EndsAs(t, "completed")
  BY <1>1, <1>2, Going DEF RunCompletes, EndsTurn, EndsAs
<1>6. RunRaises(t) =>
        /\ task[t].at = "turn"
        /\ task'[t].at = OnException(task[t].launch.session)
        /\ task'[t].launch = task[t].launch
        /\ EndsAs(t, "raised")
  BY <1>1, <1>2, Going DEF RunRaises, EndsTurn, EndsAs
<1> QED
  BY <1>3, <1>4, <1>5, <1>6

LEMMA InitCallInv == Init => CallInv
<1> SUFFICES ASSUME Init, NEW t \in Tasks
             PROVE  RunningInTurn(t) /\ NothingToRefuse(t)
  BY DEF CallInv
<1>1. task[t] = NewTask /\ turns[t] = <<>>
  BY DEF Init, StoreInit
<1> QED
  BY <1>1 DEF RunningInTurn, NothingToRefuse, NewTask

LEMMA CallInvOfStep ==
    ASSUME Invariant, NEW t \in Tasks, TaskStep(t) \/ PrimeEnds(t)
    PROVE  CallInv'
<1>1. /\ Inv /\ TypeOK /\ OthersKept(t) /\ RunningInTurn(t) /\ NothingToRefuse(t)
      /\ \A u \in Tasks : RunningInTurn(u) /\ NothingToRefuse(u)
  BY StepFrame DEF Invariant, CallInv, Inv
<1>2. \A u \in Tasks : u # t => RunningInTurn(u)' /\ NothingToRefuse(u)'
  BY <1>1 DEF OthersKept, RunningInTurn, NothingToRefuse
<1>3. SUFFICES RunningInTurn(t)' /\ NothingToRefuse(t)'
  BY <1>2 DEF CallInv
<1>4. CASE HarnessTakesTurn(t)
  <2> DEFINE turn == [inherited |-> Inherited(t), sent |-> task[t].launch.chunk,
                      prompt |-> task[t].launch.prompt, worked |-> FALSE,
                      outcome |-> "running"]
  <2>1. /\ task[t].at = "launch" /\ task'[t].at = "turn"
        /\ task'[t].launch = task[t].launch
        /\ turns'[t] = Append(turns[t], turn) /\ turns[t] \in Seq(Turns)
    BY <1>1, <1>4, TurnMoves DEF TypeOK
  <2> HIDE DEF turn
  <2>2. \A i \in 1 .. Len(turns[t]) : turns'[t][i].outcome # "running"
    BY <1>1, <2>1, AppendKnown DEF RunningInTurn
  <2>3. Len(turns'[t]) = Len(turns[t]) + 1 /\ Len(turns[t]) \in Nat
    BY <2>1, AppendKnown
  <2> QED
    BY <1>1, <2>1, <2>2, <2>3 DEF RunningInTurn, NothingToRefuse
<1>5. CASE RunCompletes(t) \/ RunRaises(t)
  <2>1. /\ task'[t].launch = task[t].launch
        /\ \E outcome \in {"completed", "raised"} :
             EndsAs(t, outcome)
    BY <1>1, <1>5, TurnMoves
  <2>2. \A i \in 1 .. Len(turns'[t]) : turns'[t][i].outcome # "running"
    BY <1>1, <2>1, EndsTurnKnown DEF RunningInTurn, EndsAs
  <2> QED
    BY <1>1, <2>1, <2>2 DEF RunningInTurn, NothingToRefuse
<1>6. CASE ~HarnessTakesTurn(t) /\ ~RunCompletes(t) /\ ~RunRaises(t)
  <2>1. NothingToRefuse(t)'
    BY <1>6, WaySteps
  <2>2. turns' = turns /\ task[t].at # "turn"
    BY <1>1, <1>6, TurnSteps
  <2> QED
    BY <1>1, <2>1, <2>2 DEF RunningInTurn
<1> QED
  BY <1>4, <1>5, <1>6

\* What a crash does to each task.
LEMMA Crashed ==
    ASSUME Inv, NEW p \in Processes, Crash(p), NEW t \in Tasks
    PROVE  IF process[t] = p /\ ~Done(t)
           THEN /\ task'[t] = NewTask
                /\ \/ /\ task[t].at = "turn"
                      /\ EndsAs(t, "crashed")
                   \/ task[t].at # "turn" /\ turns'[t] = turns[t]
           ELSE task'[t] = task[t] /\ turns'[t] = turns[t]
BY DEF Crash, Done, EndsAs

LEMMA CallInvOfCrash ==
    ASSUME Invariant, NEW p \in Processes, Crash(p)
    PROVE  CallInv'
<1> SUFFICES ASSUME NEW t \in Tasks
             PROVE  RunningInTurn(t)' /\ NothingToRefuse(t)'
  BY DEF CallInv
<1>1. Inv /\ TypeOK /\ RunningInTurn(t) /\ NothingToRefuse(t)
  BY DEF Invariant, CallInv, Inv
<1>2. CASE task'[t] = task[t] /\ turns'[t] = turns[t]
  BY <1>1, <1>2 DEF RunningInTurn, NothingToRefuse
<1>3. CASE task'[t] = NewTask /\ task[t].at # "turn" /\ turns'[t] = turns[t]
  BY <1>1, <1>3 DEF RunningInTurn, NothingToRefuse, NewTask
<1>4. CASE /\ task'[t] = NewTask
           /\ EndsAs(t, "crashed")
  <2>1. \A i \in 1 .. Len(turns'[t]) : turns'[t][i].outcome # "running"
    BY <1>1, <1>4, EndsTurnKnown DEF RunningInTurn, EndsAs
  <2> QED
    BY <1>4, <2>1 DEF RunningInTurn, NothingToRefuse, NewTask
<1> QED
  BY <1>1, <1>2, <1>3, <1>4, Crashed

LEMMA CallInvPreserved == Invariant /\ [Next]_vars => CallInv'
<1> SUFFICES ASSUME Invariant, [Next]_vars  PROVE CallInv'
  OBVIOUS
<1>1. CASE \E t \in Tasks : TaskStep(t) \/ PrimeEnds(t)
  BY <1>1, CallInvOfStep
<1>2. CASE \E p \in Processes : Crash(p)
  BY <1>2, CallInvOfCrash
<1>3. CASE UNCHANGED <<task, turns>>
  BY <1>3 DEF Invariant, CallInv, RunningInTurn, NothingToRefuse
<1> QED
  BY <1>1, <1>2, <1>3 DEF Next, Faults, TranscriptLost, BaseAges, AllDone, vars

LEMMA CallInvariant == Spec => []CallInv
<1>1. Invariant /\ [Next]_vars => CallInv'
  BY CallInvPreserved
<1> QED
  BY <1>1, InitCallInv, InductiveInvariant, PTL DEF Spec, Invariant

------------------------------------------------------------------------------
(* Steps of the calls.                                                       *)

USE DEF Calls!calls, Calls!Ways

\* What the mapping makes of each call.
LEMMA Mapped ==
    ASSUME Invariant, NEW t \in Tasks
    PROVE  /\ WayOf(t) \in {"shortcut", "plain"} <=> ~Done(t)
           /\ Calls!Attempting(t) <=> task[t].at = "turn"
           /\ task[t].at = "turn" => WayOf(t) \in {"shortcut", "plain"}
<1>1. Calls!Attempting(t) <=> task[t].at = "turn"
  BY AttemptingInTurn DEF Calls!Attempting, Calls!Latest
<1>2. WayOf(t) \in {"shortcut", "plain"} <=> ~Done(t)
  BY DEF WayOf, Done
<1> QED
  BY <1>1, <1>2 DEF Done

\* What a step of one task does to the mapping as a whole.
LEMMA OthersMapped ==
    ASSUME Invariant, NEW t \in Tasks, TaskStep(t) \/ PrimeEnds(t)
    PROVE  /\ {u \in Tasks : request[u].session_id = "resumed"}' =
                {u \in Tasks : request[u].session_id = "resumed"}
           /\ [u \in Tasks |-> WayOf(u)]' =
                [[u \in Tasks |-> WayOf(u)] EXCEPT ![t] = WayOf(t)']
           /\ [u \in Tasks |-> AttemptsOf(u)]' =
                [[u \in Tasks |-> AttemptsOf(u)] EXCEPT ![t] = AttemptsOf(t)']
<1>1. UNCHANGED request /\ OthersKept(t)
  BY StepFrame DEF Invariant
<1>2. \A u \in Tasks : u # t => WayOf(u)' = WayOf(u) /\ AttemptsOf(u)' = AttemptsOf(u)
  BY <1>1 DEF OthersKept, WayOf, Done, AttemptsOf
<1> QED
  BY <1>1, <1>2

\* Only a session that is forked can be torn.
LEMMA InheritsPlainly ==
    ASSUME Inv, NEW t \in Tasks
    PROVE  /\ Inherited(t) \in PlainSessions <=>
                task[t].launch.session.holds \in PlainSessions
           /\ task[t].launch.session.holds = "nothing" => Inherited(t) = "nothing"
<1>1. Resumed(t) \in torn => task[t].launch.session.holds \in Chunks \cup {"base"}
  BY DEF Inv, TornAreCopies, Resumed, At
<1>2. Chunks \cap {"base", "own", "nothing"} = {}
  BY TaskKnown
<1> QED
  BY <1>1, <1>2 DEF Inherited, PlainSessions

LEMMA TurnTakenMaps ==
    ASSUME Invariant, NEW t \in Tasks, TaskStep(t) \/ PrimeEnds(t), HarnessTakesTurn(t)
    PROVE  Calls!Attempt(t)
<1>1. Inv /\ TypeOK
  BY DEF Invariant, Inv
<1> DEFINE turn == [inherited |-> Inherited(t), sent |-> task[t].launch.chunk,
                    prompt |-> task[t].launch.prompt, worked |-> FALSE,
                    outcome |-> "running"]
<1>2. /\ task[t].at = "launch" /\ task'[t].at = "turn"
      /\ task'[t].launch = task[t].launch
      /\ turns'[t] = Append(turns[t], turn)
  BY <1>1, TurnMoves
<1>3. AttemptsOf(t)' = Append(AttemptsOf(t), AttemptOf(turn))
  BY <1>1, <1>2, AttemptTaken
<1>4. WayOf(t)' = WayOf(t) /\ WayOf(t) \in {"shortcut", "plain"}
  BY <1>2, WaysByLabel
<1>5. AttemptOf(turn) = [way |-> WayOf(t), outcome |-> "running"]
  <2>1. Inherited(t) \in PlainSessions <=> task[t].launch.session.holds \in PlainSessions
    BY <1>1, InheritsPlainly
  <2>2. WayOf(t) = IF Inherited(t) \in PlainSessions THEN "plain" ELSE "shortcut"
    BY <1>2, <2>1, WaysByLabel
  <2> QED
    BY <2>2 DEF AttemptOf
<1>6. ~Calls!Attempting(t)
  BY <1>2, Mapped
<1> HIDE DEF turn
<1> QED
  BY <1>3, <1>4, <1>5, <1>6, OthersMapped DEF Calls!Attempt, Calls!Open

LEMMA TurnEndedMaps ==
    ASSUME Invariant, NEW t \in Tasks, TaskStep(t) \/ PrimeEnds(t),
           RunCompletes(t) \/ RunRaises(t)
    PROVE  Calls!Complete(t) \/ Calls!Fail(t)
<1>1. /\ Inv /\ TypeOK /\ task[t].at = "turn" /\ Len(turns[t]) # 0
  BY TurnMoves DEF Invariant, Inv
<1>2. Calls!Attempting(t) /\ WayOf(t) \in {"shortcut", "plain"}
  BY <1>1, Mapped
<1>3. ASSUME NEW outcome \in {"completed", "raised"},
             EndsAs(t, outcome)
      PROVE  Calls!EndsAttempt(t, outcome)
  <2>1. AttemptsOf(t)' = [AttemptsOf(t) EXCEPT ![Len(AttemptsOf(t))].outcome = outcome]
    BY <1>1, <1>3, AttemptEnded
  <2> QED
    BY <1>2, <2>1, OthersMapped DEF Calls!EndsAttempt
<1>4. CASE RunCompletes(t)
  <2>1. Calls!EndsAttempt(t, "completed") /\ task'[t].at = "returned"
    BY <1>1, <1>3, <1>4, TurnMoves
  <2>2. WayOf(t)' = "returned"
    BY <2>1, WaysByLabel
  <2> QED
    BY <1>2, <2>1, <2>2, OthersMapped DEF Calls!Complete, Calls!Open, Calls!GoesOn
<1>5. CASE RunRaises(t)
  <2>1. /\ Calls!EndsAttempt(t, "raised")
        /\ task'[t].at = OnException(task[t].launch.session)
    BY <1>1, <1>3, <1>5, TurnMoves
  <2>2. WayOf(t)' = IF WayOf(t) = "shortcut" THEN "plain" ELSE "raised"
    <3>1. task[t].launch.session.holds \in Chunks \cup {"base", "own", "nothing"}
      BY <1>1 DEF TypeOK, LaunchTypes, Sessions, Holds
    <3>2. Chunks \cap {"base", "own", "nothing"} = {}
      BY <1>1, TaskKnown
    <3> QED
      BY <1>1, <2>1, <3>1, <3>2, WaysByLabel, SessionsHold DEF PlainSessions, Losing
  <2> QED
    BY <1>2, <2>1, <2>2, OthersMapped DEF Calls!Fail, Calls!Open, Calls!GoesOn
<1> QED
  BY <1>4, <1>5

LEMMA OtherStepMaps ==
    ASSUME Invariant, NEW t \in Tasks, TaskStep(t) \/ PrimeEnds(t),
           ~HarnessTakesTurn(t), ~RunCompletes(t), ~RunRaises(t)
    PROVE  Calls!Fail(t) \/ Calls!TurnDown(t) \/ UNCHANGED Calls!calls
<1>1. turns' = turns /\ task[t].at # "turn"
  BY TurnSteps DEF Invariant
<1>2. ~Calls!Attempting(t)
  BY <1>1, Mapped
<1>3. AttemptsOf(t)' = AttemptsOf(t)
  BY <1>1 DEF AttemptsOf
<1>4. [u \in Tasks |-> AttemptsOf(u)]' = [u \in Tasks |-> AttemptsOf(u)]
  BY <1>3, OthersMapped
<1>5. CASE WayOf(t)' = WayOf(t)
  BY <1>4, <1>5, OthersMapped
<1>6. CASE \/ WayOf(t) = "shortcut" /\ WayOf(t)' = "plain"
           \/ WayOf(t) = "plain" /\ WayOf(t)' = "raised"
  BY <1>2, <1>4, <1>6, OthersMapped DEF Calls!Fail, Calls!Open, Calls!GoesOn
<1>7. CASE /\ WayOf(t)' = "returned" /\ WayOf(t) \in {"shortcut", "plain"}
           /\ WayOf(t) = "shortcut" \/ request[t].session_id = "resumed"
  BY <1>2, <1>4, <1>7, OthersMapped DEF Calls!TurnDown, Calls!Open, Calls!GoesOn
<1> QED
  BY <1>5, <1>6, <1>7, WaySteps DEF WayMoves

\* A crash of a runner is a crash of the calls it had open.
LEMMA CrashMaps ==
    ASSUME Invariant, NEW p \in Processes, Crash(p), UNCHANGED rigidVars
    PROVE  \E hit \in SUBSET Tasks : Calls!Crash(hit)
<1> DEFINE hit == {u \in Tasks : process[u] = p /\ ~Done(u)}
<1>1. ASSUME NEW t \in Tasks
      PROVE  /\ WayOf(t)' = IF t \in hit THEN "shortcut" ELSE WayOf(t)
             /\ AttemptsOf(t)' =
                  IF t \in hit /\ Calls!Attempting(t)
                  THEN [AttemptsOf(t) EXCEPT ![Len(AttemptsOf(t))].outcome = "crashed"]
                  ELSE AttemptsOf(t)
  <2>1. Inv /\ TypeOK /\ (task[t].at = "turn" => Len(turns[t]) # 0)
    BY TurnMoves DEF Invariant, Inv
  <2>2. CASE t \notin hit
    <3>1. task'[t] = task[t] /\ turns'[t] = turns[t]
      BY <2>1, <2>2, Crashed
    <3> QED
      BY <2>2, <3>1 DEF WayOf, Done, AttemptsOf
  <2>3. CASE t \in hit
    <3>1. /\ task'[t] = NewTask
          /\ \/ /\ task[t].at = "turn"
                /\ EndsAs(t, "crashed")
             \/ task[t].at # "turn" /\ turns'[t] = turns[t]
      BY <2>1, <2>3, Crashed
    <3>2. WayOf(t)' = "shortcut"
      BY <3>1, WaysByLabel DEF NewTask, Promising
    <3>3. CASE task[t].at = "turn"
      BY <2>1, <2>3, <3>1, <3>2, <3>3, Mapped, AttemptEnded
    <3>4. CASE task[t].at # "turn"
      <4>1. AttemptsOf(t)' = AttemptsOf(t)
        BY <3>1, <3>4 DEF AttemptsOf
      <4> QED
        BY <2>3, <3>2, <3>4, <4>1, Mapped
    <3> QED
      BY <3>3, <3>4
  <2> QED
    BY <2>2, <2>3
<1>2. \A t \in hit : WayOf(t) \in {"shortcut", "plain"}
  BY Mapped
<1>3. {u \in Tasks : request[u].session_id = "resumed"}' =
        {u \in Tasks : request[u].session_id = "resumed"}
  OBVIOUS
<1>4. hit \in SUBSET Tasks
  OBVIOUS
<1> HIDE DEF hit
<1>5. [u \in Tasks |-> WayOf(u)]' =
        [u \in Tasks |-> IF u \in hit THEN "shortcut" ELSE [v \in Tasks |-> WayOf(v)][u]]
  BY <1>1
<1>6. [u \in Tasks |-> AttemptsOf(u)]' =
        [u \in Tasks |->
           IF u \in hit /\ Calls!Attempting(u)
           THEN [[v \in Tasks |-> AttemptsOf(v)][u] EXCEPT
                   ![Len([v \in Tasks |-> AttemptsOf(v)][u])].outcome = "crashed"]
           ELSE [v \in Tasks |-> AttemptsOf(v)][u]]
  BY <1>1
<1>7. Calls!Crash(hit)
  BY <1>2, <1>3, <1>4, <1>5, <1>6 DEF Calls!Crash, Calls!Open
<1> QED
  BY <1>4, <1>7

LEMMA StepMaps ==
    ASSUME Invariant, [Next]_vars
    PROVE  [Calls!Next]_(Calls!calls)
<1>1. ASSUME NEW t \in Tasks, TaskStep(t) \/ PrimeEnds(t)
      PROVE  [Calls!Next]_(Calls!calls)
  BY <1>1, TurnTakenMaps, TurnEndedMaps, OtherStepMaps DEF Calls!Next
<1>2. ASSUME NEW p \in Processes, Crash(p), UNCHANGED rigidVars
      PROVE  [Calls!Next]_(Calls!calls)
  BY <1>2, CrashMaps DEF Calls!Next
<1>3. CASE UNCHANGED <<task, turns, request>>
  BY <1>3 DEF WayOf, Done, AttemptsOf
<1> QED
  BY <1>1, <1>2, <1>3 DEF Next, Faults, TranscriptLost, BaseAges, AllDone, vars

LEMMA InitMaps == Init => Calls!Init
<1> SUFFICES ASSUME Init  PROVE Calls!Init
  OBVIOUS
<1>1. ASSUME NEW t \in Tasks
      PROVE  WayOf(t) = "shortcut" /\ AttemptsOf(t) = <<>>
  <2>1. task[t] = NewTask /\ turns[t] = <<>>
    BY DEF Init, StoreInit
  <2>2. WayOf(t) = "shortcut"
    BY <2>1, WaysByLabel DEF NewTask, Promising
  <2>3. 1 .. Len(<<>>) = {}
    OBVIOUS
  <2>4. AttemptsOf(t) = <<>>
    BY <2>1, <2>3 DEF AttemptsOf
  <2> QED
    BY <2>2, <2>4
<1> QED
  BY <1>1 DEF Calls!Init

\* A call of run_claude_code_task keeps its promise, for any number of tasks, workspaces
\* and processes: by its shortcut once at most, plainly once at most, one attempt after
\* the other, nothing after the one that completed, and its chances back only by a crash.
THEOREM RefinesCalls == Spec => ImplementsCalls
<1>1. Invariant /\ [Next]_vars => [Calls!Next]_(Calls!calls)
  BY StepMaps
<1> QED
  BY <1>1, InitMaps, InductiveInvariant, CallInvariant, PTL
    DEF Spec, ImplementsCalls, Calls!Spec, Invariant

------------------------------------------------------------------------------
(* Work that is done again.                                                  *)

\* A turn another may follow: a fork's that raised, or one cut off by a crash.
Followed(turn) ==
    \/ turn.outcome = "crashed"
    \/ turn.outcome = "raised" /\ turn.inherited \notin PlainSessions

LastOf(t) == turns[t][Len(turns[t])]

FollowedInOrder(t) ==
    \A i, j \in 1 .. Len(turns[t]) : i < j =>
        /\ Followed(turns[t][i])
        /\ crashes = 0 => turns[t][j].inherited = "nothing"

\* A task that is to take another turn has lost its shortcut, unless by a crash.
MayFollow(t) ==
    ~Done(t) /\ task[t].at # "turn" /\ Len(turns[t]) # 0 =>
        /\ Followed(LastOf(t))
        /\ crashes = 0 => WayOf(t) = "plain" /\ request[t].session_id # "resumed"

\* A turn that is being taken inherits what its way lets it.
TakesItsWay(t) ==
    task[t].at = "turn" => (LastOf(t).inherited \in PlainSessions <=> WayOf(t) = "plain")

RedoFits(t) == FollowedInOrder(t) /\ MayFollow(t) /\ TakesItsWay(t)

RedoInv == \A t \in Tasks : RedoFits(t)

LEMMA InitRedoInv == Init => RedoInv
<1> SUFFICES ASSUME Init, NEW t \in Tasks  PROVE RedoFits(t)
  BY DEF RedoInv
<1>1. task[t].at = "start" /\ turns[t] = <<>>
  BY DEF Init, StoreInit, NewTask
<1> QED
  BY <1>1 DEF RedoFits, FollowedInOrder, MayFollow, TakesItsWay

\* Taking a turn: after one that may be followed, with nothing inherited.
LEMMA RedoOfTurnTaken ==
    ASSUME Invariant, RedoInv, NEW t \in Tasks, HarnessTakesTurn(t),
           UNCHANGED <<request, crashes>>
    PROVE  RedoFits(t)'
<1> DEFINE turn == [inherited |-> Inherited(t), sent |-> task[t].launch.chunk,
                    prompt |-> task[t].launch.prompt, worked |-> FALSE,
                    outcome |-> "running"]
           n == Len(turns[t])
<1>1. Inv /\ TypeOK /\ TaskFits(t) /\ RedoFits(t) /\ turns[t] \in Seq(Turns)
  BY TaskKnown DEF Invariant, Inv, RedoInv, TypeOK
<1>2. /\ task[t].at = "launch" /\ task'[t].at = "turn"
      /\ task'[t].launch = task[t].launch /\ turns'[t] = Append(turns[t], turn)
  BY <1>1, TurnMoves
<1>3. turn.inherited = Inherited(t)
  OBVIOUS
<1> HIDE DEF turn
<1>4. /\ n \in Nat /\ Len(turns'[t]) = n + 1 /\ turns'[t][n + 1] = turn
      /\ \A i \in 1 .. n : turns'[t][i] = turns[t][i]
  BY <1>1, <1>2, AppendKnown
<1>5. ASSUME n # 0
      PROVE  /\ Followed(turns[t][n])
             /\ crashes = 0 => turn.inherited = "nothing"
  <2>1. /\ Followed(turns[t][n])
        /\ crashes = 0 => WayOf(t) = "plain" /\ request[t].session_id # "resumed"
    BY <1>1, <1>2, <1>5 DEF RedoFits, MayFollow, LastOf, Done
  <2>2. WayOf(t) = "plain" /\ request[t].session_id # "resumed" =>
          task[t].launch.session.holds = "nothing"
    <3>1. WayOf(t) = "plain" => task[t].launch.session.holds \in {"own", "nothing"}
      BY <1>2, WaysByLabel DEF PlainSessions
    <3>2. task[t].launch.session.holds = "own" => request[t].session_id = "resumed"
      <4>1. Meant(t, task[t].launch.session.holds, task[t].launch.chunk,
                  task[t].launch.prompt)
        BY <1>1, <1>2 DEF TaskFits
      <4> QED
        BY <1>1, <4>1, TaskKnown DEF Meant
    <3> QED
      BY <3>1, <3>2
  <2> QED
    BY <1>1, <1>3, <2>1, <2>2, InheritsPlainly
<1> HIDE DEF n
<1>6. FollowedInOrder(t)'
  <2> SUFFICES ASSUME NEW i \in 1 .. n + 1, NEW j \in 1 .. n + 1, i < j
               PROVE  /\ Followed(turns'[t][i])
                      /\ crashes = 0 => turns'[t][j].inherited = "nothing"
    BY <1>4 DEF FollowedInOrder, Followed
  <2>1. CASE j # n + 1
    <3>1. i \in 1 .. n /\ j \in 1 .. n
      BY <1>4, <2>1
    <3> QED
      BY <1>1, <1>4, <3>1 DEF RedoFits, FollowedInOrder, n
  <2>2. CASE j = n + 1
    <3>1. n # 0 /\ i \in 1 .. n /\ n \in 1 .. n
      BY <1>4, <2>2
    <3>2. Followed(turns[t][i])
      <4>1. i # n => i < n
        BY <1>4, <3>1
      <4> QED
        BY <1>1, <1>5, <3>1, <4>1 DEF RedoFits, FollowedInOrder, n
    <3> QED
      BY <1>4, <1>5, <2>2, <3>1, <3>2
  <2> QED
    BY <2>1, <2>2
<1>7. TakesItsWay(t)'
  <2>1. LastOf(t)' = turn
    BY <1>4 DEF LastOf
  <2>2. turn.inherited \in PlainSessions <=> WayOf(t)' = "plain"
    BY <1>1, <1>2, <1>3, InheritsPlainly, WaysByLabel
  <2> QED
    BY <2>1, <2>2 DEF TakesItsWay
<1> QED
  BY <1>2, <1>6, <1>7 DEF RedoFits, MayFollow

\* Ending a turn: the call is over, or a fork raised.
LEMMA RedoOfTurnEnded ==
    ASSUME Invariant, RedoInv, NEW t \in Tasks, RunCompletes(t) \/ RunRaises(t),
           UNCHANGED <<request, crashes>>
    PROVE  RedoFits(t)'
<1> DEFINE n == Len(turns[t])
<1>1. Inv /\ TypeOK /\ TaskFits(t) /\ RedoFits(t) /\ task[t].at = "turn" /\ n # 0
  BY TaskKnown, TurnMoves DEF Invariant, Inv, RedoInv
<1>2. PICK outcome \in {"completed", "raised"} :
        /\ EndsAs(t, outcome)
        /\ outcome = "completed" => task'[t].at = "returned"
        /\ outcome = "raised" => task'[t].at = OnException(task[t].launch.session)
  BY <1>1, TurnMoves
<1>3. /\ n \in Nat /\ Len(turns'[t]) = n
      /\ \A i \in 1 .. n :
           /\ turns'[t][i].inherited = turns[t][i].inherited
           /\ turns'[t][i].outcome = IF i = n THEN outcome ELSE turns[t][i].outcome
  BY <1>1, <1>2, EndsTurnKnown, AttemptsKnown DEF EndsAs
<1>4. FollowedInOrder(t)'
  <2> HIDE DEF n
  <2> SUFFICES ASSUME NEW i \in 1 .. n, NEW j \in 1 .. n, i < j
               PROVE  /\ Followed(turns'[t][i])
                      /\ crashes = 0 => turns'[t][j].inherited = "nothing"
    BY <1>3 DEF FollowedInOrder, Followed
  <2>1. /\ Followed(turns[t][i])
        /\ crashes = 0 => turns[t][j].inherited = "nothing"
    BY <1>1 DEF RedoFits, FollowedInOrder, n
  <2>2. i # n
    BY <1>3
  <2> QED
    BY <1>3, <2>1, <2>2 DEF Followed
<1>5. task'[t].at \in {"returned", "raised", "forget", "base_forget"}
  BY <1>2 DEF OnException
<1>6. MayFollow(t)'
  <2>1. SUFFICES ASSUME task'[t].at \in {"forget", "base_forget"}
                 PROVE  /\ Followed(LastOf(t))'
                        /\ WayOf(t)' = "plain" /\ request[t].session_id # "resumed"
    BY <1>5 DEF MayFollow, Done
  <2>2. outcome = "raised"
    BY <1>2, <2>1
  <2>3. task[t].launch.session.holds \notin PlainSessions
    <3>1. Chunks \cap {"own", "nothing"} = {}
      BY <1>1, TaskKnown
    <3> QED
      BY <1>2, <2>1, <2>2, <3>1 DEF OnException, PlainSessions
  <2>4. request[t].session_id # "resumed"
    <3>1. Meant(t, task[t].launch.session.holds, task[t].launch.chunk,
                task[t].launch.prompt)
      BY <1>1 DEF TaskFits
    <3> QED
      BY <2>3, <3>1 DEF Meant, PlainSessions, ReusesSession, ForksBase
  <2>5. LastOf(t).inherited \notin PlainSessions
    BY <1>1, <2>3, WaysByLabel DEF RedoFits, TakesItsWay
  <2>6. Followed(LastOf(t))'
    <3>1. /\ turns'[t][n].inherited = turns[t][n].inherited
          /\ turns'[t][n].outcome = "raised"
      BY <1>1, <1>3, <2>2
    <3> QED
      BY <1>3, <2>5, <3>1 DEF Followed, LastOf
  <2> QED
    BY <2>1, <2>4, <2>6, WaysByLabel DEF Losing
<1> QED
  BY <1>4, <1>5, <1>6 DEF RedoFits, TakesItsWay

LEMMA RedoOfStep ==
    ASSUME Invariant, RedoInv, NEW t \in Tasks, TaskStep(t) \/ PrimeEnds(t)
    PROVE  RedoInv'
<1>1. /\ UNCHANGED <<request, crashes>> /\ OthersKept(t)
      /\ \A u \in Tasks : RedoFits(u)
  BY StepFrame DEF Invariant, RedoInv
<1>2. \A u \in Tasks : u # t => RedoFits(u)'
  BY <1>1 DEF OthersKept, RedoFits, FollowedInOrder, MayFollow, TakesItsWay, LastOf,
              Followed, WayOf, Done
<1>3. SUFFICES RedoFits(t)'
  BY <1>2 DEF RedoInv
<1>4. CASE ~HarnessTakesTurn(t) /\ ~RunCompletes(t) /\ ~RunRaises(t)
  <2>1. /\ turns' = turns /\ task[t].at \notin {"turn", "returned"}
        /\ task'[t].at # "turn" /\ WayMoves(t) /\ RedoFits(t)
    BY <1>1, <1>4, TurnSteps, WaySteps DEF Invariant
  <2>2. ~Done(t)' => /\ ~Done(t)
                     /\ WayOf(t) = "plain" => WayOf(t)' = "plain"
    <3>1. WayOf(t)' \in {"returned", "raised"} <=> Done(t)'
      BY DEF WayOf, Done
    <3>2. WayOf(t) \in {"returned", "raised"} <=> Done(t)
      BY DEF WayOf, Done
    <3> QED
      BY <2>1, <3>1, <3>2 DEF WayMoves
  <2>3. FollowedInOrder(t)'
    BY <1>1, <2>1 DEF RedoFits, FollowedInOrder, Followed
  <2>4. MayFollow(t)'
    BY <1>1, <2>1, <2>2 DEF RedoFits, MayFollow, Followed, LastOf
  <2> QED
    BY <2>1, <2>3, <2>4 DEF RedoFits, TakesItsWay
<1> QED
  BY <1>1, <1>4, RedoOfTurnTaken, RedoOfTurnEnded

LEMMA RedoOfCrash ==
    ASSUME Invariant, RedoInv, NEW p \in Processes, Crash(p)
    PROVE  RedoInv'
<1> SUFFICES ASSUME NEW t \in Tasks  PROVE RedoFits(t)'
  BY DEF RedoInv
<1> DEFINE n == Len(turns[t])
<1>1. Inv /\ TypeOK /\ RedoFits(t) /\ crashes' # 0 /\ n \in Nat
  BY AttemptsKnown DEF Invariant, Inv, RedoInv, Crash, TypeOK
<1>2. CASE task'[t] = task[t] /\ turns'[t] = turns[t]
  BY <1>1, <1>2 DEF RedoFits, FollowedInOrder, MayFollow, TakesItsWay, LastOf, Followed,
                    WayOf, Done
<1>3. CASE /\ task'[t] = NewTask /\ ~Done(t) /\ task[t].at # "turn"
           /\ turns'[t] = turns[t]
  BY <1>1, <1>3 DEF RedoFits, FollowedInOrder, MayFollow, TakesItsWay, LastOf, Followed,
                    NewTask
<1>4. CASE task'[t] = NewTask /\ EndsAs(t, "crashed") /\ task[t].at = "turn"
  <2>1. /\ Len(turns'[t]) = n
        /\ \A i \in 1 .. n :
             /\ turns'[t][i].inherited = turns[t][i].inherited
             /\ turns'[t][i].outcome = IF i = n THEN "crashed" ELSE turns[t][i].outcome
    BY <1>1, <1>4, EndsTurnKnown DEF EndsAs
  <2> HIDE DEF n
  <2>2. FollowedInOrder(t)'
    <3> SUFFICES ASSUME NEW i \in 1 .. n, NEW j \in 1 .. n, i < j
                 PROVE  Followed(turns'[t][i])
      BY <1>1, <2>1 DEF FollowedInOrder, Followed
    <3>1. Followed(turns[t][i]) /\ i # n
      BY <1>1 DEF RedoFits, FollowedInOrder, n
    <3> QED
      BY <2>1, <3>1 DEF Followed
  <2>3. MayFollow(t)'
    <3>1. n # 0 => turns'[t][n].outcome = "crashed"
      BY <1>1, <2>1
    <3> QED
      BY <1>1, <2>1, <3>1 DEF MayFollow, LastOf, Followed
  <2> QED
    BY <1>4, <2>2, <2>3 DEF RedoFits, TakesItsWay, NewTask
<1> QED
  BY <1>1, <1>2, <1>3, <1>4, Crashed

LEMMA RedoInvPreserved == Invariant /\ RedoInv /\ [Next]_vars => RedoInv'
<1> SUFFICES ASSUME Invariant, RedoInv, [Next]_vars  PROVE RedoInv'
  OBVIOUS
<1>1. CASE \E t \in Tasks : TaskStep(t) \/ PrimeEnds(t)
  BY <1>1, RedoOfStep
<1>2. CASE \E p \in Processes : Crash(p)
  BY <1>2, RedoOfCrash
<1>3. CASE UNCHANGED <<task, turns, request, crashes>>
  BY <1>3 DEF RedoInv, RedoFits, FollowedInOrder, MayFollow, TakesItsWay, LastOf,
              Followed, WayOf, Done
<1> QED
  BY <1>1, <1>2, <1>3 DEF Next, Faults, TranscriptLost, BaseAges, AllDone, vars

\* For any number of tasks, workspaces and processes: work that was done is done again
\* only after a crash, or after the run of a fork that raised once its harness had done
\* it, and then in a session that starts from nothing -- run_claude_code_task never
\* repeats a run that returned, nor one that raised without a fork.
THEOREM WorkRedone == Spec => []WorkRedoneOnlyAfterFork
<1>1. RedoInv => WorkRedoneOnlyAfterFork
  BY DEF RedoInv, RedoFits, FollowedInOrder, Followed, WorkRedoneOnlyAfterFork
<1>2. Invariant /\ RedoInv /\ [Next]_vars => RedoInv'
  BY RedoInvPreserved
<1> QED
  BY <1>1, <1>2, InitRedoInv, InductiveInvariant, CallInvariant, PTL DEF Spec, Invariant

=============================================================================
