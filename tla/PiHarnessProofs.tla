---------------------------- MODULE PiHarnessProofs ----------------------------
(***************************************************************************)
(* What is proved of a run on pi, for any usages, any threshold and any    *)
(* number of turns, prompts and tool calls: no token is counted twice, an  *)
(* aborted run is counted in full, and correctives are steered on time.    *)
(*                                                                         *)
(* The token count is judged by what pi has spent, and between the two are *)
(* the turn ends still in the pipe. Their sum is never computed: a running *)
(* total along the pipe is shown to exist (Totals), which each event       *)
(* written extends and each event read cuts.                               *)
(***************************************************************************)
EXTENDS PiHarness, FiniteSetTheorems, TLAPS

------------------------------------------------------------------------------
(* Pipes.                                                                    *)

LEMMA Written ==
    ASSUME NEW S, NEW pipe \in Seq(S), NEW e \in S
    PROVE  /\ Append(pipe, e) \in Seq(S)
           /\ Len(Append(pipe, e)) = Len(pipe) + 1
           /\ \A i \in 1 .. Len(pipe) : Append(pipe, e)[i] = pipe[i]
           /\ Append(pipe, e)[Len(pipe) + 1] = e
  OBVIOUS

LEMMA Read ==
    ASSUME NEW S, NEW pipe \in Seq(S), pipe # <<>>
    PROVE  /\ Len(pipe) \in Nat /\ Len(pipe) > 0
           /\ Head(pipe) = pipe[1] /\ Head(pipe) \in S
           /\ Tail(pipe) \in Seq(S) /\ Len(Tail(pipe)) = Len(pipe) - 1
           /\ \A i \in 1 .. Len(Tail(pipe)) : Tail(pipe)[i] = pipe[i + 1]
  OBVIOUS

\* An abort is written together with the request for the final stats.
LEMMA WrittenWithStats ==
    ASSUME stdin \in Seq(Commands)
    PROVE  LET s == stdin \o <<"abort", "get_session_stats">>
           IN  /\ s \in Seq(Commands)
               /\ Len(s) = Len(stdin) + 2
               /\ \A i \in 1 .. Len(stdin) : s[i] = stdin[i]
               /\ s[Len(stdin) + 1] = "abort"
               /\ s[Len(stdin) + 2] = "get_session_stats"
<1>1. <<"abort", "get_session_stats">> \in Seq(Commands)
  BY DEF Commands
<1> QED
  BY <1>1

------------------------------------------------------------------------------
(* Types.                                                                    *)

\* What an event carries is what its type says.
Sound(event) ==
    /\ event \in Events
    /\ event.type # "stats" => event.tokens \in Nat
    /\ event.type = "tool" => event.signature \in Signatures

EventsSound ==
    /\ \A i \in 1 .. Len(stdout) : Sound(stdout[i])
    /\ Sound(line_in_hand)
    /\ runner # "in_hand" => line_in_hand = NoEvent

Typed == TypeOK /\ EventsSound

LEMMA NoEventSound == Sound(NoEvent) /\ NoEvent.type = "none" /\ NoEvent.tokens = 0
  BY DEF Sound, NoEvent, Event, Events, EventTypes

LEMMA EventIs ==
    ASSUME NEW type \in EventTypes, NEW tokens \in Nat \cup {NoTokens},
           NEW signature \in Signatures \cup {NoSignature}
    PROVE  /\ Event(type, tokens, signature) \in Events
           /\ Event(type, tokens, signature).type = type
           /\ Event(type, tokens, signature).tokens = tokens
           /\ Event(type, tokens, signature).signature = signature
  BY DEF Event, Events

\* What pi writes while it works: its stats are its session's total or carry none.
PiWrites(event) ==
    /\ stdout' = Append(stdout, event)
    /\ Sound(event)
    /\ event.type \in {"state", "stats", "abort", "tool", "turn_end", "agent_end"}

LEMMA WritesSound ==
    ASSUME Typed, NEW event, PiWrites(event),
           UNCHANGED <<normalizerVars, countVars, breakerVars, runnerVars>>
    PROVE  stdout' \in Seq(Events) /\ EventsSound'
<1>1. stdout \in Seq(Events) /\ event \in Events
  BY DEF Typed, TypeOK, PiWrites, Sound
<1>2. /\ stdout' \in Seq(Events) /\ Len(stdout') = Len(stdout) + 1
      /\ \A i \in 1 .. Len(stdout) : stdout'[i] = stdout[i]
      /\ stdout'[Len(stdout) + 1] = event
  BY <1>1, Written DEF PiWrites
<1>3. \A i \in 1 .. Len(stdout') : Sound(stdout'[i])
  BY <1>1, <1>2 DEF Typed, EventsSound, PiWrites
<1> QED
  BY <1>2, <1>3 DEF Typed, EventsSound, runnerVars, Sound

\* pi handles the commands in the order written.
LEMMA HandledInOrder ==
    ASSUME Typed, NEW command, Handles(command)
    PROVE  /\ stdin # <<>> /\ stdin[1] = command
           /\ stdin' \in Seq(Commands) /\ Len(stdin) \in Nat /\ Len(stdin) > 0
           /\ Len(stdin') = Len(stdin) - 1
           /\ \A k \in 1 .. Len(stdin') : stdin'[k] = stdin[k + 1]
           /\ UNCHANGED <<normalizerVars, countVars, breakerVars, runnerVars>>
<1>1. stdin \in Seq(Commands) /\ stdin # <<>>
  BY DEF Typed, TypeOK, Handles
<1> QED
  BY <1>1, Read DEF Handles

LEMMA PiWorks ==
    ASSUME Typed, PiSteps
    PROVE  /\ UNCHANGED <<normalizerVars, countVars, breakerVars, runnerVars>>
           /\ stdin' \in Seq(Commands)
           /\ agent' \in {"idle", "turn", "message", "aborted"}
           /\ turn_usage' \in Nat /\ session_tokens' \in Nat
           /\ turns' \in Nat /\ prompts' \in Nat /\ tool_calls' \in Nat
           /\ stdout' = stdout \/ \E event : PiWrites(event)
<1> USE PiAssumption
<1>1. ASSUME NEW type \in {"state", "stats"}, NEW tokens \in Nat \cup {NoTokens},
             type = "state" => tokens = 0, Emits(Event(type, tokens, NoSignature))
      PROVE  PiWrites(Event(type, tokens, NoSignature))
  <2>1. PICK event : event = Event(type, tokens, NoSignature)
    OBVIOUS
  <2>2. event \in Events /\ event.type = type /\ event.tokens = tokens
    BY <2>1, EventIs DEF EventTypes
  <2>3. Sound(event)
    BY <1>1, <2>2 DEF Sound
  <2> QED
    BY <1>1, <2>1, <2>2, <2>3 DEF PiWrites, Emits
<1>2. CASE PiTakesPrompt
  BY <1>2, HandledInOrder DEF PiTakesPrompt, Typed, TypeOK
<1>3. CASE PiReportsState
  BY <1>1, <1>3, HandledInOrder DEF PiReportsState, Typed, TypeOK, piVars
<1>4. CASE PiReportsStats
  <2>1. PICK tokens \in {session_tokens, NoTokens} :
          Emits(Event("stats", tokens, NoSignature))
    BY <1>4 DEF PiReportsStats
  <2>2. PiWrites(Event("stats", tokens, NoSignature))
    BY <1>1, <2>1 DEF Typed, TypeOK
  <2> QED
    BY <1>4, <2>2, HandledInOrder DEF PiReportsStats, Typed, TypeOK, piVars
<1>5. CASE PiAborts
  <2>1. PiWrites(Event("abort", 0, NoSignature))
    <3>1. Emits(Event("abort", 0, NoSignature))
      BY <1>5 DEF PiAborts
    <3> QED
      BY <3>1, EventIs DEF Emits, PiWrites, Sound, EventTypes
  <2>2. session_tokens' \in Nat
    BY <1>5 DEF PiAborts, Typed, TypeOK
  <2>3. /\ stdin' \in Seq(Commands)
        /\ UNCHANGED <<normalizerVars, countVars, breakerVars, runnerVars>>
    BY <1>5, HandledInOrder DEF PiAborts
  <2>4. /\ agent' \in {"idle", "turn", "message", "aborted"} /\ turn_usage' \in Nat
        /\ turns' \in Nat /\ prompts' \in Nat /\ tool_calls' \in Nat
    BY <1>5 DEF PiAborts, Typed, TypeOK
  <2> QED
    BY <2>1, <2>2, <2>3, <2>4
<1>6. CASE PiCompletesMessage
  <2>1. PICK usage \in Usages :
          turn_usage' = usage /\ session_tokens' = session_tokens + usage
    BY <1>6 DEF PiCompletesMessage
  <2>2. turn_usage' \in Nat /\ session_tokens' \in Nat
    BY <2>1 DEF Typed, TypeOK
  <2>3. /\ UNCHANGED <<normalizerVars, countVars, breakerVars, runnerVars>>
        /\ UNCHANGED <<stdin, prompts, stdout, tool_calls>>
        /\ agent' = "message" /\ turns' = turns + 1
    BY <1>6 DEF PiCompletesMessage, PiStep
  <2> QED
    BY <2>2, <2>3 DEF Typed, TypeOK
<1>7. CASE PiCallsTool
  <2>1. PICK signature \in Signatures : Emits(Event("tool", 0, signature))
    BY <1>7 DEF PiCallsTool
  <2>2. PiWrites(Event("tool", 0, signature))
    BY <2>1, EventIs DEF Emits, PiWrites, Sound, EventTypes
  <2> QED
    BY <1>7, <2>2 DEF PiCallsTool, PiStep, Typed, TypeOK
<1>8. CASE PiEndsTurn
  <2>1. turn_usage \in Nat
    BY DEF Typed, TypeOK
  <2>2. PiWrites(Event("turn_end", turn_usage, NoSignature))
    BY <1>8, <2>1, EventIs DEF PiEndsTurn, Emits, PiWrites, Sound, EventTypes
  <2> QED
    BY <1>8, <2>2 DEF PiEndsTurn, PiStep, Typed, TypeOK
<1>9. CASE PiEndsAgent
  <2>1. PiWrites(Event("agent_end", 0, NoSignature))
    BY <1>9, EventIs DEF PiEndsAgent, Emits, PiWrites, Sound, EventTypes
  <2> QED
    BY <1>9, <2>1 DEF PiEndsAgent, PiStep, Typed, TypeOK
<1> QED
  BY <1>2, <1>3, <1>4, <1>5, <1>6, <1>7, <1>8, <1>9 DEF PiSteps

LEMMA PiTyped ==
    ASSUME Typed, PiSteps
    PROVE  Typed'
<1>1. stdout' \in Seq(Events) /\ EventsSound'
  BY PiWorks, WritesSound
     DEF Typed, TypeOK, EventsSound, runnerVars, Sound
<1> QED
  BY <1>1, PiWorks
     DEF Typed, TypeOK, normalizerVars, countVars, breakerVars, runnerVars

\* normalize leaves what it keeps well typed, and touches nothing else.
LEMMA NormalizeTyped ==
    ASSUME Typed, NEW event, Sound(event), Normalize(event)
    PROVE  /\ session_cumulative_token_baseline' \in Nat \cup {NoTokens}
           /\ abort_response_seen' \in BOOLEAN
           /\ final_usage_after_abort_reported' \in BOOLEAN
           /\ latest_usage' \in Nat /\ counted_tokens' \in Nat
           /\ usage_bearing_deltas_seen' \in BOOLEAN
           /\ last_signature' \in Signatures \cup {NoSignature}
           /\ consecutive_count' \in Nat /\ steers' \in Nat
           /\ observed' \in Seq(Signatures) /\ stats_read' \in Seq(Nat \cup {NoTokens})
<1> USE DEF Typed, TypeOK, normalizerVars, countVars, breakerVars, CountsDelta
<1>1. event \in Events /\ (event.type # "stats" => event.tokens \in Nat)
      /\ (event.type = "tool" => event.signature \in Signatures)
      /\ event.tokens \in Nat \cup {NoTokens}
  BY DEF Sound, Events
<1>2. CASE NormalizeStateResponse(event)
  BY <1>2 DEF NormalizeStateResponse
<1>10. CASE NormalizeAbortResponse(event)
  <2>1. UNCHANGED breakerVars
    BY <1>10 DEF NormalizeAbortResponse
  <2> QED
    BY <1>10, <2>1 DEF NormalizeAbortResponse
<1>3. ASSUME ReadsStats(event)
      PROVE  /\ UNCHANGED <<latest_usage, abort_response_seen, breakerVars>>
             /\ final_usage_after_abort_reported' \in BOOLEAN
             /\ stats_read' \in Seq(Nat \cup {NoTokens})
  <2>1. UNCHANGED <<latest_usage, abort_response_seen, breakerVars>>
    BY <1>3 DEF ReadsStats
  <2>2. final_usage_after_abort_reported' \in BOOLEAN
    BY <1>3 DEF ReadsStats
  <2>3. stats_read' \in Seq(Nat \cup {NoTokens})
    BY <1>1, <1>3, Written DEF ReadsStats
  <2> QED
    BY <2>1, <2>2, <2>3
<1>4. CASE NormalizeEmptyStats(event)
  BY <1>3, <1>4 DEF NormalizeEmptyStats
<1>5. CASE NormalizeFirstStats(event)
  BY <1>1, <1>3, <1>5 DEF NormalizeFirstStats
<1>6. CASE NormalizeStats(event)
  <2>1. /\ session_cumulative_token_baseline \in Nat /\ event.tokens \in Nat
        /\ session_cumulative_token_baseline' = event.tokens
    BY <1>1, <1>6 DEF NormalizeStats
  <2>2. Unreported(event.tokens) \in Nat
    BY <2>1 DEF Unreported
  <2>3. counted_tokens' \in Nat /\ usage_bearing_deltas_seen' \in BOOLEAN
    <3>1. CASE Unreported(event.tokens) > 0
      BY <1>6, <2>2, <3>1 DEF NormalizeStats
    <3>2. CASE ~(Unreported(event.tokens) > 0)
      BY <1>6, <3>2 DEF NormalizeStats
    <3> QED
      BY <3>1, <3>2
  <2> QED
    BY <1>3, <1>6, <2>1, <2>3 DEF NormalizeStats
<1>7. CASE NormalizeTurnEnd(event)
  BY <1>1, <1>7 DEF NormalizeTurnEnd, NoTokens
<1>8. CASE NormalizeAgentEnd(event)
  <2>1. UNCHANGED <<normalizerVars, breakerVars>>
    BY <1>8 DEF NormalizeAgentEnd
  <2>2. counted_tokens' \in Nat /\ usage_bearing_deltas_seen' \in BOOLEAN
    <3>1. CASE usage_bearing_deltas_seen
      BY <1>8, <3>1 DEF NormalizeAgentEnd
    <3>2. CASE ~usage_bearing_deltas_seen
      BY <1>8, <3>2 DEF NormalizeAgentEnd
    <3> QED
      BY <3>1, <3>2
  <2> QED
    BY <2>1, <2>2
<1>9. CASE NormalizeToolCall(event)
  <2>1. consecutive_count' \in Nat /\ steers' \in Nat
    BY <1>9 DEF NormalizeToolCall, CountOf
  <2>2. observed' \in Seq(Signatures)
    BY <1>1, <1>9 DEF NormalizeToolCall
  <2> QED
    BY <1>1, <1>9, <2>1, <2>2 DEF NormalizeToolCall
<1> QED
  BY <1>2, <1>10, <1>4, <1>5, <1>6, <1>7, <1>8, <1>9 DEF Normalize

\* What the runner does with the pipe: it takes the first event, or none.
Takes ==
    /\ stdout # <<>> /\ stdout' = Tail(stdout)

LEMMA TakesSound ==
    ASSUME Typed, Takes
    PROVE  /\ stdout' \in Seq(Events) /\ Len(stdout') = Len(stdout) - 1
           /\ Len(stdout) \in Nat /\ Len(stdout) > 0
           /\ Head(stdout) = stdout[1] /\ Sound(stdout[1])
           /\ \A i \in 1 .. Len(stdout') : stdout'[i] = stdout[i + 1]
           /\ \A i \in 1 .. Len(stdout') : Sound(stdout'[i])
<1>1. stdout \in Seq(Events) /\ stdout # <<>>
  BY DEF Typed, TypeOK, Takes
<1>2. /\ stdout' \in Seq(Events) /\ Len(stdout') = Len(stdout) - 1
      /\ Len(stdout) \in Nat /\ Len(stdout) > 0 /\ Head(stdout) = stdout[1]
      /\ \A i \in 1 .. Len(stdout') : stdout'[i] = stdout[i + 1]
  BY <1>1, Read DEF Takes
<1>3. \A i \in 1 .. Len(stdout) : Sound(stdout[i])
  BY DEF Typed, EventsSound
<1>4. Sound(stdout[1])
  BY <1>2, <1>3
<1>5. ASSUME NEW i \in 1 .. Len(stdout')  PROVE Sound(stdout'[i])
  <2>1. stdout'[i] = stdout[i + 1] /\ i + 1 \in 1 .. Len(stdout)
    BY <1>2
  <2> QED
    BY <1>3, <2>1
<1> QED
  BY <1>2, <1>4, <1>5

LEMMA RunnerTyped ==
    ASSUME Typed, RunnerSteps
    PROVE  Typed'
<1>1. CASE RunnerReads
  <2>1. Takes
    BY <1>1 DEF RunnerReads, Takes
  <2>2. line_in_hand' = stdout[1] /\ Sound(stdout[1]) /\ runner' = "in_hand"
    BY <1>1, <2>1, TakesSound DEF RunnerReads
  <2> QED
    BY <1>1, <2>1, <2>2, TakesSound
       DEF RunnerReads, Typed, TypeOK, EventsSound, Sound, piVars, normalizerVars,
           countVars, breakerVars
<1>2. CASE RunnerHandlesLine
  <2>1. Sound(line_in_hand) /\ Normalize(line_in_hand)
    BY <1>2 DEF RunnerHandlesLine, Typed, EventsSound
  <2>2. stdin' \in Seq(Commands) /\ prompts' \in Nat /\ runner' \in {"reading", "over"}
    <3>1. /\ \/ stdin' = stdin /\ prompts' = prompts
             \/ stdin' = Append(stdin, "prompt") /\ prompts' = prompts + 1
          /\ runner' \in {"reading", "over"}
      BY <1>2 DEF RunnerHandlesLine
    <3>2. "prompt" \in Commands /\ stdin \in Seq(Commands) /\ prompts \in Nat
      BY DEF Commands, Typed, TypeOK
    <3> QED
      BY <3>1, <3>2, Written
  <2>3. /\ line_in_hand' = NoEvent
        /\ UNCHANGED <<stdout, agent, turn_usage, session_tokens, turns, tool_calls>>
    BY <1>2 DEF RunnerHandlesLine
  <2>4. TypeOK'
    BY <2>1, <2>2, <2>3, NormalizeTyped, NoEventSound DEF Typed, TypeOK, Sound
  <2> QED
    BY <2>2, <2>3, <2>4, NoEventSound DEF Typed, EventsSound, Sound
<1>3. CASE RunnerAborts
  BY <1>3, WrittenWithStats, NoEventSound
     DEF RunnerAborts, Typed, TypeOK, EventsSound, Sound, piVars, normalizerVars,
         countVars, breakerVars
<1>4. CASE RunnerReadsAfterAbort
  <2>1. Takes
    BY <1>4 DEF RunnerReadsAfterAbort, Takes
  <2>2. Sound(stdout[1]) /\ Normalize(stdout[1])
    BY <1>4, <2>1, TakesSound DEF RunnerReadsAfterAbort
  <2>3. TypeOK'
    BY <1>4, <2>1, <2>2, NormalizeTyped, TakesSound
       DEF RunnerReadsAfterAbort, Typed, TypeOK, piVars, runnerVars
  <2> QED
    BY <1>4, <2>1, <2>3, TakesSound
       DEF RunnerReadsAfterAbort, Typed, EventsSound, runnerVars, Sound
<1>5. CASE RunnerEndsAfterAbort
  BY <1>5
     DEF RunnerEndsAfterAbort, Typed, TypeOK, EventsSound, Sound, piVars,
         normalizerVars, countVars, breakerVars
<1> QED
  BY <1>1, <1>2, <1>3, <1>4, <1>5 DEF RunnerSteps

LEMMA InitTyped == Init => Typed
<1> USE PiAssumption
<1>1. ASSUME Init  PROVE Typed
  <2>1. <<"prompt", "get_state", "get_session_stats">> \in Seq(Commands)
    BY DEF Commands
  <2>2. /\ stdin \in Seq(Commands) /\ stdout = <<>> /\ line_in_hand = NoEvent
        /\ agent = "idle" /\ runner = "reading" /\ session_tokens \in Nat
        /\ turn_usage = 0 /\ turns = 0 /\ prompts = 1 /\ tool_calls = 0
        /\ latest_usage = 0 /\ counted_tokens = 0 /\ consecutive_count = 0 /\ steers = 0
        /\ session_cumulative_token_baseline = NoTokens /\ last_signature = NoSignature
        /\ abort_response_seen = FALSE /\ final_usage_after_abort_reported = FALSE
        /\ usage_bearing_deltas_seen = FALSE
        /\ observed = <<>> /\ stats_read = <<>>
    BY <1>1, <2>1 DEF Init
  <2>4. TypeOK
    <3>1. /\ stdout \in Seq(Events) /\ observed \in Seq(Signatures)
          /\ stats_read \in Seq(Nat \cup {NoTokens})
      BY <2>2
    <3>2. line_in_hand \in Events
      BY <2>2, NoEventSound DEF Sound
    <3> QED
      BY <2>2, <3>1, <3>2 DEF TypeOK
  <2>3. EventsSound
    BY <1>1, NoEventSound DEF Init, EventsSound
  <2> QED
    BY <2>3, <2>4 DEF Typed
<1> QED
  BY <1>1

------------------------------------------------------------------------------
(* The order of commands and events.                                         *)

Quiet == agent \in {"idle", "aborted"} /\ turn_usage = 0

\* pi has nothing left to handle and will spend nothing more.
Settled == stdin = <<>> /\ Quiet

AbortAnswered ==
    \/ abort_response_seen
    \/ \E i \in 1 .. Len(stdout) : stdout[i].type = "abort"

\* The answer to the abort comes, or came, before the i-th event of the pipe.
Answered(i) ==
    \/ abort_response_seen
    \/ \E j \in 1 .. i - 1 : stdout[j].type = "abort"

StatsUnread == stats_read = <<>> /\ line_in_hand.type # "stats"

\* The request that is written with the abort, behind it.
FinalRequest(k) == runner = "post_abort" /\ k = Len(stdin)

\* At the end of an aborted run's commands stands the abort with its request, then the
\* request, then nothing. Any other request for stats is the only one of its run so far.
AbortInOrder ==
    /\ runner = "post_abort" =>
         IF AbortAnswered THEN Quiet /\ stdin \in {<<>>, <<"get_session_stats">>}
         ELSE /\ Len(stdin) >= 2
              /\ stdin[Len(stdin) - 1] = "abort"
              /\ stdin[Len(stdin)] = "get_session_stats"
              /\ \A k \in 1 .. Len(stdin) - 2 : stdin[k] # "abort"
    /\ runner # "post_abort" =>
         ~AbortAnswered /\ \A k \in 1 .. Len(stdin) : stdin[k] # "abort"

RequestsInOrder ==
    \A k \in 1 .. Len(stdin) :
        stdin[k] = "get_session_stats" /\ ~FinalRequest(k) =>
            /\ StatsUnread
            /\ \A i \in 1 .. Len(stdout) : stdout[i].type # "stats"
            /\ \A j \in 1 .. Len(stdin) :
                 stdin[j] = "get_session_stats" => j = k \/ FinalRequest(j)

\* Behind the answer to the abort there is no turn's end, and stats are final: nothing
\* is spent, asked or answered after them.
EventInOrder(i) ==
    /\ Answered(i) => stdout[i].type \notin {"turn_end", "abort"}
    /\ stdout[i].type = "stats" /\ ~Answered(i) => StatsUnread
    /\ \A j \in 1 .. Len(stdout) :
         stdout[i].type = "stats" /\ stdout[j].type = "stats" =>
            i = j \/ Answered(i) \/ Answered(j)
    /\ stdout[i].type = "stats" /\ Answered(i) =>
         /\ Settled /\ stdout[i].tokens \in {session_tokens, NoTokens}
         /\ \A j \in 1 .. Len(stdout) : stdout[j].type = "stats" => j <= i

EventsInOrder ==
    /\ line_in_hand.type = "stats" => stats_read = <<>>
    /\ line_in_hand.type # "abort"
    /\ \A i \in 1 .. Len(stdout) : EventInOrder(i)
    /\ final_usage_after_abort_reported => abort_response_seen /\ Settled

InOrder ==
    runner # "over" => AbortInOrder /\ RequestsInOrder /\ EventsInOrder

LEMMA AnsweredWhere ==
    ASSUME Typed
    PROVE  /\ \A i \in 1 .. Len(stdout) + 1 : Answered(i) => AbortAnswered
           /\ Answered(Len(stdout) + 1) <=> AbortAnswered
<1>1. Len(stdout) \in Nat
  BY DEF Typed, TypeOK
<1> QED
  BY <1>1 DEF Answered, AbortAnswered

\* pi's steps, as the pipe and the order of things see them. What pi handles is the
\* first command; only an abort is answered by one, and only a request by stats.
LEMMA PiMoves ==
    ASSUME Typed, PiSteps
    PROVE  \/ UNCHANGED stdin /\ UNCHANGED stdout /\ ~Quiet
           \/ /\ UNCHANGED <<stdin, session_tokens>> /\ (Quiet => Quiet')
              /\ \E event : /\ PiWrites(event)
                            /\ event.type \in {"tool", "turn_end", "agent_end"}
                            /\ event.type = "turn_end" => ~Quiet
           \/ Handles("prompt") /\ UNCHANGED stdout
           \/ /\ Handles("get_state") /\ UNCHANGED piVars
              /\ \E event : PiWrites(event) /\ event.type = "state"
           \/ /\ Handles("get_session_stats") /\ UNCHANGED piVars
              /\ \E event : /\ PiWrites(event) /\ event.type = "stats"
                            /\ event.tokens \in {session_tokens, NoTokens}
           \/ /\ Handles("abort") /\ Quiet'
              /\ \E event : PiWrites(event) /\ event.type = "abort"
<1>1. ASSUME NEW type \in {"state", "stats", "abort", "agent_end"},
             NEW tokens \in Nat \cup {NoTokens},
             type # "stats" => tokens = 0, Emits(Event(type, tokens, NoSignature))
      PROVE  \E event : /\ PiWrites(event) /\ event.type = type
                        /\ event.tokens = tokens
  <2>1. LET event == Event(type, tokens, NoSignature)
        IN  PiWrites(event) /\ event.type = type /\ event.tokens = tokens
    BY <1>1, EventIs DEF PiWrites, Emits, Sound, EventTypes
  <2> QED
    BY <2>1
<1>2. CASE PiTakesPrompt
  BY <1>2 DEF PiTakesPrompt
<1>3. CASE PiReportsState
  <2>1. \E event : PiWrites(event) /\ event.type = "state"
    BY <1>1, <1>3 DEF PiReportsState
  <2> QED
    BY <1>3, <2>1 DEF PiReportsState
<1>4. CASE PiReportsStats
  <2>1. PICK tokens \in {session_tokens, NoTokens} :
          Emits(Event("stats", tokens, NoSignature))
    BY <1>4 DEF PiReportsStats
  <2>2. tokens \in Nat \cup {NoTokens}
    BY DEF Typed, TypeOK
  <2>3. \E event : PiWrites(event) /\ event.type = "stats" /\ event.tokens = tokens
    BY <1>1, <2>1, <2>2
  <2> QED
    BY <1>4, <2>3 DEF PiReportsStats
<1>5. CASE PiAborts
  <2>1. Emits(Event("abort", 0, NoSignature)) /\ Handles("abort")
    BY <1>5 DEF PiAborts
  <2>2. \E event : PiWrites(event) /\ event.type = "abort"
    BY <1>1, <2>1
  <2>3. Quiet'
    BY <1>5 DEF PiAborts, Quiet
  <2> QED
    BY <2>1, <2>2, <2>3
<1>6. CASE PiCompletesMessage
  BY <1>6 DEF PiCompletesMessage, PiStep, Quiet
<1>7. CASE PiCallsTool
  <2>1. PICK signature \in Signatures : Emits(Event("tool", 0, signature))
    BY <1>7 DEF PiCallsTool
  <2>2. LET event == Event("tool", 0, signature) IN PiWrites(event) /\ event.type = "tool"
    BY <2>1, EventIs DEF PiWrites, Emits, Sound, EventTypes
  <2>3. UNCHANGED <<stdin, session_tokens>> /\ ~Quiet
    BY <1>7 DEF PiCallsTool, PiStep, Quiet
  <2> QED
    BY <2>2, <2>3
<1>8. CASE PiEndsTurn
  <2>1. Emits(Event("turn_end", turn_usage, NoSignature)) /\ turn_usage \in Nat
    BY <1>8 DEF PiEndsTurn, Typed, TypeOK
  <2>2. PiWrites(Event("turn_end", turn_usage, NoSignature))
        /\ Event("turn_end", turn_usage, NoSignature).type = "turn_end"
    BY <2>1, EventIs DEF PiWrites, Emits, Sound, EventTypes
  <2>3. UNCHANGED <<stdin, session_tokens>> /\ ~Quiet
    BY <1>8 DEF PiEndsTurn, PiStep, Quiet
  <2> QED
    BY <2>2, <2>3
<1>9. CASE PiEndsAgent
  <2>1. \E event : PiWrites(event) /\ event.type = "agent_end"
    BY <1>1, <1>9 DEF PiEndsAgent
  <2>2. UNCHANGED <<stdin, session_tokens>> /\ (Quiet => Quiet')
    BY <1>9 DEF PiEndsAgent, PiStep, Quiet
  <2> QED
    BY <2>1, <2>2
<1> QED
  BY <1>2, <1>3, <1>4, <1>5, <1>6, <1>7, <1>8, <1>9 DEF PiSteps

\* An event written leaves the events before it answered as they were.
LEMMA WritesInOrder ==
    ASSUME Typed, NEW event, PiWrites(event), UNCHANGED abort_response_seen
    PROVE  /\ Len(stdout) \in Nat /\ Len(stdout') = Len(stdout) + 1
           /\ \A i \in 1 .. Len(stdout) : stdout'[i] = stdout[i]
           /\ stdout'[Len(stdout) + 1] = event
           /\ \A i \in 1 .. Len(stdout) : Answered(i)' <=> Answered(i)
           /\ Answered(Len(stdout))' <=> AbortAnswered
           /\ AbortAnswered' <=> AbortAnswered \/ event.type = "abort"
<1>1. stdout \in Seq(Events) /\ event \in Events
  BY DEF Typed, TypeOK, PiWrites, Sound
<1>2. /\ Len(stdout) \in Nat /\ Len(stdout') = Len(stdout) + 1
      /\ \A i \in 1 .. Len(stdout) : stdout'[i] = stdout[i]
      /\ stdout'[Len(stdout) + 1] = event
  BY <1>1, Written DEF PiWrites
<1> QED
  BY <1>2 DEF Answered, AbortAnswered

LEMMA PiRequestsInOrder ==
    ASSUME Typed, RequestsInOrder, PiSteps
    PROVE  RequestsInOrder'
<1>0. UNCHANGED <<runner, line_in_hand, stats_read, abort_response_seen>>
  BY PiWorks DEF runnerVars, normalizerVars
<1>1. ASSUME UNCHANGED stdin,
             \/ UNCHANGED stdout
             \/ \E event : PiWrites(event) /\ event.type # "stats"
      PROVE  RequestsInOrder'
  <2>1. (\A i \in 1 .. Len(stdout) : stdout[i].type # "stats") =>
          (\A i \in 1 .. Len(stdout') : stdout'[i].type # "stats")
    BY <1>0, <1>1, WritesInOrder
  <2> QED
    BY <1>0, <1>1, <2>1 DEF RequestsInOrder, StatsUnread, FinalRequest
<1>2. ASSUME NEW command, Handles(command),
             \/ UNCHANGED stdout
             \/ \E event : PiWrites(event)
                           /\ (event.type = "stats" => command = "get_session_stats")
      PROVE  RequestsInOrder'
  <2> SUFFICES ASSUME NEW k \in 1 .. Len(stdin'), stdin'[k] = "get_session_stats",
                      ~FinalRequest(k)'
               PROVE  /\ StatsUnread'
                      /\ \A i \in 1 .. Len(stdout') : stdout'[i].type # "stats"
                      /\ \A j \in 1 .. Len(stdin') :
                           stdin'[j] = "get_session_stats" => j = k \/ FinalRequest(j)'
    BY DEF RequestsInOrder
  <2>1. /\ Len(stdin) \in Nat /\ Len(stdin') = Len(stdin) - 1 /\ stdin[1] = command
        /\ \A j \in 1 .. Len(stdin') : stdin'[j] = stdin[j + 1]
    BY <1>2, HandledInOrder
  <2>2. \A j \in 1 .. Len(stdin') : FinalRequest(j)' <=> FinalRequest(j + 1)
    BY <1>0, <2>1 DEF FinalRequest
  <2>3. k + 1 \in 1 .. Len(stdin) /\ stdin[k + 1] = "get_session_stats" /\ ~FinalRequest(k + 1)
    BY <2>1, <2>2
  <2>4. /\ StatsUnread /\ \A i \in 1 .. Len(stdout) : stdout[i].type # "stats"
        /\ \A j \in 1 .. Len(stdin) :
             stdin[j] = "get_session_stats" => j = k + 1 \/ FinalRequest(j)
    BY <2>3 DEF RequestsInOrder
  <2>5. command # "get_session_stats"
    BY <2>1, <2>3, <2>4 DEF FinalRequest
  <2>6. \A i \in 1 .. Len(stdout') : stdout'[i].type # "stats"
    BY <1>0, <1>2, <2>4, <2>5, WritesInOrder
  <2>7. ASSUME NEW j \in 1 .. Len(stdin'), stdin'[j] = "get_session_stats"
        PROVE  j = k \/ FinalRequest(j)'
    <3>1. j + 1 \in 1 .. Len(stdin) /\ stdin[j + 1] = "get_session_stats"
      BY <2>1, <2>7
    <3> QED
      BY <2>2, <2>4, <3>1
  <2> QED
    BY <1>0, <2>4, <2>6, <2>7 DEF StatsUnread
<1>3. \/ /\ UNCHANGED stdin
         /\ \/ UNCHANGED stdout
            \/ \E event : PiWrites(event) /\ event.type # "stats"
      \/ Handles("prompt") /\ UNCHANGED stdout
      \/ /\ \E command : Handles(command) /\ command # "get_session_stats"
         /\ \E event : PiWrites(event) /\ event.type # "stats"
      \/ Handles("get_session_stats") /\ \E event : PiWrites(event)
  BY PiMoves
<1> QED
  BY <1>1, <1>2, <1>3

\* While the abort waits to be handled, at least two commands do.
LEMMA FirstOfCommands ==
    ASSUME Typed, AbortInOrder, NEW command, Handles(command)
    PROVE  /\ AbortAnswered => command = "get_session_stats" /\ stdin' = <<>> /\ Quiet
           /\ command = "abort" =>
                /\ runner = "post_abort" /\ ~AbortAnswered
                /\ stdin' = <<"get_session_stats">>
           /\ ~AbortAnswered /\ command # "abort" /\ runner = "post_abort" =>
                /\ Len(stdin') >= 2 /\ Len(stdin) >= 3
                /\ stdin'[Len(stdin') - 1] = "abort"
                /\ stdin'[Len(stdin')] = "get_session_stats"
                /\ \A k \in 1 .. Len(stdin') - 2 : stdin'[k] # "abort"
<1>1. /\ Len(stdin) \in Nat /\ Len(stdin) > 0 /\ stdin[1] = command
      /\ stdin' \in Seq(Commands) /\ Len(stdin') = Len(stdin) - 1
      /\ \A j \in 1 .. Len(stdin') : stdin'[j] = stdin[j + 1]
  BY HandledInOrder
<1>2. ASSUME AbortAnswered
      PROVE  command = "get_session_stats" /\ stdin' = <<>> /\ Quiet
  <2>1. Quiet /\ stdin = <<"get_session_stats">>
    BY <1>1, <1>2 DEF AbortInOrder
  <2> QED
    BY <1>1, <2>1
<1>3. ASSUME command = "abort"
      PROVE  runner = "post_abort" /\ ~AbortAnswered /\ stdin' = <<"get_session_stats">>
  <2>1. runner = "post_abort" /\ ~AbortAnswered
    BY <1>1, <1>2, <1>3 DEF AbortInOrder
  <2>2. Len(stdin) = 2 /\ stdin[2] = "get_session_stats"
    BY <1>1, <1>3, <2>1 DEF AbortInOrder
  <2>3. Len(stdin') = 1 /\ stdin'[1] = "get_session_stats"
    BY <1>1, <2>2
  <2> QED
    BY <1>1, <2>1, <2>3
<1>4. ASSUME ~AbortAnswered, command # "abort", runner = "post_abort"
      PROVE  /\ Len(stdin') >= 2 /\ Len(stdin) >= 3
             /\ stdin'[Len(stdin') - 1] = "abort"
             /\ stdin'[Len(stdin')] = "get_session_stats"
             /\ \A k \in 1 .. Len(stdin') - 2 : stdin'[k] # "abort"
  <2>1. /\ Len(stdin) >= 2 /\ stdin[Len(stdin) - 1] = "abort"
        /\ stdin[Len(stdin)] = "get_session_stats"
        /\ \A k \in 1 .. Len(stdin) - 2 : stdin[k] # "abort"
    BY <1>4 DEF AbortInOrder
  <2>2. Len(stdin) # 2
    BY <1>1, <1>4, <2>1
  <2> QED
    BY <1>1, <2>1, <2>2
<1> QED
  BY <1>2, <1>3, <1>4

LEMMA PiAbortInOrder ==
    ASSUME Typed, AbortInOrder, PiSteps
    PROVE  AbortInOrder'
<1>0. UNCHANGED <<runner, abort_response_seen>>
  BY PiWorks DEF runnerVars, normalizerVars
<1>1. ASSUME UNCHANGED stdin, UNCHANGED stdout, ~Quiet
      PROVE  AbortInOrder'
  BY <1>0, <1>1 DEF AbortInOrder, AbortAnswered
<1>2. ASSUME UNCHANGED stdin, Quiet => Quiet',
             NEW event, PiWrites(event), event.type # "abort"
      PROVE  AbortInOrder'
  <2>1. AbortAnswered' <=> AbortAnswered
    BY <1>0, <1>2, WritesInOrder
  <2> QED
    BY <1>0, <1>2, <2>1 DEF AbortInOrder
<1>3. ASSUME NEW command, Handles(command), command # "abort",
             command = "get_session_stats" => UNCHANGED piVars,
             AbortAnswered' <=> AbortAnswered
      PROVE  AbortInOrder'
  <2>1. runner # "post_abort" => \A k \in 1 .. Len(stdin') : stdin'[k] # "abort"
    BY <1>3, HandledInOrder DEF AbortInOrder
  <2>2. AbortAnswered => Quiet' /\ stdin' = <<>>
    BY <1>3, FirstOfCommands DEF Quiet, piVars
  <2>3. runner # "post_abort" => ~AbortAnswered
    BY DEF AbortInOrder
  <2> QED
    BY <1>0, <1>3, <2>1, <2>2, <2>3, FirstOfCommands DEF AbortInOrder
<1>4. CASE Handles("prompt") /\ UNCHANGED stdout
  BY <1>0, <1>3, <1>4 DEF AbortAnswered
<1>5. CASE /\ Handles("get_state")
           /\ \E event : PiWrites(event) /\ event.type = "state"
  BY <1>0, <1>3, <1>5, WritesInOrder
<1>6. CASE /\ Handles("get_session_stats") /\ UNCHANGED piVars
           /\ \E event : PiWrites(event) /\ event.type = "stats"
  BY <1>0, <1>3, <1>6, WritesInOrder
<1>7. CASE /\ Handles("abort") /\ Quiet'
           /\ \E event : PiWrites(event) /\ event.type = "abort"
  BY <1>0, <1>7, FirstOfCommands, WritesInOrder DEF AbortInOrder
<1>8. CASE /\ UNCHANGED stdin /\ (Quiet => Quiet')
           /\ \E event : /\ PiWrites(event)
                         /\ event.type \in {"tool", "turn_end", "agent_end"}
  BY <1>2, <1>8
<1> QED
  BY <1>1, <1>4, <1>5, <1>6, <1>7, <1>8, PiMoves

LEMMA PiEventsInOrder ==
    ASSUME Typed, AbortInOrder, RequestsInOrder, EventsInOrder, PiSteps
    PROVE  EventsInOrder'
<1>0. UNCHANGED <<runner, line_in_hand, stats_read, abort_response_seen,
                  final_usage_after_abort_reported>>
  BY PiWorks DEF runnerVars, normalizerVars
<1>1. ASSUME UNCHANGED stdout, ~Settled
      PROVE  EventsInOrder'
  BY <1>0, <1>1 DEF EventsInOrder, EventInOrder, Answered, StatsUnread
\* An event written when all before it stay in order.
<1>2. ASSUME NEW event, PiWrites(event),
             Settled => Settled' /\ UNCHANGED session_tokens,
             AbortAnswered => event.type \notin {"turn_end", "abort"},
             event.type = "stats" =>
                /\ ~Settled
                /\ AbortAnswered => Settled' /\ event.tokens \in {session_tokens', NoTokens}
                /\ ~AbortAnswered =>
                     StatsUnread /\ \A i \in 1 .. Len(stdout) : stdout[i].type # "stats"
      PROVE  EventsInOrder'
  <2>1. /\ Len(stdout) \in Nat /\ Len(stdout') = Len(stdout) + 1
        /\ \A i \in 1 .. Len(stdout) : stdout'[i] = stdout[i]
        /\ stdout'[Len(stdout')] = event
        /\ \A i \in 1 .. Len(stdout) : Answered(i)' <=> Answered(i)
        /\ Answered(Len(stdout))' <=> AbortAnswered
    BY <1>0, <1>2, WritesInOrder
  <2>2. \A i \in 1 .. Len(stdout) : EventInOrder(i)
    BY DEF EventsInOrder
  <2>3. EventInOrder(Len(stdout))'
    BY <1>0, <1>2, <2>1 DEF EventInOrder, StatsUnread
  <2>4. ASSUME NEW i \in 1 .. Len(stdout)  PROVE EventInOrder(i)'
    <3>1. event.type = "stats" => ~(stdout[i].type = "stats" /\ Answered(i))
      BY <1>2, <2>2 DEF EventInOrder
    <3>2. stdout'[i] = stdout[i] /\ (Answered(i)' <=> Answered(i))
      BY <2>1
    <3>3. EventInOrder(i)
      BY <2>2
    <3>4. Answered(i)' => stdout'[i].type \notin {"turn_end", "abort"}
      BY <3>2, <3>3 DEF EventInOrder
    <3>5. stdout'[i].type = "stats" /\ ~Answered(i)' => StatsUnread'
      BY <1>0, <3>2, <3>3 DEF EventInOrder, StatsUnread
    <3>6. ASSUME NEW j \in 1 .. Len(stdout'), stdout'[i].type = "stats",
                 stdout'[j].type = "stats"
          PROVE  i = j \/ Answered(i)' \/ Answered(j)'
      <4>1. CASE j \in 1 .. Len(stdout)
        BY <2>1, <3>2, <3>3, <3>6, <4>1 DEF EventInOrder
      <4>2. CASE j = Len(stdout')
        BY <1>2, <2>1, <3>2, <3>6, <4>2
      <4> QED
        BY <2>1, <4>1, <4>2
    <3>7. ASSUME stdout'[i].type = "stats", Answered(i)'
          PROVE  /\ Settled' /\ stdout'[i].tokens \in {session_tokens', NoTokens}
                 /\ \A j \in 1 .. Len(stdout') : stdout'[j].type = "stats" => j <= i
      <4>1. /\ Settled /\ stdout[i].tokens \in {session_tokens, NoTokens}
            /\ \A j \in 1 .. Len(stdout) : stdout[j].type = "stats" => j <= i
        BY <3>2, <3>3, <3>7 DEF EventInOrder
      <4>2. event.type # "stats"
        BY <3>1, <3>2, <3>7
      <4> QED
        BY <1>2, <2>1, <3>2, <4>1, <4>2
    <3> QED
      BY <3>4, <3>5, <3>6, <3>7 DEF EventInOrder
  <2>5. \A i \in 1 .. Len(stdout') : EventInOrder(i)'
    BY <2>1, <2>3, <2>4
  <2> QED
    BY <1>0, <1>2, <2>5 DEF EventsInOrder
<1>3. ASSUME NEW command, Handles(command)
      PROVE  /\ ~Settled
             /\ command = "get_session_stats" /\ ~AbortAnswered =>
                  StatsUnread /\ \A i \in 1 .. Len(stdout) : stdout[i].type # "stats"
  <2>1. stdin # <<>> /\ stdin[1] = command /\ Len(stdin) \in Nat /\ Len(stdin) > 0
    BY <1>3, HandledInOrder
  <2>2. ASSUME command = "get_session_stats", ~AbortAnswered, FinalRequest(1)
        PROVE  FALSE
    <3>1. runner = "post_abort" /\ Len(stdin) = 1
      BY <2>2 DEF FinalRequest
    <3>2. Len(stdin) >= 3
      BY <1>3, <2>2, <3>1, FirstOfCommands
    <3> QED
      BY <3>1, <3>2
  <2> QED
    BY <2>1, <2>2 DEF Settled, RequestsInOrder
<1>4. CASE UNCHANGED stdin /\ UNCHANGED stdout /\ ~Quiet
  BY <1>1, <1>4 DEF Settled
<1>5. CASE /\ UNCHANGED <<stdin, session_tokens>> /\ (Quiet => Quiet')
           /\ \E event : /\ PiWrites(event)
                         /\ event.type \in {"tool", "turn_end", "agent_end"}
                         /\ event.type = "turn_end" => ~Quiet
  <2>1. AbortAnswered => Quiet
    BY DEF AbortInOrder
  <2> QED
    BY <1>2, <1>5, <2>1 DEF Settled
<1>6. CASE Handles("prompt") /\ UNCHANGED stdout
  BY <1>1, <1>3, <1>6
<1>7. CASE /\ Handles("get_state")
           /\ \E event : PiWrites(event) /\ event.type = "state"
  BY <1>2, <1>3, <1>7
<1>8. CASE /\ Handles("get_session_stats") /\ UNCHANGED piVars
           /\ \E event : /\ PiWrites(event) /\ event.type = "stats"
                         /\ event.tokens \in {session_tokens, NoTokens}
  <2>1. AbortAnswered => Settled'
    BY <1>8, FirstOfCommands DEF Settled, Quiet, piVars
  <2>2. session_tokens' = session_tokens
    BY <1>8 DEF piVars
  <2> QED
    BY <1>2, <1>3, <1>8, <2>1, <2>2
<1>9. CASE /\ Handles("abort")
           /\ \E event : PiWrites(event) /\ event.type = "abort"
  <2>1. ~AbortAnswered
    BY <1>9, FirstOfCommands
  <2> QED
    BY <1>2, <1>3, <1>9, <2>1
<1> QED
  BY <1>4, <1>5, <1>6, <1>7, <1>8, <1>9, PiMoves

\* What normalize does to the order of things.
LEMMA NormalizeMarks ==
    ASSUME Typed, NEW event, Sound(event), Normalize(event)
    PROVE  /\ abort_response_seen' <=> abort_response_seen \/ event.type = "abort"
           /\ final_usage_after_abort_reported' <=>
                \/ final_usage_after_abort_reported
                \/ event.type = "stats" /\ abort_response_seen
           /\ event.type # "stats" => UNCHANGED stats_read
<1> USE DEF Typed, TypeOK, normalizerVars
<1>1. CASE NormalizeStateResponse(event)
  BY <1>1 DEF NormalizeStateResponse
<1>2. CASE NormalizeAbortResponse(event)
  BY <1>2 DEF NormalizeAbortResponse
<1>3. CASE ReadsStats(event)
  BY <1>3 DEF ReadsStats
<1>4. CASE NormalizeTurnEnd(event)
  BY <1>4 DEF NormalizeTurnEnd
<1>5. CASE NormalizeAgentEnd(event)
  BY <1>5 DEF NormalizeAgentEnd
<1>6. CASE NormalizeToolCall(event)
  BY <1>6 DEF NormalizeToolCall
<1> QED
  BY <1>1, <1>2, <1>3, <1>4, <1>5, <1>6
     DEF Normalize, NormalizeEmptyStats, NormalizeFirstStats, NormalizeStats

\* An event read from the pipe leaves what is behind it in order.
LEMMA TakesInOrder ==
    ASSUME Typed, Takes,
           abort_response_seen' <=> abort_response_seen \/ stdout[1].type = "abort"
    PROVE  /\ AbortAnswered' <=> AbortAnswered
           /\ \A i \in 1 .. Len(stdout') : Answered(i)' <=> Answered(i + 1)
           /\ Answered(1) <=> abort_response_seen
<1>1. /\ Len(stdout) \in Nat /\ Len(stdout) > 0 /\ Len(stdout') = Len(stdout) - 1
      /\ \A i \in 1 .. Len(stdout') : stdout'[i] = stdout[i + 1]
  BY TakesSound
<1>2. \A i \in 1 .. Len(stdout) :
        i = 1 \/ (i - 1 \in 1 .. Len(stdout') /\ stdout'[i - 1] = stdout[i])
  BY <1>1
<1>3. AbortAnswered' <=> AbortAnswered
  BY <1>1, <1>2 DEF AbortAnswered
<1>4. ASSUME NEW i \in 1 .. Len(stdout')
      PROVE  Answered(i)' <=> Answered(i + 1)
  <2>1. ASSUME NEW j \in 1 .. i - 1, stdout'[j].type = "abort"
        PROVE  j + 1 \in 1 .. i /\ stdout[j + 1].type = "abort"
    BY <1>1, <2>1
  <2>2. ASSUME NEW j \in 1 .. i, stdout[j].type = "abort", j # 1
        PROVE  j - 1 \in 1 .. i - 1 /\ stdout'[j - 1].type = "abort"
    BY <1>1, <1>2, <2>2
  <2>3. Answered(i)' => Answered(i + 1)
    BY <1>1, <2>1 DEF Answered
  <2>4. Answered(i + 1) => Answered(i)'
    BY <1>1, <2>2 DEF Answered
  <2> QED
    BY <2>3, <2>4
<1> QED
  BY <1>3, <1>4 DEF Answered

LEMMA ReadsInOrder ==
    ASSUME Typed, AbortInOrder, RequestsInOrder, EventsInOrder, RunnerReads
    PROVE  AbortInOrder' /\ RequestsInOrder' /\ EventsInOrder'
<1>1. /\ Takes /\ runner = "reading" /\ runner' = "in_hand"
      /\ UNCHANGED <<stdin, agent, turn_usage, session_tokens, stats_read,
                     abort_response_seen, final_usage_after_abort_reported>>
      /\ line_in_hand' = stdout[1]
  BY TakesSound DEF RunnerReads, Takes, piVars, normalizerVars
<1>2. /\ Len(stdout) \in Nat /\ Len(stdout) > 0 /\ Len(stdout') = Len(stdout) - 1
      /\ \A i \in 1 .. Len(stdout') : stdout'[i] = stdout[i + 1]
  BY <1>1, TakesSound
<1>3. ~AbortAnswered /\ \A i \in 1 .. Len(stdout) : ~Answered(i)
  BY <1>1, AnsweredWhere DEF AbortInOrder
<1>4. stdout[1].type # "abort"
  BY <1>2, <1>3 DEF AbortAnswered
<1>5. ~AbortAnswered' /\ \A i \in 1 .. Len(stdout') : ~Answered(i)'
  BY <1>1, <1>2, <1>3, <1>4, TakesInOrder
<1>6. \A i \in 1 .. Len(stdout) : EventInOrder(i)
  BY DEF EventsInOrder
<1>7. EventInOrder(1) /\ \A i \in 1 .. Len(stdout') : i + 1 \in 1 .. Len(stdout)
  BY <1>2, <1>6
<1>8. AbortInOrder'
  BY <1>1, <1>5 DEF AbortInOrder
<1>9. RequestsInOrder'
  <2>1. \A k \in 1 .. Len(stdin) :
          /\ FinalRequest(k)' <=> FinalRequest(k)
          /\ stdin[k] = "get_session_stats" => ~FinalRequest(k)
    BY <1>1 DEF FinalRequest
  <2>2. (\A i \in 1 .. Len(stdout) : stdout[i].type # "stats") /\ StatsUnread =>
          StatsUnread' /\ \A i \in 1 .. Len(stdout') : stdout'[i].type # "stats"
    BY <1>1, <1>2, <1>7 DEF StatsUnread
  <2> QED
    BY <1>1, <2>1, <2>2 DEF RequestsInOrder, FinalRequest
<1>10. ASSUME NEW i \in 1 .. Len(stdout')  PROVE EventInOrder(i)'
  <2>1. EventInOrder(i + 1) /\ ~Answered(i + 1) /\ stdout'[i] = stdout[i + 1]
        /\ i + 1 \in 1 .. Len(stdout) /\ i + 1 # 1 /\ 1 \in 1 .. Len(stdout)
    BY <1>2, <1>3, <1>6, <1>7
  <2>2. stdout[i + 1].type = "stats" => StatsUnread' /\ StatsUnread
    BY <1>1, <1>3, <2>1 DEF EventInOrder, StatsUnread
  <2>3. ASSUME NEW j \in 1 .. Len(stdout'), stdout'[i].type = "stats",
               stdout'[j].type = "stats"
        PROVE  i = j
    <3>1. /\ j + 1 \in 1 .. Len(stdout) /\ stdout[j + 1].type = "stats"
          /\ ~Answered(j + 1)
      BY <1>2, <1>3, <1>7, <2>3
    <3>2. i + 1 = j + 1
      BY <2>1, <2>3, <3>1 DEF EventInOrder
    <3> QED
      BY <3>2
  <2> QED
    BY <1>5, <2>1, <2>2, <2>3 DEF EventInOrder
<1>11. line_in_hand'.type = "stats" => stats_read' = <<>>
  BY <1>1, <1>2, <1>3, <1>7 DEF EventInOrder, StatsUnread
<1>12. ~final_usage_after_abort_reported'
  BY <1>1, <1>3 DEF EventsInOrder, AbortAnswered
<1> QED
  BY <1>1, <1>4, <1>8, <1>9, <1>10, <1>11, <1>12 DEF EventsInOrder

\* Once a line is handled or dropped, no stats are in hand.
LEMMA HandsEmptied ==
    ASSUME Typed, line_in_hand' = NoEvent,
           line_in_hand.type # "stats" => UNCHANGED stats_read
    PROVE  StatsUnread => StatsUnread'
  BY NoEventSound DEF StatsUnread

LEMMA HandlesInOrder ==
    ASSUME Typed, AbortInOrder, RequestsInOrder, EventsInOrder, RunnerHandlesLine,
           runner' # "over"
    PROVE  AbortInOrder' /\ RequestsInOrder' /\ EventsInOrder'
<1>1. /\ runner = "in_hand" /\ runner' = "reading"
      /\ UNCHANGED stdin \/ stdin' = Append(stdin, "prompt")
      /\ line_in_hand' = NoEvent /\ UNCHANGED <<stdout, session_tokens, agent, turn_usage>>
  BY DEF RunnerHandlesLine
<1>2. ~AbortAnswered /\ ~abort_response_seen /\ \A i \in 1 .. Len(stdout) : ~Answered(i)
  BY <1>1, AnsweredWhere DEF AbortInOrder, AbortAnswered
<1>3. /\ ~abort_response_seen' /\ ~final_usage_after_abort_reported'
      /\ line_in_hand.type # "stats" => UNCHANGED stats_read
  BY <1>1, <1>2, NormalizeMarks DEF RunnerHandlesLine, EventsInOrder, Typed, EventsSound
<1>4. StatsUnread => StatsUnread'
  BY <1>1, <1>3, HandsEmptied
<1>5. \A i \in 1 .. Len(stdout') : ~Answered(i)'
  BY <1>1, <1>2, <1>3 DEF Answered
<1>6. ~AbortAnswered'
  BY <1>1, <1>2, <1>3 DEF AbortAnswered
<1>7. /\ Len(stdin) \in Nat /\ Len(stdin') \in Nat
      /\ \A k \in 1 .. Len(stdin') :
           \/ k \in 1 .. Len(stdin) /\ stdin'[k] = stdin[k]
           \/ stdin'[k] = "prompt"
  <2>1. stdin \in Seq(Commands) /\ "prompt" \in Commands
    BY DEF Typed, TypeOK, Commands
  <2> QED
    BY <1>1, <2>1, Written
<1>8. AbortInOrder'
  BY <1>1, <1>6, <1>7 DEF AbortInOrder
<1>9. RequestsInOrder'
  <2> SUFFICES ASSUME NEW k \in 1 .. Len(stdin'), stdin'[k] = "get_session_stats"
               PROVE  /\ StatsUnread'
                      /\ \A i \in 1 .. Len(stdout') : stdout'[i].type # "stats"
                      /\ \A j \in 1 .. Len(stdin') :
                           stdin'[j] = "get_session_stats" => j = k \/ FinalRequest(j)'
    BY DEF RequestsInOrder
  <2>1. k \in 1 .. Len(stdin) /\ stdin[k] = "get_session_stats" /\ ~FinalRequest(k)
    BY <1>1, <1>7 DEF FinalRequest
  <2>2. /\ StatsUnread /\ \A i \in 1 .. Len(stdout) : stdout[i].type # "stats"
        /\ \A j \in 1 .. Len(stdin) :
             stdin[j] = "get_session_stats" => j = k \/ FinalRequest(j)
    BY <2>1 DEF RequestsInOrder
  <2> QED
    BY <1>1, <1>4, <1>7, <2>2 DEF FinalRequest
<1>10. EventsInOrder'
  BY <1>1, <1>2, <1>3, <1>4, <1>5, NoEventSound DEF EventsInOrder, EventInOrder
<1> QED
  BY <1>8, <1>9, <1>10

LEMMA AbortsInOrder ==
    ASSUME Typed, AbortInOrder, RequestsInOrder, EventsInOrder, RunnerAborts
    PROVE  AbortInOrder' /\ RequestsInOrder' /\ EventsInOrder'
<1>1. /\ runner = "in_hand" /\ runner' = "post_abort" /\ line_in_hand' = NoEvent
      /\ UNCHANGED <<stdout, session_tokens, agent, turn_usage, stats_read,
                     abort_response_seen, final_usage_after_abort_reported>>
  BY DEF RunnerAborts, piVars, normalizerVars
<1>2. /\ Len(stdin) \in Nat /\ Len(stdin') = Len(stdin) + 2
      /\ \A k \in 1 .. Len(stdin) : stdin'[k] = stdin[k]
      /\ stdin'[Len(stdin) + 1] = "abort" /\ stdin'[Len(stdin) + 2] = "get_session_stats"
  BY WrittenWithStats DEF RunnerAborts, Typed, TypeOK
<1>3. ~AbortAnswered /\ \A i \in 1 .. Len(stdout) : ~Answered(i)
  BY <1>1, AnsweredWhere DEF AbortInOrder
<1>4. StatsUnread => StatsUnread'
  BY <1>1, HandsEmptied
<1>5. ~AbortAnswered' /\ \A i \in 1 .. Len(stdout') : ~Answered(i)'
  BY <1>1, <1>3 DEF AbortAnswered, Answered
<1>6. AbortInOrder'
  <2>1. \A k \in 1 .. Len(stdin) : stdin[k] # "abort"
    BY <1>1 DEF AbortInOrder
  <2> QED
    BY <1>1, <1>2, <1>5, <2>1 DEF AbortInOrder
<1>7. RequestsInOrder'
  <2> SUFFICES ASSUME NEW k \in 1 .. Len(stdin'), stdin'[k] = "get_session_stats",
                      ~FinalRequest(k)'
               PROVE  /\ StatsUnread'
                      /\ \A i \in 1 .. Len(stdout') : stdout'[i].type # "stats"
                      /\ \A j \in 1 .. Len(stdin') :
                           stdin'[j] = "get_session_stats" => j = k \/ FinalRequest(j)'
    BY DEF RequestsInOrder
  <2>1. \A j \in 1 .. Len(stdin') :
          stdin'[j] = "get_session_stats" =>
            \/ FinalRequest(j)'
            \/ j \in 1 .. Len(stdin) /\ stdin[j] = "get_session_stats" /\ ~FinalRequest(j)
    BY <1>1, <1>2 DEF FinalRequest
  <2>2. /\ StatsUnread /\ \A i \in 1 .. Len(stdout) : stdout[i].type # "stats"
        /\ \A j \in 1 .. Len(stdin) :
             stdin[j] = "get_session_stats" => j = k \/ FinalRequest(j)
    BY <2>1 DEF RequestsInOrder
  <2> QED
    BY <1>1, <1>4, <2>1, <2>2
<1>8. EventsInOrder'
  <2>1. ~final_usage_after_abort_reported'
    BY <1>1, <1>3 DEF EventsInOrder, AbortAnswered
  <2> QED
    BY <1>1, <1>3, <1>4, <1>5, <2>1, NoEventSound DEF EventsInOrder, EventInOrder
<1> QED
  BY <1>6, <1>7, <1>8

LEMMA ReadsAfterAbortInOrder ==
    ASSUME Typed, AbortInOrder, RequestsInOrder, EventsInOrder, RunnerReadsAfterAbort
    PROVE  AbortInOrder' /\ RequestsInOrder' /\ EventsInOrder'
<1>1. /\ Takes /\ runner = "post_abort" /\ runner' = "post_abort"
      /\ UNCHANGED <<stdin, session_tokens, agent, turn_usage, line_in_hand>>
      /\ ~final_usage_after_abort_reported /\ Normalize(stdout[1]) /\ Sound(stdout[1])
      /\ line_in_hand = NoEvent
  BY TakesSound DEF RunnerReadsAfterAbort, Takes, piVars, runnerVars, Typed, EventsSound
<1>2. /\ Len(stdout) \in Nat /\ Len(stdout) > 0 /\ Len(stdout') = Len(stdout) - 1
      /\ \A i \in 1 .. Len(stdout') :
           stdout'[i] = stdout[i + 1] /\ i + 1 \in 1 .. Len(stdout) /\ i + 1 # 1
  BY <1>1, TakesSound
<1>3. /\ abort_response_seen' <=> abort_response_seen \/ stdout[1].type = "abort"
      /\ final_usage_after_abort_reported' <=>
           stdout[1].type = "stats" /\ abort_response_seen
      /\ stdout[1].type # "stats" => UNCHANGED stats_read
  BY <1>1, NormalizeMarks
<1>4. /\ AbortAnswered' <=> AbortAnswered
      /\ \A i \in 1 .. Len(stdout') : Answered(i)' <=> Answered(i + 1)
      /\ Answered(1) <=> abort_response_seen
  BY <1>1, <1>3, TakesInOrder
<1>5. \A i \in 1 .. Len(stdout) : EventInOrder(i)
  BY DEF EventsInOrder
<1>6. EventInOrder(1) /\ \A i \in 1 .. Len(stdout') : Answered(1) => Answered(i + 1)
  BY <1>2, <1>5 DEF Answered
<1>7. AbortInOrder'
  BY <1>1, <1>4 DEF AbortInOrder, Quiet
<1>8. RequestsInOrder'
  <2>1. (\A i \in 1 .. Len(stdout) : stdout[i].type # "stats") /\ StatsUnread =>
          StatsUnread' /\ \A i \in 1 .. Len(stdout') : stdout'[i].type # "stats"
    BY <1>1, <1>2, <1>3 DEF StatsUnread
  <2> QED
    BY <1>1, <2>1 DEF RequestsInOrder, FinalRequest
<1>9. ASSUME NEW i \in 1 .. Len(stdout')  PROVE EventInOrder(i)'
  <2>1. EventInOrder(i + 1) /\ stdout'[i] = stdout[i + 1] /\ i + 1 \in 1 .. Len(stdout)
        /\ i + 1 # 1 /\ 1 \in 1 .. Len(stdout) /\ (Answered(i)' <=> Answered(i + 1))
    BY <1>2, <1>4, <1>5
  <2>2. stdout'[i].type = "stats" /\ ~Answered(i)' => StatsUnread'
    <3>1. stdout[i + 1].type = "stats" /\ ~Answered(i + 1) => stdout[1].type # "stats"
      BY <1>6, <2>1 DEF EventInOrder
    <3> QED
      BY <1>1, <1>3, <2>1, <3>1 DEF EventInOrder, StatsUnread
  <2>3. ASSUME NEW j \in 1 .. Len(stdout'), stdout'[i].type = "stats",
               stdout'[j].type = "stats"
        PROVE  i = j \/ Answered(i)' \/ Answered(j)'
    <3>1. j + 1 \in 1 .. Len(stdout) /\ stdout[j + 1].type = "stats"
          /\ (Answered(j)' <=> Answered(j + 1))
      BY <1>2, <1>4, <2>3
    <3>2. i + 1 = j + 1 \/ Answered(i + 1) \/ Answered(j + 1)
      BY <2>1, <2>3, <3>1 DEF EventInOrder
    <3> QED
      BY <2>1, <3>1, <3>2
  <2>4. ASSUME stdout'[i].type = "stats", Answered(i)'
        PROVE  /\ Settled' /\ stdout'[i].tokens \in {session_tokens', NoTokens}
               /\ \A j \in 1 .. Len(stdout') : stdout'[j].type = "stats" => j <= i
    <3>1. /\ Settled /\ stdout[i + 1].tokens \in {session_tokens, NoTokens}
          /\ \A j \in 1 .. Len(stdout) : stdout[j].type = "stats" => j <= i + 1
      BY <2>1, <2>4 DEF EventInOrder
    <3>2. ASSUME NEW j \in 1 .. Len(stdout'), stdout'[j].type = "stats"
          PROVE  j <= i
      <4>1. j + 1 <= i + 1
        BY <1>2, <3>1, <3>2
      <4> QED
        BY <4>1
    <3> QED
      BY <1>1, <2>1, <3>1, <3>2 DEF Settled, Quiet
  <2>5. Answered(i)' => stdout'[i].type \notin {"turn_end", "abort"}
    BY <2>1 DEF EventInOrder
  <2> QED
    BY <2>2, <2>3, <2>4, <2>5 DEF EventInOrder
<1>10. final_usage_after_abort_reported' => abort_response_seen' /\ Settled'
  BY <1>1, <1>2, <1>3, <1>4, <1>6 DEF EventInOrder, Settled, Quiet
<1> QED
  BY <1>1, <1>7, <1>8, <1>9, <1>10, NoEventSound DEF EventsInOrder

------------------------------------------------------------------------------
(* The count.                                                                *)

\* What an event will add to the count when it is read.
Announced(event) == IF event.type = "turn_end" THEN event.tokens ELSE 0

\* A running total of the count along the pipe: total[i] is what will have been counted
\* once the first i events are read. It ends below what pi has spent, and no stats in
\* the pipe say less than what will have been counted when they are read.
Totals(total) ==
    /\ counted_tokens + Announced(line_in_hand) <= total[0]
    /\ \A i \in 1 .. Len(stdout) : total[i - 1] + Announced(stdout[i]) <= total[i]
    /\ \A i, j \in 0 .. Len(stdout) : i <= j => total[i] <= total[j]
    /\ EarlierTokens + total[Len(stdout)] + turn_usage <= session_tokens
    /\ \A i \in 1 .. Len(stdout) :
         stdout[i].type = "stats" /\ stdout[i].tokens # NoTokens =>
            EarlierTokens + total[i] <= stdout[i].tokens

Covered == \E total \in [0 .. Len(stdout) -> Nat] : Totals(total)

\* The baseline is never below what was counted, and is just that once it was read before
\* the run spent anything.
BaselineHolds ==
    /\ session_cumulative_token_baseline # NoTokens =>
         /\ stats_read # <<>>
         /\ EarlierTokens + counted_tokens <= session_cumulative_token_baseline
    /\ Anchored =>
         /\ session_cumulative_token_baseline # NoTokens
         /\ ~final_usage_after_abort_reported =>
               session_cumulative_token_baseline = EarlierTokens + counted_tokens
    /\ ~usage_bearing_deltas_seen => counted_tokens = 0 /\ latest_usage = 0

StatsInHandCover ==
    line_in_hand.type = "stats" /\ line_in_hand.tokens # NoTokens =>
        EarlierTokens + counted_tokens <= line_in_hand.tokens

CountInv ==
    /\ Covered /\ BaselineHolds /\ StatsInHandCover
    /\ AbortedRunIsFullyCounted

LEMMA EarlierNat == EarlierTokens \in Nat
  BY PiAssumption

LEMMA AnnouncedNat == \A event : Sound(event) => Announced(event) \in Nat
  BY DEF Sound, Announced

LEMMA CoveredIsEnough ==
    ASSUME Typed, Covered
    PROVE  NothingCountedTwice
<1> USE EarlierNat
<1>1. PICK total \in [0 .. Len(stdout) -> Nat] : Totals(total)
  BY DEF Covered
<1>2. /\ Len(stdout) \in Nat /\ counted_tokens \in Nat /\ turn_usage \in Nat
      /\ session_tokens \in Nat
  BY DEF Typed, TypeOK
<1>3. Announced(line_in_hand) \in Nat
  BY AnnouncedNat DEF Typed, EventsSound
<1>4. /\ total[0] \in Nat /\ total[Len(stdout)] \in Nat
      /\ total[0] <= total[Len(stdout)]
  BY <1>1, <1>2 DEF Totals
<1>5. /\ counted_tokens + Announced(line_in_hand) <= total[0]
      /\ EarlierTokens + total[Len(stdout)] + turn_usage <= session_tokens
  BY <1>1 DEF Totals
<1> QED
  BY <1>2, <1>3, <1>4, <1>5 DEF NothingCountedTwice, Spent

\* What pi spends and announces in a step, and what its stats say.
SpendsBy(event) ==
    /\ PiWrites(event)
    /\ session_tokens + Announced(event) + turn_usage' <= session_tokens' + turn_usage
    /\ event.type = "stats" => event.tokens \in {session_tokens, NoTokens}

LEMMA WritesEvent ==
    ASSUME NEW type \in {"state", "stats", "abort", "tool", "turn_end", "agent_end"},
           NEW tokens \in Nat \cup {NoTokens},
           NEW signature \in Signatures \cup {NoSignature},
           type # "stats" => tokens \in Nat, type = "tool" => signature \in Signatures,
           Emits(Event(type, tokens, signature))
    PROVE  \E event : /\ PiWrites(event) /\ event.type = type /\ event.tokens = tokens
                      /\ type # "turn_end" => Announced(event) = 0
                      /\ type = "turn_end" => Announced(event) = tokens
<1>1. PICK event : event = Event(type, tokens, signature)
  OBVIOUS
<1>2. /\ event \in Events /\ event.type = type /\ event.tokens = tokens
      /\ event.signature = signature
  BY <1>1, EventIs DEF EventTypes
<1>3. Sound(event)
  BY <1>2 DEF Sound
<1>4. PiWrites(event)
  BY <1>1, <1>2, <1>3 DEF PiWrites, Emits
<1> QED
  BY <1>2, <1>4 DEF Announced

LEMMA PiSpends ==
    ASSUME Typed, PiSteps
    PROVE  \/ /\ UNCHANGED stdout
              /\ session_tokens + turn_usage' <= session_tokens' + turn_usage
           \/ \E event : SpendsBy(event)
<1>0. /\ turn_usage \in Nat /\ session_tokens \in Nat /\ Usages \subseteq Nat
      /\ 0 \in Nat \cup {NoTokens} /\ NoSignature \in Signatures \cup {NoSignature}
  BY PiAssumption DEF Typed, TypeOK
\* Who announces no turn's end and gives no tokens back.
<1>1. ASSUME NEW event, PiWrites(event), Announced(event) = 0, NEW usage \in Nat,
             session_tokens' = session_tokens + usage,
             turn_usage' = turn_usage \/ turn_usage' = 0,
             event.type = "stats" => event.tokens \in {session_tokens, NoTokens}
      PROVE  SpendsBy(event)
  <2>1. PICK n \in Nat, u \in Nat, v \in Nat :
          n = session_tokens /\ u = turn_usage /\ v = turn_usage' /\ v <= u
    BY <1>0, <1>1
  <2>2. v <= u
    BY <2>1
  <2>3. n + 0 + v <= (n + usage) + u
    BY ONLY <2>2
  <2> QED
    BY <1>1, <2>1, <2>3 DEF SpendsBy
<1>2. CASE PiTakesPrompt
  BY <1>0, <1>2 DEF PiTakesPrompt
<1>3. CASE PiReportsState
  <2>1. PICK event : PiWrites(event) /\ event.type = "state" /\ Announced(event) = 0
    BY <1>0, <1>3, WritesEvent DEF PiReportsState
  <2>2. session_tokens' = session_tokens + 0 /\ turn_usage' = turn_usage
    BY <1>0, <1>3 DEF PiReportsState, piVars
  <2> QED
    BY <1>1, <2>1, <2>2
<1>4. CASE PiReportsStats
  <2>1. PICK tokens \in {session_tokens, NoTokens} :
          Emits(Event("stats", tokens, NoSignature))
    BY <1>4 DEF PiReportsStats
  <2>2. tokens \in Nat \cup {NoTokens}
    BY <1>0
  <2>3. PICK event : PiWrites(event) /\ event.tokens = tokens /\ Announced(event) = 0
    BY <1>0, <2>1, <2>2, WritesEvent
  <2>4. session_tokens' = session_tokens + 0 /\ turn_usage' = turn_usage
    BY <1>0, <1>4 DEF PiReportsStats, piVars
  <2> QED
    BY <1>1, <2>3, <2>4
<1>5. CASE PiAborts
  <2>1. PICK usage \in Nat : session_tokens' = session_tokens + usage
    BY <1>0, <1>5 DEF PiAborts
  <2>2. Emits(Event("abort", 0, NoSignature)) /\ turn_usage' = 0
    BY <1>5 DEF PiAborts
  <2>3. PICK event : PiWrites(event) /\ event.type = "abort" /\ Announced(event) = 0
    BY <1>0, <2>2, WritesEvent
  <2> QED
    BY <1>1, <2>1, <2>2, <2>3
<1>6. CASE PiCompletesMessage
  <2>1. PICK usage \in Nat :
          turn_usage' = usage /\ session_tokens' = session_tokens + usage
    BY <1>0, <1>6 DEF PiCompletesMessage
  <2>2. PICK n \in Nat, u \in Nat : n = session_tokens /\ u = turn_usage
    BY <1>0
  <2>3. n + usage <= (n + usage) + u
    OBVIOUS
  <2>4. UNCHANGED stdout
    BY <1>6 DEF PiCompletesMessage
  <2> QED
    BY <2>1, <2>2, <2>3, <2>4
<1>7. CASE PiCallsTool
  <2>1. PICK signature \in Signatures : Emits(Event("tool", 0, signature))
    BY <1>7 DEF PiCallsTool
  <2>2. PICK event : PiWrites(event) /\ event.type = "tool" /\ Announced(event) = 0
    BY <1>0, <2>1, WritesEvent
  <2>3. session_tokens' = session_tokens + 0 /\ turn_usage' = turn_usage
    BY <1>0, <1>7 DEF PiCallsTool
  <2> QED
    BY <1>1, <2>2, <2>3
<1>8. CASE PiEndsTurn
  <2>1. /\ Emits(Event("turn_end", turn_usage, NoSignature)) /\ turn_usage' = 0
        /\ session_tokens' = session_tokens
    BY <1>8 DEF PiEndsTurn
  <2>2. PICK event : /\ PiWrites(event) /\ event.type = "turn_end"
                     /\ Announced(event) = turn_usage
    BY <1>0, <2>1, WritesEvent
  <2>3. PICK n \in Nat, u \in Nat : n = session_tokens /\ u = turn_usage
    BY <1>0
  <2>4. n + u + 0 <= n + u
    OBVIOUS
  <2> QED
    BY <2>1, <2>2, <2>3, <2>4 DEF SpendsBy
<1>9. CASE PiEndsAgent
  <2>1. PICK event : PiWrites(event) /\ event.type = "agent_end" /\ Announced(event) = 0
    BY <1>0, <1>9, WritesEvent DEF PiEndsAgent
  <2>2. session_tokens' = session_tokens + 0 /\ turn_usage' = turn_usage
    BY <1>0, <1>9 DEF PiEndsAgent
  <2> QED
    BY <1>1, <2>1, <2>2
<1> QED
  BY <1>2, <1>3, <1>4, <1>5, <1>6, <1>7, <1>8, <1>9 DEF PiSteps

LEMMA PiCovered ==
    ASSUME Typed, Covered, PiSteps
    PROVE  Covered'
<1> USE EarlierNat
<1>1. PICK total \in [0 .. Len(stdout) -> Nat] : Totals(total)
  BY DEF Covered
<1>2. /\ UNCHANGED <<counted_tokens, line_in_hand>>
      /\ turn_usage' \in Nat /\ session_tokens' \in Nat
  BY PiWorks DEF countVars, runnerVars
<1>3. turn_usage \in Nat /\ session_tokens \in Nat /\ Len(stdout) \in Nat
  BY DEF Typed, TypeOK
<1>4. total[Len(stdout)] \in Nat /\ \A i \in 0 .. Len(stdout) : total[i] \in Nat
  BY <1>1, <1>3
<1>5. CASE /\ UNCHANGED stdout
           /\ session_tokens + turn_usage' <= session_tokens' + turn_usage
  <2>1. EarlierTokens + total[Len(stdout)] + turn_usage <= session_tokens
    BY <1>1 DEF Totals
  <2>2. EarlierTokens + total[Len(stdout)] + turn_usage' <= session_tokens'
    <3>1. PICK e \in Nat, x \in Nat, u \in Nat, n \in Nat, v \in Nat, m \in Nat :
            /\ e = EarlierTokens /\ x = total[Len(stdout)]
            /\ u = turn_usage /\ n = session_tokens
            /\ v = turn_usage' /\ m = session_tokens'
      BY <1>2, <1>3, <1>4
    <3>2. e + x + u <= n /\ n + v <= m + u
      BY <1>5, <2>1, <3>1
    <3>3. e + x + v <= m
      BY ONLY <3>2
    <3> QED
      BY <3>1, <3>3
  <2>3. Totals(total)'
    BY <1>1, <1>2, <1>5, <2>2 DEF Totals
  <2> QED
    BY <1>5, <2>3 DEF Covered
<1>6. ASSUME NEW event, SpendsBy(event)
      PROVE  Covered'
  <2>1. PICK n \in Nat : n = Len(stdout)
    BY <1>3
  <2>2. /\ PiWrites(event)
        /\ session_tokens + Announced(event) + turn_usage' <= session_tokens' + turn_usage
        /\ event.type = "stats" => event.tokens \in {session_tokens, NoTokens}
    BY <1>6 DEF SpendsBy
  <2>3. /\ Len(stdout') = n + 1 /\ stdout'[n + 1] = event
        /\ \A i \in 1 .. n : stdout'[i] = stdout[i]
    BY <2>1, <2>2, Written DEF PiWrites, Typed, TypeOK, Sound
  <2>4. Announced(event) \in Nat
    BY <2>2, AnnouncedNat DEF PiWrites
  <2>5. PICK next \in [0 .. n + 1 -> Nat] :
          /\ next[n + 1] = total[n] + Announced(event)
          /\ \A i \in 0 .. n : next[i] = total[i]
    <3> DEFINE longer == [i \in 0 .. n + 1 |->
                            IF i = n + 1 THEN total[n] + Announced(event) ELSE total[i]]
    <3>1. longer \in [0 .. n + 1 -> Nat]
      BY <1>4, <2>1, <2>4
    <3>2. longer[n + 1] = total[n] + Announced(event) /\ \A i \in 0 .. n : longer[i] = total[i]
      OBVIOUS
    <3> HIDE DEF longer
    <3> QED
      BY <3>1, <3>2
  <2>6. \A i \in 0 .. n : total[i] \in Nat
    BY <1>4, <2>1
  <2>7. counted_tokens' + Announced(line_in_hand') <= next[0]
    BY <1>1, <1>2, <2>5 DEF Totals
  <2>8. ASSUME NEW i \in 1 .. n + 1
        PROVE  next[i - 1] + Announced(stdout'[i]) <= next[i]
    <3>1. CASE i \in 1 .. n
      <4>1. total[i - 1] + Announced(stdout[i]) <= total[i]
        BY <1>1, <2>1, <3>1 DEF Totals
      <4>2. PICK k \in 0 .. n : k = i - 1
        BY <3>1
      <4>3. i \in 0 .. n
        BY <3>1
      <4>4. next[k] = total[k] /\ next[i] = total[i]
        BY <2>5, <4>3
      <4>5. stdout'[i] = stdout[i]
        BY <2>3, <3>1
      <4> QED
        BY <4>1, <4>2, <4>4, <4>5
    <3>2. CASE i = n + 1
      <4>1. i - 1 = n /\ next[n] = total[n] /\ total[n] \in Nat
        BY <2>5, <2>6, <3>2
      <4> QED
        BY <2>3, <2>4, <2>5, <3>2, <4>1
    <3>3. i \in 1 .. n \/ i = n + 1
      OBVIOUS
    <3> QED
      BY <3>1, <3>2, <3>3
  <2>9. ASSUME NEW i \in 0 .. n + 1, NEW j \in 0 .. n + 1, i <= j
        PROVE  next[i] <= next[j]
    <3>1. \A k, l \in 0 .. n : k <= l => total[k] <= total[l]
      BY <1>1, <2>1 DEF Totals
    <3>2. CASE j \in 0 .. n
      <4>1. i \in 0 .. n
        BY <2>9, <3>2
      <4> QED
        BY <2>5, <2>9, <3>1, <3>2, <4>1
    <3>3. CASE i \in 0 .. n /\ j = n + 1
      <4>1. next[i] = total[i] /\ total[i] <= total[n] /\ total[i] \in Nat /\ total[n] \in Nat
        BY <2>5, <2>6, <3>1, <3>3
      <4> QED
        BY <2>4, <2>5, <3>3, <4>1
    <3>4. CASE i = n + 1 /\ j = n + 1
      BY <2>5, <3>4
    <3>5. (i \in 0 .. n \/ i = n + 1) /\ (j \in 0 .. n \/ j = n + 1)
      OBVIOUS
    <3>6. i = n + 1 => j = n + 1
      BY <2>9
    <3> QED
      BY <3>2, <3>3, <3>4, <3>5, <3>6
  <2>10. EarlierTokens + next[n + 1] + turn_usage' <= session_tokens'
    <3>1. EarlierTokens + total[n] + turn_usage <= session_tokens /\ total[n] \in Nat
      BY <1>1, <2>1, <2>6 DEF Totals
    <3>2. PICK e \in Nat, x \in Nat, a \in Nat, u \in Nat, k \in Nat, v \in Nat, m \in Nat :
            /\ e = EarlierTokens /\ x = total[n] /\ a = Announced(event)
            /\ u = turn_usage /\ k = session_tokens
            /\ v = turn_usage' /\ m = session_tokens'
      BY <1>2, <1>3, <2>4, <3>1
    <3>3. e + x + u <= k /\ k + a + v <= m + u
      BY <2>2, <3>1, <3>2
    <3>4. e + (x + a) + v <= m
      BY ONLY <3>3
    <3> QED
      BY <2>5, <3>2, <3>4
  <2>11. ASSUME NEW i \in 1 .. n + 1, stdout'[i].type = "stats",
                stdout'[i].tokens # NoTokens
         PROVE  EarlierTokens + next[i] <= stdout'[i].tokens
    <3>1. CASE i \in 1 .. n
      <4>1. next[i] = total[i] /\ stdout'[i] = stdout[i]
        BY <2>3, <2>5, <3>1
      <4> QED
        BY <1>1, <2>1, <2>11, <3>1, <4>1 DEF Totals
    <3>2. CASE i = n + 1
      <4>1. event.tokens = session_tokens /\ Announced(event) = 0
        BY <2>3, <2>2, <2>11, <3>2 DEF Announced
      <4>2. EarlierTokens + total[n] + turn_usage <= session_tokens /\ total[n] \in Nat
        BY <1>1, <2>1, <2>6 DEF Totals
      <4>3. PICK x \in Nat, u \in Nat, k \in Nat :
              x = total[n] /\ u = turn_usage /\ k = session_tokens
        BY <1>3, <4>2
      <4>4. EarlierTokens + x + u <= k
        BY <4>2, <4>3
      <4>5. EarlierTokens + x <= k
        BY <4>4
      <4>6. next[n + 1] = x
        BY <2>5, <4>1, <4>3
      <4> QED
        BY <2>3, <3>2, <4>1, <4>3, <4>5, <4>6
    <3>3. i \in 1 .. n \/ i = n + 1
      OBVIOUS
    <3> QED
      BY <3>1, <3>2, <3>3
  <2>12. Totals(next)'
    BY <2>3, <2>7, <2>8, <2>9, <2>10, <2>11 DEF Totals
  <2> QED
    BY <2>3, <2>5, <2>12 DEF Covered
<1> QED
  BY <1>5, <1>6, PiSpends

\* An event read cuts the total: what it announced moves on to whoever holds it.
LEMMA TakesCovered ==
    ASSUME Typed, Typed', Covered, Takes, line_in_hand = NoEvent,
           UNCHANGED <<turn_usage, session_tokens>>
    PROVE  /\ stdout[1].type = "stats" /\ stdout[1].tokens # NoTokens =>
                EarlierTokens + counted_tokens <= stdout[1].tokens
           /\ counted_tokens' + Announced(line_in_hand')
                <= counted_tokens + Announced(stdout[1]) => Covered'
<1> USE EarlierNat
<1>0. PICK n \in Nat : n = Len(stdout') /\ Len(stdout) = n + 1
  <2>1. Len(stdout') = Len(stdout) - 1 /\ Len(stdout) \in Nat /\ Len(stdout) > 0
    BY TakesSound
  <2> QED
    BY ONLY <2>1
<1>1. /\ \A i \in 1 .. n : stdout'[i] = stdout[i + 1]
      /\ counted_tokens \in Nat /\ Sound(stdout[1]) /\ Announced(stdout[1]) \in Nat
      /\ Announced(line_in_hand) = 0
  BY <1>0, TakesSound, AnnouncedNat, NoEventSound DEF Typed, TypeOK, Announced
<1>2. PICK total \in [0 .. n + 1 -> Nat] : Totals(total)
  BY <1>0 DEF Covered
<1>3. total[0] \in Nat /\ total[1] \in Nat /\ total[0] <= total[1]
      /\ counted_tokens <= total[0] /\ total[0] + Announced(stdout[1]) <= total[1]
  <2>1. counted_tokens + Announced(line_in_hand) <= total[0]
    BY <1>2 DEF Totals
  <2>2. total[1 - 1] + Announced(stdout[1]) <= total[1] /\ total[0] <= total[1]
    BY <1>0, <1>2 DEF Totals
  <2> QED
    BY <1>0, <1>1, <1>2, <2>1, <2>2
<1>4. ASSUME stdout[1].type = "stats", stdout[1].tokens # NoTokens
      PROVE  EarlierTokens + counted_tokens <= stdout[1].tokens
  <2>1. EarlierTokens + total[1] <= stdout[1].tokens
    BY <1>0, <1>2, <1>4 DEF Totals
  <2>2. stdout[1].tokens \in Nat
    BY <1>1, <1>4 DEF Sound, Events
  <2> QED
    BY <1>1, <1>3, <2>1, <2>2
<1>5. ASSUME counted_tokens' + Announced(line_in_hand')
               <= counted_tokens + Announced(stdout[1])
      PROVE  Covered'
  <2>1. PICK next \in [0 .. n -> Nat] : \A i \in 0 .. n : next[i] = total[i + 1]
    <3> DEFINE shorter == [i \in 0 .. n |-> total[i + 1]]
    <3>1. shorter \in [0 .. n -> Nat] /\ \A i \in 0 .. n : shorter[i] = total[i + 1]
      BY <1>0
    <3> HIDE DEF shorter
    <3> QED
      BY <3>1
  <2>2. counted_tokens' + Announced(line_in_hand') <= next[0]
    <3>1. next[0] = total[1] /\ counted_tokens + Announced(stdout[1]) <= total[1]
      BY <1>0, <1>1, <1>3, <2>1
    <3>2. counted_tokens' \in Nat /\ Announced(line_in_hand') \in Nat
      BY AnnouncedNat DEF Typed, TypeOK, EventsSound
    <3>3. PICK c \in Nat, a \in Nat, x \in Nat, d \in Nat, b \in Nat :
            /\ c = counted_tokens /\ a = Announced(stdout[1]) /\ x = total[1]
            /\ d = counted_tokens' /\ b = Announced(line_in_hand')
      BY <1>1, <1>3, <3>2
    <3>4. d + b <= c + a /\ c + a <= x
      BY <1>5, <3>1, <3>3
    <3>5. d + b <= x
      BY ONLY <3>4
    <3> QED
      BY <3>1, <3>3, <3>5
  <2>3. ASSUME NEW i \in 1 .. n
        PROVE  next[i - 1] + Announced(stdout'[i]) <= next[i]
    <3>0. PICK k \in 1 .. Len(stdout) : k = i + 1 /\ k - 1 = i
      BY <1>0
    <3>1. total[k - 1] + Announced(stdout[k]) <= total[k]
      BY <1>2, <3>0 DEF Totals
    <3>2. PICK j \in 0 .. n : j = i - 1 /\ j + 1 = k - 1
      BY <3>0
    <3>3. next[j] = total[j + 1]
      BY <2>1
    <3>4. i \in 0 .. n
      OBVIOUS
    <3>5. next[i] = total[i + 1]
      BY <2>1, <3>4
    <3>6. stdout'[i] = stdout[i + 1]
      BY <1>1
    <3>7. next[i - 1] = total[k - 1]
      BY <3>2, <3>3
    <3>8. next[i] = total[k] /\ stdout'[i] = stdout[k]
      BY <3>0, <3>5, <3>6
    <3> QED
      BY <3>1, <3>7, <3>8
  <2>4. ASSUME NEW i \in 0 .. n, NEW j \in 0 .. n, i <= j
        PROVE  next[i] <= next[j]
    <3>0. i + 1 \in 0 .. Len(stdout) /\ j + 1 \in 0 .. Len(stdout) /\ i + 1 <= j + 1
      BY <1>0, <2>4
    <3>1. total[i + 1] <= total[j + 1]
      BY <1>2, <3>0 DEF Totals
    <3> QED
      BY <2>1, <3>1
  <2>5. EarlierTokens + next[n] + turn_usage' <= session_tokens'
    BY <1>0, <1>2, <2>1 DEF Totals
  <2>6. ASSUME NEW i \in 1 .. n, stdout'[i].type = "stats", stdout'[i].tokens # NoTokens
        PROVE  EarlierTokens + next[i] <= stdout'[i].tokens
    <3>0. PICK k \in 1 .. Len(stdout) : k = i + 1
      BY <1>0
    <3>1. next[i] = total[k] /\ stdout'[i] = stdout[k]
      BY <1>1, <2>1, <3>0
    <3>2. EarlierTokens + total[k] <= stdout[k].tokens
      BY <1>2, <2>6, <3>1 DEF Totals
    <3> QED
      BY <3>1, <3>2
  <2>7. Totals(next)'
    BY <1>0, <2>2, <2>3, <2>4, <2>5, <2>6 DEF Totals
  <2> QED
    BY <1>0, <2>1, <2>7 DEF Covered
<1> QED
  BY <1>4, <1>5

\* The totals read so far, after one more.
LEMMA StatsRead ==
    ASSUME Typed, NEW event, Sound(event), ReadsStats(event)
    PROVE  /\ stats_read' # <<>>
           /\ stats_read'[Len(stats_read')] = event.tokens
           /\ Anchored' <=> \/ Anchored
                            \/ stats_read = <<>> /\ event.tokens = EarlierTokens
<1>1. /\ stats_read \in Seq(Nat \cup {NoTokens})
      /\ event.tokens \in Nat \cup {NoTokens}
      /\ stats_read' = Append(stats_read, event.tokens)
  BY DEF Typed, TypeOK, Sound, Events, ReadsStats
<1>2. /\ Len(stats_read) \in Nat /\ Len(stats_read') = Len(stats_read) + 1
      /\ \A i \in 1 .. Len(stats_read) : stats_read'[i] = stats_read[i]
      /\ stats_read'[Len(stats_read) + 1] = event.tokens
      /\ stats_read' \in Seq(Nat \cup {NoTokens})
  BY <1>1, Written
<1>3. stats_read' # <<>>
  BY <1>2
<1>4. CASE stats_read = <<>>
  BY <1>2, <1>3, <1>4 DEF Anchored
<1>5. CASE stats_read # <<>>
  <2>1. 1 \in 1 .. Len(stats_read)
    BY <1>1, <1>5
  <2> QED
    BY <1>2, <1>3, <1>5, <2>1 DEF Anchored
<1> QED
  BY <1>2, <1>3, <1>4, <1>5

\* A later total counts what it says beyond the baseline, and no more than it says.
LEMMA StatsCount ==
    ASSUME Typed, BaselineHolds, NEW event, Sound(event), NormalizeStats(event),
           EarlierTokens + counted_tokens <= event.tokens
    PROVE  /\ event.tokens \in Nat
           /\ EarlierTokens + counted_tokens' <= event.tokens
           /\ session_cumulative_token_baseline' = event.tokens
           /\ counted_tokens <= counted_tokens'
           /\ ~usage_bearing_deltas_seen' =>
                ~usage_bearing_deltas_seen /\ counted_tokens' = counted_tokens
           /\ session_cumulative_token_baseline = EarlierTokens + counted_tokens =>
                EarlierTokens + counted_tokens' = event.tokens
<1> USE EarlierNat
<1>1. /\ event.tokens \in Nat /\ session_cumulative_token_baseline \in Nat
      /\ session_cumulative_token_baseline' = event.tokens
      /\ counted_tokens \in Nat
      /\ EarlierTokens + counted_tokens <= session_cumulative_token_baseline
  BY DEF NormalizeStats, Sound, Events, Typed, TypeOK, BaselineHolds
<1>2. CASE event.tokens > session_cumulative_token_baseline
  <2>1. /\ Unreported(event.tokens) = event.tokens - session_cumulative_token_baseline
        /\ Unreported(event.tokens) > 0
    BY <1>1, <1>2 DEF Unreported
  <2>2. CountsDelta(Unreported(event.tokens))
    BY <2>1 DEF NormalizeStats
  <2>3. /\ counted_tokens' =
             counted_tokens + (event.tokens - session_cumulative_token_baseline)
        /\ usage_bearing_deltas_seen' = TRUE
    BY <2>1, <2>2 DEF CountsDelta
  <2>4. PICK e \in Nat, c \in Nat, b \in Nat, t \in Nat :
          /\ e = EarlierTokens /\ c = counted_tokens /\ t = event.tokens
          /\ b = session_cumulative_token_baseline
    BY <1>1
  <2>5. e + c <= b /\ t > b
    BY <1>1, <1>2, <2>4
  <2>6. e + (c + (t - b)) <= t /\ c <= c + (t - b) /\ (b = e + c => e + (c + (t - b)) = t)
    BY ONLY <2>5
  <2>7. counted_tokens' = c + (t - b)
    BY <2>3, <2>4
  <2> QED
    BY <1>1, <2>3, <2>4, <2>6, <2>7
<1>3. CASE ~(event.tokens > session_cumulative_token_baseline)
  <2>1. UNCHANGED countVars
    BY <1>1, <1>3 DEF NormalizeStats, Unreported
  <2>2. counted_tokens' = counted_tokens
        /\ usage_bearing_deltas_seen' = usage_bearing_deltas_seen
    BY <2>1 DEF countVars
  <2> QED
    BY <1>1, <1>3, <2>2
<1> QED
  BY <1>2, <1>3

\* What normalize counts: no more than its event announced, or what a later total says.
LEMMA NormalizeCounts ==
    ASSUME Typed, Typed', BaselineHolds, NEW event, Sound(event), Normalize(event),
           ~final_usage_after_abort_reported,
           event.type = "stats" /\ event.tokens # NoTokens =>
               EarlierTokens + counted_tokens <= event.tokens
    PROVE  /\ BaselineHolds'
           /\ counted_tokens' <= counted_tokens + Announced(event)
              \/ NormalizeStats(event)
<1> USE EarlierNat
<1>0. /\ counted_tokens \in Nat /\ Announced(event) \in Nat
      /\ event.tokens \in Nat \cup {NoTokens}
      /\ session_cumulative_token_baseline \in Nat \cup {NoTokens}
  BY AnnouncedNat DEF Typed, TypeOK, Sound, Events
<1>10. ASSUME counted_tokens' = counted_tokens
       PROVE  counted_tokens' <= counted_tokens + Announced(event)
  <2>1. PICK c \in Nat, a \in Nat : c = counted_tokens /\ a = Announced(event)
    BY <1>0
  <2>2. c <= c + a
    OBVIOUS
  <2> QED
    BY <1>10, <2>1, <2>2
<1>1. ASSUME UNCHANGED <<session_cumulative_token_baseline, stats_read, counted_tokens,
                         final_usage_after_abort_reported, latest_usage,
                         usage_bearing_deltas_seen>>
      PROVE  BaselineHolds' /\ counted_tokens' <= counted_tokens + Announced(event)
  <2>1. BaselineHolds'
    BY <1>1 DEF BaselineHolds, Anchored
  <2> QED
    BY <1>1, <1>10, <2>1
<1>2. CASE NormalizeStateResponse(event)
  BY <1>1, <1>2 DEF NormalizeStateResponse, normalizerVars, countVars
<1>3. CASE NormalizeAbortResponse(event)
  BY <1>1, <1>3 DEF NormalizeAbortResponse, countVars
<1>4. CASE NormalizeToolCall(event)
  BY <1>1, <1>4 DEF NormalizeToolCall, normalizerVars, countVars
<1>5. CASE NormalizeAgentEnd(event)
  <2>1. UNCHANGED normalizerVars
    BY <1>5 DEF NormalizeAgentEnd
  <2>2. CASE usage_bearing_deltas_seen
    <3>1. UNCHANGED countVars
      BY <1>5, <2>2 DEF NormalizeAgentEnd
    <3> QED
      BY <1>1, <2>1, <3>1 DEF normalizerVars, countVars
  <2>3. CASE ~usage_bearing_deltas_seen
    <3>1. latest_usage = 0 /\ counted_tokens = 0
      BY <2>3 DEF BaselineHolds
    <3>2. CountsDelta(latest_usage)
      BY <1>5, <2>3 DEF NormalizeAgentEnd
    <3>3. counted_tokens' = counted_tokens /\ usage_bearing_deltas_seen' = TRUE
      BY <3>1, <3>2 DEF CountsDelta
    <3>4. UNCHANGED <<session_cumulative_token_baseline, stats_read,
                      final_usage_after_abort_reported, latest_usage>>
      BY <2>1 DEF normalizerVars
    <3>5. BaselineHolds'
      BY <3>3, <3>4 DEF BaselineHolds, Anchored
    <3> QED
      BY <1>10, <3>3, <3>5
  <2> QED
    BY <2>2, <2>3
<1>6. CASE NormalizeTurnEnd(event)
  <2>1. /\ event.tokens \in Nat /\ Announced(event) = event.tokens
        /\ counted_tokens' = counted_tokens + event.tokens
        /\ usage_bearing_deltas_seen' = TRUE
        /\ UNCHANGED <<stats_read, final_usage_after_abort_reported>>
        /\ session_cumulative_token_baseline' =
             IF session_cumulative_token_baseline = NoTokens THEN NoTokens
             ELSE session_cumulative_token_baseline + event.tokens
    BY <1>6 DEF NormalizeTurnEnd, CountsDelta, Announced, Sound
  <2>2. Anchored' <=> Anchored
    BY <2>1 DEF Anchored
  <2>5. counted_tokens' <= counted_tokens + Announced(event)
    <3>1. PICK c \in Nat, a \in Nat : c = counted_tokens /\ a = Announced(event)
      BY <1>0
    <3>2. counted_tokens' = c + a
      BY <2>1, <3>1
    <3>3. c + a \in Nat
      OBVIOUS
    <3> QED
      BY <3>1, <3>2, <3>3
  <2>3. CASE session_cumulative_token_baseline = NoTokens
    <3>1. ~Anchored /\ session_cumulative_token_baseline' = NoTokens
      BY <2>1, <2>3 DEF BaselineHolds
    <3>2. BaselineHolds'
      BY <2>1, <2>2, <3>1 DEF BaselineHolds
    <3> QED
      BY <2>1, <2>5, <3>2
  <2>4. CASE session_cumulative_token_baseline # NoTokens
    <3>1. PICK e \in Nat, c \in Nat, b \in Nat, t \in Nat :
            /\ e = EarlierTokens /\ c = counted_tokens /\ t = event.tokens
            /\ b = session_cumulative_token_baseline
      BY <1>0, <2>1, <2>4
    <3>2. e + c <= b /\ (Anchored => b = e + c) /\ stats_read # <<>>
      BY <2>4, <3>1 DEF BaselineHolds
    <3>3. counted_tokens' = c + t /\ session_cumulative_token_baseline' = b + t
      BY <2>1, <2>4, <3>1
    <3>4. e + (c + t) <= b + t /\ (b = e + c => b + t = e + (c + t)) /\ b + t # -1
      BY ONLY <3>2
    <3>5. BaselineHolds'
      BY <2>1, <2>2, <3>1, <3>2, <3>3, <3>4 DEF BaselineHolds, NoTokens
    <3> QED
      BY <2>1, <2>5, <3>5
  <2> QED
    BY <2>3, <2>4
<1>7. CASE NormalizeEmptyStats(event)
  <2>1. /\ event.tokens = NoTokens /\ ReadsStats(event)
        /\ UNCHANGED <<session_cumulative_token_baseline, counted_tokens, latest_usage,
                       usage_bearing_deltas_seen>>
    BY <1>7 DEF NormalizeEmptyStats, ReadsStats, countVars
  <2>2. stats_read' # <<>> /\ (Anchored' => Anchored)
    BY <2>1, StatsRead DEF NoTokens
  <2>3. BaselineHolds'
    BY <2>1, <2>2 DEF BaselineHolds
  <2> QED
    BY <1>10, <2>1, <2>3
<1>8. CASE NormalizeFirstStats(event)
  <2>1. /\ event.type = "stats" /\ event.tokens # NoTokens /\ ReadsStats(event)
        /\ session_cumulative_token_baseline = NoTokens
        /\ session_cumulative_token_baseline' = event.tokens
        /\ UNCHANGED <<counted_tokens, latest_usage, usage_bearing_deltas_seen>>
    BY <1>8 DEF NormalizeFirstStats, ReadsStats, countVars
  <2>2. stats_read' # <<>> /\ (Anchored' => event.tokens = EarlierTokens)
    BY <2>1, StatsRead DEF BaselineHolds
  <2>3. event.tokens \in Nat /\ EarlierTokens + counted_tokens <= event.tokens
    BY <1>0, <2>1
  <2>4. event.tokens = EarlierTokens => event.tokens = EarlierTokens + counted_tokens
    BY <1>0, <2>3
  <2>5. BaselineHolds'
    BY <2>1, <2>2, <2>3, <2>4 DEF BaselineHolds
  <2> QED
    BY <1>10, <2>1, <2>5
<1>9. CASE NormalizeStats(event)
  <2>1. /\ event.type = "stats" /\ event.tokens # NoTokens /\ ReadsStats(event)
        /\ session_cumulative_token_baseline # NoTokens
        /\ UNCHANGED latest_usage
    BY <1>9 DEF NormalizeStats, ReadsStats
  <2>2. /\ stats_read' # <<>> /\ (Anchored' => Anchored)
    BY <2>1, StatsRead DEF BaselineHolds
  <2>3. /\ EarlierTokens + counted_tokens' <= event.tokens
        /\ session_cumulative_token_baseline' = event.tokens
        /\ ~usage_bearing_deltas_seen' =>
             ~usage_bearing_deltas_seen /\ counted_tokens' = counted_tokens
        /\ session_cumulative_token_baseline = EarlierTokens + counted_tokens =>
             EarlierTokens + counted_tokens' = event.tokens
    BY <1>9, <2>1, StatsCount
  <2>4. BaselineHolds'
    BY <2>1, <2>2, <2>3 DEF BaselineHolds
  <2> QED
    BY <1>9, <2>4
<1> QED
  BY <1>2, <1>3, <1>4, <1>5, <1>6, <1>7, <1>8, <1>9 DEF Normalize

LEMMA InitCounts ==
    ASSUME Init
    PROVE  InOrder /\ CountInv
<1> USE EarlierNat
<1>1. /\ stdin = <<"prompt", "get_state", "get_session_stats">> /\ stdout = <<>>
      /\ turn_usage = 0 /\ session_tokens = EarlierTokens
      /\ runner = "reading" /\ line_in_hand = NoEvent
      /\ session_cumulative_token_baseline = NoTokens
      /\ abort_response_seen = FALSE /\ final_usage_after_abort_reported = FALSE
      /\ latest_usage = 0 /\ stats_read = <<>> /\ counted_tokens = 0
  BY DEF Init
<1>2. Len(stdout) = 0 /\ \A i \in 1 .. Len(stdout) : FALSE
  BY <1>1
<1>3. Len(stdin) = 3 /\ stdin[1] = "prompt" /\ stdin[2] = "get_state"
      /\ stdin[3] = "get_session_stats" /\ \A k \in 1 .. Len(stdin) : k \in {1, 2, 3}
  BY <1>1
<1>4. AbortInOrder
  BY <1>1, <1>2, <1>3 DEF AbortInOrder, AbortAnswered
<1>5. RequestsInOrder
  BY <1>1, <1>2, <1>3, NoEventSound DEF RequestsInOrder, StatsUnread
<1>6. EventsInOrder
  BY <1>1, <1>2, NoEventSound DEF EventsInOrder
<1>7. Covered
  <2>1. PICK total \in [0 .. 0 -> Nat] : total[0] = 0
    <3> DEFINE nothing == [i \in 0 .. 0 |-> 0]
    <3>1. nothing \in [0 .. 0 -> Nat] /\ nothing[0] = 0
      OBVIOUS
    <3> HIDE DEF nothing
    <3> QED
      BY <3>1
  <2>2. Announced(line_in_hand) = 0
    BY <1>1, NoEventSound DEF Announced
  <2>3. Totals(total)
    BY <1>1, <1>2, <2>1, <2>2 DEF Totals
  <2> QED
    BY <1>2, <2>3 DEF Covered
<1>8. ~Anchored
  BY <1>1 DEF Anchored
<1>9. BaselineHolds /\ StatsInHandCover /\ AbortedRunIsFullyCounted
  BY <1>1, <1>8, NoEventSound
     DEF BaselineHolds, StatsInHandCover, AbortedRunIsFullyCounted
<1> QED
  BY <1>4, <1>5, <1>6, <1>7, <1>9 DEF InOrder, CountInv

\* Whoever changes nothing the baseline depends on.
LEMMA BaselineKept ==
    ASSUME BaselineHolds, UNCHANGED <<normalizerVars, countVars>>
    PROVE  BaselineHolds' /\ (Anchored' <=> Anchored)
  BY DEF BaselineHolds, Anchored, normalizerVars, countVars

\* Nothing is spent once the final usage is reported.
LEMMA PiCounts ==
    ASSUME Typed, CountInv, EventsInOrder, PiSteps
    PROVE  CountInv'
<1>1. UNCHANGED <<normalizerVars, countVars, runnerVars>>
  BY PiWorks
<1>2. Covered'
  BY PiCovered DEF CountInv
<1>3. BaselineHolds' /\ (Anchored' <=> Anchored)
  BY <1>1, BaselineKept DEF CountInv
<1>4. StatsInHandCover'
  BY <1>1 DEF CountInv, StatsInHandCover, countVars, runnerVars
<1>5. final_usage_after_abort_reported => session_tokens' = session_tokens
  <2>1. final_usage_after_abort_reported => stdin = <<>> /\ Quiet
    BY DEF EventsInOrder, Settled
  <2>2. \/ ~Quiet
        \/ session_tokens' = session_tokens
        \/ stdin # <<>>
    BY PiMoves DEF Handles
  <2> QED
    BY <2>1, <2>2
<1>6. AbortedRunIsFullyCounted'
  BY <1>1, <1>3, <1>5
     DEF CountInv, AbortedRunIsFullyCounted, Spent, normalizerVars, countVars
<1> QED
  BY <1>2, <1>3, <1>4, <1>6 DEF CountInv

LEMMA ReadsCounts ==
    ASSUME Typed, Typed', CountInv, RunnerReads
    PROVE  CountInv'
<1>1. /\ Takes /\ runner = "reading" /\ line_in_hand' = Head(stdout)
      /\ UNCHANGED <<turn_usage, session_tokens, normalizerVars, countVars>>
  BY DEF RunnerReads, Takes, piVars
<1>2. /\ line_in_hand = NoEvent /\ line_in_hand' = stdout[1] /\ Sound(stdout[1])
      /\ counted_tokens' = counted_tokens
  BY <1>1, TakesSound DEF Typed, EventsSound, countVars
<1>3. counted_tokens' + Announced(line_in_hand') <= counted_tokens + Announced(stdout[1])
  <2>1. counted_tokens \in Nat /\ Announced(stdout[1]) \in Nat
    BY <1>2, AnnouncedNat DEF Typed, TypeOK
  <2> QED
    BY <1>2, <2>1
<1>4. /\ Covered'
      /\ stdout[1].type = "stats" /\ stdout[1].tokens # NoTokens =>
           EarlierTokens + counted_tokens <= stdout[1].tokens
  BY <1>1, <1>2, <1>3, TakesCovered DEF CountInv
<1>5. StatsInHandCover'
  BY <1>2, <1>4 DEF StatsInHandCover
<1>6. BaselineHolds' /\ (Anchored' <=> Anchored)
  BY <1>1, BaselineKept DEF CountInv
<1>7. AbortedRunIsFullyCounted'
  BY <1>1, <1>6
     DEF CountInv, AbortedRunIsFullyCounted, Spent, normalizerVars, countVars
<1> QED
  BY <1>4, <1>5, <1>6, <1>7 DEF CountInv

\* No stats in hand are a later total: a run's own request is read first.
LEMMA HandlesCounts ==
    ASSUME Typed, Typed', CountInv, AbortInOrder, EventsInOrder, RunnerHandlesLine
    PROVE  CountInv'
<1>1. /\ runner = "in_hand" /\ line_in_hand' = NoEvent
      /\ Normalize(line_in_hand) /\ Sound(line_in_hand)
      /\ UNCHANGED <<stdout, session_tokens, turn_usage>>
  BY DEF RunnerHandlesLine, Typed, EventsSound
<1>2. ~abort_response_seen /\ ~final_usage_after_abort_reported
  BY <1>1 DEF AbortInOrder, AbortAnswered, EventsInOrder
<1>3. ~NormalizeStats(line_in_hand)
  BY DEF NormalizeStats, ReadsStats, EventsInOrder, CountInv, BaselineHolds
<1>4. BaselineHolds' /\ counted_tokens' <= counted_tokens + Announced(line_in_hand)
  BY <1>1, <1>2, <1>3, NormalizeCounts DEF CountInv, StatsInHandCover
<1>5. Announced(line_in_hand') = 0
  BY <1>1, NoEventSound DEF Announced
<1>6. Covered'
  <2>1. PICK total \in [0 .. Len(stdout) -> Nat] : Totals(total)
    BY DEF CountInv, Covered
  <2>2. counted_tokens' + Announced(line_in_hand') <= total[0]
    <3>0. Announced(line_in_hand) \in Nat /\ counted_tokens' \in Nat
      BY <1>1, AnnouncedNat DEF Typed, TypeOK
    <3>5. counted_tokens \in Nat /\ Len(stdout) \in Nat
      BY DEF Typed, TypeOK
    <3>1. /\ counted_tokens \in Nat /\ counted_tokens' \in Nat
          /\ Announced(line_in_hand) \in Nat /\ total[0] \in Nat
      BY <2>1, <3>0, <3>5
    <3>2. PICK c \in Nat, d \in Nat, a \in Nat, x \in Nat :
            /\ c = counted_tokens /\ d = counted_tokens'
            /\ a = Announced(line_in_hand) /\ x = total[0]
      BY <3>1
    <3>3. c + a <= x /\ d <= c + a
      BY <1>4, <2>1, <3>2 DEF Totals
    <3>4. d + 0 <= x
      BY ONLY <3>3
    <3> QED
      BY <1>5, <3>2, <3>4
  <2>3. Totals(total)'
    BY <1>1, <2>1, <2>2 DEF Totals
  <2> QED
    BY <1>1, <2>1, <2>3 DEF Covered
<1>7. StatsInHandCover'
  BY <1>1, NoEventSound DEF StatsInHandCover
<1>8. ~final_usage_after_abort_reported'
  BY <1>1, <1>2, NormalizeMarks
<1> QED
  BY <1>4, <1>6, <1>7, <1>8 DEF CountInv, AbortedRunIsFullyCounted

LEMMA AbortsCounts ==
    ASSUME Typed, Typed', CountInv, RunnerAborts
    PROVE  CountInv'
<1> USE EarlierNat
<1>1. /\ line_in_hand' = NoEvent
      /\ UNCHANGED <<stdout, turn_usage, session_tokens, normalizerVars, countVars>>
  BY DEF RunnerAborts, piVars
<1>2. Announced(line_in_hand') = 0 /\ counted_tokens' = counted_tokens
  BY <1>1, NoEventSound DEF Announced, countVars
<1>3. Covered'
  <2>1. PICK total \in [0 .. Len(stdout) -> Nat] : Totals(total)
    BY DEF CountInv, Covered
  <2>2. counted_tokens' + Announced(line_in_hand') <= total[0]
    <3>0. Announced(line_in_hand) \in Nat
      BY AnnouncedNat DEF Typed, EventsSound
    <3>1. counted_tokens \in Nat /\ Len(stdout) \in Nat
      BY DEF Typed, TypeOK
    <3>2. total[0] \in Nat
      BY <2>1, <3>1
    <3>3. PICK c \in Nat, a \in Nat, x \in Nat :
            c = counted_tokens /\ a = Announced(line_in_hand) /\ x = total[0]
      BY <3>0, <3>1, <3>2
    <3>4. c + a <= x
      BY <2>1, <3>3 DEF Totals
    <3>5. c + 0 <= x
      BY <3>4
    <3> QED
      BY <1>2, <3>3, <3>5
  <2>3. Totals(total)'
    BY <1>1, <2>1, <2>2 DEF Totals
  <2> QED
    BY <1>1, <2>1, <2>3 DEF Covered
<1>4. BaselineHolds' /\ (Anchored' <=> Anchored)
  BY <1>1, BaselineKept DEF CountInv
<1>5. StatsInHandCover'
  BY <1>1, NoEventSound DEF StatsInHandCover
<1>6. AbortedRunIsFullyCounted'
  BY <1>1, <1>4
     DEF CountInv, AbortedRunIsFullyCounted, Spent, normalizerVars, countVars
<1> QED
  BY <1>3, <1>4, <1>5, <1>6 DEF CountInv

\* The stats read after the abort's answer say what was spent, and nothing that counts
\* is behind them.
LEMMA FinalCounts ==
    ASSUME Typed, Typed', CountInv, EventsInOrder, Takes, line_in_hand = NoEvent,
           UNCHANGED <<turn_usage, session_tokens, line_in_hand>>,
           NormalizeStats(stdout[1]),
           EarlierTokens + counted_tokens <= stdout[1].tokens
    PROVE  Covered'
<1> USE EarlierNat
<1>1. PICK n \in Nat : n = Len(stdout') /\ Len(stdout) = n + 1
  <2>1. Len(stdout') = Len(stdout) - 1 /\ Len(stdout) \in Nat /\ Len(stdout) > 0
    BY TakesSound
  <2> QED
    BY ONLY <2>1
<1>2. /\ stdout[1].type = "stats" /\ stdout[1].tokens # NoTokens /\ stats_read # <<>>
      /\ 1 \in 1 .. Len(stdout)
  BY <1>1 DEF NormalizeStats, ReadsStats, CountInv, BaselineHolds
<1>3. Answered(1)
  BY <1>2 DEF EventsInOrder, EventInOrder, StatsUnread
<1>4. /\ turn_usage = 0 /\ stdout[1].tokens = session_tokens
      /\ \A j \in 1 .. Len(stdout) : stdout[j].type = "stats" => j <= 1
  BY <1>2, <1>3 DEF EventsInOrder, EventInOrder, Settled, Quiet
<1>5. ASSUME NEW i \in 1 .. n
      PROVE  stdout'[i].type \notin {"stats", "turn_end"}
  <2>1. PICK k \in 1 .. Len(stdout) : k = i + 1 /\ k > 1
    BY <1>1
  <2>2. stdout'[i] = stdout[k]
    BY <1>1, <2>1, TakesSound
  <2>3. Answered(k)
    BY <1>3, <2>1 DEF Answered
  <2>4. stdout[k].type # "turn_end"
    BY <2>1, <2>3 DEF EventsInOrder, EventInOrder
  <2>5. stdout[k].type # "stats"
    BY <1>4, <2>1
  <2> QED
    BY <2>2, <2>4, <2>5
<1>6. /\ session_tokens \in Nat /\ EarlierTokens + counted_tokens' <= session_tokens
      /\ counted_tokens' \in Nat
  <2>1. Sound(stdout[1])
    BY TakesSound
  <2>2. EarlierTokens + counted_tokens' <= stdout[1].tokens
    BY <2>1, StatsCount DEF CountInv
  <2> QED
    BY <1>4, <2>2 DEF Typed, TypeOK
<1>7. PICK spent \in Nat : spent = session_tokens - EarlierTokens
                           /\ counted_tokens' <= spent
  <2>1. PICK d \in Nat, s \in Nat : d = counted_tokens' /\ s = session_tokens
    BY <1>6
  <2>2. EarlierTokens + d <= s
    BY <1>6, <2>1
  <2>3. s - EarlierTokens \in Nat /\ d <= s - EarlierTokens
    BY <2>2
  <2> QED
    BY <2>1, <2>3
<1>8. PICK total \in [0 .. n -> Nat] : \A i \in 0 .. n : total[i] = spent
  <2> DEFINE constant == [i \in 0 .. n |-> spent]
  <2>1. constant \in [0 .. n -> Nat] /\ \A i \in 0 .. n : constant[i] = spent
    OBVIOUS
  <2> HIDE DEF constant
  <2> QED
    BY <2>1
<1>9. Announced(line_in_hand') = 0
  BY NoEventSound DEF Announced
<1>10. counted_tokens' + Announced(line_in_hand') <= total[0]
  BY <1>6, <1>7, <1>8, <1>9
<1>11. \A i \in 1 .. n : total[i - 1] + Announced(stdout'[i]) <= total[i]
  <2> SUFFICES ASSUME NEW i \in 1 .. n
               PROVE  total[i - 1] + Announced(stdout'[i]) <= total[i]
    OBVIOUS
  <2>1. total[i - 1] = spent /\ total[i] = spent
    BY <1>8
  <2>2. Announced(stdout'[i]) = 0
    BY <1>5 DEF Announced
  <2> QED
    BY <2>1, <2>2
<1>12. \A i, j \in 0 .. n : i <= j => total[i] <= total[j]
  BY <1>8
<1>13. EarlierTokens + total[n] + turn_usage' <= session_tokens'
  BY <1>4, <1>6, <1>7, <1>8
<1>14. Totals(total)'
  BY <1>1, <1>5, <1>10, <1>11, <1>12, <1>13 DEF Totals
<1> QED
  BY <1>1, <1>8, <1>14 DEF Covered

LEMMA ReadsAfterAbortCounts ==
    ASSUME Typed, Typed', CountInv, EventsInOrder, RunnerReadsAfterAbort
    PROVE  CountInv'
<1> USE EarlierNat
<1>1. /\ Takes /\ runner = "post_abort" /\ ~final_usage_after_abort_reported
      /\ Normalize(stdout[1]) /\ Sound(stdout[1]) /\ line_in_hand = NoEvent
      /\ UNCHANGED <<turn_usage, session_tokens, line_in_hand>>
      /\ Announced(line_in_hand') = 0
  BY TakesSound, NoEventSound
     DEF RunnerReadsAfterAbort, Takes, piVars, runnerVars, Typed, EventsSound, Announced
<1>2. /\ stdout[1].type = "stats" /\ stdout[1].tokens # NoTokens =>
           EarlierTokens + counted_tokens <= stdout[1].tokens
      /\ counted_tokens' + Announced(line_in_hand')
           <= counted_tokens + Announced(stdout[1]) => Covered'
  BY <1>1, TakesCovered DEF CountInv
<1>3. /\ BaselineHolds'
      /\ counted_tokens' <= counted_tokens + Announced(stdout[1])
         \/ NormalizeStats(stdout[1])
  BY <1>1, <1>2, NormalizeCounts DEF CountInv
<1>4. Covered'
  <2>1. CASE counted_tokens' <= counted_tokens + Announced(stdout[1])
    <3>1. PICK d \in Nat, c \in Nat, a \in Nat :
            d = counted_tokens' /\ c = counted_tokens /\ a = Announced(stdout[1])
      BY <1>1, AnnouncedNat DEF Typed, TypeOK
    <3>2. d <= c + a
      BY <2>1, <3>1
    <3>3. d + 0 <= c + a
      BY <3>2
    <3> QED
      BY <1>1, <1>2, <3>1, <3>3
  <2>2. CASE NormalizeStats(stdout[1])
    <3>1. stdout[1].type = "stats" /\ stdout[1].tokens # NoTokens
      BY <2>2 DEF NormalizeStats, ReadsStats
    <3> QED
      BY <1>1, <1>2, <2>2, <3>1, FinalCounts
  <2> QED
    BY <1>3, <2>1, <2>2
<1>5. StatsInHandCover'
  BY <1>1, NoEventSound DEF StatsInHandCover
<1>6. AbortedRunIsFullyCounted'
  <2> SUFFICES ASSUME final_usage_after_abort_reported', Anchored',
                      stats_read'[Len(stats_read')] # NoTokens
               PROVE  counted_tokens' = session_tokens' - EarlierTokens
    BY DEF AbortedRunIsFullyCounted, Spent
  <2>1. stdout[1].type = "stats" /\ abort_response_seen
    BY <1>1, NormalizeMarks
  <2>2. ReadsStats(stdout[1])
    BY <1>1, <2>1
       DEF Normalize, NormalizeStateResponse, NormalizeAbortResponse,
           NormalizeEmptyStats, NormalizeFirstStats, NormalizeStats, NormalizeTurnEnd,
           NormalizeAgentEnd, NormalizeToolCall
  <2>3. /\ stdout[1].tokens # NoTokens
        /\ \/ Anchored
           \/ stats_read = <<>> /\ stdout[1].tokens = EarlierTokens
    BY <1>1, <2>2, StatsRead
  <2>4. NormalizeFirstStats(stdout[1]) \/ NormalizeStats(stdout[1])
    BY <1>1, <2>1, <2>3
       DEF Normalize, NormalizeStateResponse, NormalizeAbortResponse,
           NormalizeEmptyStats, NormalizeTurnEnd, NormalizeAgentEnd, NormalizeToolCall
  <2>5. stdout[1].tokens = session_tokens
    <3>1. 1 \in 1 .. Len(stdout) /\ Answered(1)
      BY <1>1, <2>1, TakesSound DEF Answered
    <3> QED
      BY <2>1, <2>3, <3>1 DEF EventsInOrder, EventInOrder
  <2>6. /\ EarlierTokens + counted_tokens <= session_tokens
        /\ counted_tokens \in Nat /\ counted_tokens' \in Nat /\ session_tokens \in Nat
        /\ session_tokens' = session_tokens
    BY <1>1, <1>2, <2>1, <2>3, <2>5 DEF Typed, TypeOK
  <2>7. EarlierTokens + counted_tokens' = session_tokens
    <3>1. CASE NormalizeFirstStats(stdout[1])
      <4>1. session_cumulative_token_baseline = NoTokens /\ counted_tokens' = counted_tokens
        BY <3>1 DEF NormalizeFirstStats, countVars
      <4>2. session_tokens = EarlierTokens
        BY <2>3, <2>5, <4>1 DEF CountInv, BaselineHolds
      <4> QED
        BY <2>6, <4>1, <4>2
    <3>2. CASE NormalizeStats(stdout[1])
      <4>1. session_cumulative_token_baseline # NoTokens
        BY <3>2 DEF NormalizeStats
      <4>2. session_cumulative_token_baseline = EarlierTokens + counted_tokens
        BY <1>1, <2>3, <4>1 DEF CountInv, BaselineHolds
      <4> QED
        BY <1>1, <2>5, <2>6, <3>2, <4>2, StatsCount DEF CountInv
    <3> QED
      BY <2>4, <3>1, <3>2
  <2>8. PICK d \in Nat : d = counted_tokens'
    BY <2>6
  <2>9. EarlierTokens + d = session_tokens
    BY <2>7, <2>8
  <2>10. d = session_tokens - EarlierTokens
    BY <2>6, <2>9
  <2> QED
    BY <2>6, <2>8, <2>10
<1> QED
  BY <1>3, <1>4, <1>5, <1>6 DEF CountInv

------------------------------------------------------------------------------
(* The breaker.                                                              *)

\* What the guard of the corrective computes: one past a multiple of the threshold.
LEMMA PastMultiple ==
    ASSUME NEW T \in Nat, T >= 2, NEW c \in Nat, NEW n \in Nat, c <= n
    PROVE  c > T /\ c % T = 1 <=> \E m \in 1 .. n : c = m * T + 1
<1>1. ASSUME c > T, c % T = 1
      PROVE  \E m \in 1 .. n : c = m * T + 1
  <2>1. PICK m \in Nat : c = m * T + 1 /\ m >= 1
    BY <1>1
  <2>2. m <= m * T
    OBVIOUS
  <2> QED
    BY <2>1, <2>2
<1>2. ASSUME NEW m \in 1 .. n, c = m * T + 1
      PROVE  c > T /\ c % T = 1
  <2>1. m * T \in Nat /\ m * T >= T
    <3>1. (m - 1) * T >= 0
      OBVIOUS
    <3>2. m * T = (m - 1) * T + T
      OBVIOUS
    <3> QED
      BY <3>1, <3>2
  <2>2. PICK q \in Int, r \in 0 .. T - 1 : r = c % T /\ c = T * q + r
    <3>1. c = T * (c \div T) + (c % T)
      OBVIOUS
    <3>2. c % T \in 0 .. T - 1 /\ c \div T \in Int
      OBVIOUS
    <3> QED
      BY <3>1, <3>2
  <2>3. CASE q >= m + 1
    <3>1. T * (q - m - 1) >= 0
      BY <2>3
    <3>2. T * (q - m - 1) = T * q - m * T - T
      OBVIOUS
    <3> QED
      BY <1>2, <2>2, <3>1, <3>2
  <2>4. CASE q <= m - 1
    <3>1. T * (m - 1 - q) >= 0
      BY <2>4
    <3>2. T * (m - 1 - q) = m * T - T - T * q
      OBVIOUS
    <3> QED
      BY <1>2, <2>2, <3>1, <3>2
  <2>5. CASE q = m
    <3>1. T * q = m * T
      BY <2>5
    <3>2. r = 1
      BY <1>2, <2>2, <3>1
    <3> QED
      BY <1>2, <2>1, <2>2, <3>2
  <2> QED
    BY <2>3, <2>4, <2>5
<1> QED
  BY <1>1, <1>2

\* The i-th of the calls ends k identical ones, and no more.
StreakOf(calls, i, k) ==
    /\ k \in 1 .. i
    /\ \A j \in i - k + 1 .. i : calls[j] = calls[i]
    /\ k = i \/ calls[i - k] # calls[i]

LongestStreak(calls, i) ==
    CHOOSE k \in 1 .. i :
        /\ \A j \in i - k + 1 .. i : calls[j] = calls[i]
        /\ k = i \/ calls[i - k] # calls[i]

HaveStreaks(calls) ==
    \A i \in 1 .. Len(calls) : StreakOf(calls, i, LongestStreak(calls, i))

\* The calls a corrective is due for.
Corrected(calls) ==
    {i \in 1 .. Len(calls) :
        \E m \in 1 .. Len(calls) : LongestStreak(calls, i) = m * Threshold + 1}

\* The breaker's count is the streak its last signature ends.
StreaksCounted ==
    /\ HaveStreaks(observed)
    /\ IF observed = <<>> THEN last_signature = NoSignature
       ELSE /\ last_signature = observed[Len(observed)]
            /\ StreakOf(observed, Len(observed), consecutive_count)
    /\ steers = Cardinality(Corrected(observed))

LEMMA OneStreak ==
    ASSUME NEW calls, NEW i \in Nat, NEW k, StreakOf(calls, i, k)
    PROVE  LongestStreak(calls, i) = k
<1>1. ASSUME NEW a \in 1 .. i, NEW b \in 1 .. i, a < b,
             StreakOf(calls, i, a), StreakOf(calls, i, b)
      PROVE  FALSE
  <2>1. i - a \in i - b + 1 .. i /\ a # i
    BY <1>1
  <2> QED
    BY <1>1, <2>1 DEF StreakOf
<1>2. \A a \in 1 .. i : StreakOf(calls, i, a) => a = k
  <2> SUFFICES ASSUME NEW a \in 1 .. i, StreakOf(calls, i, a)
               PROVE  a = k
    OBVIOUS
  <2>1. k \in 1 .. i
    BY DEF StreakOf
  <2>2. ~(a < k) /\ ~(k < a)
    BY <1>1, <2>1
  <2> QED
    BY <2>1, <2>2
<1>3. StreakOf(calls, i, LongestStreak(calls, i)) /\ LongestStreak(calls, i) \in 1 .. i
  BY DEF StreakOf, LongestStreak
<1> QED
  BY <1>2, <1>3

\* A streak ends where it ended, whatever is called later.
LEMMA SameStreak ==
    ASSUME NEW calls, NEW longer, NEW i \in Nat, NEW k, StreakOf(calls, i, k),
           \A j \in 1 .. i : longer[j] = calls[j]
    PROVE  StreakOf(longer, i, k) /\ LongestStreak(longer, i) = k
<1>1. k \in 1 .. i
  BY DEF StreakOf
<1>2. i \in 1 .. i /\ \A j \in i - k + 1 .. i : j \in 1 .. i
  BY <1>1
<1>3. k # i => i - k \in 1 .. i
  BY <1>1
<1>4. StreakOf(longer, i, k)
  BY <1>1, <1>2, <1>3 DEF StreakOf
<1> QED
  BY <1>4, OneStreak

\* One more call adds itself, or nothing, to the calls a corrective is due for.
LEMMA CorrectedByOne ==
    ASSUME NEW calls \in Seq(Signatures), NEW signature \in Signatures,
           HaveStreaks(calls), NEW c \in Nat,
           StreakOf(Append(calls, signature), Len(calls) + 1, c)
    PROVE  /\ HaveStreaks(Append(calls, signature))
           /\ Corrected(Append(calls, signature)) =
                IF c > Threshold /\ c % Threshold = 1
                THEN Corrected(calls) \cup {Len(calls) + 1} ELSE Corrected(calls)
<1> USE PiAssumption
<1>1. PICK n \in Nat : n = Len(calls)
  OBVIOUS
<1>2. PICK longer : longer = Append(calls, signature)
  OBVIOUS
<1>3. Len(longer) = n + 1 /\ \A i \in 1 .. n : longer[i] = calls[i]
  BY <1>1, <1>2, Written
<1>4. ASSUME NEW i \in 1 .. n
      PROVE  /\ StreakOf(longer, i, LongestStreak(longer, i))
             /\ LongestStreak(longer, i) = LongestStreak(calls, i)
             /\ LongestStreak(calls, i) \in 1 .. i
  <2>1. PICK k : k = LongestStreak(calls, i) /\ StreakOf(calls, i, k)
    BY <1>1 DEF HaveStreaks
  <2>2. \A j \in 1 .. i : longer[j] = calls[j]
    BY <1>3
  <2>3. StreakOf(longer, i, k) /\ LongestStreak(longer, i) = k
    BY <2>1, <2>2, SameStreak
  <2>4. k \in 1 .. i
    BY <2>1 DEF StreakOf
  <2> QED
    BY <2>1, <2>3, <2>4
<1>5. StreakOf(longer, n + 1, c) /\ LongestStreak(longer, n + 1) = c /\ c \in 1 .. n + 1
  <2>1. StreakOf(longer, n + 1, c)
    BY <1>1, <1>2
  <2> QED
    BY <2>1, OneStreak DEF StreakOf
<1>6. HaveStreaks(longer)
  <2> SUFFICES ASSUME NEW i \in 1 .. n + 1
               PROVE  StreakOf(longer, i, LongestStreak(longer, i))
    BY <1>3 DEF HaveStreaks
  <2>1. i \in 1 .. n \/ i = n + 1
    OBVIOUS
  <2> QED
    BY <1>4, <1>5, <2>1
<1>7. PICK l \in Nat : l = n + 1 /\ Len(longer) = l /\ n <= l
  BY <1>3
<1>8. ASSUME NEW s, Len(s) \in Nat, NEW i \in 1 .. Len(s), NEW k \in Nat,
             k = LongestStreak(s, i), k <= Len(s)
      PROVE  i \in Corrected(s) <=> k > Threshold /\ k % Threshold = 1
  <2>1. i \in Corrected(s) <=>
          \E m \in 1 .. Len(s) : k = m * Threshold + 1
    BY <1>8 DEF Corrected
  <2>2. PICK x \in Nat : x = Len(s)
    BY <1>8
  <2>3. k > Threshold /\ k % Threshold = 1 <=> \E m \in 1 .. x : k = m * Threshold + 1
    BY <1>8, <2>2, PastMultiple
  <2> QED
    BY <2>1, <2>2, <2>3
<1>9. ASSUME NEW i \in 1 .. n
      PROVE  i \in Corrected(longer) <=> i \in Corrected(calls)
  <2>1. PICK k \in 1 .. i : k = LongestStreak(calls, i) /\ k = LongestStreak(longer, i)
    BY <1>4
  <2>2. k \in Nat /\ k <= n /\ k <= l /\ i \in 1 .. l
    BY <1>7
  <2>3. i \in Corrected(longer) <=> k > Threshold /\ k % Threshold = 1
    BY <1>7, <1>8, <2>1, <2>2
  <2>4. i \in Corrected(calls) <=> k > Threshold /\ k % Threshold = 1
    BY <1>1, <1>8, <2>1, <2>2
  <2> QED
    BY <2>3, <2>4
<1>10. n + 1 \in Corrected(longer) <=> c > Threshold /\ c % Threshold = 1
  <2>1. c <= l /\ l \in 1 .. l /\ c = LongestStreak(longer, l)
    BY <1>5, <1>7
  <2> QED
    BY <1>7, <1>8, <2>1
<1>11. Corrected(longer) \subseteq 1 .. n + 1 /\ Corrected(calls) \subseteq 1 .. n
  BY <1>1, <1>3 DEF Corrected
<1>12. \A i \in 1 .. n + 1 : i \in 1 .. n \/ i = n + 1
  OBVIOUS
<1>13. CASE c > Threshold /\ c % Threshold = 1
  <2>1. Corrected(longer) = Corrected(calls) \cup {n + 1}
    BY <1>9, <1>10, <1>11, <1>12, <1>13
  <2> QED
    BY <1>1, <1>2, <1>6, <1>13, <2>1
<1>14. CASE ~(c > Threshold /\ c % Threshold = 1)
  <2>1. Corrected(longer) = Corrected(calls)
    BY <1>9, <1>10, <1>11, <1>12, <1>14
  <2> QED
    BY <1>2, <1>6, <1>14, <2>1
<1> QED
  BY <1>13, <1>14

\* The count of the breaker is the streak of the call it observes.
LEMMA CountOfIsStreak ==
    ASSUME Typed, StreaksCounted, NEW signature \in Signatures
    PROVE  /\ CountOf(signature) \in Nat
           /\ StreakOf(Append(observed, signature), Len(observed) + 1, CountOf(signature))
<1> USE PiAssumption
<1>1. PICK n \in Nat : n = Len(observed)
  BY DEF Typed, TypeOK
<1>2. observed \in Seq(Signatures) /\ consecutive_count \in Nat
  BY DEF Typed, TypeOK
<1>3. PICK longer : longer = Append(observed, signature)
  OBVIOUS
<1>4. /\ \A i \in 1 .. n : longer[i] = observed[i]
      /\ longer[n + 1] = signature
  BY <1>1, <1>2, <1>3, Written
<1>5. CASE observed = <<>>
  <2>1. CountOf(signature) = 1 /\ n = 0
    BY <1>1, <1>5 DEF StreaksCounted, CountOf, NoSignature
  <2>2. StreakOf(longer, n + 1, 1)
    BY <2>1 DEF StreakOf
  <2> QED
    BY <1>1, <1>3, <2>1, <2>2
<1>6. CASE observed # <<>> /\ signature = last_signature
  <2>1. PICK k \in Nat : k = consecutive_count
    BY <1>2
  <2>2. CountOf(signature) = k + 1 /\ n > 0 /\ observed[n] = signature
        /\ StreakOf(observed, n, k)
    BY <1>1, <1>2, <1>6, <2>1 DEF StreaksCounted, CountOf
  <2>3. /\ k \in 1 .. n /\ \A j \in n - k + 1 .. n : observed[j] = signature
        /\ k = n \/ observed[n - k] # signature
    BY <2>2 DEF StreakOf
  <2>4. \A j \in (n + 1) - (k + 1) + 1 .. n + 1 : longer[j] = signature
    <3> SUFFICES ASSUME NEW j \in (n + 1) - (k + 1) + 1 .. n + 1
                 PROVE  longer[j] = signature
      OBVIOUS
    <3>1. j = n + 1 \/ j \in n - k + 1 .. n
      OBVIOUS
    <3>2. j \in n - k + 1 .. n => j \in 1 .. n
      BY <2>3
    <3> QED
      BY <1>4, <2>3, <3>1, <3>2
  <2>5. k + 1 = n + 1 \/ longer[(n + 1) - (k + 1)] # signature
    <3>1. CASE k = n
      BY <3>1
    <3>2. CASE k # n
      <4>1. n - k \in 1 .. n /\ (n + 1) - (k + 1) = n - k
        BY <2>3, <3>2
      <4> QED
        BY <1>4, <2>3, <3>2, <4>1
    <3> QED
      BY <3>1, <3>2
  <2>6. k + 1 \in 1 .. n + 1
    BY <2>3
  <2>7. StreakOf(longer, n + 1, k + 1)
    BY <1>4, <2>4, <2>5, <2>6 DEF StreakOf
  <2> QED
    BY <1>1, <1>3, <2>2, <2>7
<1>7. CASE observed # <<>> /\ signature # last_signature
  <2>1. CountOf(signature) = 1 /\ n > 0 /\ observed[n] # signature
    BY <1>1, <1>2, <1>7 DEF StreaksCounted, CountOf
  <2>2. longer[n] # signature /\ (n + 1) - 1 = n
    BY <1>4, <2>1
  <2>3. StreakOf(longer, n + 1, 1)
    BY <1>4, <2>2 DEF StreakOf
  <2> QED
    BY <1>1, <1>3, <2>1, <2>3
<1> QED
  BY <1>5, <1>6, <1>7

LEMMA NormalizeStreaks ==
    ASSUME Typed, StreaksCounted, NEW event, Sound(event), Normalize(event)
    PROVE  StreaksCounted'
<1>1. UNCHANGED breakerVars \/ NormalizeToolCall(event)
  BY DEF Normalize, NormalizeStateResponse, NormalizeAbortResponse, NormalizeEmptyStats,
         NormalizeFirstStats, NormalizeStats, ReadsStats, NormalizeTurnEnd,
         NormalizeAgentEnd
<1>2. CASE UNCHANGED breakerVars
  BY <1>2 DEF StreaksCounted, breakerVars
<1>3. CASE NormalizeToolCall(event)
  <2>1. PICK signature \in Signatures : signature = event.signature
    BY <1>3 DEF NormalizeToolCall, Sound
  <2>2. PICK c \in Nat : c = CountOf(signature)
    BY CountOfIsStreak
  <2>3. /\ observed' = Append(observed, signature) /\ last_signature' = signature
        /\ consecutive_count' = c
        /\ steers' = IF c > Threshold /\ c % Threshold = 1 THEN steers + 1 ELSE steers
    BY <1>3, <2>1, <2>2 DEF NormalizeToolCall
  <2>4. observed \in Seq(Signatures) /\ Len(observed) \in Nat
    BY DEF Typed, TypeOK
  <2>5. StreakOf(observed', Len(observed) + 1, c)
    BY <2>2, <2>3, CountOfIsStreak
  <2>6. /\ HaveStreaks(observed')
        /\ Corrected(observed') =
             IF c > Threshold /\ c % Threshold = 1
             THEN Corrected(observed) \cup {Len(observed) + 1} ELSE Corrected(observed)
    BY <2>3, <2>4, <2>5, CorrectedByOne DEF StreaksCounted
  <2>7. /\ Len(observed') = Len(observed) + 1 /\ observed' # <<>>
        /\ observed'[Len(observed')] = signature
    BY <2>3, <2>4, Written
  <2>8. /\ IsFiniteSet(Corrected(observed))
        /\ Len(observed) + 1 \notin Corrected(observed)
    <3>1. Corrected(observed) \subseteq 1 .. Len(observed)
      BY DEF Corrected
    <3>2. IsFiniteSet(1 .. Len(observed))
      BY <2>4, FS_Interval
    <3> QED
      BY <2>4, <3>1, <3>2, FS_Subset
  <2>9. Cardinality(Corrected(observed) \cup {Len(observed) + 1}) =
          Cardinality(Corrected(observed)) + 1
    BY <2>8, FS_AddElement
  <2>10. steers' = Cardinality(Corrected(observed'))
    BY <2>3, <2>6, <2>9 DEF StreaksCounted
  <2> QED
    BY <2>3, <2>5, <2>6, <2>7, <2>10 DEF StreaksCounted
<1> QED
  BY <1>1, <1>2, <1>3

LEMMA NextStreaks ==
    ASSUME Typed, StreaksCounted, Next
    PROVE  StreaksCounted'
<1>1. CASE UNCHANGED breakerVars
  BY <1>1 DEF StreaksCounted, breakerVars
<1>2. CASE RunnerHandlesLine
  BY <1>2, NormalizeStreaks DEF RunnerHandlesLine, Typed, EventsSound
<1>3. CASE RunnerReadsAfterAbort
  <2>1. Takes /\ Normalize(Head(stdout))
    BY <1>3 DEF RunnerReadsAfterAbort, Takes
  <2>2. Sound(stdout[1]) /\ Normalize(stdout[1])
    BY <2>1, TakesSound
  <2> QED
    BY <2>2, NormalizeStreaks
<1>4. CASE PiSteps
  BY <1>1, <1>4, PiWorks
<1> QED
  BY <1>1, <1>2, <1>3, <1>4
     DEF Next, RunnerSteps, RunnerReads, RunnerAborts, RunnerEndsAfterAbort, Over, vars

------------------------------------------------------------------------------
(* The theorems.                                                             *)

IInv == Typed /\ InOrder /\ CountInv /\ StreaksCounted

\* The order of the pipes, the running total along them and the streak of the breaker
\* hold together in every reachable state.
THEOREM InductiveInvariant == Spec => []IInv
<1>1. Init => IInv
  <2>1. ASSUME Init  PROVE StreaksCounted
    <3>1. /\ observed = <<>> /\ last_signature = NoSignature /\ steers = 0
          /\ Len(observed) = 0
      BY <2>1 DEF Init
    <3>2. HaveStreaks(observed)
      BY <3>1 DEF HaveStreaks
    <3>3. Corrected(observed) = {}
      BY <3>1 DEF Corrected
    <3> QED
      BY <3>1, <3>2, <3>3, FS_EmptySet DEF StreaksCounted
  <2> QED
    BY <2>1, InitTyped, InitCounts DEF IInv
<1>2. IInv /\ [Next]_vars => IInv'
  <2> SUFFICES ASSUME IInv, [Next]_vars
               PROVE  IInv'
    OBVIOUS
  <2>1. Typed /\ InOrder /\ CountInv /\ StreaksCounted
    BY DEF IInv
  <2>2. CASE UNCHANGED vars
    <3>1. Typed' /\ StreaksCounted'
      BY <2>1, <2>2
         DEF Typed, TypeOK, EventsSound, Sound, StreaksCounted, vars, piVars,
             normalizerVars, countVars, breakerVars, runnerVars
    <3>2. InOrder'
      BY <2>1, <2>2
         DEF InOrder, AbortInOrder, AbortAnswered, Quiet, RequestsInOrder, FinalRequest,
             StatsUnread, EventsInOrder, EventInOrder, Answered, Settled, vars, piVars,
             normalizerVars, countVars, breakerVars, runnerVars
    <3>3. CountInv'
      BY <2>1, <2>2
         DEF CountInv, Covered, Totals, BaselineHolds, Anchored, StatsInHandCover,
             AbortedRunIsFullyCounted, Spent, vars, piVars, normalizerVars, countVars,
             runnerVars
    <3> QED
      BY <3>1, <3>2, <3>3 DEF IInv
  <2>3. ASSUME Next  PROVE StreaksCounted'
    BY <2>1, <2>3, NextStreaks
  <2>4. CASE runner # "over" /\ PiSteps
    <3>1. AbortInOrder /\ RequestsInOrder /\ EventsInOrder
      BY <2>1, <2>4 DEF InOrder
    <3>2. Typed'
      BY <2>1, <2>4, PiTyped
    <3>3. InOrder'
      BY <2>1, <2>4, <3>1, PiRequestsInOrder, PiAbortInOrder, PiEventsInOrder
         DEF InOrder
    <3>4. CountInv'
      BY <2>1, <2>4, <3>1, PiCounts
    <3> QED
      BY <2>3, <2>4, <3>2, <3>3, <3>4 DEF IInv, Next
  <2>5. CASE RunnerSteps
    <3>1. Typed' /\ StreaksCounted'
      BY <2>1, <2>3, <2>5, RunnerTyped DEF Next
    <3>2. runner # "over"
      BY <2>5
         DEF RunnerSteps, RunnerReads, RunnerHandlesLine, RunnerAborts,
             RunnerReadsAfterAbort, RunnerEndsAfterAbort
    <3>3. AbortInOrder /\ RequestsInOrder /\ EventsInOrder
      BY <2>1, <3>2 DEF InOrder
    <3>4. CASE RunnerReads
      BY <2>1, <3>1, <3>3, <3>4, ReadsInOrder, ReadsCounts DEF IInv, InOrder
    <3>5. CASE RunnerHandlesLine
      BY <2>1, <3>1, <3>3, <3>5, HandlesInOrder, HandlesCounts DEF IInv, InOrder
    <3>6. CASE RunnerAborts
      BY <2>1, <3>1, <3>3, <3>6, AbortsInOrder, AbortsCounts DEF IInv, InOrder
    <3>7. CASE RunnerReadsAfterAbort
      BY <2>1, <3>1, <3>3, <3>7, ReadsAfterAbortInOrder, ReadsAfterAbortCounts
         DEF IInv, InOrder
    <3>8. CASE RunnerEndsAfterAbort
      <4>1. runner' = "over"
        BY <3>8 DEF RunnerEndsAfterAbort
      <4>2. CountInv'
        BY <2>1, <3>8
           DEF RunnerEndsAfterAbort, CountInv, Covered, Totals, BaselineHolds, Anchored,
               StatsInHandCover, AbortedRunIsFullyCounted, Spent, piVars,
               normalizerVars, countVars
      <4> QED
        BY <3>1, <4>1, <4>2 DEF IInv, InOrder
    <3> QED
      BY <2>5, <3>4, <3>5, <3>6, <3>7, <3>8 DEF RunnerSteps
  <2> QED
    BY <2>2, <2>4, <2>5 DEF Next, Over
<1> QED
  BY <1>1, <1>2, PTL DEF Spec

\* Every state of a run on pi is well typed.
THEOREM TypeCorrect == Spec => []TypeOK
<1>1. IInv => TypeOK
  BY DEF IInv, Typed
<1> QED
  BY <1>1, InductiveInvariant, PTL

\* No token is counted twice, however the pipes delay the stats, the turn ends and the
\* operator's abort.
THEOREM CountedOnce == Spec => []NothingCountedTwice
<1>1. IInv => NothingCountedTwice
  BY CoveredIsEnough DEF IInv, CountInv
<1> QED
  BY <1>1, InductiveInvariant, PTL

\* An aborted run whose final stats arrived has counted all it spent.
THEOREM AbortCounted == Spec => []AbortedRunIsFullyCounted
<1>1. IInv => AbortedRunIsFullyCounted
  BY DEF IInv, CountInv
<1> QED
  BY <1>1, InductiveInvariant, PTL

\* Correctives are steered past each multiple of the threshold and for no other call,
\* for any threshold of two or more.
THEOREM SteeredOnTime == Spec => []SteersEachThreshold
<1>1. IInv => SteersEachThreshold
  <2>1. \A i : Streak(i) = LongestStreak(observed, i)
    BY DEF Streak, LongestStreak
  <2> QED
    BY <2>1 DEF IInv, StreaksCounted, SteersEachThreshold, Corrected
<1> QED
  BY <1>1, InductiveInvariant, PTL

=============================================================================
