------------------------------- MODULE PiHarness -------------------------------
(***************************************************************************)
(* A run on pi: PiOutputEventNormalizer, the token count of a run that is  *)
(* aborted, and the breaker of loops of identical tool calls               *)
(* (pi_harness.py), with the parts of runner.py that drive them.           *)
(*                                                                         *)
(* The runner writes commands to pi's stdin and reads pi's events from its *)
(* stdout; both are pipes and pi works meanwhile. pi counts the tokens of  *)
(* a turn in its session's total before it announces the turn's end, and   *)
(* an aborted turn's tokens are in that total but are announced by none.   *)
(***************************************************************************)
EXTENDS Integers, Sequences, FiniteSets

CONSTANTS
    EarlierTokens,    \* what earlier runs spent of the session, 0 for a fresh one
    Usages,           \* the tokens a turn may spend
    Signatures,       \* name and arguments of a tool call
    Threshold,        \* MAX_IDENTICAL_CONSECUTIVE_TOOL_CALLS
    PipeCapacity,     \* bound: lines pi has written and nobody has read
    MaxTurns,         \* bound: turns pi takes
    MaxPrompts,       \* bound: prompts, follow-ups included
    MaxToolCalls      \* bound: tool calls pi makes

\* A threshold of one never steers: no count is 1 modulo 1.
ASSUME PiAssumption ==
    /\ EarlierTokens \in Nat /\ Usages \subseteq Nat
    /\ "none" \notin Signatures
    /\ Threshold \in Nat /\ Threshold >= 2
    /\ {PipeCapacity, MaxTurns, MaxPrompts, MaxToolCalls} \subseteq Nat

VARIABLES
    stdin,                  \* commands pi has not handled yet
    stdout,                 \* events the runner has not read yet
    agent,                  \* "idle", "turn" (generating), "message" (generated)
                            \* or "aborted"
    turn_usage,             \* tokens of the turn whose end pi has not announced
    session_tokens,         \* the total pi answers get_session_stats with
    turns, prompts, tool_calls,
    runner,                 \* "reading", "in_hand", "post_abort" or "over"
    line_in_hand,
    session_cumulative_token_baseline,
    abort_response_seen,
    final_usage_after_abort_reported,
    latest_usage,
    counted_tokens,         \* what the runner counts for the run
    usage_bearing_deltas_seen,
    last_signature, consecutive_count,
    steers,                 \* corrective messages steered into the agent
    observed,               \* history: the signatures of the calls observed
    stats_read              \* history: the totals of the stats responses read

piVars == <<agent, turn_usage, session_tokens, turns, prompts, tool_calls>>
normalizerVars == <<session_cumulative_token_baseline, abort_response_seen,
                    final_usage_after_abort_reported, latest_usage, stats_read>>
countVars == <<counted_tokens, usage_bearing_deltas_seen>>
breakerVars == <<last_signature, consecutive_count, steers, observed>>
runnerVars == <<runner, line_in_hand>>
vars == <<stdin, stdout, piVars, normalizerVars, countVars, breakerVars, runnerVars>>

Commands == {"prompt", "get_state", "get_session_stats", "abort"}
EventTypes == {"none", "state", "stats", "abort", "tool", "turn_end", "agent_end"}

\* No total: no baseline yet, or a stats response without tokens.
NoTokens == -1
NoSignature == "none"

Event(type, tokens, signature) ==
    [type |-> type, tokens |-> tokens, signature |-> signature]
NoEvent == Event("none", 0, NoSignature)

Events == [type : EventTypes, tokens : Nat \cup {NoTokens},
           signature : Signatures \cup {NoSignature}]

TypeOK ==
    /\ stdin \in Seq(Commands) /\ stdout \in Seq(Events)
    /\ agent \in {"idle", "turn", "message", "aborted"}
    /\ turn_usage \in Nat /\ session_tokens \in Nat
    /\ turns \in Nat /\ prompts \in Nat /\ tool_calls \in Nat
    /\ runner \in {"reading", "in_hand", "post_abort", "over"}
    /\ line_in_hand \in Events
    /\ session_cumulative_token_baseline \in Nat \cup {NoTokens}
    /\ abort_response_seen \in BOOLEAN
    /\ final_usage_after_abort_reported \in BOOLEAN
    /\ latest_usage \in Nat /\ counted_tokens \in Nat
    /\ usage_bearing_deltas_seen \in BOOLEAN
    /\ last_signature \in Signatures \cup {NoSignature}
    /\ consecutive_count \in Nat /\ steers \in Nat
    /\ observed \in Seq(Signatures) /\ stats_read \in Seq(Nat \cup {NoTokens})

\* deliver_prompt has written its three commands.
Init ==
    /\ stdin = <<"prompt", "get_state", "get_session_stats">> /\ stdout = <<>>
    /\ agent = "idle" /\ turn_usage = 0 /\ session_tokens = EarlierTokens
    /\ turns = 0 /\ prompts = 1 /\ tool_calls = 0
    /\ runner = "reading" /\ line_in_hand = NoEvent
    /\ session_cumulative_token_baseline = NoTokens
    /\ abort_response_seen = FALSE /\ final_usage_after_abort_reported = FALSE
    /\ latest_usage = 0 /\ stats_read = <<>>
    /\ counted_tokens = 0 /\ usage_bearing_deltas_seen = FALSE
    /\ last_signature = NoSignature /\ consecutive_count = 0 /\ steers = 0
    /\ observed = <<>>

------------------------------------------------------------------------------
(* pi: commands in the order written, turns while it has a prompt.           *)

Emits(event) ==
    /\ Len(stdout) < PipeCapacity
    /\ stdout' = Append(stdout, event)

Handles(command) ==
    /\ stdin # <<>> /\ Head(stdin) = command
    /\ stdin' = Tail(stdin)
    /\ UNCHANGED <<normalizerVars, countVars, breakerVars, runnerVars>>

PiTakesPrompt ==
    /\ Handles("prompt")
    /\ agent = "idle" /\ agent' = "turn"
    /\ UNCHANGED <<stdout, turn_usage, session_tokens, turns, prompts, tool_calls>>

PiReportsState ==
    /\ Handles("get_state")
    /\ Emits(Event("state", 0, NoSignature))
    /\ UNCHANGED piVars

\* The response may carry no tokens.
PiReportsStats ==
    /\ Handles("get_session_stats")
    /\ \E tokens \in {session_tokens, NoTokens} :
         Emits(Event("stats", tokens, NoSignature))
    /\ UNCHANGED piVars

\* What the aborted turn spent so far is in the session's total; the end of that
\* turn is never announced.
PiAborts ==
    /\ Handles("abort")
    /\ \E usage \in IF agent = "turn" THEN Usages \cup {0} ELSE {0} :
         session_tokens' = session_tokens + usage
    /\ agent' = IF agent = "idle" THEN "idle" ELSE "aborted"
    /\ turn_usage' = 0
    /\ Emits(Event("abort", 0, NoSignature))
    /\ UNCHANGED <<turns, prompts, tool_calls>>

PiStep == UNCHANGED <<stdin, prompts, normalizerVars, countVars, breakerVars,
                      runnerVars>>

PiCompletesMessage ==
    /\ agent = "turn" /\ turns < MaxTurns
    /\ \E usage \in Usages :
         turn_usage' = usage /\ session_tokens' = session_tokens + usage
    /\ agent' = "message" /\ turns' = turns + 1
    /\ UNCHANGED <<stdout, tool_calls>>
    /\ PiStep

PiCallsTool ==
    /\ agent = "message" /\ tool_calls < MaxToolCalls
    /\ \E signature \in Signatures : Emits(Event("tool", 0, signature))
    /\ tool_calls' = tool_calls + 1
    /\ UNCHANGED <<agent, turn_usage, session_tokens, turns>>
    /\ PiStep

\* Another turn follows, or the agent ends.
PiEndsTurn ==
    /\ agent = "message"
    /\ Emits(Event("turn_end", turn_usage, NoSignature))
    /\ turn_usage' = 0
    /\ agent' = "turn"
    /\ UNCHANGED <<session_tokens, turns, tool_calls>>
    /\ PiStep

PiEndsAgent ==
    /\ agent = "aborted" \/ (agent = "turn" /\ turns > 0)
    /\ Emits(Event("agent_end", 0, NoSignature))
    /\ agent' = "idle"
    /\ UNCHANGED <<turn_usage, session_tokens, turns, tool_calls>>
    /\ PiStep

PiSteps ==
    \/ PiTakesPrompt \/ PiReportsState \/ PiReportsStats \/ PiAborts
    \/ PiCompletesMessage \/ PiCallsTool \/ PiEndsTurn \/ PiEndsAgent

------------------------------------------------------------------------------
(* normalize, and what the runner does with the chunks it returns.           *)

\* accumulate_token_usage_from_chunk of a message_delta.
CountsDelta(tokens) ==
    /\ counted_tokens' = counted_tokens + tokens
    /\ usage_bearing_deltas_seen' = TRUE

NormalizeStateResponse(event) ==
    /\ event.type = "state"
    /\ UNCHANGED <<normalizerVars, countVars, breakerVars>>

NormalizeAbortResponse(event) ==
    /\ event.type = "abort"
    /\ abort_response_seen' = TRUE
    /\ UNCHANGED <<session_cumulative_token_baseline, latest_usage, stats_read,
                   final_usage_after_abort_reported, countVars, breakerVars>>

\* Mistake: a stats response asked for before the abort is taken for the final one.
ReadsStatsAsFinal(event) ==
    /\ event.type = "stats"
    /\ stats_read' = Append(stats_read, event.tokens)
    /\ final_usage_after_abort_reported' = (runner = "post_abort")
    /\ UNCHANGED <<latest_usage, abort_response_seen, breakerVars>>

\* Any stats response read after the abort's is the final one.
ReadsStats(event) ==
    /\ event.type = "stats"
    /\ stats_read' = Append(stats_read, event.tokens)
    /\ final_usage_after_abort_reported' =
         (final_usage_after_abort_reported \/ abort_response_seen)
    /\ UNCHANGED <<latest_usage, abort_response_seen, breakerVars>>

\* Mistake: a response without tokens is taken for a total.
NormalizeEmptyStatsCounting(event) ==
    /\ ReadsStats(event)
    /\ event.tokens = NoTokens
    /\ CountsDelta(event.tokens)
    /\ UNCHANGED session_cumulative_token_baseline

NormalizeEmptyStats(event) ==
    /\ ReadsStats(event)
    /\ event.tokens = NoTokens
    /\ UNCHANGED <<session_cumulative_token_baseline, countVars>>

\* The first total is the baseline: earlier runs accounted for it.
NormalizeFirstStats(event) ==
    /\ ReadsStats(event)
    /\ event.tokens # NoTokens /\ session_cumulative_token_baseline = NoTokens
    /\ session_cumulative_token_baseline' = event.tokens
    /\ UNCHANGED countVars

Unreported(tokens) ==
    IF tokens > session_cumulative_token_baseline
    THEN tokens - session_cumulative_token_baseline ELSE 0

NormalizeStats(event) ==
    /\ ReadsStats(event)
    /\ event.tokens # NoTokens /\ session_cumulative_token_baseline # NoTokens
    /\ session_cumulative_token_baseline' = event.tokens
    /\ IF Unreported(event.tokens) > 0
       THEN CountsDelta(Unreported(event.tokens)) ELSE UNCHANGED countVars

\* Mistake: the baseline stays where it was.
NormalizeTurnEndOffBaseline(event) ==
    /\ event.type = "turn_end"
    /\ latest_usage' = event.tokens
    /\ CountsDelta(event.tokens)
    /\ UNCHANGED <<session_cumulative_token_baseline, abort_response_seen, stats_read,
                   final_usage_after_abort_reported, breakerVars>>

\* Mistake: the baseline advances by the turn before.
NormalizeTurnEndLate(event) ==
    /\ event.type = "turn_end"
    /\ latest_usage' = event.tokens
    /\ CountsDelta(event.tokens)
    /\ session_cumulative_token_baseline' =
         IF session_cumulative_token_baseline = NoTokens THEN NoTokens
         ELSE session_cumulative_token_baseline + latest_usage
    /\ UNCHANGED <<abort_response_seen, final_usage_after_abort_reported,
                   stats_read, breakerVars>>

\* A completed turn reports its own usage, and the baseline advances by it.
NormalizeTurnEnd(event) ==
    /\ event.type = "turn_end"
    /\ latest_usage' = event.tokens
    /\ CountsDelta(event.tokens)
    /\ session_cumulative_token_baseline' =
         IF session_cumulative_token_baseline = NoTokens THEN NoTokens
         ELSE session_cumulative_token_baseline + event.tokens
    /\ UNCHANGED <<abort_response_seen, final_usage_after_abort_reported,
                   stats_read, breakerVars>>

\* A result repeats the last turn's usage: it counts only if no delta did.
NormalizeAgentEnd(event) ==
    /\ event.type = "agent_end"
    /\ IF usage_bearing_deltas_seen THEN UNCHANGED countVars
       ELSE CountsDelta(latest_usage)
    /\ UNCHANGED <<normalizerVars, breakerVars>>

\* Mistake: a different call does not start the count again.
CountOfNeverReset(signature) == consecutive_count + 1

\* corrective_message_for_observed_tool_call.
CountOf(signature) == IF signature = last_signature THEN consecutive_count + 1 ELSE 1

NormalizeToolCall(event) ==
    /\ event.type = "tool"
    /\ last_signature' = event.signature
    /\ consecutive_count' = CountOf(event.signature)
    /\ steers' = IF /\ CountOf(event.signature) > Threshold
                    /\ CountOf(event.signature) % Threshold = 1
                 THEN steers + 1 ELSE steers
    /\ observed' = Append(observed, event.signature)
    /\ UNCHANGED <<normalizerVars, countVars>>

Normalize(event) ==
    \/ NormalizeStateResponse(event) \/ NormalizeAbortResponse(event)
    \/ NormalizeEmptyStats(event) \/ NormalizeFirstStats(event) \/ NormalizeStats(event)
    \/ NormalizeTurnEnd(event) \/ NormalizeAgentEnd(event) \/ NormalizeToolCall(event)

------------------------------------------------------------------------------
(* The runner.                                                               *)

RunnerReads ==
    /\ runner = "reading" /\ stdout # <<>>
    /\ line_in_hand' = Head(stdout) /\ stdout' = Tail(stdout)
    /\ runner' = "in_hand"
    /\ UNCHANGED <<stdin, piVars, normalizerVars, countVars, breakerVars>>

\* The run goes on after any line but a result; after a result a tool call of the
\* runner's own may continue it with deliver_followup_turn.
RunnerHandlesLine ==
    /\ runner = "in_hand"
    /\ Normalize(line_in_hand)
    /\ line_in_hand' = NoEvent
    /\ \/ /\ line_in_hand.type # "agent_end"
          /\ runner' = "reading"
          /\ UNCHANGED <<stdin, prompts>>
       \/ /\ line_in_hand.type = "agent_end" /\ prompts < MaxPrompts
          /\ runner' = "reading"
          /\ stdin' = Append(stdin, "prompt") /\ prompts' = prompts + 1
       \/ /\ line_in_hand.type = "agent_end"
          /\ runner' = "over"
          /\ UNCHANGED <<stdin, prompts>>
    /\ UNCHANGED <<stdout, agent, turn_usage, session_tokens, turns, tool_calls>>

\* The operator's end is drained with a line in hand, and that line is dropped.
RunnerAborts ==
    /\ runner = "in_hand"
    /\ runner' = "post_abort" /\ line_in_hand' = NoEvent
    /\ stdin' = stdin \o <<"abort", "get_session_stats">>
    /\ UNCHANGED <<stdout, piVars, normalizerVars, countVars, breakerVars>>

RunnerReadsAfterAbort ==
    /\ runner = "post_abort" /\ ~final_usage_after_abort_reported
    /\ stdout # <<>>
    /\ Normalize(Head(stdout))
    /\ stdout' = Tail(stdout)
    /\ UNCHANGED <<stdin, piVars, runnerVars>>

\* The final usage was reported, or five seconds are over.
RunnerEndsAfterAbort ==
    /\ runner = "post_abort"
    /\ runner' = "over"
    /\ UNCHANGED <<stdin, stdout, piVars, normalizerVars, countVars, breakerVars,
                   line_in_hand>>

Over == runner = "over" /\ UNCHANGED vars

RunnerSteps ==
    \/ RunnerReads \/ RunnerHandlesLine \/ RunnerAborts \/ RunnerReadsAfterAbort
    \/ RunnerEndsAfterAbort

Next == (runner # "over" /\ PiSteps) \/ RunnerSteps \/ Over

Spec == Init /\ [][Next]_vars

------------------------------------------------------------------------------
(* Safety.                                                                   *)

\* What pi spent in this run.
Spent == session_tokens - EarlierTokens

\* No token is counted twice: neither a turn's that the final stats read counts again,
\* nor an earlier run's of a resumed session, nor the result's repetition of a turn's.
NothingCountedTwice == counted_tokens <= Spent

\* The baseline was read before this run spent anything.
Anchored == stats_read # <<>> /\ stats_read[1] = EarlierTokens

\* An aborted run whose final stats arrived has counted every token it spent, those of
\* the turn the abort cut short and of a turn_end dropped in hand included, provided
\* the baseline was read before the run spent anything.
AbortedRunIsFullyCounted ==
    /\ final_usage_after_abort_reported
    /\ Anchored /\ stats_read[Len(stats_read)] # NoTokens
    => counted_tokens = Spent

\* How many identical calls in a row end with the i-th.
Streak(i) == CHOOSE k \in 1 .. i :
                 /\ \A j \in i - k + 1 .. i : observed[j] = observed[i]
                 /\ k = i \/ observed[i - k] # observed[i]

\* A corrective is steered for the call past each multiple of the threshold in a row of
\* identical calls, and for no other call.
SteersEachThreshold ==
    steers = Cardinality({i \in 1 .. Len(observed) :
        \E m \in 1 .. Len(observed) : Streak(i) = m * Threshold + 1})

------------------------------------------------------------------------------
(* What the count promises: TokenLedger.                                     *)

Ledger == INSTANCE TokenLedger WITH
    spent   <- Spent,
    counted <- counted_tokens,
    settled <- /\ final_usage_after_abort_reported /\ Anchored
               /\ stats_read[Len(stats_read)] # NoTokens

\* The count follows what the run spends from below and never goes back, and the final
\* usage of an anchored abort closes the book: nothing is missing from it, and nothing
\* is spent or counted after it.
ImplementsLedger == Ledger!Spec

=============================================================================
