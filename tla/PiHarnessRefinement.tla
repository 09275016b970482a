-------------------------- MODULE PiHarnessRefinement --------------------------
(***************************************************************************)
(* The token count of a run on pi implements TokenLedger, for any usages,  *)
(* turns, prompts and tool calls. That the book is never ahead of the      *)
(* spending, and closes with all of it, is the invariant of PiHarnessProofs*)
(* in the state a step leads to; what is left to show is what a step may   *)
(* do: that pi spends nothing once its final usage was read, and that      *)
(* normalize takes nothing back.                                           *)
(***************************************************************************)
EXTENDS PiHarnessProofs

\* The book is never ahead of the spending.
Book == IInv /\ NothingCountedTwice

\* The book is closed.
Closed ==
    /\ final_usage_after_abort_reported /\ Anchored
    /\ stats_read[Len(stats_read)] # NoTokens

\* What was spent and counted are numbers, the second within the first.
LEMMA BookKept ==
    ASSUME IInv
    PROVE  /\ Spent \in Nat /\ counted_tokens \in Nat /\ counted_tokens <= Spent
           /\ session_tokens = EarlierTokens + Spent
<1>1. /\ EarlierTokens \in Nat /\ session_tokens \in Nat /\ counted_tokens \in Nat
  BY EarlierNat DEF IInv, Typed, TypeOK
<1>2. counted_tokens <= Spent
  BY CoveredIsEnough DEF IInv, CountInv, NothingCountedTwice
<1>3. PICK c \in Nat, e \in Nat, s \in Nat :
        c = counted_tokens /\ e = EarlierTokens /\ s = session_tokens
  BY <1>1
<1>4. Spent = s - e /\ c <= s - e
  BY <1>2, <1>3 DEF Spent
<1> QED
  BY <1>3, <1>4

\* A run under way is not closed unless its abort's final stats were read.
LEMMA ClosedAfterAbort ==
    ASSUME IInv, runner # "over", Closed
    PROVE  runner = "post_abort" /\ Settled
<1>1. abort_response_seen /\ Settled
  BY DEF IInv, InOrder, EventsInOrder, Closed
<1> QED
  BY <1>1 DEF IInv, InOrder, AbortInOrder, AbortAnswered

------------------------------------------------------------------------------
(* pi spends.                                                                *)

\* pi's total never falls, and stays where it is once pi has nothing left to do.
LEMMA TotalGrows ==
    ASSUME Typed, PiSteps
    PROVE  /\ \E usage \in Nat : session_tokens' = session_tokens + usage
           /\ Settled => session_tokens' = session_tokens
<1>1. session_tokens \in Nat /\ Usages \subseteq Nat
  BY PiAssumption DEF Typed, TypeOK
<1>2. ASSUME session_tokens' = session_tokens
      PROVE  \E usage \in Nat : session_tokens' = session_tokens + usage
  <2>1. session_tokens' = session_tokens + 0 /\ 0 \in Nat
    BY <1>1, <1>2
  <2> QED
    BY <2>1
<1>3. CASE PiAborts
  <2>1. \E usage \in Nat : session_tokens' = session_tokens + usage
    BY <1>1, <1>3 DEF PiAborts
  <2>2. stdin # <<>>
    BY <1>3 DEF PiAborts, Handles
  <2> QED
    BY <2>1, <2>2 DEF Settled
<1>4. CASE PiCompletesMessage
  <2>1. \E usage \in Nat : session_tokens' = session_tokens + usage
    BY <1>1, <1>4 DEF PiCompletesMessage
  <2>2. agent = "turn"
    BY <1>4 DEF PiCompletesMessage
  <2> QED
    BY <2>1, <2>2 DEF Settled, Quiet
<1>5. CASE UNCHANGED session_tokens
  BY <1>2, <1>5
<1> QED
  BY <1>3, <1>4, <1>5
     DEF PiSteps, PiTakesPrompt, PiReportsState, PiReportsStats, PiCallsTool, PiEndsTurn,
         PiEndsAgent, piVars

\* pi's step spends, or does not show in the book.
LEMMA PiStepMaps ==
    ASSUME Book, Book', runner # "over", PiSteps
    PROVE  [Ledger!Next]_(Ledger!ledger)
<1>1. UNCHANGED <<normalizerVars, countVars>>
  BY PiWorks DEF Book, IInv
<1>2. counted_tokens' = counted_tokens /\ Closed' = Closed
  BY <1>1 DEF normalizerVars, countVars, Closed, Anchored
<1>3. CASE session_tokens' = session_tokens
  <2>1. Spent' = Spent
    BY <1>3 DEF Spent
  <2> QED
    BY <1>2, <2>1 DEF Closed, Ledger!ledger
<1>4. CASE session_tokens' # session_tokens
  <2>1. ~Closed
    BY <1>4, TotalGrows, ClosedAfterAbort DEF Book, IInv
  <2>2. Spent' \in Nat /\ Spent' > Spent
    <3>1. PICK usage \in Nat : session_tokens' = session_tokens + usage
      BY TotalGrows DEF Book, IInv
    <3>2. PICK a \in Nat, b \in Nat, e \in Nat :
            a = session_tokens /\ b = Spent /\ e = EarlierTokens
      BY BookKept, EarlierNat DEF Book, IInv, Typed, TypeOK
    <3>3. Spent' = (a + usage) - e /\ a = e + b /\ usage # 0
      BY <1>4, <3>1, <3>2, BookKept DEF Book, Spent
    <3>4. (a + usage) - e \in Nat /\ (a + usage) - e > b
      BY ONLY <3>3
    <3> QED
      BY <3>2, <3>3, <3>4
  <2>3. Ledger!Spend
    BY <1>2, <2>1, <2>2 DEF Ledger!Spend, Closed
  <2> QED
    BY <2>3 DEF Ledger!Next
<1> QED
  BY <1>3, <1>4

------------------------------------------------------------------------------
(* The runner counts.                                                        *)

\* A count is a number of tokens: normalize adds, or leaves the count alone.
LEMMA NothingTakenBack ==
    ASSUME Typed, NEW event, Sound(event), Normalize(event)
    PROVE  counted_tokens <= counted_tokens'
<1>1. /\ counted_tokens \in Nat /\ latest_usage \in Nat
      /\ event.type # "stats" => event.tokens \in Nat
      /\ event.tokens \in Nat \cup {NoTokens}
      /\ session_cumulative_token_baseline \in Nat \cup {NoTokens}
  BY DEF Typed, TypeOK, Sound, Events
<1>2. ASSUME NEW tokens \in Nat, CountsDelta(tokens)
      PROVE  counted_tokens <= counted_tokens'
  BY <1>1, <1>2 DEF CountsDelta
<1>3. CASE UNCHANGED countVars
  BY <1>1, <1>3 DEF countVars
<1>4. CASE NormalizeStats(event)
  <2>1. CASE Unreported(event.tokens) > 0
    <3>1. Unreported(event.tokens) \in Nat
      BY <1>1, <1>4 DEF NormalizeStats, Unreported
    <3> QED
      BY <1>2, <1>4, <2>1, <3>1 DEF NormalizeStats
  <2>2. CASE ~(Unreported(event.tokens) > 0)
    BY <1>3, <1>4, <2>2 DEF NormalizeStats
  <2> QED
    BY <2>1, <2>2
<1>5. CASE NormalizeTurnEnd(event)
  BY <1>1, <1>2, <1>5 DEF NormalizeTurnEnd
<1>6. CASE NormalizeAgentEnd(event)
  BY <1>1, <1>2, <1>3, <1>6 DEF NormalizeAgentEnd
<1> QED
  BY <1>3, <1>4, <1>5, <1>6
     DEF Normalize, NormalizeStateResponse, NormalizeAbortResponse, NormalizeEmptyStats,
         NormalizeFirstStats, NormalizeToolCall

\* An event that is normalized is counted, closes the book, or does not show in it.
LEMMA NormalizeMaps ==
    ASSUME Book, Book', NEW event, Sound(event), Normalize(event), ~Closed,
           UNCHANGED session_tokens
    PROVE  [Ledger!Next]_(Ledger!ledger)
<1>1. Spent' = Spent
  BY DEF Spent
<1>2. /\ counted_tokens \in Nat /\ counted_tokens' \in Nat
      /\ counted_tokens <= Spent /\ counted_tokens' <= Spent
      /\ counted_tokens <= counted_tokens'
  <2>1. counted_tokens \in Nat /\ counted_tokens <= Spent
    BY BookKept DEF Book
  <2>2. counted_tokens' \in Nat
    BY DEF Book, IInv, Typed, TypeOK
  <2>3. counted_tokens' <= Spent
    BY <1>1 DEF Book, NothingCountedTwice
  <2>4. counted_tokens <= counted_tokens'
    BY NothingTakenBack DEF Book, IInv
  <2> QED
    BY <2>1, <2>2, <2>3, <2>4
<1>3. CASE Closed'
  <2>1. counted_tokens' = Spent
    BY <1>1, <1>3 DEF Book, IInv, CountInv, AbortedRunIsFullyCounted, Closed
  <2>2. Ledger!Settle
    BY <1>1, <1>2, <1>3, <2>1 DEF Ledger!Settle, Closed
  <2> QED
    BY <2>2 DEF Ledger!Next
<1>4. CASE ~Closed' /\ counted_tokens' = counted_tokens
  BY <1>1, <1>4 DEF Closed, Ledger!ledger
<1>5. CASE ~Closed' /\ counted_tokens' # counted_tokens
  <2>1. counted_tokens' > counted_tokens
    BY <1>2, <1>5
  <2>2. Ledger!Count
    BY <1>1, <1>2, <1>5, <2>1 DEF Ledger!Count, Closed
  <2> QED
    BY <2>2 DEF Ledger!Next
<1> QED
  BY <1>3, <1>4, <1>5

LEMMA RunnerStepMaps ==
    ASSUME Book, Book', RunnerSteps
    PROVE  [Ledger!Next]_(Ledger!ledger)
<1>1. CASE RunnerHandlesLine
  <2>1. /\ Normalize(line_in_hand) /\ UNCHANGED session_tokens
        /\ runner = "in_hand"
    BY <1>1 DEF RunnerHandlesLine
  <2>2. Sound(line_in_hand)
    BY DEF Book, IInv, Typed, EventsSound
  <2>3. ~Closed
    BY <2>1, ClosedAfterAbort DEF Book
  <2> QED
    BY <2>1, <2>2, <2>3, NormalizeMaps
<1>2. CASE RunnerReadsAfterAbort
  <2>1. /\ Takes /\ UNCHANGED session_tokens
        /\ Normalize(Head(stdout)) /\ ~Closed
    BY <1>2 DEF RunnerReadsAfterAbort, Takes, piVars, Closed
  <2>2. Sound(Head(stdout))
    BY <2>1, TakesSound DEF Book, IInv
  <2> QED
    BY <2>1, <2>2, NormalizeMaps
<1>3. CASE UNCHANGED <<session_tokens, normalizerVars, counted_tokens>>
  BY <1>3 DEF Spent, Anchored, normalizerVars, Ledger!ledger
<1> QED
  BY <1>1, <1>2, <1>3
     DEF RunnerSteps, RunnerReads, RunnerAborts, RunnerEndsAfterAbort, piVars, countVars

------------------------------------------------------------------------------
(* The refinement.                                                           *)

LEMMA StepMaps ==
    ASSUME Book, Book', [Next]_vars
    PROVE  [Ledger!Next]_(Ledger!ledger)
<1>1. CASE UNCHANGED vars
  BY <1>1 DEF vars, piVars, normalizerVars, countVars, Spent, Anchored,
                  Ledger!ledger
<1> QED
  BY <1>1, PiStepMaps, RunnerStepMaps DEF Next, Over

LEMMA InitMaps == Init => Ledger!Init
BY EarlierNat DEF Init, Ledger!Init, Spent

\* However the pipes delay the stats, the turn ends and the abort, the count of a run on
\* pi follows what the run spends from below and never goes back, and the final usage of
\* an anchored abort leaves nothing to be spent or counted.
THEOREM RefinesLedger == Spec => ImplementsLedger
<1>1. Book /\ Book' /\ [Next]_vars => [Ledger!Next]_(Ledger!ledger)
  BY StepMaps
<1> QED
  BY <1>1, InitMaps, InductiveInvariant, CountedOnce, PTL
     DEF Spec, Book, ImplementsLedger, Ledger!Spec

=============================================================================
