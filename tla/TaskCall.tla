------------------------------- MODULE TaskCall -------------------------------
(***************************************************************************)
(* What run_claude_code_task promises whoever called it, without sessions, *)
(* registries, transcripts or locks: how often a task is tried, in which   *)
(* order, and what brings a call to its end. TaskDispatch implements it.   *)
(***************************************************************************)
EXTENDS Naturals, Sequences

CONSTANT Callers

VARIABLES
    continues,   \* the calls that continue a session of their caller's
    way,         \* how each call goes on: by a "shortcut", a session someone primed;
                 \* "plain", when it may not; or how it ended
    attempts     \* the turns it had its harness take

calls == <<continues, way, attempts>>

Ways     == {"shortcut", "plain"}
Outcomes == {"running", "completed", "raised", "crashed"}

Init ==
    /\ continues \in SUBSET Callers
    /\ way = [c \in Callers |-> "shortcut"]
    /\ attempts = [c \in Callers |-> <<>>]

Open(c)       == way[c] \in Ways
Latest(c)     == attempts[c][Len(attempts[c])]
Attempting(c) == attempts[c] # <<>> /\ Latest(c).outcome = "running"

GoesOn(c, to) == way' = [way EXCEPT ![c] = to] /\ UNCHANGED continues

EndsAttempt(c, outcome) ==
    /\ Attempting(c)
    /\ attempts' = [attempts EXCEPT ![c][Len(attempts[c])].outcome = outcome]

\* One attempt at a time, the way the call is going.
Attempt(c) ==
    /\ Open(c) /\ ~Attempting(c)
    /\ attempts' = [attempts EXCEPT ![c] =
         Append(@, [way |-> way[c], outcome |-> "running"])]
    /\ UNCHANGED <<continues, way>>

Complete(c) ==
    /\ Open(c) /\ EndsAttempt(c, "completed")
    /\ GoesOn(c, "returned")

\* A failure, in an attempt or before one, costs the call its shortcut, and a plain
\* call everything. A call may also go without its shortcut from the first.
Fail(c) ==
    /\ Open(c)
    /\ \/ EndsAttempt(c, "raised")
       \/ ~Attempting(c) /\ UNCHANGED attempts
    /\ GoesOn(c, IF way[c] = "shortcut" THEN "plain" ELSE "raised")

\* A session that the harness turns down is a result: the call returns without an
\* attempt. A plain call has a session only if it continues one.
TurnDown(c) ==
    /\ Open(c) /\ ~Attempting(c)
    /\ way[c] = "shortcut" \/ c \in continues
    /\ GoesOn(c, "returned") /\ UNCHANGED attempts

\* Runners die, and the calls that were open are made again.
Crash(hit) ==
    /\ \A c \in hit : Open(c)
    /\ way' = [c \in Callers |-> IF c \in hit THEN "shortcut" ELSE way[c]]
    /\ attempts' = [c \in Callers |->
         IF c \in hit /\ Attempting(c)
         THEN [attempts[c] EXCEPT ![Len(attempts[c])].outcome = "crashed"]
         ELSE attempts[c]]
    /\ UNCHANGED continues

Next ==
    \/ \E c \in Callers : Attempt(c) \/ Complete(c) \/ Fail(c) \/ TurnDown(c)
    \/ \E hit \in SUBSET Callers : Crash(hit)

Spec == Init /\ [][Next]_calls

=============================================================================
