---------------------------- MODULE MCTaskDispatch ----------------------------
(***************************************************************************)
(* Instances of TaskDispatch for TLC: two tasks, each in its own workspace *)
(* directory, in one runner process or in two.                             *)
(***************************************************************************)
EXTENDS TaskDispatch, TLC

CONSTANTS t1, t2, d1, d2, p1, p2

Both(first, second) == [t \in {t1, t2} |-> IF t = t1 THEN first ELSE second]

MCDirOf == Both(d1, d2)

OnePlacement == {Both(p1, p1)}
TwoProcesses == {Both(p1, p2)}
MCPlacements == OnePlacement \cup TwoProcesses

Reusing(chunk) ==
    [chunk |-> chunk, enable_session_reuse |-> TRUE, session_id |-> "none",
     resume_fallback_prompt |-> FALSE, idle |-> FALSE]

NotReusing(chunk) == [Reusing(chunk) EXCEPT !.enable_session_reuse = FALSE]
FirstRun == [Reusing("none") EXCEPT !.session_id = "minted"]
AfterIdling == [Reusing("none") EXCEPT !.idle = TRUE]

ResumeTurn ==
    [Reusing("none") EXCEPT !.session_id = "resumed", !.resume_fallback_prompt = TRUE]

\* Two chunks in one registry; first runs after a short and a long idle; beside a
\* resume turn, a chunk that is not text.
MCWorkloads ==
    {Both(Reusing("a"), Reusing("b")), Both(FirstRun, AfterIdling),
     Both(Reusing("image"), ResumeTurn)}

\* Two tasks that need the same session, in processes that crash apart.
SharedSession == {Both(Reusing("a"), Reusing("a")), Both(FirstRun, FirstRun)}

\* There the tasks may change places, each with its process and its directory. Sound:
\* nothing in that instance tells them apart.
ChangePlaces ==
    {f \in Permutations({t1, t2, d1, d2, p1, p2}) :
       \/ f = [x \in DOMAIN f |-> x]
       \/ /\ f[t1] = t2 /\ f[d1] = d2 /\ f[p1] = p2
          /\ f[t2] = t1 /\ f[d2] = d1 /\ f[p2] = p1}

\* What that run tells states apart by: all but whether the work of a turn was done,
\* which no guard reads and no property of that run.
WorkLeftOut ==
    <<rigidVars, task, transcripts, torn, minted, registryVars, baseVars, faultVars,
      [t \in Tasks |-> [i \in 1 .. Len(turns[t]) |->
          <<turns[t][i].inherited, turns[t][i].sent, turns[t][i].prompt,
            turns[t][i].outcome>>]]>>

\* Bound: a machine is fresh, or it ran tasks of both kinds before.
MCInit == Init /\ (registry = NothingRead <=> base_store = NoBase)

MCSpec == MCInit /\ [][Next]_vars
MCFairSpec == MCSpec /\ Fairness

SameChunk == {Both(Reusing("a"), Reusing("a"))}
ReuseDisabled == {Both(NotReusing("a"), NotReusing("a"))}

=============================================================================
