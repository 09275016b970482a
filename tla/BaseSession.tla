----------------------------- MODULE BaseSession ------------------------------
(***************************************************************************)
(* The warm base session that first runs fork from: claude_base_session.py *)
(* and _try_fork_task_from_base_session of runner.py.                      *)
(*                                                                         *)
(* One record for all tasks. ensure_fresh_base_session holds its lock from *)
(* the reading of the store to the end of the prime.                       *)
(***************************************************************************)
EXTENDS SessionStore

VARIABLES
    base_store,    \* the record of the base session
    base_aged,     \* that record is older than the maximum age
    base_lock      \* per process: the task that is priming a base

baseVars == <<base_store, base_aged, base_lock>>

NoBase == [session |-> NoSession, source |-> "none"]

BaseInit ==
    /\ base_store \in {NoBase} \cup
         [session : {EarlierSession("base")}, source : Dirs \ {DirOf[t] : t \in Tasks}]
    /\ base_aged = FALSE
    /\ base_lock = [p \in Processes |-> {}]

\* _base_session_is_fresh, age and transcript; the caller's idleness comes on top.
Fresh ==
    /\ At(base_store.source, base_store.session) \in transcripts
    /\ ~base_aged

FreshFor(t) == Fresh /\ ~request[t].idle

BaseFree(t) == base_lock[process[t]] = {}
ReleaseBase(t) == base_lock' = [base_lock EXCEPT ![process[t]] = {}]

UseFreshBase(t) ==
    /\ task[t].at = "base" /\ BaseFree(t)
    /\ FreshFor(t)
    /\ task' = [task EXCEPT ![t].at = "relocate",
                            ![t].session = base_store.session,
                            ![t].source = base_store.source]
    /\ UNCHANGED <<storeVars, baseVars>>

\* Mistake: the lock is not held while claude primes.
PrimeBaseUnlocked(t) ==
    /\ task[t].at = "base" /\ BaseFree(t)
    /\ ~FreshFor(t)
    /\ LaunchPrime(t, "base", "base_priming")
    /\ UNCHANGED baseVars

PrimeBase(t) ==
    /\ task[t].at = "base" /\ BaseFree(t)
    /\ ~FreshFor(t)
    /\ LaunchPrime(t, "base", "base_priming")
    /\ base_lock' = [base_lock EXCEPT ![process[t]] = {t}]
    /\ UNCHANGED <<base_store, base_aged>>

BasePrimed(t) ==
    /\ PrimeExits(t, "base_priming", "relocate")
    /\ base_store' = [session |-> task[t].session, source |-> task[t].source]
    /\ base_aged' = FALSE
    /\ ReleaseBase(t)

\* Mistake: a prime that raises leaves the lock held.
BasePrimeFailsHoldingLock(t) ==
    /\ PrimeRaises(t, "base_priming")
    /\ UNCHANGED baseVars

\* The prime raised, or the store could not be written.
BasePrimeFails(t) ==
    /\ PrimeRaises(t, "base_priming")
    /\ ReleaseBase(t)
    /\ UNCHANGED <<base_store, base_aged>>

BasePrimeTimesOut(t) == HasTimeout /\ BasePrimeFails(t)

\* A base that could not be forked is dropped, whoever primed it since, unless the
\* store cannot be removed; the task runs as a plain new session all the same.
ForgetBase(t) ==
    /\ task[t].at = "base_forget" /\ BaseFree(t)
    /\ Launches(t, Plain(t))
    /\ \/ base_store' = NoBase /\ base_aged' = FALSE
       \/ UNCHANGED <<base_store, base_aged>>
    /\ UNCHANGED <<storeVars, base_lock>>

BaseAges ==
    /\ base_store # NoBase /\ ~base_aged
    /\ base_aged' = TRUE
    /\ UNCHANGED <<task, storeVars, base_store, base_lock>>

BaseSteps(t) ==
    \/ UseFreshBase(t) \/ PrimeBase(t) \/ BasePrimeTimesOut(t) \/ ForgetBase(t)

BasePrimeEnds(t) == BasePrimed(t) \/ BasePrimeFails(t)

=============================================================================
