-------------------------------- MODULE CPSem --------------------------------
(***************************************************************************)
(* sync/psem.cpp: a semaphore made of a count, a mutex and a condition      *)
(* variable.  Post and the two ends of Pend hold the mutex throughout, so   *)
(* each is one step; between them Pend waits on the condition variable.     *)
(***************************************************************************)
EXTENDS Naturals, FiniteSets

CONSTANTS
    Threads,
    MaxCount        \* bound: units posted ahead of the waits

ASSUME SemAssumption == IsFiniteSet(Threads) /\ MaxCount \in Nat \ {0}

VARIABLES
    count,          \* _count
    pending,        \* threads inside Pend
    blocked         \* those of them in the wait set of _cond

semVars == <<count, pending, blocked>>

SemTypeOK ==
    /\ count \in 0..MaxCount
    /\ pending \subseteq Threads
    /\ blocked \subseteq pending

SemInit ==
    /\ count = 0
    /\ pending = {}
    /\ blocked = {}

\* Mutation: Post signals only when the count was zero.
PostSignalsFirst ==
    /\ count < MaxCount
    /\ count' = count + 1
    /\ IF blocked = {} \/ count > 0 THEN UNCHANGED blocked
       ELSE \E t \in blocked : blocked' = blocked \ {t}
    /\ UNCHANGED pending

\* pthread_cond_signal wakes one waiting thread, if there is one.
Post ==
    /\ count < MaxCount
    /\ count' = count + 1
    /\ IF blocked = {} THEN UNCHANGED blocked
       ELSE \E t \in blocked : blocked' = blocked \ {t}
    /\ UNCHANGED pending

\* A thread calls Pend, and waits for the mutex.
Pend(t) ==
    /\ t \notin pending
    /\ pending' = pending \cup {t}
    /\ UNCHANGED <<count, blocked>>

\* The thread has the mutex, for the first time or woken, and tests the count.
PendBlocks(t) ==
    /\ t \in pending \ blocked
    /\ count = 0
    /\ blocked' = blocked \cup {t}
    /\ UNCHANGED <<count, pending>>

\* Mutation: a thread that has the mutex takes a unit without testing the count.
PendTakesUntested(t) ==
    /\ t \in pending \ blocked
    /\ count' = count - 1
    /\ pending' = pending \ {t}
    /\ UNCHANGED blocked

PendTakes(t) ==
    /\ t \in pending \ blocked
    /\ count # 0
    /\ count' = count - 1
    /\ pending' = pending \ {t}
    /\ UNCHANGED blocked

\* pthread_cond_wait may return without a signal.
WakeSpuriously(t) ==
    /\ t \in blocked
    /\ blocked' = blocked \ {t}
    /\ UNCHANGED <<count, pending>>

PendGoesOn(t) == PendBlocks(t) \/ PendTakes(t)

SemNext ==
    \/ Post
    \/ \E t \in Threads : Pend(t) \/ PendGoesOn(t) \/ WakeSpuriously(t)

SemSpec == SemInit /\ [][SemNext]_semVars

\* A thread that can take the mutex gets it in the end.
FairSemSpec == SemSpec /\ \A t \in Threads : WF_semVars(PendGoesOn(t))
-----------------------------------------------------------------------------
(* Properties.                                                              *)

\* No wake-up is lost: while threads are blocked, no more units lie there than
\* threads have been woken, or have just come, to take them.
NoLostWakeup == blocked # {} => count <= Cardinality(pending \ blocked)

\* CPSem is a counting semaphore, whoever overtakes whom and wakes for nothing.
Counting == INSTANCE Semaphore
ImplementsSemaphore == Counting!SemaphoreSpec
=============================================================================
