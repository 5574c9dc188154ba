------------------------------ MODULE Semaphore ------------------------------
(***************************************************************************)
(* What a counting semaphore promises: each wait that returns has taken one *)
(* unit that a post gave, and while there are units and threads that want   *)
(* them some thread gets one.  It does not promise which.                   *)
(***************************************************************************)
EXTENDS Naturals

CONSTANT Threads

VARIABLES
    count,          \* units posted and not yet taken
    pending         \* threads that want one

semaphoreVars == <<count, pending>>

SemaphoreInit == count = 0 /\ pending = {}

Give == count' = count + 1 /\ UNCHANGED pending

Want(t) ==
    /\ t \notin pending
    /\ pending' = pending \cup {t}
    /\ UNCHANGED count

Take(t) ==
    /\ t \in pending
    /\ count > 0
    /\ count' = count - 1
    /\ pending' = pending \ {t}

SemaphoreNext == Give \/ \E t \in Threads : Want(t) \/ Take(t)

SemaphoreSafety == SemaphoreInit /\ [][SemaphoreNext]_semaphoreVars

SemaphoreSpec == SemaphoreSafety /\ WF_semaphoreVars(\E t \in Threads : Take(t))
=============================================================================
