---------------------------- MODULE CPThreadProofs ----------------------------
(***************************************************************************)
(* CPSem loses no wake-up and is a counting semaphore, for any finite set   *)
(* of threads, and CPThread runs what it is given and stops, for any number *)
(* of tasks, workers and restarts.  That every wait that can return does so *)
(* is TLC's part.                                                           *)
(***************************************************************************)
EXTENDS CPThread, FiniteSetTheorems, SequenceTheorems, TLAPS

\* Threads that have been woken or have just come, and wait for the mutex.
Awake == pending \ blocked

SemInv == SemTypeOK /\ NoLostWakeup

\* All these sets are finite.
LEMMA Finite ==
    ASSUME SemTypeOK
    PROVE  IsFiniteSet(Awake) /\ Cardinality(Awake) \in Nat /\ count \in Nat
<1>1. IsFiniteSet(Awake)
  BY SemAssumption, FS_Subset, Awake \subseteq Threads DEF SemTypeOK, Awake
<1> QED BY <1>1, FS_CardinalityType, SemAssumption DEF SemTypeOK

\* A thread joins those awake.
LEMMA OneMoreAwake ==
    ASSUME SemTypeOK, NEW t, t \notin Awake, Awake' = Awake \cup {t}
    PROVE  Cardinality(Awake)' = Cardinality(Awake) + 1
BY Finite, FS_AddElement

LEMMA SemInitInv == SemInit => SemInv
BY SemAssumption DEF SemInit, SemInv, SemTypeOK, NoLostWakeup

LEMMA PostInv == SemInv /\ Post => SemInv'
<1> SUFFICES ASSUME SemInv, Post PROVE SemInv'
  OBVIOUS
<1>1. SemTypeOK /\ count \in Nat /\ Cardinality(Awake) \in Nat
  BY Finite DEF SemInv
<1>2. SemTypeOK'
  <2>1. count' \in 0..MaxCount
    BY <1>1, SemAssumption DEF Post
  <2>2. blocked' \subseteq blocked /\ pending' = pending
    BY DEF Post
  <2> QED BY <1>1, <2>1, <2>2 DEF SemTypeOK
<1>3. CASE blocked = {}
  BY <1>2, <1>3 DEF Post, SemInv, NoLostWakeup
<1>4. CASE blocked # {}
  <2>1. PICK t \in blocked : blocked' = blocked \ {t}
    BY <1>4 DEF Post
  <2>2. t \notin Awake /\ Awake' = Awake \cup {t}
    BY <1>1, <2>1 DEF Post, Awake, SemTypeOK
  <2>3. Cardinality(Awake)' = Cardinality(Awake) + 1
    BY <1>1, <2>2, OneMoreAwake
  <2>4. count <= Cardinality(Awake) /\ count' = count + 1
    BY <1>4 DEF SemInv, NoLostWakeup, Awake, Post
  <2>5. count' <= Cardinality(Awake)'
    BY <1>1, <2>3, <2>4
  <2> QED BY <1>2, <2>5 DEF SemInv, NoLostWakeup, Awake
<1> QED BY <1>3, <1>4

LEMMA PendInv ==
    ASSUME SemInv, NEW t \in Threads, Pend(t)
    PROVE  SemInv'
<1>1. SemTypeOK /\ count \in Nat /\ Cardinality(Awake) \in Nat
  BY Finite DEF SemInv
<1>2. SemTypeOK'
  BY <1>1 DEF Pend, SemTypeOK
<1>3. t \notin Awake /\ Awake' = Awake \cup {t}
  BY <1>1 DEF Pend, Awake, SemTypeOK
<1>4. Cardinality(Awake)' = Cardinality(Awake) + 1
  BY <1>1, <1>3, OneMoreAwake
<1>5. blocked' # {} => count' <= Cardinality(Awake)'
  BY <1>1, <1>4 DEF Pend, SemInv, NoLostWakeup, Awake
<1> QED BY <1>2, <1>5 DEF SemInv, NoLostWakeup, Awake

LEMMA PendBlocksInv ==
    ASSUME SemInv, NEW t \in Threads, PendBlocks(t)
    PROVE  SemInv'
<1>1. SemTypeOK'
  BY DEF SemInv, PendBlocks, SemTypeOK
<1>2. count' = 0 /\ Cardinality(Awake)' \in Nat
  <2>1. IsFiniteSet(Awake')
    BY <1>1, SemAssumption, FS_Subset, Awake' \subseteq Threads DEF SemTypeOK, Awake
  <2> QED BY <2>1, FS_CardinalityType DEF PendBlocks
<1>3. count' <= Cardinality(Awake)'
  BY <1>2
<1> QED BY <1>1, <1>3 DEF SemInv, NoLostWakeup, Awake

LEMMA PendTakesInv ==
    ASSUME SemInv, NEW t \in Threads, PendTakes(t)
    PROVE  SemInv'
<1>1. SemTypeOK /\ count \in Nat /\ Cardinality(Awake) \in Nat /\ IsFiniteSet(Awake)
  BY Finite DEF SemInv
<1>2. SemTypeOK'
  <2>1. count' \in 0..MaxCount
    BY <1>1, SemAssumption DEF PendTakes, SemTypeOK
  <2> QED BY <1>1, <2>1 DEF PendTakes, SemTypeOK
<1>3. t \in Awake /\ Awake' = Awake \ {t}
  BY DEF PendTakes, Awake
<1>4. Cardinality(Awake)' = Cardinality(Awake) - 1
  BY <1>1, <1>3, FS_RemoveElement
<1>5. blocked' # {} => count' <= Cardinality(Awake)'
  BY <1>1, <1>4 DEF PendTakes, SemInv, NoLostWakeup, Awake
<1> QED BY <1>2, <1>5 DEF SemInv, NoLostWakeup, Awake

LEMMA WakeInv ==
    ASSUME SemInv, NEW t \in Threads, WakeSpuriously(t)
    PROVE  SemInv'
<1>1. SemTypeOK /\ count \in Nat /\ Cardinality(Awake) \in Nat
  BY Finite DEF SemInv
<1>2. SemTypeOK'
  BY <1>1 DEF WakeSpuriously, SemTypeOK
<1>3. t \notin Awake /\ Awake' = Awake \cup {t}
  BY <1>1 DEF WakeSpuriously, Awake, SemTypeOK
<1>4. Cardinality(Awake)' = Cardinality(Awake) + 1
  BY <1>1, <1>3, OneMoreAwake
<1>5. count' <= Cardinality(Awake)'
  BY <1>1, <1>4 DEF WakeSpuriously, SemInv, NoLostWakeup, Awake
<1> QED BY <1>2, <1>5 DEF SemInv, NoLostWakeup, Awake

LEMMA SemInvHolds == SemSpec => []SemInv
<1>1. SemInv /\ [SemNext]_semVars => SemInv'
  <2> SUFFICES ASSUME SemInv, [SemNext]_semVars PROVE SemInv'
    OBVIOUS
  <2>1. CASE Post
    BY <2>1, PostInv
  <2>2. ASSUME NEW t \in Threads, Pend(t) \/ PendGoesOn(t) \/ WakeSpuriously(t)
        PROVE  SemInv'
    BY <2>2, PendInv, PendBlocksInv, PendTakesInv, WakeInv DEF PendGoesOn
  <2>3. CASE UNCHANGED semVars
    BY <2>3 DEF semVars, SemInv, SemTypeOK, NoLostWakeup
  <2> QED BY <2>1, <2>2, <2>3 DEF SemNext
<1> QED BY SemInitInv, <1>1, PTL DEF SemSpec

\* CPSem's count, wait set and bound are what they should be.
THEOREM SemTypeCorrect == SemSpec => []SemTypeOK
<1>1. SemInv => SemTypeOK
  BY DEF SemInv
<1> QED BY SemInvHolds, <1>1, PTL

\* No unit waits for a thread that nobody woke, however many threads use CPSem.
THEOREM NoWakeupLost == SemSpec => []NoLostWakeup
<1>1. SemInv => NoLostWakeup
  BY DEF SemInv
<1> QED BY SemInvHolds, <1>1, PTL

\* Every step of CPSem is a step of the abstract semaphore or changes nothing of it.
THEOREM ImplementsSafety == SemSpec => Counting!SemaphoreSafety
<1>1. SemInit => Counting!SemaphoreInit
  BY DEF SemInit, Counting!SemaphoreInit
<1>2. SemInv /\ [SemNext]_semVars => [Counting!SemaphoreNext]_Counting!semaphoreVars
  <2> SUFFICES ASSUME SemInv, [SemNext]_semVars
               PROVE  Counting!SemaphoreNext \/ UNCHANGED <<count, pending>>
    BY DEF Counting!semaphoreVars
  <2>1. CASE Post
    BY <2>1 DEF Post, Counting!SemaphoreNext, Counting!Give
  <2>2. ASSUME NEW t \in Threads, Pend(t)
        PROVE  Counting!SemaphoreNext
    BY <2>2 DEF Pend, Counting!SemaphoreNext, Counting!Want
  <2>3. ASSUME NEW t \in Threads, PendTakes(t)
        PROVE  Counting!SemaphoreNext
    <3>1. count > 0
      BY <2>3, Finite DEF SemInv, PendTakes
    <3>2. Counting!Take(t)
      BY <2>3, <3>1 DEF PendTakes, Counting!Take
    <3> QED BY <3>2 DEF Counting!SemaphoreNext
  <2>4. ASSUME NEW t \in Threads, PendBlocks(t) \/ WakeSpuriously(t)
        PROVE  UNCHANGED <<count, pending>>
    BY <2>4 DEF PendBlocks, WakeSpuriously
  <2>5. CASE UNCHANGED semVars
    BY <2>5 DEF semVars
  <2> QED BY <2>1, <2>2, <2>3, <2>4, <2>5 DEF SemNext, PendGoesOn
<1> QED BY <1>1, <1>2, SemInvHolds, PTL DEF SemSpec, Counting!SemaphoreSafety
-----------------------------------------------------------------------------
(* The thread.  A unit is taken when a worker is behind the wait, and one is *)
(* still to come when the owner is in a call that will post.                *)

One(condition) == IF condition THEN 1 ELSE 0

Writing == owner \in {"writeFirst", "writeSecond", "postTask"}
Live(t) == process[t] \notin {"none", "dead"}
Reading(t) == process[t] \in {"read", "run"}
Holders == {t \in Threads : process[t] \in {"retest", "read", "run"}}

\* Without _run, or once Start has raised it again, nobody lives but those who are lost
\* and the one that Stop waits for.
Serving == running /\ owner # "create"
WorkersInv ==
    /\ \A t \in Threads : process[t] = "none" <=> thread < t
    /\ lost \subseteq 1..thread
    /\ \A t \in Threads \ lost :
           Live(t) => t = thread /\ (Serving \/ owner \in {"postStop", "join"})
    /\ Serving => thread # 0
    /\ owner = "create" => running /\ thread < MaxStarts
    /\ owner \in {"postStop", "join"} => ~running

\* Each worker is stopped or lost once, but for the last.
StopsInv == stops + Cardinality(lost) + One(Serving) <= thread

\* Every task run, and every unit not yet used up, comes from an AddTask or a Stop.
UnitsInv ==
    Len(ran) + count + Cardinality(Holders) + One(Writing) + One(owner = "postStop")
        <= added + stops

\* AddTask posts when the slot holds its task whole, and the slot has none younger.
Fields == {"worker", "user"}
Slot == [worker |-> slotWorker, user |-> slotUser]
SlotInv ==
    \A f \in Fields :
        /\ Slot[f] <= added
        /\ owner \notin {"writeFirst", "writeSecond"} => Slot[f] = added

\* The slot only gets younger tasks, and what a worker has read or run of it is not
\* younger.  Two workers may overtake each other between reading and running.
OrderInv ==
    lost = {} =>
        \A f \in Fields :
            /\ \A t \in Threads : Reading(t) /\ job[t][f] # Unread => job[t][f] <= Slot[f]
            /\ \A k \in 1..Len(ran) :
                   /\ ran[k][f] <= Slot[f]
                   /\ \A t \in Threads : Reading(t) /\ job[t][f] # Unread => ran[k][f] <= job[t][f]
            /\ \A k \in 1..Len(ran) - 1 : ran[k][f] <= ran[k + 1][f]

\* The owner waits for each task, and there has been one worker: at most one task is
\* under way, and the worker reads the slot only while nobody writes it.
Alone == thread <= 1 /\ ~overlapped
AloneInv ==
    Alone =>
        /\ added <= Len(ran) + 1
        /\ \A k \in 1..Len(ran) : ran[k] = [worker |-> k, user |-> k]
        /\ \A t \in Threads :
               Reading(t) => /\ ~Writing /\ added = Len(ran) + 1
                             /\ \A f \in Fields : job[t][f] \in {Unread, added}

Typed ==
    /\ TypeOK
    /\ \A t \in Threads : process[t] = "run" => job[t].worker # Unread /\ job[t].user # Unread

ThreadInv ==
    Typed /\ WorkersInv /\ StopsInv /\ UnitsInv /\ SlotInv /\ OrderInv /\ AloneInv

LEMMA ThreadConstants ==
    /\ MaxTasks \in Nat /\ MaxStarts \in Nat /\ Threads = 1..MaxStarts
    /\ Unread \notin Tasks0 /\ NoJob \in Job
    /\ \A n \in Tasks0 : n \in Nat /\ n < Unread
BY ThreadAssumption DEF Unread, Tasks0, NoJob, Job

\* The steps of the semaphore keep its types.
LEMMA SemTypes ==
    ASSUME SemTypeOK, NEW t \in Threads,
           \/ Post \/ Pend(t) \/ PendBlocks(t) \/ PendTakes(t)
           \/ WakeSpuriously(t) \/ UNCHANGED semVars
    PROVE  SemTypeOK'
<1>1. count \in 0..MaxCount /\ MaxCount \in Nat
  BY SemAssumption DEF SemTypeOK
<1>2. CASE Post
  BY <1>1, <1>2 DEF Post, SemTypeOK
<1>3. CASE Pend(t)
  BY <1>1, <1>3 DEF Pend, SemTypeOK
<1>4. CASE PendBlocks(t)
  BY <1>1, <1>4 DEF PendBlocks, SemTypeOK
<1>5. CASE PendTakes(t)
  <2>1. count' \in 0..MaxCount
    BY <1>1, <1>5 DEF PendTakes
  <2> QED BY <1>5, <2>1 DEF PendTakes, SemTypeOK
<1>6. CASE WakeSpuriously(t)
  BY <1>1, <1>6 DEF WakeSpuriously, SemTypeOK
<1>7. CASE UNCHANGED semVars
  BY <1>7 DEF semVars, SemTypeOK
<1> QED BY <1>2, <1>3, <1>4, <1>5, <1>6, <1>7

LEMMA PostTypes == SemTypeOK /\ (Post \/ UNCHANGED semVars) => SemTypeOK'
<1> SUFFICES ASSUME SemTypeOK, Post \/ UNCHANGED semVars PROVE SemTypeOK'
  OBVIOUS
<1>1. count \in 0..MaxCount /\ MaxCount \in Nat
  BY SemAssumption DEF SemTypeOK
<1>2. CASE Post
  BY <1>1, <1>2 DEF Post, SemTypeOK
<1>3. CASE UNCHANGED semVars
  BY <1>3 DEF semVars, SemTypeOK
<1> QED BY <1>2, <1>3

\* The owner's side of Create.
LEMMA CreateIs ==
    ASSUME Typed, WorkersInv, Create
    PROVE  \/ /\ thread' = thread + 1 /\ thread + 1 \in Threads /\ thread' \in 0..MaxStarts
              /\ process' = [process EXCEPT ![thread + 1] = "attach"]
              /\ process[thread + 1] = "none" /\ running /\ running' = TRUE
           \/ running' = FALSE /\ UNCHANGED <<thread, process>>
<1>1. thread \in 0..MaxStarts /\ MaxStarts \in Nat /\ running /\ thread < MaxStarts
  BY ThreadConstants DEF Typed, TypeOK, WorkersInv, Create, OwnerGoes
<1>2. thread + 1 \in Threads /\ thread + 1 \in 0..MaxStarts
  BY <1>1, ThreadConstants
<1>3. process[thread + 1] = "none"
  BY <1>1, <1>2 DEF WorkersInv
<1>4. CASE thread' = thread + 1
  BY <1>1, <1>2, <1>3, <1>4 DEF Create
<1>5. CASE running' = FALSE /\ UNCHANGED <<thread, process>>
  BY <1>5
<1> QED BY <1>4, <1>5 DEF Create

LEMMA OwnerTyped ==
    ASSUME Typed, WorkersInv, Start \/ AddTask \/ Stop \/ ContinueCall
    PROVE  Typed'
<1>1. SemTypeOK'
  BY PostTypes DEF Typed, TypeOK, Start, AddTask, Stop, ContinueCall, Create, WriteSlot,
                   PostTask, PostStop, Join
<1>2. CASE Start
  <2>1. running /\ owner = "idle" => thread \in Threads
    BY ThreadConstants DEF Typed, TypeOK, WorkersInv, Serving
  <2>2. lost' \subseteq Threads
    BY <1>2, <2>1 DEF Start, OwnerGoes, Typed, TypeOK
  <2> QED BY <1>1, <1>2, <2>2 DEF Start, OwnerGoes, Typed, TypeOK, slotVars, taskVars,
                                  workerVars, OwnerState
<1>3. CASE AddTask
  <2>1. added' \in Tasks0
    BY <1>3, ThreadConstants DEF AddTask, Typed, TypeOK, Tasks0
  <2>2. overlapped' \in BOOLEAN
    BY <1>3 DEF AddTask, Typed, TypeOK
  <2> QED BY <1>1, <1>3, <2>1, <2>2
          DEF AddTask, OwnerGoes, Typed, TypeOK, slotVars, runVars, workerVars, OwnerState
<1>4. CASE Create
  <2>1. /\ thread' \in 0..MaxStarts /\ running' \in BOOLEAN
        /\ process' \in [Threads -> ProcessState]
        /\ \A t \in Threads : process'[t] = "run" => process[t] = "run"
    BY <1>4, CreateIs DEF Typed, TypeOK, ProcessState
  <2>2. /\ UNCHANGED <<semVars, stops, lost, slotVars, taskVars, job, ran>>
        /\ owner' \in OwnerState
    BY <1>4 DEF Create, OwnerGoes, OwnerState
  <2> QED BY <1>1, <2>1, <2>2 DEF Typed, TypeOK, slotVars, taskVars
<1>5. CASE Stop
  <2>1. stops' \in Nat
    BY <1>5 DEF Stop, Typed, TypeOK
  <2> QED BY <1>1, <1>5, <2>1 DEF Stop, OwnerGoes, Typed, TypeOK, slotVars, taskVars,
                                  workerVars, OwnerState
<1>6. CASE WriteSlot \/ PostTask \/ PostStop \/ Join
  BY <1>1, <1>6 DEF WriteSlot, PostTask, PostStop, Join, OwnerGoes,
                    Typed, TypeOK, slotVars, taskVars, runVars, workerVars, OwnerState
<1> QED BY <1>2, <1>3, <1>4, <1>5, <1>6 DEF ContinueCall

\* What a step of a worker leaves alone, and what it does to its place.
LEMMA WorkerKeeps ==
    ASSUME NEW t \in Threads, Process(t)
    PROVE  /\ UNCHANGED <<running, thread, stops, lost, slotWorker, slotUser, added, overlapped,
                          owner>>
           /\ process[t] \in ProcessState \ {"none", "dead"}
           /\ \/ process' = process
              \/ \E s \in ProcessState \ {"none"} : process' = [process EXCEPT ![t] = s]
<1>1. CASE Attach(t) \/ TestRun(t) \/ WaitTask(t)
  BY <1>1 DEF Attach, TestRun, WaitTask, WorkerGoes, ProcessState, runVars, slotVars, taskVars
<1>2. CASE RetestRun(t)
  BY <1>2 DEF RetestRun, WorkerGoes, ProcessState, runVars, slotVars, taskVars
<1>3. CASE ReadSlot(t) \/ RunTask(t)
  BY <1>3 DEF ReadSlot, RunTask, WorkerGoes, ProcessState, runVars, slotVars, taskVars
<1> QED BY <1>1, <1>2, <1>3 DEF Process

\* ReadSlot reads a field it has not yet read.
LEMMA ReadIs ==
    ASSUME Typed, NEW t \in Threads, ReadSlot(t)
    PROVE  /\ job' \in [Threads -> Job]
           /\ \A u \in Threads \ {t} : job'[u] = job[u]
           /\ \A f \in Fields : \/ job'[t][f] \in {Unread, Slot[f]}
                                \/ job'[t][f] = job[t][f] /\ job[t][f] # Unread
           /\ process'[t] = "run" => job'[t].worker # Unread /\ job'[t].user # Unread
<1>1. /\ job \in [Threads -> Job] /\ slotWorker \in Tasks0 /\ slotUser \in Tasks0
      /\ process \in [Threads -> ProcessState] /\ job[t] \in Job
  BY DEF Typed, TypeOK
<1>2. ASSUME NEW new \in Job, job' = [job EXCEPT ![t] = new]
      PROVE  /\ job' \in [Threads -> Job] /\ job'[t] = new
             /\ \A u \in Threads \ {t} : job'[u] = job[u]
  BY <1>1, <1>2
<1>3. ASSUME job[t] = NoJob, process'[t] = "read",
             NEW half \in {[NoJob EXCEPT !.worker = slotWorker], [NoJob EXCEPT !.user = slotUser]},
             job' = [job EXCEPT ![t] = half]
      PROVE  /\ job' \in [Threads -> Job]
             /\ \A u \in Threads \ {t} : job'[u] = job[u]
             /\ \A f \in Fields : job'[t][f] \in {Unread, Slot[f]}
  <2>1. half \in Job /\ \A f \in Fields : half[f] \in {Unread, Slot[f]}
    BY <1>1, <1>3 DEF NoJob, Job, Fields, Slot
  <2> QED BY <1>2, <1>3, <2>1
<1>5. CASE job' = [job EXCEPT ![t] = [worker |-> IF @.worker = Unread THEN slotWorker ELSE @.worker,
                                     user |-> IF @.user = Unread THEN slotUser ELSE @.user]]
  <2> DEFINE new == [worker |-> IF job[t].worker = Unread THEN slotWorker ELSE job[t].worker,
                     user |-> IF job[t].user = Unread THEN slotUser ELSE job[t].user]
  <2>1. new \in Job
    BY <1>1 DEF Job
  <2>2. job' = [job EXCEPT ![t] = new]
    BY <1>5
  <2>3. job' \in [Threads -> Job] /\ job'[t] = new /\ \A u \in Threads \ {t} : job'[u] = job[u]
    BY <1>2, <2>1, <2>2
  <2> QED BY <1>1, <2>3, ThreadConstants DEF Fields, Slot
<1>6. \/ /\ process'[t] = "read" /\ job[t] = NoJob
         /\ \E half \in {[NoJob EXCEPT !.worker = slotWorker], [NoJob EXCEPT !.user = slotUser]} :
                job' = [job EXCEPT ![t] = half]
      \/ job' = [job EXCEPT ![t] = [worker |-> IF @.worker = Unread THEN slotWorker ELSE @.worker,
                                    user |-> IF @.user = Unread THEN slotUser ELSE @.user]]
  BY <1>1 DEF ReadSlot, WorkerGoes
<1> QED BY <1>3, <1>5, <1>6

LEMMA WorkerTyped ==
    ASSUME Typed, NEW t \in Threads, Process(t)
    PROVE  Typed'
<1>1. SemTypeOK'
  BY SemTypes DEF Typed, TypeOK, Process, Attach, TestRun, WaitTask, RetestRun, ReadSlot, RunTask
<1>2. /\ UNCHANGED <<running, thread, stops, lost, slotWorker, slotUser, added, overlapped, owner>>
      /\ process' \in [Threads -> ProcessState]
  BY WorkerKeeps DEF Typed, TypeOK
<1>3. SUFFICES /\ job' \in [Threads -> Job]
               /\ ran' \in Seq([worker : Tasks0, user : Tasks0])
               /\ \A u \in Threads :
                      process'[u] = "run" => job'[u].worker # Unread /\ job'[u].user # Unread
  BY <1>1, <1>2 DEF Typed, TypeOK
<1>4. /\ job \in [Threads -> Job] /\ process \in [Threads -> ProcessState]
      /\ ran \in Seq([worker : Tasks0, user : Tasks0])
      /\ \A u \in Threads : process[u] = "run" => job[u].worker # Unread /\ job[u].user # Unread
  BY DEF Typed, TypeOK
<1>5. CASE Attach(t) \/ TestRun(t) \/ WaitTask(t)
  BY <1>4, <1>5 DEF Attach, TestRun, WaitTask, WorkerGoes
<1>6. CASE RetestRun(t)
  BY <1>4, <1>6, ThreadConstants DEF RetestRun, WorkerGoes
<1>7. CASE ReadSlot(t)
  <2>1. ran' = ran /\ \A u \in Threads \ {t} : process'[u] = process[u]
    BY <1>4, <1>7 DEF ReadSlot, WorkerGoes
  <2> QED BY <1>4, <1>7, <2>1, ReadIs
<1>8. CASE RunTask(t)
  <2>1. job[t] \in [worker : Tasks0, user : Tasks0]
    BY <1>4, <1>8 DEF RunTask, WorkerGoes, Job
  <2>2. ran' \in Seq([worker : Tasks0, user : Tasks0])
    BY <1>4, <1>8, <2>1, AppendProperties DEF RunTask
  <2> QED BY <1>4, <1>8, <2>2 DEF RunTask, WorkerGoes
<1> QED BY <1>5, <1>6, <1>7, <1>8 DEF Process
-----------------------------------------------------------------------------
(* Who lives.                                                               *)

LEMMA WorkersStep ==
    ASSUME Typed, WorkersInv, [Next]_threadVars
    PROVE  WorkersInv'
<1>1. /\ thread \in Nat /\ thread \in 0..MaxStarts /\ MaxStarts \in Nat /\ Threads = 1..MaxStarts
      /\ process \in [Threads -> ProcessState] /\ lost \subseteq 1..thread
      /\ running \in BOOLEAN
  BY ThreadConstants DEF Typed, TypeOK, WorkersInv
<1>2. CASE Start
  <2>1. /\ UNCHANGED <<thread, process>> /\ running' = TRUE /\ owner = "idle"
        /\ owner' = "create" /\ thread < MaxStarts
        /\ lost' = IF running THEN lost \cup {thread} ELSE lost
    BY <1>2 DEF Start, OwnerGoes, workerVars
  <2>2. lost' \subseteq 1..thread
    BY <1>1, <2>1 DEF WorkersInv, Serving
  <2>3. \A t \in Threads \ lost' : ~Live(t)
    BY <2>1 DEF WorkersInv, Serving
  <2> QED BY <2>1, <2>2, <2>3 DEF WorkersInv, Serving, Live
<1>3. CASE Create
  <2>1. owner = "create" /\ owner' = "idle" /\ lost' = lost
    BY <1>3 DEF Create, OwnerGoes
  <2>2. \A t \in Threads \ lost : ~Live(t)
    BY <2>1 DEF WorkersInv, Serving
  <2>3. CASE /\ thread' = thread + 1 /\ thread + 1 \in Threads
             /\ process' = [process EXCEPT ![thread + 1] = "attach"] /\ running' = TRUE
    <3>1. \A t \in Threads : process'[t] = "none" <=> thread' < t
      BY <1>1, <2>3 DEF WorkersInv
    <3>2. \A t \in Threads \ lost : Live(t)' => t = thread'
      BY <1>1, <2>2, <2>3 DEF Live
    <3> QED BY <1>1, <2>1, <2>3, <3>1, <3>2 DEF WorkersInv, Serving
  <2>4. CASE running' = FALSE /\ UNCHANGED <<thread, process>>
    BY <2>1, <2>2, <2>4 DEF WorkersInv, Serving, Live
  <2> QED BY <1>3, <2>3, <2>4, CreateIs
<1>4. CASE AddTask \/ WriteSlot \/ PostTask \/ PostStop \/ Join
  <2>1. UNCHANGED <<running, thread, lost, process>>
    BY <1>4 DEF AddTask, WriteSlot, PostTask, PostStop, Join, runVars, workerVars
  <2>2. /\ owner # "create" /\ owner' # "create"
        /\ owner' \in {"postStop", "join"} => owner \in {"postStop", "join"}
        /\ \/ owner \in {"postStop", "join"} => owner' \in {"postStop", "join"}
           \/ Join
    BY <1>4 DEF AddTask, WriteSlot, PostTask, PostStop, Join, OwnerGoes
  <2>3. Join => ~Live(thread)
    BY DEF Join, Live
  <2> QED BY <2>1, <2>2, <2>3 DEF WorkersInv, Serving, Live
<1>5. CASE Stop
  <2>1. /\ UNCHANGED <<thread, lost, process>> /\ running /\ running' = FALSE
        /\ owner = "idle" /\ owner' = "postStop"
    BY <1>5 DEF Stop, OwnerGoes, workerVars
  <2> QED BY <2>1 DEF WorkersInv, Serving, Live
<1>6. ASSUME NEW t \in Threads, Process(t)
      PROVE  WorkersInv'
  <2>1. UNCHANGED <<running, thread, lost, owner>> /\ process[t] \notin {"none", "dead"}
    BY <1>6, WorkerKeeps
  <2>2. \A u \in Threads : /\ process'[u] = "none" <=> process[u] = "none"
                           /\ Live(u)' => Live(u)
    BY <1>1, <1>6, <2>1, WorkerKeeps DEF Live
  <2> QED BY <2>1, <2>2 DEF WorkersInv, Serving
<1>7. CASE UNCHANGED threadVars
  BY <1>7 DEF WorkersInv, Serving, Live, threadVars, runVars, workerVars
<1> QED BY <1>2, <1>3, <1>4, <1>5, <1>6, <1>7 DEF Next, ContinueCall, OwnerRests

LEMMA LostFinite ==
    ASSUME Typed
    PROVE  IsFiniteSet(lost) /\ Cardinality(lost) \in Nat
BY SemAssumption, FS_Subset, FS_CardinalityType DEF Typed, TypeOK

LEMMA StopsStep ==
    ASSUME Typed, WorkersInv, StopsInv, [Next]_threadVars
    PROVE  StopsInv'
<1>1. /\ thread \in Nat /\ stops \in Nat /\ Cardinality(lost) \in Nat /\ running \in BOOLEAN
      /\ IsFiniteSet(lost)
  BY LostFinite, ThreadConstants DEF Typed, TypeOK
<1>2. CASE Start
  <2>1. /\ UNCHANGED <<thread, stops>> /\ owner = "idle" /\ owner' = "create"
        /\ lost' = IF running THEN lost \cup {thread} ELSE lost
    BY <1>2 DEF Start, OwnerGoes
  <2>2. Cardinality(lost') <= Cardinality(lost) + One(Serving)
    BY <1>1, <2>1, FS_AddElement DEF Serving, One
  <2>3. Cardinality(lost') \in Nat
    BY <1>1, <2>1, FS_AddElement, FS_CardinalityType
  <2> QED BY <1>1, <2>1, <2>2, <2>3 DEF StopsInv, Serving, One
<1>3. CASE Create
  <2>1. owner = "create" /\ lost' = lost /\ stops' = stops
    BY <1>3 DEF Create, OwnerGoes
  <2>2. stops + Cardinality(lost) <= thread
    BY <1>1, <2>1 DEF StopsInv, Serving, One
  <2>3. \/ thread' = thread + 1
        \/ running' = FALSE /\ thread' = thread
    BY <1>3, CreateIs
  <2> QED BY <1>1, <2>1, <2>2, <2>3 DEF StopsInv, Serving, One
<1>4. CASE Stop
  BY <1>1, <1>4 DEF StopsInv, Serving, One, Stop, OwnerGoes
<1>5. CASE AddTask \/ WriteSlot \/ PostTask \/ PostStop \/ Join
  BY <1>1, <1>5 DEF StopsInv, Serving, One, AddTask, WriteSlot, PostTask, PostStop, Join,
                    OwnerGoes, runVars
<1>6. ASSUME NEW t \in Threads, Process(t)
      PROVE  StopsInv'
  BY <1>6, WorkerKeeps DEF StopsInv, Serving
<1>7. CASE UNCHANGED threadVars
  BY <1>7 DEF StopsInv, Serving, threadVars, runVars
<1> QED BY <1>2, <1>3, <1>4, <1>5, <1>6, <1>7 DEF Next, ContinueCall, OwnerRests
-----------------------------------------------------------------------------
(* What is run.                                                             *)

\* What the numbers are.
LEMMA ThreadNumbers ==
    ASSUME Typed
    PROVE  /\ Len(ran) \in Nat /\ count \in Nat /\ added \in Nat /\ stops \in Nat /\ thread \in Nat
           /\ \A t \in Threads : job[t] \in Job
           /\ \A f \in Fields : \A t \in Threads : job[t][f] \in Nat
           /\ \A f \in Fields : Slot[f] \in Tasks0 /\ Slot[f] \in Nat
           /\ \A k \in 1..Len(ran) : ran[k] \in [worker : Tasks0, user : Tasks0]
           /\ \A f \in Fields : \A k \in 1..Len(ran) : ran[k][f] \in Nat
<1>1. /\ Len(ran) \in Nat /\ count \in Nat /\ added \in Nat /\ stops \in Nat /\ thread \in Nat
      /\ \A t \in Threads : job[t] \in Job
  BY ThreadConstants, SemAssumption DEF Typed, TypeOK, SemTypeOK, Tasks0
<1>2. \A f \in Fields : \A t \in Threads : job[t][f] \in Nat
  BY <1>1, ThreadConstants DEF Job, Fields, Unread
<1>3. \A f \in Fields : Slot[f] \in Tasks0 /\ Slot[f] \in Nat
  BY ThreadConstants DEF Typed, TypeOK, Slot, Fields
<1>4. \A k \in 1..Len(ran) : ran[k] \in [worker : Tasks0, user : Tasks0]
  BY ElementOfSeq DEF Typed, TypeOK
<1>5. \A f \in Fields : \A k \in 1..Len(ran) : ran[k][f] \in Nat
  BY <1>4, ThreadConstants DEF Fields
<1> QED BY <1>1, <1>2, <1>3, <1>4, <1>5

LEMMA ThreadNumbersNext == Typed' => Len(ran') \in Nat /\ count' \in Nat
BY SemAssumption DEF Typed, TypeOK, SemTypeOK

LEMMA HoldersFinite == IsFiniteSet(Holders) /\ Cardinality(Holders) \in Nat
<1>1. IsFiniteSet(Holders)
  BY SemAssumption, FS_Subset DEF Holders
<1> QED BY <1>1, FS_CardinalityType

\* A worker takes a unit, or uses it up.
LEMMA HoldersKept ==
    ASSUME NEW t \in Threads, process \in [Threads -> ProcessState],
           NEW s, process' = [process EXCEPT ![t] = s]
    PROVE  /\ Cardinality(Holders)' \in Nat
           /\ t \in Holders =>
                  /\ Cardinality(Holders)' <= Cardinality(Holders)
                  /\ t \notin Holders' => Cardinality(Holders)' = Cardinality(Holders) - 1
           /\ t \notin Holders =>
                  /\ Cardinality(Holders)' <= Cardinality(Holders) + 1
                  /\ t \notin Holders' => Cardinality(Holders)' = Cardinality(Holders)
<1>1. IsFiniteSet(Holders) /\ Cardinality(Holders) \in Nat
  BY HoldersFinite
<1>2. \A u \in Threads \ {t} : u \in Holders' <=> u \in Holders
  BY DEF Holders
<1>3. CASE t \in Holders <=> t \in Holders'
  <2>1. Holders' = Holders
    BY <1>2, <1>3 DEF Holders
  <2> QED BY <1>1, <1>3, <2>1
<1>4. CASE t \notin Holders /\ t \in Holders'
  <2>1. Holders' = Holders \cup {t}
    BY <1>2, <1>4 DEF Holders
  <2>2. Cardinality(Holders') = Cardinality(Holders) + 1
    BY <1>1, <1>4, <2>1, FS_AddElement
  <2> QED BY <1>1, <1>4, <2>2
<1>5. CASE t \in Holders /\ t \notin Holders'
  <2>1. Holders' = Holders \ {t}
    BY <1>2, <1>5 DEF Holders
  <2>2. Cardinality(Holders') = Cardinality(Holders) - 1
    BY <1>1, <1>5, <2>1, FS_RemoveElement
  <2>3. Cardinality(Holders') \in Nat
    BY <1>1, <2>1, FS_RemoveElement, FS_CardinalityType
  <2> QED BY <1>1, <1>5, <2>2, <2>3
<1> QED BY <1>3, <1>4, <1>5

LEMMA UnitsStep ==
    ASSUME Typed, WorkersInv, UnitsInv, [Next]_threadVars
    PROVE  UnitsInv'
<1> DEFINE held == Cardinality(Holders)
<1>1. /\ Len(ran) \in Nat /\ count \in Nat /\ added \in Nat /\ stops \in Nat /\ held \in Nat
      /\ process \in [Threads -> ProcessState]
  BY ThreadNumbers, HoldersFinite DEF Typed, TypeOK
<1>2. Len(ran) + count + held + One(Writing) + One(owner = "postStop") <= added + stops
  BY DEF UnitsInv
<1>3. SUFFICES Len(ran') + count' + held' + One(Writing)' + One(owner' = "postStop")
                   <= added' + stops'
  BY DEF UnitsInv, One
<1>4. process' = process => held' = held
  BY DEF Holders
<1>5. CASE Start
  <2>1. /\ UNCHANGED <<ran, count, added, stops, process>>
        /\ owner = "idle" /\ owner' = "create"
    BY <1>5 DEF Start, OwnerGoes, semVars, taskVars, workerVars
  <2> HIDE DEF held
  <2> QED BY <1>1, <1>2, <1>4, <2>1 DEF One, Writing
<1>6. CASE Create
  <2>1. UNCHANGED <<ran, count, added, stops>> /\ owner = "create" /\ owner' = "idle"
    BY <1>6 DEF Create, OwnerGoes, semVars, taskVars
  <2>2. held' = held
    <3>1. Holders' = Holders
      BY <1>1, <1>6, CreateIs DEF Holders
    <3> QED BY <3>1
  <2> HIDE DEF held
  <2> QED BY <1>1, <1>2, <2>1, <2>2 DEF One, Writing
<1>7. CASE AddTask
  <2>1. /\ UNCHANGED <<ran, count, stops, process>> /\ added' = added + 1
        /\ owner = "idle" /\ owner' = "writeFirst"
    BY <1>7 DEF AddTask, OwnerGoes, semVars, runVars, workerVars
  <2> HIDE DEF held
  <2> QED BY <1>1, <1>2, <1>4, <2>1 DEF One, Writing
<1>8. CASE Stop
  <2>1. /\ UNCHANGED <<ran, count, added, process>> /\ stops' = stops + 1
        /\ owner = "idle" /\ owner' = "postStop"
    BY <1>8 DEF Stop, OwnerGoes, semVars, taskVars, workerVars
  <2> HIDE DEF held
  <2> QED BY <1>1, <1>2, <1>4, <2>1 DEF One, Writing
<1>9. CASE WriteSlot
  <2>1. UNCHANGED <<ran, count, added, stops, process>> /\ Writing /\ Writing'
        /\ owner # "postStop" /\ owner' # "postStop"
    BY <1>9 DEF WriteSlot, OwnerGoes, semVars, runVars, taskVars, workerVars, Writing
  <2> HIDE DEF held
  <2> QED BY <1>1, <1>2, <1>4, <2>1 DEF One
<1>10. CASE PostTask \/ PostStop
  <2>1. /\ UNCHANGED <<ran, added, stops, process>> /\ count' = count + 1
        /\ \/ owner = "postTask" /\ owner' = "idle"
           \/ owner = "postStop" /\ owner' = "join"
    BY <1>10 DEF PostTask, PostStop, Post, OwnerGoes, runVars, taskVars, workerVars
  <2> HIDE DEF held
  <2> QED BY <1>1, <1>2, <1>4, <2>1 DEF One, Writing
<1>11. CASE Join
  <2>1. UNCHANGED <<ran, count, added, stops, process>> /\ owner = "join" /\ owner' = "idle"
    BY <1>11 DEF Join, OwnerGoes, semVars, runVars, taskVars, workerVars
  <2> HIDE DEF held
  <2> QED BY <1>1, <1>2, <1>4, <2>1 DEF One, Writing
<1>12. ASSUME NEW t \in Threads, Process(t)
       PROVE  Len(ran') + count' + held' + One(Writing)' + One(owner' = "postStop")
                  <= added' + stops'
  <2>1. UNCHANGED <<added, stops, owner>>
    BY <1>12, WorkerKeeps
  <2>2. Len(ran') + count' + held' <= Len(ran) + count + held /\ held' \in Nat
    <3>1. /\ held' \in Nat
          /\ t \in Holders => held' <= held /\ (t \notin Holders' => held' = held - 1)
          /\ t \notin Holders => held' <= held + 1 /\ (t \notin Holders' => held' = held)
      <4>1. IsFiniteSet(Holders')
        BY SemAssumption, FS_Subset DEF Holders
      <4>2. CASE process' = process
        <5>1. Holders' = Holders
          BY <4>2 DEF Holders
        <5> QED BY <1>1, <5>1
      <4>3. CASE \E s \in ProcessState : process' = [process EXCEPT ![t] = s]
        BY <1>1, <4>1, <4>3, HoldersKept
      <4> QED BY <1>12, <4>2, <4>3, WorkerKeeps
    <3>2. CASE Attach(t) \/ TestRun(t)
      <4>1. UNCHANGED <<ran, count>> /\ t \notin Holders' /\ t \notin Holders
        BY <1>1, <3>2 DEF Attach, TestRun, Pend, WorkerGoes, semVars, Holders
      <4> QED BY <1>1, <3>1, <4>1
    <3>3. CASE WaitTask(t)
      <4>1. ran' = ran /\ \/ count' = count /\ process' = process
                          \/ count' = count - 1 /\ t \notin Holders
        BY <3>3 DEF WaitTask, PendBlocks, WakeSpuriously, PendTakes, WorkerGoes, Holders
      <4> QED BY <1>1, <1>4, <3>1, <4>1
    <3>4. CASE RetestRun(t) \/ ReadSlot(t)
      <4>1. UNCHANGED <<ran, count>> /\ t \in Holders
        BY <3>4 DEF RetestRun, ReadSlot, WorkerGoes, semVars, Holders
      <4> QED BY <1>1, <3>1, <4>1
    <3>5. CASE RunTask(t)
      <4>1. count' = count /\ t \in Holders /\ t \notin Holders' /\ Len(ran') = Len(ran) + 1
        BY <1>1, <3>5 DEF RunTask, WorkerGoes, semVars, Holders, Typed, TypeOK
      <4> QED BY <1>1, <3>1, <4>1
    <3> QED BY <1>12, <3>2, <3>3, <3>4, <3>5 DEF Process
  <2>3. Len(ran') \in Nat /\ count' \in Nat
    BY <1>12, WorkerTyped, ThreadNumbersNext
  <2> HIDE DEF held
  <2> QED BY <1>1, <1>2, <2>1, <2>2, <2>3 DEF One, Writing
<1>13. CASE UNCHANGED threadVars
  <2>1. UNCHANGED <<ran, count, added, stops, process, owner>>
    BY <1>13 DEF threadVars, semVars, runVars, taskVars, workerVars
  <2> HIDE DEF held
  <2> QED BY <1>1, <1>2, <1>4, <2>1 DEF One, Writing
<1> QED BY <1>5, <1>6, <1>7, <1>8, <1>9, <1>10, <1>11, <1>12, <1>13
        DEF Next, ContinueCall, OwnerRests

LEMMA SlotStep ==
    ASSUME Typed, SlotInv, [Next]_threadVars
    PROVE  SlotInv'
<1>1. added \in Nat /\ \A f \in Fields : Slot[f] \in Nat
  BY ThreadNumbers
<1>2. CASE AddTask
  BY <1>1, <1>2 DEF SlotInv, Slot, Fields, AddTask, OwnerGoes, slotVars
<1>3. CASE WriteSlot
  BY <1>1, <1>3 DEF SlotInv, Slot, Fields, WriteSlot, OwnerGoes, taskVars
<1>4. CASE Start \/ Create \/ Stop \/ PostTask \/ PostStop \/ Join
  BY <1>4 DEF SlotInv, Slot, Fields, Start, Create, Stop, PostTask, PostStop, Join, OwnerGoes,
              slotVars, taskVars
<1>5. ASSUME NEW t \in Threads, Process(t)
      PROVE  SlotInv'
  BY <1>5, WorkerKeeps DEF SlotInv, Slot, Fields
<1>6. CASE UNCHANGED threadVars
  BY <1>6 DEF SlotInv, Slot, Fields, threadVars, slotVars, taskVars
<1> QED BY <1>2, <1>3, <1>4, <1>5, <1>6 DEF Next, ContinueCall, OwnerRests
-----------------------------------------------------------------------------
(* The order in which tasks are run.                                        *)

\* No worker reads or runs, and the slot is not set back.
LEMMA OrderKept ==
    ASSUME Typed, Typed', OrderInv, UNCHANGED <<job, ran>>, lost' = {} => lost = {},
           \A t \in Threads : Reading(t)' => Reading(t),
           \A f \in Fields : Slot[f] <= Slot'[f]
    PROVE  OrderInv'
<1>1. \A f \in Fields :
          /\ Slot[f] \in Nat /\ Slot'[f] \in Nat
          /\ \A t \in Threads : job[t][f] \in Nat
          /\ \A k \in 1..Len(ran) : ran[k][f] \in Nat
  <2>1. \A f \in Fields : Slot'[f] \in Nat
    BY ThreadConstants DEF Typed, TypeOK, Slot, Fields
  <2> QED BY <2>1, ThreadNumbers
<1>2. SUFFICES ASSUME lost' = {}, NEW f \in Fields
               PROVE  /\ \A t \in Threads :
                             Reading(t)' /\ job[t][f] # Unread => job[t][f] <= Slot'[f]
                      /\ \A k \in 1..Len(ran) :
                             /\ ran[k][f] <= Slot'[f]
                             /\ \A t \in Threads :
                                    Reading(t)' /\ job[t][f] # Unread => ran[k][f] <= job[t][f]
                      /\ \A k \in 1..Len(ran) - 1 : ran[k][f] <= ran[k + 1][f]
  BY DEF OrderInv
<1>3. /\ \A t \in Threads : Reading(t) /\ job[t][f] # Unread => job[t][f] <= Slot[f]
      /\ \A k \in 1..Len(ran) :
             /\ ran[k][f] <= Slot[f]
             /\ \A t \in Threads : Reading(t) /\ job[t][f] # Unread => ran[k][f] <= job[t][f]
      /\ \A k \in 1..Len(ran) - 1 : ran[k][f] <= ran[k + 1][f]
  BY <1>2 DEF OrderInv
<1> HIDE DEF Slot, Reading
<1> QED BY <1>1, <1>3

\* Until one is lost, there is one worker at a time.
LEMMA OnlyOne ==
    ASSUME WorkersInv, lost = {}, NEW t \in Threads, NEW u \in Threads, Live(t), Live(u)
    PROVE  t = u
BY DEF WorkersInv

LEMMA OrderStep ==
    ASSUME Typed, Typed', WorkersInv, WorkersInv', SlotInv, OrderInv, [Next]_threadVars
    PROVE  OrderInv'
<1>1. /\ Len(ran) \in Nat /\ added \in Nat
      /\ \A f \in Fields : Slot[f] \in Nat /\ Slot[f] <= added
      /\ \A f \in Fields : \A k \in 1..Len(ran) : ran[k][f] \in Nat
      /\ process \in [Threads -> ProcessState] /\ job \in [Threads -> Job]
  BY ThreadNumbers DEF SlotInv, Typed, TypeOK
<1>2. CASE AddTask \/ Stop \/ PostTask \/ PostStop \/ Join \/ UNCHANGED threadVars
  <2>1. UNCHANGED <<job, ran, process, Slot, lost>>
    BY <1>2 DEF AddTask, Stop, PostTask, PostStop, Join, threadVars, runVars, workerVars,
                slotVars, Slot
  <2> QED BY <1>1, <2>1, OrderKept DEF Reading
<1>3. CASE WriteSlot
  <2>1. /\ UNCHANGED <<job, ran, process, lost>>
        /\ slotWorker' \in {slotWorker, added} /\ slotUser' \in {slotUser, added}
    BY <1>3 DEF WriteSlot, runVars, workerVars
  <2>2. \A f \in Fields : Slot[f] <= Slot'[f]
    BY <1>1, <2>1 DEF Slot, Fields
  <2> QED BY <2>1, <2>2, OrderKept DEF Reading
<1>4. CASE Start
  <2>1. UNCHANGED <<job, ran, process, Slot>> /\ (lost' = {} => lost = {})
    BY <1>4 DEF Start, workerVars, slotVars, Slot
  <2> QED BY <1>1, <2>1, OrderKept DEF Reading
<1>5. CASE Create
  <2>1. UNCHANGED <<job, ran, Slot, lost>>
    BY <1>5 DEF Create, slotVars, Slot
  <2>2. \A t \in Threads : Reading(t)' => Reading(t)
    BY <1>1, <1>5, CreateIs DEF Reading
  <2> QED BY <1>1, <2>1, <2>2, OrderKept
<1>6. ASSUME NEW t \in Threads, Process(t)
      PROVE  OrderInv'
  <2>1. UNCHANGED <<Slot, lost>> /\ Live(t)
    BY <1>6, WorkerKeeps DEF Slot, Live
  <2>2. CASE Attach(t) \/ TestRun(t) \/ WaitTask(t)
    <3>1. UNCHANGED <<job, ran>> /\ \A u \in Threads : Reading(u)' => Reading(u)
      BY <1>1, <2>2 DEF Attach, TestRun, WaitTask, WorkerGoes, Reading
    <3> QED BY <1>1, <2>1, <3>1, OrderKept
  <2>3. SUFFICES ASSUME lost = {}, RetestRun(t) \/ ReadSlot(t) \/ RunTask(t)
                 PROVE  OrderInv'
    BY <1>6, <2>1, <2>2 DEF Process, OrderInv
  <2>4. \A u \in Threads \ {t} : ~Reading(u)'
    <3>1. \A u \in Threads \ {t} : process'[u] = process[u]
      BY <1>1, <2>3 DEF RetestRun, ReadSlot, RunTask, WorkerGoes
    <3>2. \A u \in Threads \ {t} : ~Live(u)
      BY <2>1, <2>3, OnlyOne
    <3> QED BY <3>1, <3>2 DEF Reading, Live
  <2>5. \A f \in Fields :
            /\ Reading(t) /\ job[t][f] # Unread => job[t][f] <= Slot[f]
            /\ \A k \in 1..Len(ran) :
                   /\ ran[k][f] <= Slot[f]
                   /\ Reading(t) /\ job[t][f] # Unread => ran[k][f] <= job[t][f]
            /\ \A k \in 1..Len(ran) - 1 : ran[k][f] <= ran[k + 1][f]
    BY <2>3 DEF OrderInv
  <2>6. CASE RetestRun(t)
    <3>1. ran' = ran /\ \A f \in Fields : job'[t][f] = Unread
      BY <1>1, <2>6 DEF RetestRun, NoJob, Fields
    <3> HIDE DEF Slot
    <3> QED BY <2>1, <2>4, <2>5, <3>1 DEF OrderInv
  <2>7. CASE ReadSlot(t)
    <3>1. ran' = ran /\ Reading(t)
      BY <2>7 DEF ReadSlot, WorkerGoes, Reading
    <3>2. \A f \in Fields : \/ job'[t][f] \in {Unread, Slot[f]}
                            \/ job'[t][f] = job[t][f] /\ job[t][f] # Unread
      BY <2>7, ReadIs
    <3>3. ASSUME NEW f \in Fields, job'[t][f] # Unread
          PROVE  /\ job'[t][f] <= Slot[f]
                 /\ \A k \in 1..Len(ran) : ran[k][f] <= job'[t][f]
      <4> HIDE DEF Slot
      <4>1. CASE job'[t][f] = Slot[f]
        BY <1>1, <2>5, <4>1
      <4>2. CASE job'[t][f] = job[t][f] /\ job[t][f] # Unread
        BY <2>5, <3>1, <4>2
      <4> QED BY <3>2, <3>3, <4>1, <4>2
    <3> HIDE DEF Slot
    <3> QED BY <2>1, <2>4, <2>5, <3>1, <3>3 DEF OrderInv
  <2>8. CASE RunTask(t)
    <3>1. /\ ran' = Append(ran, job[t]) /\ Reading(t) /\ ~Reading(t)'
          /\ \A f \in Fields : job[t][f] # Unread
      BY <1>1, <2>8 DEF RunTask, WorkerGoes, Reading, Typed, Fields
    <3>2. /\ Len(ran') = Len(ran) + 1 /\ ran'[Len(ran) + 1] = job[t]
          /\ \A k \in 1..Len(ran) : ran'[k] = ran[k]
      BY <3>1 DEF Typed, TypeOK
    <3>3. ASSUME NEW f \in Fields
          PROVE  /\ \A k \in 1..Len(ran') : ran'[k][f] <= Slot[f]
                 /\ \A k \in 1..Len(ran') - 1 : ran'[k][f] <= ran'[k + 1][f]
      <4>1. /\ job[t][f] <= Slot[f]
            /\ \A k \in 1..Len(ran) : ran[k][f] <= Slot[f] /\ ran[k][f] <= job[t][f]
            /\ \A k \in 1..Len(ran) - 1 : ran[k][f] <= ran[k + 1][f]
        BY <2>5, <3>1
      <4>2. ASSUME NEW k \in 1..Len(ran')
            PROVE  ran'[k][f] <= Slot[f]
        BY <1>1, <3>2, <4>1
      <4>3. ASSUME NEW k \in 1..Len(ran') - 1
            PROVE  ran'[k][f] <= ran'[k + 1][f]
        <5>1. CASE k = Len(ran)
          BY <1>1, <3>2, <4>1, <5>1
        <5>2. CASE k \in 1..Len(ran) - 1
          <6>1. ran'[k] = ran[k] /\ ran'[k + 1] = ran[k + 1]
            BY <1>1, <3>2, <5>2
          <6> QED BY <4>1, <5>2, <6>1
        <5> QED BY <1>1, <3>2, <5>1, <5>2
      <4> QED BY <4>2, <4>3
    <3>4. \A u \in Threads : ~Reading(u)'
      BY <2>4, <3>1
    <3> QED BY <2>1, <3>3, <3>4 DEF OrderInv
  <2> QED BY <2>3, <2>6, <2>7, <2>8
<1> QED BY <1>2, <1>3, <1>4, <1>5, <1>6 DEF Next, ContinueCall, OwnerRests
-----------------------------------------------------------------------------
(* An owner that waits for each task.                                       *)

\* The owner does not start a task over, and no worker begins to read or runs.
LEMMA AloneKept ==
    ASSUME AloneInv, UNCHANGED <<added, job, ran>>, Alone' => Alone,
           \A t \in Threads : Reading(t)' => Reading(t) /\ (Writing' => Writing)
    PROVE  AloneInv'
BY DEF AloneInv

\* Neither does a waiting owner begin another one.
LEMMA AloneStep ==
    ASSUME ThreadInv, Typed', [Next]_threadVars
    PROVE  AloneInv'
<1>1. /\ Len(ran) \in Nat /\ count \in Nat /\ added \in Nat /\ stops \in Nat /\ thread \in Nat
      /\ overlapped \in BOOLEAN
      /\ process \in [Threads -> ProcessState] /\ job \in [Threads -> Job]
      /\ Typed /\ WorkersInv /\ StopsInv /\ UnitsInv /\ SlotInv /\ AloneInv
  BY ThreadNumbers DEF ThreadInv, Typed, TypeOK
<1>2. CASE AddTask
  <2>1. /\ UNCHANGED <<job, ran, process, thread>> /\ added' = added + 1
        /\ overlapped' = (overlapped \/ Len(ran) < added)
    BY <1>2 DEF AddTask, runVars, workerVars
  <2>2. SUFFICES ASSUME Alone'
                 PROVE  /\ added' <= Len(ran) + 1
                        /\ \A k \in 1..Len(ran) : ran[k] = [worker |-> k, user |-> k]
                        /\ \A t \in Threads : ~Reading(t)'
    BY <2>1 DEF AloneInv
  <2>3. Alone /\ Len(ran) >= added
    <3>1. Alone /\ ~(Len(ran) < added)
      BY <2>1, <2>2, Zenon DEF Alone
    <3> QED BY <1>1, <3>1
  <2>4. \A t \in Threads : ~Reading(t)
    BY <1>1, <2>3 DEF AloneInv
  <2> QED BY <1>1, <2>1, <2>3, <2>4 DEF AloneInv, Reading
<1>3. CASE \/ Start \/ Stop \/ WriteSlot \/ PostTask \/ PostStop \/ Join \/ UNCHANGED threadVars
  <2>1. UNCHANGED <<added, job, ran, process, thread, overlapped>>
    BY <1>3 DEF Start, Stop, WriteSlot, PostTask, PostStop, Join, threadVars, runVars, taskVars,
                workerVars
  <2>2. Writing' => Writing
    BY <1>3 DEF Writing, Start, Stop, WriteSlot, PostTask, PostStop, Join, threadVars, OwnerGoes
  <2> QED BY <1>1, <2>1, <2>2, AloneKept DEF Alone, Reading
<1>4. CASE Create
  <2>1. UNCHANGED <<added, job, ran, overlapped>> /\ ~Writing'
    BY <1>4 DEF Create, OwnerGoes, taskVars, Writing
  <2>2. (Alone' => Alone) /\ \A t \in Threads : Reading(t)' => Reading(t)
    <3>1. \/ /\ thread' = thread + 1
             /\ process' = [process EXCEPT ![thread + 1] = "attach"]
          \/ UNCHANGED <<thread, process>>
      BY <1>1, <1>4, CreateIs, Zenon
    <3>2. thread' <= 1 => thread <= 1
      BY <1>1, <3>1
    <3>3. \A t \in Threads : Reading(t)' => Reading(t)
      BY <1>1, <3>1 DEF Reading
    <3> QED BY <2>1, <3>2, <3>3 DEF Alone
  <2> QED BY <1>1, <2>1, <2>2, AloneKept
<1>5. ASSUME NEW t \in Threads, Process(t)
      PROVE  AloneInv'
  <2>1. /\ UNCHANGED <<running, thread, stops, lost, added, overlapped, owner, Slot>>
        /\ process[t] \notin {"none", "dead"} /\ (Alone' <=> Alone) /\ Writing' = Writing
    BY <1>5, WorkerKeeps DEF Alone, Writing, Slot
  <2>2. CASE Attach(t) \/ TestRun(t) \/ WaitTask(t)
    <3>1. UNCHANGED <<job, ran>> /\ \A u \in Threads : Reading(u)' => Reading(u)
      BY <1>1, <2>2 DEF Attach, TestRun, WaitTask, WorkerGoes, Reading
    <3> QED BY <1>1, <2>1, <3>1, AloneKept
  <2>3. SUFFICES ASSUME Alone, RetestRun(t) \/ ReadSlot(t) \/ RunTask(t)
                 PROVE  AloneInv'
    BY <1>5, <2>1, <2>2 DEF Process, AloneInv
  <2>4. thread = 1 /\ t = 1 /\ \A u \in Threads \ {t} : ~Reading(u) /\ ~Reading(u)'
    <3>1. \A u \in Threads : process[u] # "none" => u = 1
      BY <1>1, <2>3, ThreadConstants DEF WorkersInv, Alone
    <3>2. thread = 1 /\ t = 1
      BY <1>1, <2>1, <2>3, <3>1 DEF WorkersInv, Alone
    <3>3. \A u \in Threads \ {t} : process'[u] = process[u]
      BY <1>1, <2>3 DEF RetestRun, ReadSlot, RunTask, WorkerGoes
    <3> QED BY <3>1, <3>2, <3>3 DEF Reading
  <2>5. /\ added <= Len(ran) + 1
        /\ \A k \in 1..Len(ran) : ran[k] = [worker |-> k, user |-> k]
        /\ Reading(t) => /\ ~Writing /\ added = Len(ran) + 1
                         /\ \A f \in Fields : job[t][f] \in {Unread, added}
    BY <1>1, <2>3 DEF AloneInv
  <2>6. CASE RetestRun(t)
    <3>1. /\ ran' = ran /\ \A f \in Fields : job'[t][f] = Unread
          /\ Reading(t)' => running
      BY <1>1, <2>6 DEF RetestRun, NoJob, Fields, WorkerGoes, Reading
    <3>2. ASSUME running
          PROVE  ~Writing /\ added = Len(ran) + 1
      <4>1. stops = 0
        <5>1. Cardinality(lost) \in Nat /\ IsFiniteSet(lost)
          BY <1>1, LostFinite
        <5>2. CASE t \in lost
          <6>1. Cardinality(lost) # 0
            BY <5>1, <5>2, FS_EmptySet
          <6> QED BY <1>1, <2>4, <5>1, <6>1 DEF StopsInv, One
        <5>3. CASE t \notin lost
          <6>1. Serving
            BY <1>1, <2>1, <3>2, <5>3 DEF WorkersInv, Live
          <6> QED BY <1>1, <2>4, <5>1, <6>1 DEF StopsInv, One
        <5> QED BY <5>2, <5>3
      <4>2. Cardinality(Holders) \in Nat /\ Cardinality(Holders) # 0
        <5>1. t \in Holders
          BY <2>6 DEF RetestRun, WorkerGoes, Holders
        <5> QED BY <5>1, HoldersFinite, FS_EmptySet
      <4>3. Len(ran) + 1 + One(Writing) <= added
        BY <1>1, <4>1, <4>2 DEF UnitsInv, One
      <4> QED BY <1>1, <2>5, <4>3 DEF One
    <3> QED BY <1>1, <2>1, <2>4, <2>5, <3>1, <3>2 DEF AloneInv
  <2>7. CASE ReadSlot(t)
    <3>1. ran' = ran /\ Reading(t)
      BY <2>7 DEF ReadSlot, WorkerGoes, Reading
    <3>2. \A f \in Fields : job'[t][f] \in {Unread, Slot[f], job[t][f]}
      BY <1>1, <2>7, ReadIs
    <3>3. \A f \in Fields : Slot[f] = added
      BY <1>1, <2>5, <3>1 DEF SlotInv, Writing
    <3> HIDE DEF Slot
    <3> QED BY <2>1, <2>4, <2>5, <3>1, <3>2, <3>3 DEF AloneInv
  <2>8. CASE RunTask(t)
    <3>1. /\ ran' = Append(ran, job[t]) /\ Reading(t) /\ ~Reading(t)'
          /\ job[t].worker # Unread /\ job[t].user # Unread
      BY <1>1, <2>8 DEF RunTask, WorkerGoes, Reading, Typed
    <3>2. /\ Len(ran') = Len(ran) + 1 /\ ran'[Len(ran) + 1] = job[t]
          /\ \A k \in 1..Len(ran) : ran'[k] = ran[k]
      BY <1>1, <3>1 DEF Typed, TypeOK
    <3>3. job[t] = [worker |-> added, user |-> added]
      <4>1. job[t].worker = added /\ job[t].user = added
        BY <2>5, <3>1 DEF Fields
      <4> QED BY <1>1, <4>1 DEF Job
    <3>4. ASSUME NEW k \in 1..Len(ran')
          PROVE  ran'[k] = [worker |-> k, user |-> k]
      <4>1. CASE k \in 1..Len(ran)
        BY <2>5, <3>2, <4>1
      <4>2. CASE k = Len(ran) + 1
        BY <2>5, <3>1, <3>2, <3>3, <4>2
      <4> QED BY <1>1, <3>2, <4>1, <4>2
    <3> QED BY <1>1, <2>1, <2>4, <2>5, <3>1, <3>2, <3>4 DEF AloneInv
  <2> QED BY <2>3, <2>6, <2>7, <2>8
<1> QED BY <1>2, <1>3, <1>4, <1>5 DEF Next, ContinueCall, OwnerRests
-----------------------------------------------------------------------------
LEMMA ThreadInvInit == Init => ThreadInv
<1> SUFFICES ASSUME Init PROVE ThreadInv
  OBVIOUS
<1>1. /\ SemInit /\ running = FALSE /\ thread = 0 /\ slotWorker = 0 /\ slotUser = 0
      /\ owner = "idle" /\ process = [t \in Threads |-> "none"]
      /\ job = [t \in Threads |-> NoJob] /\ ran = <<>> /\ added = 0 /\ stops = 0
      /\ overlapped = FALSE /\ lost = {}
  BY DEF Init
<1>2. SemTypeOK /\ count = 0
  BY <1>1, SemInitInv DEF SemInit, SemInv
<1>3. ran \in Seq([worker : Tasks0, user : Tasks0]) /\ Len(ran) = 0
  BY <1>1, EmptySeq
<1>4. 0 \in Tasks0 /\ 0 \in 0..MaxStarts /\ NoJob \in Job
  BY ThreadConstants DEF Tasks0
<1>5. Typed
  BY <1>1, <1>2, <1>3, <1>4 DEF Typed, TypeOK, OwnerState, ProcessState
<1>6. WorkersInv /\ SlotInv /\ OrderInv /\ AloneInv
  <2>1. \A f \in Fields : Slot[f] = 0
    BY <1>1 DEF Slot, Fields
  <2>2. \A t \in Threads : 0 < t /\ process[t] = "none"
    BY <1>1, ThreadConstants
  <2>3. WorkersInv
    BY <1>1, <2>2 DEF WorkersInv, Serving, Live
  <2> QED BY <1>1, <1>3, <2>1, <2>2, <2>3 DEF SlotInv, OrderInv, AloneInv, Reading
<1>7. StopsInv /\ UnitsInv
  <2>1. Holders = {}
    BY <1>1 DEF Holders
  <2> QED BY <1>1, <1>2, <1>3, <2>1, FS_EmptySet DEF StopsInv, UnitsInv, Serving, Writing, One
<1> QED BY <1>5, <1>6, <1>7 DEF ThreadInv

\* The inductive invariant.
THEOREM ThreadInvariant == Spec => []ThreadInv
<1>1. ASSUME ThreadInv, [Next]_threadVars
      PROVE  ThreadInv'
  <2>1. Typed /\ WorkersInv /\ StopsInv /\ UnitsInv /\ SlotInv /\ OrderInv
    BY <1>1 DEF ThreadInv
  <2>2. Typed'
    <3>1. CASE UNCHANGED threadVars
      BY <2>1, <3>1 DEF Typed, TypeOK, SemTypeOK, threadVars, semVars, runVars, slotVars,
                        taskVars, workerVars
    <3> QED BY <1>1, <2>1, <3>1, OwnerTyped, WorkerTyped DEF Next, OwnerRests
  <2>3. WorkersInv' /\ StopsInv' /\ UnitsInv' /\ SlotInv'
    BY <1>1, <2>1, WorkersStep, StopsStep, UnitsStep, SlotStep
  <2>4. OrderInv' /\ AloneInv'
    BY <1>1, <2>1, <2>2, <2>3, OrderStep, AloneStep
  <2> QED BY <2>2, <2>3, <2>4 DEF ThreadInv
<1> QED BY <1>1, ThreadInvInit, PTL DEF Spec

\* The fields of the thread and of its semaphore keep their types.
THEOREM ThreadTypeCorrect == Spec => []TypeOK
<1>1. ThreadInv => TypeOK
  BY DEF ThreadInv, Typed
<1> QED BY <1>1, ThreadInvariant, PTL

\* For any number of tasks, workers and restarts: by the one worker of an owner that
\* waits each task is run once, whole and in order; while no worker was lost no older
\* task is run after a younger one; and with any number of workers there are no more
\* runs than tasks added and stops.
THEOREM TasksStayIntact == Spec => []TasksIntact
<1>1. ASSUME ThreadInv
      PROVE  TasksIntact
  <2>1. /\ Len(ran) \in Nat /\ count \in Nat /\ added \in Nat /\ stops \in Nat
        /\ Cardinality(Holders) \in Nat
    BY <1>1, ThreadNumbers, HoldersFinite DEF ThreadInv
  <2>2. ASSUME thread <= 1, ~overlapped
        PROVE  \A k \in DOMAIN ran : ran[k] = [worker |-> k, user |-> k]
    <3>1. DOMAIN ran = 1..Len(ran)
      BY <1>1 DEF ThreadInv, Typed, TypeOK
    <3> QED BY <1>1, <2>2, <3>1 DEF ThreadInv, AloneInv, Alone
  <2>3. lost = {} =>
            \A k \in 1..Len(ran) - 1 :
                ran[k].worker <= ran[k + 1].worker /\ ran[k].user <= ran[k + 1].user
    BY <1>1 DEF ThreadInv, OrderInv, Fields
  <2>4. Len(ran) + count <= added + stops
    BY <1>1, <2>1 DEF ThreadInv, UnitsInv, One
  <2> QED BY <2>2, <2>3, <2>4 DEF TasksIntact
<1> QED BY <1>1, ThreadInvariant, PTL

\* Stop leaves no worker behind that could use the object, but those that a Start before
\* it has lost.
THEOREM StoppedForGood == Spec => []NoWorkerAfterStop
<1>1. ThreadInv => NoWorkerAfterStop
  BY DEF ThreadInv, WorkersInv, Serving, Live, NoWorkerAfterStop
<1> QED BY <1>1, ThreadInvariant, PTL
=============================================================================
