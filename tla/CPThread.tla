------------------------------ MODULE CPThread ------------------------------
(***************************************************************************)
(* thread/thread.cpp: a worker thread with a single slot for its task.  Its *)
(* owner calls Start, AddTask and Stop, in any order; the slot's two fields *)
(* and _run are plain members, and only the semaphore (CPSem) orders their  *)
(* accesses.  Start does not ask whether there is a worker: each makes one  *)
(* more, and _thread holds the last one only.                               *)
(***************************************************************************)
EXTENDS CPSem, Sequences

CONSTANTS
    MaxTasks,       \* bound: calls of AddTask
    MaxStarts       \* bound: calls of Start that create a worker

\* The workers are numbered as they are created.
ASSUME ThreadAssumption == {MaxTasks, MaxStarts} \subseteq Nat /\ Threads = 1..MaxStarts

VARIABLES
    running,        \* _run
    thread,         \* _thread: the last worker created; 0 before the first
    slotWorker,     \* _worker: the task, by number, whose function it is; 0 for NULL
    slotUser,       \* _user: the task whose argument it is
    owner,          \* where the owner is in a call
    process,        \* where each worker is in Process
    job,            \* the function and argument it has read of the slot
    ran,            \* the function and argument of each task run
    added,          \* calls of AddTask begun
    stops,          \* calls of Stop that found _run raised
    overlapped,     \* history: an AddTask began before the last task had ended
    lost            \* history: workers whose thread a Start overwrote while _run was up

slotVars   == <<slotWorker, slotUser>>
runVars    == <<running, thread, stops, lost>>
taskVars   == <<added, overlapped>>
workerVars == <<process, job, ran>>
threadVars == <<semVars, runVars, slotVars, taskVars, owner, workerVars>>

Tasks0 == 0..MaxTasks
OwnerState == {"idle", "create", "writeFirst", "writeSecond", "postTask", "postStop", "join"}
ProcessState == {"none", "attach", "test", "pending", "retest", "read", "run", "dead"}
Unread == MaxTasks + 1
Job == [worker : Tasks0 \cup {Unread}, user : Tasks0 \cup {Unread}]
NoJob == [worker |-> Unread, user |-> Unread]

TypeOK ==
    /\ SemTypeOK
    /\ running \in BOOLEAN
    /\ thread \in 0..MaxStarts
    /\ slotWorker \in Tasks0
    /\ slotUser \in Tasks0
    /\ owner \in OwnerState
    /\ process \in [Threads -> ProcessState]
    /\ job \in [Threads -> Job]
    /\ ran \in Seq([worker : Tasks0, user : Tasks0])
    /\ added \in Tasks0
    /\ stops \in Nat
    /\ overlapped \in BOOLEAN
    /\ lost \subseteq Threads

Init ==
    /\ SemInit
    /\ running = FALSE
    /\ thread = 0
    /\ slotWorker = 0
    /\ slotUser = 0
    /\ owner = "idle"
    /\ process = [t \in Threads |-> "none"]
    /\ job = [t \in Threads |-> NoJob]
    /\ ran = <<>>
    /\ added = 0
    /\ stops = 0
    /\ overlapped = FALSE
    /\ lost = {}
-----------------------------------------------------------------------------
(* The owner.                                                               *)

OwnerGoes(from, to) == owner = from /\ owner' = to

\* Start raises _run, whether or not it is up.
Start ==
    /\ OwnerGoes("idle", "create")
    /\ thread < MaxStarts
    /\ running' = TRUE
    /\ lost' = IF running THEN lost \cup {thread} ELSE lost
    /\ UNCHANGED <<semVars, thread, stops, slotVars, taskVars, workerVars>>

\* pthread_create, over the old _thread.  If it fails, Start takes _run back, and its
\* Stop has nothing to do.
Create ==
    /\ OwnerGoes("create", "idle")
    /\ \/ /\ thread' = thread + 1
          /\ process' = [process EXCEPT ![thread'] = "attach"]
          /\ UNCHANGED running
       \/ /\ running' = FALSE
          /\ UNCHANGED <<thread, process>>
    /\ UNCHANGED <<semVars, stops, lost, slotVars, taskVars, job, ran>>

AddTask ==
    /\ OwnerGoes("idle", "writeFirst")
    /\ added < MaxTasks
    /\ added' = added + 1
    /\ overlapped' = (overlapped \/ Len(ran) < added)
    /\ UNCHANGED <<semVars, runVars, slotVars, workerVars>>

\* Mutation: AddTask posts between the two writes.
WriteSlotAroundPost ==
    /\ \/ OwnerGoes("writeFirst", "writeSecond") /\ Post
          /\ slotWorker' = added /\ UNCHANGED slotUser
       \/ OwnerGoes("writeSecond", "idle") /\ UNCHANGED semVars
          /\ slotUser' = added /\ UNCHANGED slotWorker
    /\ UNCHANGED <<runVars, workerVars, taskVars>>

\* The compiler may write the two fields in either order.
WriteSlot ==
    /\ \/ /\ OwnerGoes("writeFirst", "writeSecond")
          /\ \/ slotWorker' = added /\ UNCHANGED slotUser
             \/ slotUser' = added /\ UNCHANGED slotWorker
       \/ /\ OwnerGoes("writeSecond", "postTask")
          /\ slotWorker' = added
          /\ slotUser' = added
    /\ UNCHANGED <<semVars, runVars, workerVars, taskVars>>

\* Mutation: AddTask posts only when the worker waits.
PostTaskIfWaiting ==
    /\ OwnerGoes("postTask", "idle")
    /\ IF blocked = {} THEN UNCHANGED semVars ELSE Post
    /\ UNCHANGED <<runVars, slotVars, workerVars, taskVars>>

PostTask ==
    /\ OwnerGoes("postTask", "idle")
    /\ Post
    /\ UNCHANGED <<runVars, slotVars, workerVars, taskVars>>

\* Stop returns at once when there is nothing to stop.
Stop ==
    /\ running
    /\ OwnerGoes("idle", "postStop")
    /\ running' = FALSE
    /\ stops' = stops + 1
    /\ UNCHANGED <<semVars, thread, lost, slotVars, workerVars, taskVars>>

\* Mutation: Stop posts once for the wait and once for the loop.
PostStopTwice ==
    /\ OwnerGoes("postStop", "join")
    /\ count + 2 <= MaxCount
    /\ count' = count + 2
    /\ blocked' = {}
    /\ UNCHANGED <<pending, runVars, slotVars, workerVars, taskVars>>

\* Mutation: Stop posts only when a worker waits.
PostStopIfWaiting ==
    /\ OwnerGoes("postStop", "join")
    /\ IF blocked = {} THEN UNCHANGED semVars ELSE Post
    /\ UNCHANGED <<runVars, slotVars, workerVars, taskVars>>

PostStop ==
    /\ OwnerGoes("postStop", "join")
    /\ Post
    /\ UNCHANGED <<runVars, slotVars, workerVars, taskVars>>

\* Mutation: Stop does not join the thread.
JoinNothing ==
    /\ OwnerGoes("join", "idle")
    /\ UNCHANGED <<semVars, runVars, slotVars, workerVars, taskVars>>

Join ==
    /\ OwnerGoes("join", "idle")
    /\ process[thread] = "dead"
    /\ UNCHANGED <<semVars, runVars, slotVars, workerVars, taskVars>>
-----------------------------------------------------------------------------
(* A worker.                                                                *)

WorkerGoes(t, from, to) ==
    /\ process[t] = from
    /\ process' = [process EXCEPT ![t] = to]

\* If the thread cannot be attached to the VM it ends, with _run still raised.
Attach(t) ==
    /\ \E to \in {"test", "dead"} : WorkerGoes(t, "attach", to)
    /\ UNCHANGED <<semVars, runVars, slotVars, taskVars, owner, job, ran>>

\* The test of while (_run), then the call of Pend.
TestRun(t) ==
    /\ IF running
       THEN WorkerGoes(t, "test", "pending") /\ Pend(t)
       ELSE WorkerGoes(t, "test", "dead") /\ UNCHANGED semVars
    /\ UNCHANGED <<runVars, slotVars, taskVars, owner, job, ran>>

\* Inside Pend.
WaitTask(t) ==
    /\ \/ process[t] = "pending" /\ (PendBlocks(t) \/ WakeSpuriously(t))
          /\ UNCHANGED process
       \/ WorkerGoes(t, "pending", "retest") /\ PendTakes(t)
    /\ UNCHANGED <<runVars, slotVars, taskVars, owner, job, ran>>

\* Mutation: _run is not tested once more after Pend.
RetestRunNever(t) ==
    /\ WorkerGoes(t, "retest", IF slotWorker = 0 THEN "test" ELSE "read")
    /\ job' = [job EXCEPT ![t] = NoJob]
    /\ UNCHANGED <<semVars, runVars, slotVars, taskVars, owner, ran>>

\* if (!_run) break; if (_worker)
RetestRun(t) ==
    /\ WorkerGoes(t, "retest", IF ~running THEN "dead"
                            ELSE IF slotWorker = 0 THEN "test" ELSE "read")
    /\ job' = [job EXCEPT ![t] = NoJob]
    /\ UNCHANGED <<semVars, runVars, slotVars, taskVars, owner, ran>>

\* _worker(_user): the two loads, in either order.
ReadSlot(t) ==
    /\ \/ /\ job[t] = NoJob
          /\ WorkerGoes(t, "read", "read")
          /\ \E half \in {[NoJob EXCEPT !.worker = slotWorker], [NoJob EXCEPT !.user = slotUser]} :
                 job' = [job EXCEPT ![t] = half]
       \/ /\ job[t] # NoJob
          /\ WorkerGoes(t, "read", "run")
          /\ job' = [job EXCEPT ![t] = [worker |-> IF @.worker = Unread THEN slotWorker ELSE @.worker,
                                        user |-> IF @.user = Unread THEN slotUser ELSE @.user]]
    /\ UNCHANGED <<semVars, runVars, slotVars, taskVars, owner, ran>>

RunTask(t) ==
    /\ WorkerGoes(t, "run", "test")
    /\ ran' = Append(ran, job[t])
    /\ UNCHANGED <<semVars, runVars, slotVars, taskVars, owner, job>>
-----------------------------------------------------------------------------
\* The owner goes on with the call it is in.
ContinueCall == Create \/ WriteSlot \/ PostTask \/ PostStop \/ Join

Process(t) ==
    \/ Attach(t)
    \/ TestRun(t)
    \/ WaitTask(t)
    \/ RetestRun(t)
    \/ ReadSlot(t)
    \/ RunTask(t)

\* The owner need not make another call.
OwnerRests == owner = "idle" /\ UNCHANGED threadVars

Next ==
    \/ Start
    \/ AddTask
    \/ Stop
    \/ ContinueCall
    \/ \E t \in Threads : Process(t)
    \/ OwnerRests

Spec == Init /\ [][Next]_threadVars

LeavesPend(t) == WaitTask(t) /\ process'[t] # "pending"

\* All threads are scheduled, a task ends, and those who wait are not woken for
\* nothing for ever while a unit lies there.  No one is owed a spurious wake-up.
FairSpec ==
    /\ Spec
    /\ WF_threadVars(ContinueCall)
    /\ \A t \in Threads : WF_threadVars(t \notin blocked /\ Process(t))
    /\ SF_threadVars(\E t \in Threads : LeavesPend(t))
-----------------------------------------------------------------------------
(* Properties.                                                              *)

\* With one worker, an owner that lets each task end before it adds the next gets
\* every task run once, in order and with its own argument.  (The slot holds one task:
\* an owner that does not wait may lose tasks, or have two of them mixed.)  After a
\* restart a task may be run again: a worker that saw _run fall leaves its units and
\* its slot to the next, and the unit that Stop posts is no task.  But as long as no
\* worker was lost none older comes after a younger; and however many workers there
\* are, no unit is run twice: there are never more runs than tasks added and stops.
TasksIntact ==
    /\ thread <= 1 /\ ~overlapped =>
           \A k \in DOMAIN ran : ran[k] = [worker |-> k, user |-> k]
    /\ lost = {} =>
           \A k \in 1..Len(ran) - 1 :
               ran[k].worker <= ran[k + 1].worker /\ ran[k].user <= ran[k + 1].user
    /\ Len(ran) + count <= added + stops

\* When Stop has returned no worker is left to use the object, but those whose thread
\* a second Start has overwritten: nobody joins them.
NoWorkerAfterStop ==
    owner = "idle" /\ ~running =>
        \A t \in Threads \ lost : process[t] \in {"none", "dead"}

\* Stop returns, wherever its worker is when it is called, if there is no other to
\* take the unit that it posts.
StopReturns ==
    (owner = "postStop" /\ \A t \in lost : process[t] = "dead") ~> owner = "idle"

\* The last task added is run, by whichever worker, unless the thread is stopped or
\* all its workers have died.  (A task added before Start is run after it, if no lost
\* worker, which has seen _run down, could have taken its unit.)
LastTaskRuns ==
    \A k \in 1..MaxTasks :
        (added = k /\ running /\ (owner = "postTask" \/ (owner = "idle" /\ lost = {})))
            ~> \/ \E i \in DOMAIN ran : ran[i].worker = k
               \/ added # k
               \/ ~running
               \/ \A t \in Threads : process[t] \in {"none", "dead"}
=============================================================================
