--------------------- MODULE TextureMovieEncoderProofs ---------------------
(***************************************************************************)
(* Proofs about TextureMovieEncoder, for any bounds.  What the fence and    *)
(* mRunning guarantee holds for any number of callers; what the order of    *)
(* the messages guarantees holds for one caller, as the app has.            *)
(***************************************************************************)
EXTENDS TextureMovieEncoder, SequenceTheorems, TLAPS

\* The session that is under way, if any, is the last one.
Current(state) == sessions > 0 /\ thread[sessions] = state

\* Only the last thread created can be alive, only a looping one has messages,
\* and the fields under the fence say which state it is in.
ThreadInv ==
    /\ \A t \in Sessions :
          /\ t > sessions => thread[t] = "none"
          /\ t < sessions => thread[t] = "exited"
          /\ t = sessions => thread[t] # "none"
          /\ thread[t] # "looping" => queue[t] = <<>>
    /\ mRunning <=> (sessions > 0 /\ ~Current("exited"))
    /\ mHandler = IF Current("looping") \/ Current("quitting") THEN sessions ELSE 0
    /\ mReady <=> mHandler # 0

\* What carries a context carries a real one, so an open encoder has a surface.
ContextInv ==
    /\ \A t \in Sessions : \A i \in 1..Len(queue[t]) :
          queue[t][i].what \in {"START", "CONTEXT"} => queue[t][i].arg \in Contexts
    /\ \A c \in Callers : pc[c].at \in {"wait", "sendStart"} => pc[c].arg \in Contexts
    /\ mVideoEncoder = "open" => mEglCore \in Contexts

\* Caller c has called startRecording and has not posted START yet.
Starting(c) == pc[c].at \in {"wait", "sendStart"}

\* The shape of the queue q that one caller fills: START is first, STOP and QUIT
\* are neighbours, and nothing but START or QUIT is first while the encoder is not
\* open.  inStop: the caller has posted STOP and not yet QUIT.
Shape(q, inStop, open) ==
    /\ \A i \in 1..Len(q) : q[i].what = "START" => i = 1 /\ ~open
    /\ \A i \in 1..Len(q) : q[i].what = "STOP" =>
          IF i < Len(q) THEN q[i + 1].what = "QUIT" ELSE inStop
    /\ \A i \in 1..Len(q) : q[i].what = "QUIT" =>
          IF i = 1 THEN ~open ELSE q[i - 1].what = "STOP"
    /\ ~open => IF Len(q) = 0 THEN inStop ELSE q[1].what \in {"START", "QUIT"}
    /\ inStop => IF Len(q) = 0 THEN ~open ELSE q[Len(q)].what = "STOP"

\* While the thread loops its queue has that shape, or is still empty before
\* START; the encoder is open at no other time.
QueueInv(c) ==
    /\ Current("created") => pc[c].at = "wait"
    /\ Current("looping") =>
          IF Starting(c)
          THEN queue[sessions] = <<>> /\ mVideoEncoder # "open"
          ELSE Shape(queue[sessions], pc[c].at = "sendQuit", mVideoEncoder = "open")
    /\ ~Current("looping") => mVideoEncoder # "open"
-----------------------------------------------------------------------------
(* Type correctness.                                                        *)

\* A step that throws keeps the types: it changes nothing but the exception.
LEMMA ThrowTyped ==
    ASSUME TypeOK, NEW kind, NEW at, [kind |-> kind, at |-> at] \in Exceptions,
           Throw(kind, at)
    PROVE  TypeOK'
BY DEF TypeOK, Throw, fenceVars, threadVars, encoderVars

\* Moving a caller keeps its control state typed.
LEMMA GotoTyped ==
    ASSUME TypeOK, NEW c \in Callers, NEW at \in CallerState, NEW arg \in Context0,
           Goto(c, at, arg)
    PROVE  pc' \in [Callers -> CallerPC]
<1>1. [at |-> at, arg |-> arg] \in CallerPC
    BY DEF CallerPC
<1>2. QED
    BY <1>1 DEF TypeOK, Goto

\* Contexts are contexts, and so is their absence.
LEMMA ContextTyped == Contexts \subseteq Context0 /\ NoContext \in Context0
BY DEF Context0

\* No handler is a value of mHandler, and no session a number of sessions.
LEMMA ZeroTyped == 0 \in 0..MaxSessions
BY BoundsAssumption

\* Sending keeps the types: the message goes to the end of one queue.
LEMMA SendTyped ==
    ASSUME TypeOK, NEW c \in Callers, NEW what \in MessageType,
           NEW arg \in Context0, NEW method, NEW next \in CallerState,
           [kind |-> "NullHandler", at |-> method] \in Exceptions,
           Send(c, what, arg, method, next)
    PROVE  TypeOK'
<1>1. CASE mHandler = 0
    BY <1>1, ThrowTyped DEF Send
<1>2. CASE mHandler # 0
    <2>1. mHandler \in Sessions
        BY <1>2, BoundsAssumption DEF TypeOK, Sessions
    <2>2. [what |-> what, arg |-> arg] \in Message
        BY DEF Message
    <2>3. Append(queue[mHandler], [what |-> what, arg |-> arg]) \in Seq(Message)
        BY <2>1, <2>2, AppendProperties DEF TypeOK
    <2>4. queue' \in [Sessions -> Seq(Message)]
        BY <1>2, <2>1, <2>3 DEF Send, TypeOK
    <2>5. pc' \in [Callers -> CallerPC]
        BY <1>2, GotoTyped, ContextTyped DEF Send
    <2>6. QED
        BY <1>2, <2>4, <2>5 DEF Send, TypeOK, fenceVars, threadVars, encoderVars
<1>3. QED
    BY <1>1, <1>2

\* The message a thread takes is typed, and so is the queue it leaves.
LEMMA ReceivedTyped ==
    ASSUME TypeOK, NEW t \in Sessions, NEW what, Receives(t, what)
    PROVE  /\ Head(queue[t]) \in Message
           /\ Head(queue[t]).arg \in Context0
           /\ [queue EXCEPT ![t] = Tail(@)] \in [Sessions -> Seq(Message)]
<1>1. queue[t] \in Seq(Message) /\ queue[t] # <<>>
    BY DEF TypeOK, Receives
<1>2. Head(queue[t]) \in Message /\ Tail(queue[t]) \in Seq(Message)
    BY <1>1, HeadTailProperties
<1>3. Head(queue[t]).arg \in Context0
    BY <1>2 DEF Message
<1>4. [queue EXCEPT ![t] = Tail(@)] \in [Sessions -> Seq(Message)]
    BY <1>2 DEF TypeOK
<1>5. QED
    BY <1>2, <1>3, <1>4

\* Every call and every step inside a call keeps the types.
LEMMA CallerTyped ==
    ASSUME TypeOK, NEW c \in Callers, Call(c) \/ ContinueCall(c) \/ WakeSpuriously(c)
    PROVE  TypeOK'
<1> USE ContextTyped DEF CallerState, MessageType, Exceptions
<1>1. ASSUME NEW context \in Contexts, StartRecording(c, context) PROVE TypeOK'
    <2>1. CASE mRunning
        BY <1>1, <2>1 DEF StartRecording, TypeOK, encVars, fenceVars, threadVars, encoderVars
    <2>2. CASE ~mRunning
        <3>1. sessions + 1 \in Sessions
            BY <1>1, <2>2, BoundsAssumption DEF StartRecording, TypeOK, Sessions
        <3>2. thread' \in [Sessions -> ThreadState]
            BY <1>1, <2>2, <3>1 DEF StartRecording, TypeOK, ThreadState
        <3>3. pc' \in [Callers -> CallerPC]
            BY <1>1, <2>2, GotoTyped, ContextTyped DEF StartRecording, TypeOK, CallerState
        <3>4. sessions' \in 0..MaxSessions
            BY <1>1, <2>2, <3>1 DEF StartRecording, Sessions
        <3>5. QED
            BY <1>1, <2>2, <3>2, <3>3, <3>4 DEF StartRecording, TypeOK, encoderVars
    <2>3. QED
        BY <2>1, <2>2
<1>2. ASSUME StopRecording(c) PROVE TypeOK'
    BY <1>2, SendTyped DEF StopRecording
<1>3. ASSUME NEW context \in Contexts, UpdateSharedContext(c, context) PROVE TypeOK'
    BY <1>3, SendTyped DEF UpdateSharedContext
<1>4. ASSUME NEW texture \in Contexts, SetTextureId(c, texture) PROVE TypeOK'
    BY <1>4, GotoTyped DEF SetTextureId, TypeOK, fenceVars, threadVars, encoderVars
<1>5. ASSUME NEW zeroTimestamp \in BOOLEAN, FrameAvailable(c, zeroTimestamp) PROVE TypeOK'
    BY <1>5, GotoTyped DEF FrameAvailable, TypeOK, fenceVars, threadVars, encoderVars
<1>6. ASSUME AwaitReady(c) PROVE TypeOK'
    BY <1>6, GotoTyped DEF AwaitReady, TypeOK, CallerPC, threadVars, encoderVars
<1>7. ASSUME SendStart(c) PROVE TypeOK'
    BY <1>7, SendTyped DEF SendStart, TypeOK, CallerPC
<1>8. ASSUME SendQuit(c) PROVE TypeOK'
    BY <1>8, SendTyped DEF SendQuit
<1>9. ASSUME SendTexture(c) PROVE TypeOK'
    BY <1>9, SendTyped DEF SendTexture, TypeOK, CallerPC
<1>10. ASSUME SendFrame(c) PROVE TypeOK'
    BY <1>10, SendTyped DEF SendFrame
<1>11. ASSUME WakeSpuriously(c) PROVE TypeOK'
    BY <1>11 DEF WakeSpuriously, TypeOK, threadVars, encoderVars
<1>12. QED
    BY <1>1, <1>2, <1>3, <1>4, <1>5, <1>6, <1>7, <1>8, <1>9, <1>10, <1>11
       DEF Call, ContinueCall

\* Every step of an encoder thread keeps the types.
LEMMA EncoderTyped ==
    ASSUME TypeOK, NEW t \in Sessions, EncoderThread(t)
    PROVE  TypeOK'
<1> USE ContextTyped DEF ThreadState, Exceptions, fenceVars, threadVars, encoderVars
<1>1. ASSUME RunReady(t) PROVE TypeOK'
    BY <1>1, BoundsAssumption DEF RunReady, TypeOK, Sessions
<1>2. ASSUME HandleStartRecording(t) PROVE TypeOK'
    <2>1. CASE Throw("IOException", "handleMessage")
        BY <2>1, ThrowTyped
    <2>2. CASE ~Throw("IOException", "handleMessage")
        <3>1. Head(queue[t]).arg \in Context0
            BY <1>2, ReceivedTyped DEF HandleStartRecording
        <3>2. queue' \in [Sessions -> Seq(Message)]
            BY <1>2, <2>2, ReceivedTyped DEF HandleStartRecording, Consume
        <3>3. QED
            BY <1>2, <2>2, <3>1, <3>2 DEF HandleStartRecording, Consume, TypeOK
    <2>3. QED
        BY <2>1, <2>2
<1>3. ASSUME HandleFrameAvailable(t) PROVE TypeOK'
    BY <1>3, ReceivedTyped, ThrowTyped DEF HandleFrameAvailable, Consume, TypeOK
<1>4. ASSUME HandleStopRecording(t) PROVE TypeOK'
    <2>1. CASE mVideoEncoder # "open" \/ ~fed
        BY <1>4, <2>1, ThrowTyped DEF HandleStopRecording
    <2>2. CASE mVideoEncoder = "open" /\ fed
        BY <1>4, <2>2, ReceivedTyped DEF HandleStopRecording, Consume, TypeOK
    <2>3. QED
        BY <2>1, <2>2
<1>5. ASSUME HandleSetTexture(t) PROVE TypeOK'
    BY <1>5, ReceivedTyped DEF HandleSetTexture, Consume, TypeOK, Message
<1>6. ASSUME HandleUpdateSharedContext(t) PROVE TypeOK'
    <2>1. CASE mEglCore = NoContext
        BY <1>6, <2>1, ThrowTyped DEF HandleUpdateSharedContext
    <2>2. CASE mEglCore # NoContext
        <3>1. Head(queue[t]).arg \in Context0
            BY <1>6, ReceivedTyped DEF HandleUpdateSharedContext
        <3>2. queue' \in [Sessions -> Seq(Message)]
            BY <1>6, <2>2, ReceivedTyped DEF HandleUpdateSharedContext, Consume
        <3>3. QED
            BY <1>6, <2>2, <3>1, <3>2 DEF HandleUpdateSharedContext, Consume, TypeOK
    <2>3. QED
        BY <2>1, <2>2
<1>7. ASSUME HandleQuit(t) PROVE TypeOK'
    BY <1>7, EmptySeq DEF HandleQuit, TypeOK
<1>8. ASSUME RunExit(t) PROVE TypeOK'
    BY <1>8, ZeroTyped DEF RunExit, TypeOK
<1>9. QED
    BY <1>1, <1>2, <1>3, <1>4, <1>5, <1>6, <1>7, <1>8 DEF EncoderThread

\* The types hold in the initial state and are kept by every step.
LEMMA TypeInit == EncInit => TypeOK
<1> SUFFICES ASSUME EncInit PROVE TypeOK
    OBVIOUS
<1>1. <<>> \in Seq(Message)
    BY EmptySeq
<1>2. queue \in [Sessions -> Seq(Message)]
    BY <1>1 DEF EncInit
<1>3. [at |-> "idle", arg |-> NoContext] \in CallerPC
    BY ContextTyped DEF CallerPC, CallerState
<1>4. QED
    BY <1>2, <1>3, ContextTyped, ZeroTyped
       DEF EncInit, TypeOK, ThreadState, Exceptions, NoException

LEMMA TypeStep == TypeOK /\ [EncNext]_encVars => TypeOK'
<1> SUFFICES ASSUME TypeOK, [EncNext]_encVars PROVE TypeOK'
    OBVIOUS
<1>1. CASE UNCHANGED encVars
    BY <1>1 DEF encVars, fenceVars, threadVars, encoderVars, TypeOK
<1>2. QED
    BY <1>1, CallerTyped, EncoderTyped DEF EncNext, ProcessDead

\* The encoder and its callers keep every variable in its type, whatever the
\* callers call.
THEOREM TypeCorrect == EncSpec => []TypeOK
BY TypeInit, TypeStep, PTL DEF EncSpec
-----------------------------------------------------------------------------
(* The fence: one encoder thread, and fields that tell its state.           *)

\* ThreadInv speaks of these variables only.
LEMMA ThreadUnchanged ==
    ThreadInv /\ UNCHANGED <<mReady, mRunning, mHandler, sessions, thread, queue>>
        => ThreadInv'
BY DEF ThreadInv, Current

\* A thread that is alive is the last one created.
LEMMA LiveIsCurrent ==
    ASSUME TypeOK, ThreadInv, NEW t \in Sessions,
           thread[t] \in {"created", "looping", "quitting"}
    PROVE  t = sessions /\ sessions > 0 /\ sessions \in Sessions
<1>1. t \in Nat /\ t > 0 /\ sessions \in Nat
    BY BoundsAssumption DEF TypeOK, Sessions
<1>2. ~(t > sessions) /\ ~(t < sessions)
    BY DEF ThreadInv
<1>3. QED
    BY <1>1, <1>2

\* A message is appended to the queue of a looping thread only.
LEMMA SendThread ==
    ASSUME TypeOK, ThreadInv, NEW c, NEW what, NEW arg, NEW method, NEW next,
           Send(c, what, arg, method, next)
    PROVE  ThreadInv'
<1>1. CASE mHandler = 0
    BY <1>1, ThreadUnchanged DEF Send, Throw, fenceVars, threadVars
<1>2. CASE mHandler # 0
    <2>1. UNCHANGED <<mReady, mRunning, mHandler, sessions, thread>>
        BY <1>2 DEF Send, fenceVars, threadVars
    <2>2. \A t \in Sessions : thread[t] # "looping" => queue'[t] = queue[t]
        BY <1>2 DEF Send, TypeOK
    <2>3. QED
        BY <2>1, <2>2 DEF ThreadInv, Current
<1>3. QED
    BY <1>1, <1>2

\* A message is taken from the queue of a looping thread only.
LEMMA ConsumeThread ==
    ASSUME TypeOK, ThreadInv, NEW t \in Sessions, thread[t] = "looping", Consume(t)
    PROVE  ThreadInv'
<1>1. UNCHANGED <<mReady, mRunning, mHandler, sessions, thread>>
    BY DEF Consume, fenceVars, threadVars
<1>2. \A u \in Sessions : thread[u] # "looping" => queue'[u] = queue[u]
    BY DEF Consume, TypeOK
<1>3. QED
    BY <1>1, <1>2 DEF ThreadInv, Current

LEMMA ThrowThread ==
    ASSUME ThreadInv, NEW kind, NEW at, Throw(kind, at)
    PROVE  ThreadInv'
BY ThreadUnchanged DEF Throw, fenceVars, threadVars

\* Callers keep ThreadInv: only startRecording touches the threads, and it adds
\* one only when no other is alive.
LEMMA CallerThread ==
    ASSUME TypeOK, ThreadInv, NEW c \in Callers,
           Call(c) \/ ContinueCall(c) \/ WakeSpuriously(c)
    PROVE  ThreadInv'
<1>1. ASSUME NEW context \in Contexts, StartRecording(c, context) PROVE ThreadInv'
    <2>1. CASE mRunning
        BY <1>1, <2>1, ThreadUnchanged
           DEF StartRecording, encVars, fenceVars, threadVars
    <2>2. CASE ~mRunning
        <3>1. /\ sessions' = sessions + 1
              /\ thread' = [thread EXCEPT ![sessions + 1] = "created"]
              /\ mRunning' = TRUE
              /\ UNCHANGED <<mReady, mHandler, queue>>
            BY <1>1, <2>2 DEF StartRecording
        <3>2. sessions \in Nat /\ sessions + 1 \in Sessions
            BY <1>1, <2>2, BoundsAssumption DEF StartRecording, TypeOK, Sessions
        <3>3. sessions > 0 => thread[sessions] = "exited"
            BY <2>2 DEF ThreadInv, Current
        <3>4. mHandler = 0
            BY <3>2, <3>3 DEF ThreadInv, Current
        <3>5. thread'[sessions + 1] = "created"
            BY <3>1, <3>2 DEF TypeOK
        <3>6. \A t \in Sessions : t # sessions + 1 => thread'[t] = thread[t]
            BY <3>1 DEF TypeOK
        <3>7. ASSUME NEW t \in Sessions
              PROVE  /\ t > sessions' => thread'[t] = "none"
                     /\ t < sessions' => thread'[t] = "exited"
                     /\ t = sessions' => thread'[t] # "none"
                     /\ thread'[t] # "looping" => queue'[t] = <<>>
            <4>1. t \in Nat /\ t > 0
                BY BoundsAssumption DEF Sessions
            <4>2. CASE t = sessions + 1
                <5>1. thread[t] = "none"
                    BY <4>2, <3>2 DEF ThreadInv
                <5>2. queue[t] = <<>>
                    BY <5>1 DEF ThreadInv
                <5>3. QED
                    BY <4>2, <5>2, <3>1, <3>2, <3>5
            <4>3. CASE t # sessions + 1
                <5>1. thread'[t] = thread[t]
                    BY <4>3, <3>6
                <5>2. t = sessions => thread[t] = "exited"
                    BY <3>3, <4>1
                <5>3. QED
                    BY <4>1, <4>3, <5>1, <5>2, <3>1, <3>2 DEF ThreadInv
            <4>4. QED
                BY <4>2, <4>3
        <3>8. QED
            BY <3>1, <3>2, <3>4, <3>5, <3>7 DEF ThreadInv, Current
    <2>3. QED
        BY <2>1, <2>2
<1>2. ASSUME StopRecording(c) PROVE ThreadInv'
    BY <1>2, SendThread DEF StopRecording
<1>3. ASSUME NEW context \in Contexts, UpdateSharedContext(c, context) PROVE ThreadInv'
    BY <1>3, SendThread DEF UpdateSharedContext
<1>4. ASSUME NEW texture \in Contexts, SetTextureId(c, texture) PROVE ThreadInv'
    BY <1>4, ThreadUnchanged DEF SetTextureId, fenceVars, threadVars
<1>5. ASSUME NEW zeroTimestamp \in BOOLEAN, FrameAvailable(c, zeroTimestamp) PROVE ThreadInv'
    BY <1>5, ThreadUnchanged DEF FrameAvailable, fenceVars, threadVars
<1>6. ASSUME AwaitReady(c) PROVE ThreadInv'
    BY <1>6, ThreadUnchanged DEF AwaitReady, threadVars
<1>7. ASSUME SendStart(c) \/ SendQuit(c) \/ SendTexture(c) \/ SendFrame(c) PROVE ThreadInv'
    BY <1>7, SendThread DEF SendStart, SendQuit, SendTexture, SendFrame
<1>8. ASSUME WakeSpuriously(c) PROVE ThreadInv'
    BY <1>8, ThreadUnchanged DEF WakeSpuriously, threadVars
<1>9. QED
    BY <1>1, <1>2, <1>3, <1>4, <1>5, <1>6, <1>7, <1>8 DEF Call, ContinueCall

\* Encoder threads keep ThreadInv: run() sets the fields as the thread passes
\* from one state to the next.
LEMMA EncoderThreadInv ==
    ASSUME TypeOK, ThreadInv, NEW t \in Sessions, EncoderThread(t)
    PROVE  ThreadInv'
<1>1. ASSUME NEW state \in {"created", "looping", "quitting"}, NEW state2,
             thread[t] = state, thread' = [thread EXCEPT ![t] = state2],
             sessions' = sessions
      PROVE  /\ t = sessions /\ sessions \in Sessions /\ sessions > 0
             /\ thread'[t] = state2
             /\ \A u \in Sessions : u # t => thread'[u] = thread[u]
    BY <1>1, LiveIsCurrent DEF TypeOK
<1>2. ASSUME RunReady(t) PROVE ThreadInv'
    <2>1. /\ t = sessions /\ sessions > 0 /\ thread'[t] = "looping"
          /\ \A u \in Sessions : u # t => thread'[u] = thread[u]
        BY <1>1, <1>2 DEF RunReady
    <2>2. queue[t] = <<>> /\ mRunning
        BY <1>2, <2>1 DEF RunReady, ThreadInv, Current
    <2>3. QED
        BY <1>2, <2>1, <2>2 DEF RunReady, ThreadInv, Current
<1>3. ASSUME HandleQuit(t) PROVE ThreadInv'
    <2>1. /\ t = sessions /\ sessions > 0 /\ thread'[t] = "quitting"
          /\ \A u \in Sessions : u # t => thread'[u] = thread[u]
        BY <1>1, <1>3 DEF HandleQuit, Receives, threadVars
    <2>2. /\ queue'[t] = <<>>
          /\ \A u \in Sessions : u # t => queue'[u] = queue[u]
        BY <1>3 DEF HandleQuit, TypeOK
    <2>3. UNCHANGED <<mReady, mRunning, mHandler, sessions>>
        BY <1>3 DEF HandleQuit, fenceVars
    <2>4. Current("looping") /\ mRunning /\ mHandler = sessions /\ mReady
        BY <1>3, <2>1 DEF HandleQuit, Receives, ThreadInv, Current
    <2>5. QED
        BY <2>1, <2>2, <2>3, <2>4 DEF ThreadInv, Current
<1>4. ASSUME RunExit(t) PROVE ThreadInv'
    <2>1. /\ t = sessions /\ sessions > 0 /\ thread'[t] = "exited"
          /\ \A u \in Sessions : u # t => thread'[u] = thread[u]
        BY <1>1, <1>4 DEF RunExit
    <2>2. queue[t] = <<>>
        BY <1>4 DEF RunExit, ThreadInv
    <2>3. QED
        BY <1>4, <2>1, <2>2 DEF RunExit, ThreadInv, Current
<1>5. ASSUME HandleStartRecording(t) PROVE ThreadInv'
    BY <1>5, ConsumeThread, ThrowThread DEF HandleStartRecording, Receives
<1>6. ASSUME HandleFrameAvailable(t) PROVE ThreadInv'
    BY <1>6, ConsumeThread, ThrowThread DEF HandleFrameAvailable, Receives
<1>7. ASSUME HandleStopRecording(t) PROVE ThreadInv'
    BY <1>7, ConsumeThread, ThrowThread DEF HandleStopRecording, Receives
<1>8. ASSUME HandleSetTexture(t) PROVE ThreadInv'
    BY <1>8, ConsumeThread DEF HandleSetTexture, Receives
<1>9. ASSUME HandleUpdateSharedContext(t) PROVE ThreadInv'
    BY <1>9, ConsumeThread, ThrowThread DEF HandleUpdateSharedContext, Receives
<1>10. QED
    BY <1>2, <1>3, <1>4, <1>5, <1>6, <1>7, <1>8, <1>9 DEF EncoderThread

LEMMA ThreadInit == EncInit => ThreadInv
BY BoundsAssumption DEF EncInit, ThreadInv, Current, Sessions

LEMMA ThreadStep == TypeOK /\ ThreadInv /\ [EncNext]_encVars => ThreadInv'
<1> SUFFICES ASSUME TypeOK, ThreadInv, [EncNext]_encVars PROVE ThreadInv'
    OBVIOUS
<1>1. CASE UNCHANGED encVars
    BY <1>1, ThreadUnchanged DEF encVars, fenceVars, threadVars
<1>2. QED
    BY <1>1, CallerThread, EncoderThreadInv DEF EncNext, ProcessDead

LEMMA ThreadCorrect == EncSpec => [](TypeOK /\ ThreadInv)
<1>1. EncInit => TypeOK /\ ThreadInv
    BY TypeInit, ThreadInit
<1>2. TypeOK /\ ThreadInv /\ [EncNext]_encVars => TypeOK' /\ ThreadInv'
    BY TypeStep, ThreadStep
<1>3. QED
    BY <1>1, <1>2, PTL DEF EncSpec

\* There is never more than one encoder thread, however many threads call
\* startRecording and whenever they do.
THEOREM OneThread == EncSpec => []OneEncoderThread
<1>1. TypeOK /\ ThreadInv => OneEncoderThread
    BY LiveIsCurrent DEF OneEncoderThread
<1>2. QED
    BY <1>1, ThreadCorrect, PTL

\* mReady tells whether mHandler is the current thread's handler, and implies
\* mRunning, in every state another thread can see.
THEOREM FenceTruth == EncSpec => []FenceHonest
<1>1. TypeOK /\ ThreadInv => FenceHonest
    BY DEF ThreadInv, FenceHonest, Current, TypeOK
<1>2. QED
    BY <1>1, ThreadCorrect, PTL
-----------------------------------------------------------------------------
(* The order of the messages of one caller.                                 *)

Unordered == {"FRAME", "TEXTURE", "CONTEXT"}

\* A message posted between startRecording and stopRecording.
LEMMA ShapeAppendUnordered ==
    ASSUME NEW q \in Seq(Message), NEW m \in Message, NEW open \in BOOLEAN,
           m.what \in Unordered, Shape(q, FALSE, open)
    PROVE  Shape(Append(q, m), FALSE, open)
<1>1. Len(Append(q, m)) = Len(q) + 1 /\ Len(q) \in Nat
    BY AppendProperties, LenProperties
<1>2. \A i \in 1..Len(q) : Append(q, m)[i] = q[i]
    BY AppendProperties
<1>3. Append(q, m)[Len(q) + 1] = m
    BY AppendProperties
<1>4. QED
    BY <1>1, <1>2, <1>3 DEF Shape, Unordered

\* stopRecording's first message ...
LEMMA ShapeAppendStop ==
    ASSUME NEW q \in Seq(Message), NEW m \in Message, NEW open \in BOOLEAN,
           m.what = "STOP", Shape(q, FALSE, open)
    PROVE  Shape(Append(q, m), TRUE, open)
<1>1. Len(Append(q, m)) = Len(q) + 1 /\ Len(q) \in Nat
    BY AppendProperties, LenProperties
<1>2. \A i \in 1..Len(q) : Append(q, m)[i] = q[i]
    BY AppendProperties
<1>3. Append(q, m)[Len(q) + 1] = m
    BY AppendProperties
<1>4. QED
    BY <1>1, <1>2, <1>3 DEF Shape

\* ... and its second.
LEMMA ShapeAppendQuit ==
    ASSUME NEW q \in Seq(Message), NEW m \in Message, NEW open \in BOOLEAN,
           m.what = "QUIT", Shape(q, TRUE, open)
    PROVE  Shape(Append(q, m), FALSE, open)
<1>1. Len(Append(q, m)) = Len(q) + 1 /\ Len(q) \in Nat
    BY AppendProperties, LenProperties
<1>2. \A i \in 1..Len(q) : Append(q, m)[i] = q[i]
    BY AppendProperties
<1>3. Append(q, m)[Len(q) + 1] = m
    BY AppendProperties
<1>4. QED
    BY <1>1, <1>2, <1>3 DEF Shape

\* startRecording's message enters an empty queue.
LEMMA ShapeAppendStart ==
    ASSUME NEW m \in Message, m.what = "START"
    PROVE  Shape(Append(<<>>, m), FALSE, FALSE)
<1>1. Len(Append(<<>>, m)) = 1 /\ Append(<<>>, m)[1] = m
    BY AppendProperties, EmptySeq
<1>2. QED
    BY <1>1 DEF Shape

\* What the encoder must be when a message is dispatched.
LEMMA ShapeHead ==
    ASSUME NEW q \in Seq(Message), q # <<>>, NEW inStop, NEW open \in BOOLEAN,
           Shape(q, inStop, open)
    PROVE  /\ Head(q).what \in {"START", "QUIT"} => ~open
           /\ Head(q).what \in {"FRAME", "TEXTURE", "CONTEXT", "STOP"} => open
<1>1. Len(q) \in Nat \ {0} /\ Head(q) = q[1]
    BY EmptySeq
<1>2. QED
    BY <1>1 DEF Shape

\* The queue after START has been handled.
LEMMA ShapeTailStart ==
    ASSUME NEW q \in Seq(Message), q # <<>>, NEW inStop \in BOOLEAN, NEW open \in BOOLEAN,
           Shape(q, inStop, open), Head(q).what = "START"
    PROVE  Shape(Tail(q), inStop, TRUE)
<1>1. /\ Len(q) \in Nat \ {0} /\ Head(q) = q[1]
      /\ Len(Tail(q)) = Len(q) - 1
      /\ \A i \in 1..Len(Tail(q)) : Tail(q)[i] = q[i + 1]
    BY EmptySeq, HeadTailProperties
<1>2. QED
    BY <1>1 DEF Shape

\* The queue after STOP has been handled.
LEMMA ShapeTailStop ==
    ASSUME NEW q \in Seq(Message), q # <<>>, NEW inStop \in BOOLEAN, NEW open \in BOOLEAN,
           Shape(q, inStop, open), Head(q).what = "STOP"
    PROVE  Shape(Tail(q), inStop, FALSE)
<1>1. /\ Len(q) \in Nat \ {0} /\ Head(q) = q[1]
      /\ Len(Tail(q)) = Len(q) - 1
      /\ \A i \in 1..Len(Tail(q)) : Tail(q)[i] = q[i + 1]
    BY EmptySeq, HeadTailProperties
<1>2. QED
    BY <1>1 DEF Shape

\* The queue after any other message of a running recording.
LEMMA ShapeTailUnordered ==
    ASSUME NEW q \in Seq(Message), q # <<>>, NEW inStop \in BOOLEAN, NEW open \in BOOLEAN,
           Shape(q, inStop, open), Head(q).what \in Unordered
    PROVE  Shape(Tail(q), inStop, open)
<1>1. /\ Len(q) \in Nat \ {0} /\ Head(q) = q[1]
      /\ Len(Tail(q)) = Len(q) - 1
      /\ \A i \in 1..Len(Tail(q)) : Tail(q)[i] = q[i + 1]
    BY EmptySeq, HeadTailProperties
<1>2. QED
    BY <1>1 DEF Shape, Unordered
-----------------------------------------------------------------------------
(* One caller: what it posts keeps the shape of the queue.                  *)

\* A step that leaves the queues, the threads and the encoder alone, and does
\* not take the caller into or out of startRecording or stopRecording.
LEMMA QueueUnchanged ==
    ASSUME NEW c, QueueInv(c), UNCHANGED <<sessions, thread, queue, mVideoEncoder>>,
           \/ pc'[c].at = pc[c].at
           \/ /\ pc[c].at \notin {"wait", "sendStart", "sendQuit"}
              /\ pc'[c].at \notin {"wait", "sendStart", "sendQuit"}
    PROVE  QueueInv(c)'
BY DEF QueueInv, Starting, Current, Shape

LEMMA ThrowQueue ==
    ASSUME NEW c, QueueInv(c), NEW kind, NEW at, Throw(kind, at)
    PROVE  QueueInv(c)'
BY QueueUnchanged DEF Throw, threadVars, encoderVars

\* Posting one message, if it extends the shape.
LEMMA SendQueue ==
    ASSUME TypeOK, ThreadInv, NEW c \in Callers, QueueInv(c),
           NEW what, NEW arg, NEW method, NEW next \in {"idle", "sendQuit"},
           Send(c, what, arg, method, next),
           Current("looping") =>
               Shape(Append(queue[sessions], [what |-> what, arg |-> arg]),
                     next = "sendQuit", mVideoEncoder = "open")
    PROVE  QueueInv(c)'
<1>1. CASE mHandler = 0
    BY <1>1, ThrowQueue DEF Send
<1>2. CASE mHandler # 0
    <2>1. /\ UNCHANGED <<sessions, thread, mVideoEncoder>>
          /\ pc'[c].at = next
        BY <1>2 DEF Send, Goto, TypeOK, threadVars, encoderVars
    <2>2. mHandler = sessions /\ sessions > 0
        BY <1>2 DEF ThreadInv, Current, TypeOK
    <2>3. ~Current("created")
        BY <1>2 DEF ThreadInv, Current
    <2>4. CASE thread[sessions] = "looping"
        <3>1. queue'[sessions] = Append(queue[sessions], [what |-> what, arg |-> arg])
            <4>1. sessions \in Sessions
                BY <2>2, BoundsAssumption DEF TypeOK, Sessions
            <4>2. QED
                BY <1>2, <2>2, <2>4, <4>1 DEF Send, TypeOK
        <3>2. Current("looping")
            BY <2>2, <2>4 DEF Current
        <3>3. QED
            BY <2>1, <2>2, <2>4, <3>1, <3>2 DEF QueueInv, Starting, Current
    <2>5. CASE thread[sessions] # "looping"
        BY <2>1, <2>2, <2>3, <2>5 DEF QueueInv, Starting, Current
    <2>6. QED
        BY <2>4, <2>5
<1>3. QED
    BY <1>1, <1>2

\* The one caller keeps the shape, method by method.
LEMMA CallerQueue ==
    ASSUME TypeOK, ThreadInv, NEW c \in Callers, QueueInv(c),
           Call(c) \/ ContinueCall(c) \/ WakeSpuriously(c)
    PROVE  QueueInv(c)'
<1> DEFINE q == queue[sessions]
           open == mVideoEncoder = "open"
<1>1. Current("looping") => q \in Seq(Message) /\ open \in BOOLEAN
    BY BoundsAssumption DEF Current, TypeOK, Sessions
<1>2. ASSUME NEW context \in Contexts, StartRecording(c, context) PROVE QueueInv(c)'
    <2>1. CASE mRunning
        BY <1>2, <2>1, QueueUnchanged
           DEF StartRecording, encVars, fenceVars, threadVars, encoderVars
    <2>2. CASE ~mRunning
        <3>1. /\ ~Current("looping")
              /\ mHandler = 0
            BY <2>2 DEF ThreadInv, Current
        <3>2. mVideoEncoder' # "open" /\ ~mReady
            BY <1>2, <2>2, <3>1 DEF StartRecording, QueueInv, ThreadInv, encoderVars
        <3>3. sessions' > 0 /\ thread'[sessions'] = "created" /\ pc'[c].at = "wait"
            BY <1>2, <2>2, <3>2, BoundsAssumption DEF StartRecording, Goto, TypeOK, Sessions
        <3>4. QED
            BY <3>2, <3>3 DEF QueueInv, Current
    <2>3. QED
        BY <2>1, <2>2
<1>3. ASSUME StopRecording(c) PROVE QueueInv(c)'
    <2>1. [what |-> "STOP", arg |-> NoContext] \in Message
        BY ContextTyped DEF Message, MessageType
    <2>2. Current("looping") =>
              Shape(Append(q, [what |-> "STOP", arg |-> NoContext]), TRUE, open)
        BY <1>1, <1>3, <2>1, ShapeAppendStop DEF StopRecording, Idle, QueueInv, Starting
    <2>3. QED
        BY <1>3, <2>2, SendQueue DEF StopRecording
<1>4. ASSUME NEW context \in Contexts, UpdateSharedContext(c, context) PROVE QueueInv(c)'
    <2>1. [what |-> "CONTEXT", arg |-> context] \in Message
        BY ContextTyped DEF Message, MessageType
    <2>2. Current("looping") =>
              Shape(Append(q, [what |-> "CONTEXT", arg |-> context]), FALSE, open)
        BY <1>1, <1>4, <2>1, ShapeAppendUnordered
           DEF UpdateSharedContext, Idle, QueueInv, Starting, Unordered
    <2>3. QED
        BY <1>4, <2>2, SendQueue DEF UpdateSharedContext
<1>5. ASSUME NEW texture \in Contexts, SetTextureId(c, texture) PROVE QueueInv(c)'
    BY <1>5, QueueUnchanged
       DEF SetTextureId, Idle, Goto, TypeOK, threadVars, encoderVars
<1>6. ASSUME NEW zeroTimestamp \in BOOLEAN, FrameAvailable(c, zeroTimestamp) PROVE QueueInv(c)'
    BY <1>6, QueueUnchanged
       DEF FrameAvailable, Idle, Goto, TypeOK, threadVars, encoderVars
<1>7. ASSUME AwaitReady(c) PROVE QueueInv(c)'
    <2>1. UNCHANGED <<sessions, thread, queue, mVideoEncoder>>
        BY <1>7 DEF AwaitReady, threadVars, encoderVars
    <2>2. CASE mReady
        <3>1. pc[c].at = "wait" /\ pc'[c].at = "sendStart" /\ ~Current("created")
            BY <1>7, <2>2 DEF AwaitReady, At, Goto, TypeOK, ThreadInv, Current
        <3>2. QED
            BY <2>1, <3>1 DEF QueueInv, Starting, Current
    <2>3. CASE ~mReady
        BY <1>7, <2>1, <2>3, QueueUnchanged DEF AwaitReady
    <2>4. QED
        BY <2>2, <2>3
<1>8. ASSUME SendStart(c) PROVE QueueInv(c)'
    <2>1. [what |-> "START", arg |-> pc[c].arg] \in Message
        BY DEF Message, MessageType, TypeOK, CallerPC
    <2>2. Current("looping") =>
              Shape(Append(q, [what |-> "START", arg |-> pc[c].arg]), FALSE, open)
        BY <1>8, <2>1, ShapeAppendStart DEF SendStart, At, QueueInv, Starting
    <2>3. QED
        BY <1>8, <2>2, SendQueue DEF SendStart
<1>9. ASSUME SendQuit(c) PROVE QueueInv(c)'
    <2>1. [what |-> "QUIT", arg |-> NoContext] \in Message
        BY ContextTyped DEF Message, MessageType
    <2>2. Current("looping") =>
              Shape(Append(q, [what |-> "QUIT", arg |-> NoContext]), FALSE, open)
        BY <1>1, <1>9, <2>1, ShapeAppendQuit DEF SendQuit, At, QueueInv, Starting
    <2>3. QED
        BY <1>9, <2>2, SendQueue DEF SendQuit
<1>10. ASSUME SendTexture(c) PROVE QueueInv(c)'
    <2>1. [what |-> "TEXTURE", arg |-> pc[c].arg] \in Message
        BY DEF Message, MessageType, TypeOK, CallerPC
    <2>2. Current("looping") =>
              Shape(Append(q, [what |-> "TEXTURE", arg |-> pc[c].arg]), FALSE, open)
        BY <1>1, <1>10, <2>1, ShapeAppendUnordered
           DEF SendTexture, At, QueueInv, Starting, Unordered
    <2>3. QED
        BY <1>10, <2>2, SendQueue DEF SendTexture
<1>11. ASSUME SendFrame(c) PROVE QueueInv(c)'
    <2>1. [what |-> "FRAME", arg |-> NoContext] \in Message
        BY ContextTyped DEF Message, MessageType
    <2>2. Current("looping") =>
              Shape(Append(q, [what |-> "FRAME", arg |-> NoContext]), FALSE, open)
        BY <1>1, <1>11, <2>1, ShapeAppendUnordered
           DEF SendFrame, At, QueueInv, Starting, Unordered
    <2>3. QED
        BY <1>11, <2>2, SendQueue DEF SendFrame
<1>12. ASSUME WakeSpuriously(c) PROVE QueueInv(c)'
    BY <1>12, QueueUnchanged DEF WakeSpuriously, threadVars, encoderVars
<1>13. QED
    BY <1>2, <1>3, <1>4, <1>5, <1>6, <1>7, <1>8, <1>9, <1>10, <1>11, <1>12
       DEF Call, ContinueCall

\* A looping thread with a message has passed START, and its queue the shape.
LEMMA ReceivedShape ==
    ASSUME TypeOK, ThreadInv, NEW c \in Callers, QueueInv(c),
           NEW t \in Sessions, NEW what, Receives(t, what)
    PROVE  /\ t = sessions /\ Current("looping") /\ ~Starting(c)
           /\ queue[t] \in Seq(Message) /\ queue[t] # <<>>
           /\ Shape(queue[t], pc[c].at = "sendQuit", mVideoEncoder = "open")
           /\ Head(queue[t]).what = what
<1>1. t = sessions /\ sessions > 0
    BY LiveIsCurrent DEF Receives
<1>2. QED
    BY <1>1 DEF Receives, Current, QueueInv, TypeOK

\* Taking a message keeps the invariant if the tail fits the encoder's new state.
LEMMA ConsumeQueue ==
    ASSUME TypeOK, ThreadInv, NEW c \in Callers, QueueInv(c),
           NEW t \in Sessions, NEW what, Receives(t, what), Consume(t),
           Shape(Tail(queue[t]), pc[c].at = "sendQuit", (mVideoEncoder = "open")')
    PROVE  QueueInv(c)'
<1>1. t = sessions /\ Current("looping") /\ ~Starting(c)
    BY ReceivedShape
<1>2. UNCHANGED <<sessions, thread, pc>> /\ queue'[t] = Tail(queue[t])
    BY DEF Consume, threadVars, TypeOK
<1>3. QED
    BY <1>1, <1>2 DEF QueueInv, Current, Starting

\* The encoder thread keeps the shape, message by message.
LEMMA EncoderQueue ==
    ASSUME TypeOK, ThreadInv, NEW c \in Callers, QueueInv(c),
           NEW t \in Sessions, EncoderThread(t)
    PROVE  QueueInv(c)'
<1> DEFINE q == queue[t]
           inStop == pc[c].at = "sendQuit"
           open == mVideoEncoder = "open"
<1>1. inStop \in BOOLEAN /\ open \in BOOLEAN
    OBVIOUS
<1>2. ASSUME RunReady(t) PROVE QueueInv(c)'
    <2>1. t = sessions /\ sessions > 0 /\ Current("created")
        BY <1>2, LiveIsCurrent DEF RunReady, Current
    <2>2. pc[c].at = "wait" /\ ~open /\ queue[sessions] = <<>>
        BY <2>1 DEF QueueInv, Current, ThreadInv
    <2>3. thread'[sessions] = "looping"
        BY <1>2, <2>1 DEF RunReady, TypeOK
    <2>4. QED
        BY <1>2, <2>1, <2>2, <2>3 DEF RunReady, QueueInv, Current, Starting, encoderVars
<1>3. ASSUME HandleStartRecording(t) PROVE QueueInv(c)'
    <2>1. CASE Throw("IOException", "handleMessage")
        BY <2>1, ThrowQueue
    <2>2. CASE ~Throw("IOException", "handleMessage")
        <3>1. Receives(t, "START") /\ Consume(t) /\ mVideoEncoder' = "open"
            BY <1>3, <2>2 DEF HandleStartRecording
        <3>2. Shape(Tail(q), inStop, TRUE)
            BY <1>1, <3>1, ReceivedShape, ShapeTailStart
        <3>3. QED
            BY <3>1, <3>2, ConsumeQueue
    <2>3. QED
        BY <2>1, <2>2
<1>4. ASSUME HandleFrameAvailable(t) PROVE QueueInv(c)'
    <2>1. CASE ~open
        BY <1>4, <2>1, ThrowQueue DEF HandleFrameAvailable
    <2>2. CASE open
        <3>1. Receives(t, "FRAME") /\ Consume(t) /\ mVideoEncoder' = mVideoEncoder
            BY <1>4, <2>2 DEF HandleFrameAvailable
        <3>2. Shape(Tail(q), inStop, open)
            BY <1>1, <3>1, ReceivedShape, ShapeTailUnordered DEF Unordered
        <3>3. QED
            BY <3>1, <3>2, ConsumeQueue
    <2>3. QED
        BY <2>1, <2>2
<1>5. ASSUME HandleStopRecording(t) PROVE QueueInv(c)'
    <2>1. CASE ~open \/ ~fed
        BY <1>5, <2>1, ThrowQueue DEF HandleStopRecording
    <2>2. CASE open /\ fed
        <3>1. Receives(t, "STOP") /\ Consume(t) /\ mVideoEncoder' = "released"
            BY <1>5, <2>2 DEF HandleStopRecording
        <3>2. Shape(Tail(q), inStop, FALSE)
            BY <1>1, <3>1, ReceivedShape, ShapeTailStop
        <3>3. QED
            BY <3>1, <3>2, ConsumeQueue
    <2>3. QED
        BY <2>1, <2>2
<1>6. ASSUME HandleSetTexture(t) PROVE QueueInv(c)'
    <2>1. Receives(t, "TEXTURE") /\ Consume(t) /\ mVideoEncoder' = mVideoEncoder
        BY <1>6 DEF HandleSetTexture
    <2>2. Shape(Tail(q), inStop, open)
        BY <1>1, <2>1, ReceivedShape, ShapeTailUnordered DEF Unordered
    <2>3. QED
        BY <2>1, <2>2, ConsumeQueue
<1>7. ASSUME HandleUpdateSharedContext(t) PROVE QueueInv(c)'
    <2>1. CASE mEglCore = NoContext
        BY <1>7, <2>1, ThrowQueue DEF HandleUpdateSharedContext
    <2>2. CASE mEglCore # NoContext
        <3>1. Receives(t, "CONTEXT") /\ Consume(t) /\ mVideoEncoder' = mVideoEncoder
            BY <1>7, <2>2 DEF HandleUpdateSharedContext
        <3>2. Shape(Tail(q), inStop, open)
            BY <1>1, <3>1, ReceivedShape, ShapeTailUnordered DEF Unordered
        <3>3. QED
            BY <3>1, <3>2, ConsumeQueue
    <2>3. QED
        BY <2>1, <2>2
<1>8. ASSUME HandleQuit(t) PROVE QueueInv(c)'
    <2>1. ~open /\ t = sessions /\ sessions > 0
        <3>1. Receives(t, "QUIT")
            BY <1>8 DEF HandleQuit
        <3>2. t = sessions /\ sessions > 0 /\ q \in Seq(Message) /\ q # <<>>
              /\ Shape(q, inStop, open) /\ Head(q).what = "QUIT"
            BY <3>1, ReceivedShape DEF Current
        <3>3. ~open
            BY <1>1, <3>2, ShapeHead
        <3>4. QED
            BY <3>2, <3>3
    <2>2. thread'[sessions] = "quitting"
        BY <1>8, <2>1 DEF HandleQuit, TypeOK
    <2>3. QED
        BY <1>8, <2>1, <2>2 DEF HandleQuit, QueueInv, Current, encoderVars, threadVars
<1>9. ASSUME RunExit(t) PROVE QueueInv(c)'
    <2>1. t = sessions /\ sessions > 0 /\ Current("quitting")
        BY <1>9, LiveIsCurrent DEF RunExit, Current
    <2>2. thread'[sessions] = "exited"
        BY <1>9, <2>1 DEF RunExit, TypeOK
    <2>3. QED
        BY <1>9, <2>1, <2>2 DEF RunExit, QueueInv, Current, encoderVars
<1>10. QED
    BY <1>2, <1>3, <1>4, <1>5, <1>6, <1>7, <1>8, <1>9 DEF EncoderThread

LEMMA QueueInit == EncInit => \A c \in Callers : QueueInv(c)
<1> SUFFICES ASSUME EncInit, NEW c \in Callers PROVE QueueInv(c)
    OBVIOUS
<1>1. sessions = 0 /\ mVideoEncoder = "null"
    BY DEF EncInit
<1>2. \A state : ~Current(state)
    BY <1>1 DEF Current
<1>3. QED
    BY <1>1, <1>2 DEF QueueInv

LEMMA QueueStep ==
    ASSUME NEW c, Callers = {c}
    PROVE  TypeOK /\ ThreadInv /\ QueueInv(c) /\ [EncNext]_encVars => QueueInv(c)'
<1> SUFFICES ASSUME TypeOK, ThreadInv, QueueInv(c), [EncNext]_encVars PROVE QueueInv(c)'
    OBVIOUS
<1>1. CASE UNCHANGED encVars
    BY <1>1, QueueUnchanged DEF encVars, threadVars, encoderVars
<1>2. ASSUME NEW d \in Callers, Call(d) \/ ContinueCall(d) \/ WakeSpuriously(d)
      PROVE  QueueInv(c)'
    <2>1. d = c
        OBVIOUS
    <2>2. QED
        BY <1>2, <2>1, CallerQueue
<1>3. ASSUME NEW t \in Sessions, EncoderThread(t) PROVE QueueInv(c)'
    BY <1>3, EncoderQueue
<1>4. QED
    BY <1>1, <1>2, <1>3 DEF EncNext, ProcessDead

LEMMA QueueCorrect ==
    ASSUME NEW c, Callers = {c}
    PROVE  EncSpec => [](TypeOK /\ ThreadInv /\ QueueInv(c))
<1>1. EncInit => TypeOK /\ ThreadInv /\ QueueInv(c)
    BY TypeInit, ThreadInit, QueueInit
<1>2. TypeOK /\ ThreadInv /\ QueueInv(c) /\ [EncNext]_encVars
        => (TypeOK /\ ThreadInv /\ QueueInv(c))'
    BY TypeStep, ThreadStep, QueueStep
<1>3. QED
    BY <1>1, <1>2, PTL DEF EncSpec

\* With one caller, whatever it calls and however the threads interleave, every
\* message that uses the codec is dispatched while the codec is open.
THEOREM EncoderUse ==
    ASSUME NEW c, Callers = {c}
    PROVE  EncSpec => []EncoderUsedOnlyWhileOpen
<1>1. TypeOK /\ ThreadInv /\ QueueInv(c) => EncoderUsedOnlyWhileOpen
    <2> SUFFICES ASSUME TypeOK, ThreadInv, QueueInv(c), NEW t \in Sessions, queue[t] # <<>>
                 PROVE  /\ Head(queue[t]).what = "START" => mVideoEncoder # "open"
                        /\ Head(queue[t]).what \in {"STOP", "FRAME", "CONTEXT"}
                              => mVideoEncoder = "open"
        BY DEF EncoderUsedOnlyWhileOpen
    <2> DEFINE open == mVideoEncoder = "open"
    <2>1. thread[t] = "looping" /\ t = sessions /\ sessions > 0
        BY LiveIsCurrent DEF ThreadInv
    <2>2. ~Starting(c) /\ Shape(queue[t], pc[c].at = "sendQuit", open)
        BY <2>1 DEF QueueInv, Current
    <2>3. queue[t] \in Seq(Message) /\ open \in BOOLEAN
        BY DEF TypeOK
    <2>4. QED
        BY <2>2, <2>3, ShapeHead
<1>2. QED
    BY <1>1, QueueCorrect, PTL

\* With one caller the encoder thread never leaves its loop with the codec open.
THEOREM EncoderReleased ==
    ASSUME NEW c, Callers = {c}
    PROVE  EncSpec => []ReleasedAtExit
<1>1. TypeOK /\ ThreadInv /\ QueueInv(c) => ReleasedAtExit
    <2> SUFFICES ASSUME TypeOK, ThreadInv, QueueInv(c), NEW t \in Sessions,
                        thread[t] = "quitting"
                 PROVE  mVideoEncoder # "open"
        BY DEF ReleasedAtExit
    <2>1. t = sessions
        BY LiveIsCurrent
    <2>2. QED
        BY <2>1 DEF QueueInv, Current
<1>2. QED
    BY <1>1, QueueCorrect, PTL
-----------------------------------------------------------------------------
(* One caller: no handler throws for want of the encoder.                   *)

LEMMA ContextUnchanged ==
    ContextInv /\ UNCHANGED <<queue, pc, mVideoEncoder, mEglCore>> => ContextInv'
BY DEF ContextInv

LEMMA ThrowContext ==
    ASSUME ContextInv, NEW kind, NEW at, Throw(kind, at)
    PROVE  ContextInv'
BY ContextUnchanged DEF Throw, encoderVars

\* Moving a caller keeps ContextInv, if it carries a context where it must.
LEMMA GotoContext ==
    ASSUME TypeOK, ContextInv, NEW c \in Callers, NEW at, NEW arg, Goto(c, at, arg),
           at \in {"wait", "sendStart"} => arg \in Contexts,
           UNCHANGED <<queue, mVideoEncoder, mEglCore>>
    PROVE  ContextInv'
<1>1. \A d \in Callers : pc'[d] = IF d = c THEN [at |-> at, arg |-> arg] ELSE pc[d]
    BY DEF Goto, TypeOK
<1>2. QED
    BY <1>1 DEF ContextInv

\* Posting keeps ContextInv, if START and CONTEXT carry a context.
LEMMA SendContext ==
    ASSUME TypeOK, ContextInv, NEW c \in Callers,
           NEW what \in MessageType, NEW arg \in Context0, NEW method,
           NEW next \in {"idle", "sendQuit"}, Send(c, what, arg, method, next),
           what \in {"START", "CONTEXT"} => arg \in Contexts
    PROVE  ContextInv'
<1>1. CASE mHandler = 0
    BY <1>1, ThrowContext DEF Send
<1>2. CASE mHandler # 0
    <2> DEFINE m == [what |-> what, arg |-> arg]
    <2>1. m \in Message
        BY DEF Message
    <2>2. UNCHANGED <<mVideoEncoder, mEglCore>>
        BY <1>2 DEF Send, encoderVars
    <2>3. \A d \in Callers : pc'[d].at \in {"wait", "sendStart"} => pc'[d].arg \in Contexts
        <3>1. \A d \in Callers : pc'[d] = IF d = c THEN [at |-> next, arg |-> NoContext] ELSE pc[d]
            BY <1>2 DEF Send, Goto, TypeOK
        <3>2. QED
            BY <3>1 DEF ContextInv
    <2>4. ASSUME NEW t \in Sessions, NEW i \in 1..Len(queue'[t]),
                 queue'[t][i].what \in {"START", "CONTEXT"}
          PROVE  queue'[t][i].arg \in Contexts
        <3>1. CASE queue'[t] = queue[t]
            BY <2>4, <3>1 DEF ContextInv
        <3>2. CASE queue'[t] # queue[t]
            <4>1. queue'[t] = Append(queue[t], m) /\ queue[t] \in Seq(Message)
                BY <1>2, <3>2 DEF Send, TypeOK
            <4>2. /\ Len(queue'[t]) = Len(queue[t]) + 1 /\ Len(queue[t]) \in Nat
                  /\ \A j \in 1..Len(queue[t]) : queue'[t][j] = queue[t][j]
                  /\ queue'[t][Len(queue[t]) + 1] = m
                BY <2>1, <4>1, AppendProperties, LenProperties
            <4>3. CASE i = Len(queue[t]) + 1
                BY <2>4, <4>2, <4>3
            <4>4. CASE i # Len(queue[t]) + 1
                <5>1. i \in 1..Len(queue[t])
                    BY <4>2, <4>4
                <5>2. QED
                    BY <2>4, <4>2, <5>1 DEF ContextInv
            <4>5. QED
                BY <4>3, <4>4
        <3>3. QED
            BY <3>1, <3>2
    <2>5. QED
        BY <2>2, <2>3, <2>4 DEF ContextInv
<1>3. QED
    BY <1>1, <1>2

\* Taking a message keeps ContextInv, if an open encoder has a surface after it.
LEMMA ConsumeContext ==
    ASSUME TypeOK, ContextInv, NEW t \in Sessions, queue[t] # <<>>, Consume(t),
           (mVideoEncoder = "open" => mEglCore \in Contexts)'
    PROVE  ContextInv'
<1>1. ASSUME NEW u \in Sessions, NEW i \in 1..Len(queue'[u])
      PROVE  \E j \in 1..Len(queue[u]) : queue'[u][i] = queue[u][j]
    <2>1. CASE u # t
        BY <1>1, <2>1 DEF Consume, TypeOK
    <2>2. CASE u = t
        <3>1. queue'[t] = Tail(queue[t]) /\ queue[t] \in Seq(Message)
            BY DEF Consume, TypeOK
        <3>2. /\ Len(queue[t]) \in Nat
              /\ Len(queue'[t]) = Len(queue[t]) - 1
              /\ \A k \in 1..Len(queue'[t]) : queue'[t][k] = queue[t][k + 1]
            BY <3>1, HeadTailProperties, LenProperties
        <3>3. i + 1 \in 1..Len(queue[t]) /\ queue'[t][i] = queue[t][i + 1]
            BY <1>1, <2>2, <3>2
        <3>4. QED
            BY <2>2, <3>3
    <2>3. QED
        BY <2>1, <2>2
<1>2. pc' = pc
    BY DEF Consume
<1>3. QED
    BY <1>1, <1>2 DEF ContextInv

LEMMA CallerContext ==
    ASSUME TypeOK, ContextInv, NEW c \in Callers,
           Call(c) \/ ContinueCall(c) \/ WakeSpuriously(c)
    PROVE  ContextInv' /\ (exception' = exception \/ exception'.kind = "NullHandler")
<1> USE ContextTyped DEF MessageType
<1>1. ASSUME NEW context \in Contexts, StartRecording(c, context) PROVE ContextInv'
    <2>1. CASE mRunning
        BY <1>1, <2>1, ContextUnchanged DEF StartRecording, encVars, encoderVars
    <2>2. CASE ~mRunning
        <3>1. Goto(c, "sendStart", context) \/ Goto(c, "wait", context)
            BY <1>1, <2>2 DEF StartRecording
        <3>2. UNCHANGED <<queue, mVideoEncoder, mEglCore>>
            BY <1>1, <2>2 DEF StartRecording, encoderVars
        <3>3. QED
            BY <3>1, <3>2, GotoContext
    <2>3. QED
        BY <2>1, <2>2
<1>2. ASSUME StopRecording(c) PROVE ContextInv'
    BY <1>2, SendContext DEF StopRecording
<1>3. ASSUME NEW context \in Contexts, UpdateSharedContext(c, context) PROVE ContextInv'
    BY <1>3, SendContext DEF UpdateSharedContext
<1>4. ASSUME NEW texture \in Contexts, SetTextureId(c, texture) PROVE ContextInv'
    BY <1>4, GotoContext, ContextUnchanged DEF SetTextureId, encoderVars
<1>5. ASSUME NEW zeroTimestamp \in BOOLEAN, FrameAvailable(c, zeroTimestamp) PROVE ContextInv'
    BY <1>5, GotoContext, ContextUnchanged DEF FrameAvailable, encoderVars
<1>6. ASSUME AwaitReady(c) PROVE ContextInv'
    <2>1. pc[c].arg \in Contexts
        BY <1>6 DEF AwaitReady, At, ContextInv
    <2>2. QED
        BY <1>6, <2>1, GotoContext, ContextUnchanged DEF AwaitReady, encoderVars
<1>7. ASSUME SendStart(c) PROVE ContextInv'
    <2>1. pc[c].arg \in Contexts
        BY <1>7 DEF SendStart, At, ContextInv
    <2>2. QED
        BY <1>7, <2>1, SendContext DEF SendStart
<1>8. ASSUME SendQuit(c) PROVE ContextInv'
    BY <1>8, SendContext DEF SendQuit
<1>9. ASSUME SendTexture(c) PROVE ContextInv'
    <2>1. pc[c].arg \in Context0
        BY DEF TypeOK, CallerPC
    <2>2. QED
        BY <1>9, <2>1, SendContext DEF SendTexture
<1>10. ASSUME SendFrame(c) PROVE ContextInv'
    BY <1>10, SendContext DEF SendFrame
<1>11. ASSUME WakeSpuriously(c) PROVE ContextInv'
    BY <1>11, ContextUnchanged DEF WakeSpuriously, encoderVars
<1>12. exception' = exception \/ exception'.kind = "NullHandler"
    <2>1. ASSUME NEW what, NEW arg, NEW method, NEW next, Send(c, what, arg, method, next)
          PROVE  exception' = exception \/ exception'.kind = "NullHandler"
        BY <2>1 DEF Send, Throw
    <2>2. ASSUME NEW context \in Contexts, StartRecording(c, context)
          PROVE  exception' = exception
        BY <2>2 DEF StartRecording, encVars
    <2>3. CASE \/ StopRecording(c)
               \/ \E context \in Contexts : UpdateSharedContext(c, context)
               \/ SendStart(c) \/ SendQuit(c) \/ SendTexture(c) \/ SendFrame(c)
        BY <2>1, <2>3 DEF StopRecording, UpdateSharedContext, SendStart, SendQuit,
                          SendTexture, SendFrame
    <2>4. CASE \/ \E texture \in Contexts : SetTextureId(c, texture)
               \/ \E zeroTimestamp \in BOOLEAN : FrameAvailable(c, zeroTimestamp)
               \/ AwaitReady(c) \/ WakeSpuriously(c)
        BY <2>4 DEF SetTextureId, FrameAvailable, AwaitReady, WakeSpuriously
    <2>5. QED
        BY <2>2, <2>3, <2>4 DEF Call, ContinueCall
<1>13. QED
    BY <1>1, <1>2, <1>3, <1>4, <1>5, <1>6, <1>7, <1>8, <1>9, <1>10, <1>11, <1>12
       DEF Call, ContinueCall

\* A handler finds the encoder open and the surface there, so it throws only for
\* a failing prepareEncoder or an empty movie.
LEMMA EncoderContext ==
    ASSUME TypeOK, ThreadInv, ContextInv, NEW c \in Callers, QueueInv(c),
           NEW t \in Sessions, EncoderThread(t)
    PROVE  /\ ContextInv'
           /\ exception' = exception \/ exception'.kind \in {"NoData", "IOException"}
<1> DEFINE Goal == /\ ContextInv'
                   /\ exception' = exception \/ exception'.kind \in {"NoData", "IOException"}
<1>1. ASSUME NEW what, Receives(t, what)
      PROVE  /\ what \in {"FRAME", "STOP", "CONTEXT", "TEXTURE"} => mVideoEncoder = "open"
             /\ what \in {"START", "CONTEXT"} => Head(queue[t]).arg \in Contexts
             /\ queue[t] # <<>>
    <2> DEFINE open == mVideoEncoder = "open"
    <2>1. /\ queue[t] \in Seq(Message) /\ queue[t] # <<>>
          /\ Shape(queue[t], pc[c].at = "sendQuit", open)
          /\ Head(queue[t]).what = what
        BY <1>1, ReceivedShape
    <2>2. open \in BOOLEAN
        OBVIOUS
    <2>3. what \in {"FRAME", "STOP", "CONTEXT", "TEXTURE"} => open
        BY <2>1, <2>2, ShapeHead
    <2>4. Head(queue[t]) = queue[t][1] /\ 1 \in 1..Len(queue[t])
        BY <2>1, EmptySeq
    <2>5. what \in {"START", "CONTEXT"} => Head(queue[t]).arg \in Contexts
        BY <2>1, <2>4 DEF ContextInv
    <2>6. QED
        BY <2>1, <2>3, <2>5
<1>2. NoContext \notin Contexts
    BY BoundsAssumption DEF NoContext, Contexts
<1>3. ASSUME RunReady(t) \/ RunExit(t) PROVE Goal
    BY <1>3, ContextUnchanged DEF RunReady, RunExit, encoderVars
<1>4. ASSUME HandleStartRecording(t) PROVE Goal
    <2>1. CASE Throw("IOException", "handleMessage")
        BY <2>1, ThrowContext DEF Throw
    <2>2. CASE ~Throw("IOException", "handleMessage")
        <3>1. /\ Receives(t, "START") /\ Consume(t)
              /\ mEglCore' = Head(queue[t]).arg
            BY <1>4, <2>2 DEF HandleStartRecording
        <3>2. QED
            BY <1>1, <3>1, ConsumeContext DEF Consume
    <2>3. QED
        BY <2>1, <2>2
<1>5. ASSUME HandleFrameAvailable(t) PROVE Goal
    <2>1. Receives(t, "FRAME")
        BY <1>5 DEF HandleFrameAvailable
    <2>2. mVideoEncoder = "open" /\ queue[t] # <<>>
        BY <1>1, <2>1
    <2>3. Consume(t) /\ UNCHANGED <<mVideoEncoder, mEglCore>>
        BY <1>5, <2>2 DEF HandleFrameAvailable
    <2>4. QED
        BY <2>2, <2>3, ConsumeContext DEF Consume, ContextInv
<1>6. ASSUME HandleStopRecording(t) PROVE Goal
    <2>1. Receives(t, "STOP")
        BY <1>6 DEF HandleStopRecording
    <2>2. mVideoEncoder = "open" /\ queue[t] # <<>>
        BY <1>1, <2>1
    <2>3. CASE ~fed
        BY <1>6, <2>2, <2>3, ThrowContext DEF HandleStopRecording, Throw
    <2>4. CASE fed
        <3>1. Consume(t) /\ mVideoEncoder' = "released"
            BY <1>6, <2>2, <2>4 DEF HandleStopRecording
        <3>2. QED
            BY <2>2, <3>1, ConsumeContext DEF Consume
    <2>5. QED
        BY <2>3, <2>4
<1>7. ASSUME HandleSetTexture(t) PROVE Goal
    <2>1. Receives(t, "TEXTURE") /\ Consume(t) /\ UNCHANGED <<mVideoEncoder, mEglCore>>
        BY <1>7 DEF HandleSetTexture
    <2>2. QED
        BY <1>1, <2>1, ConsumeContext DEF Consume, ContextInv
<1>8. ASSUME HandleUpdateSharedContext(t) PROVE Goal
    <2>1. Receives(t, "CONTEXT")
        BY <1>8 DEF HandleUpdateSharedContext
    <2>2. mEglCore # NoContext /\ queue[t] # <<>> /\ Head(queue[t]).arg \in Contexts
        BY <1>1, <1>2, <2>1 DEF ContextInv
    <2>3. Consume(t) /\ mEglCore' = Head(queue[t]).arg
        BY <1>8, <2>2 DEF HandleUpdateSharedContext
    <2>4. QED
        BY <2>2, <2>3, ConsumeContext DEF Consume
<1>9. ASSUME HandleQuit(t) PROVE Goal
    <2>1. /\ UNCHANGED <<pc, mVideoEncoder, mEglCore, exception>>
          /\ \A u \in Sessions : queue'[u] = IF u = t THEN <<>> ELSE queue[u]
        BY <1>9 DEF HandleQuit, TypeOK, encoderVars
    <2>2. Len(<<>>) = 0
        BY EmptySeq
    <2>3. QED
        BY <2>1, <2>2 DEF ContextInv
<1>10. QED
    BY <1>3, <1>4, <1>5, <1>6, <1>7, <1>8, <1>9 DEF EncoderThread

LEMMA ContextCorrect ==
    ASSUME NEW c, Callers = {c}
    PROVE  EncSpec => [](ContextInv /\ HandlersFindEncoder)
<1> DEFINE Inv == ContextInv /\ HandlersFindEncoder
<1>1. EncInit => Inv
    <2> SUFFICES ASSUME EncInit PROVE Inv
        OBVIOUS
    <2>1. \A t \in Sessions : Len(queue[t]) = 0
        BY EmptySeq DEF EncInit
    <2>2. QED
        BY <2>1 DEF EncInit, ContextInv, HandlersFindEncoder, NoException
<1>2. TypeOK /\ ThreadInv /\ QueueInv(c) /\ Inv /\ [EncNext]_encVars => Inv'
    <2> SUFFICES ASSUME TypeOK, ThreadInv, QueueInv(c), Inv, [EncNext]_encVars PROVE Inv'
        OBVIOUS
    <2>1. CASE UNCHANGED encVars
        BY <2>1, ContextUnchanged DEF encVars, encoderVars, HandlersFindEncoder
    <2>2. ASSUME NEW d \in Callers, Call(d) \/ ContinueCall(d) \/ WakeSpuriously(d)
          PROVE  Inv'
        BY <2>2, CallerContext DEF HandlersFindEncoder
    <2>3. ASSUME NEW t \in Sessions, EncoderThread(t) PROVE Inv'
        BY <2>3, EncoderContext DEF HandlersFindEncoder
    <2>4. QED
        BY <2>1, <2>2, <2>3 DEF EncNext, ProcessDead
<1>3. QED
    BY <1>1, <1>2, QueueCorrect, PTL DEF EncSpec

\* With one caller no handler ever throws because the encoder or its surface is
\* missing: null checks in the handlers would be dead code.
THEOREM HandlersSafe ==
    ASSUME NEW c, Callers = {c}
    PROVE  EncSpec => []HandlersFindEncoder
BY ContextCorrect, PTL
=============================================================================
