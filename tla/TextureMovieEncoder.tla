------------------------ MODULE TextureMovieEncoder ------------------------
(***************************************************************************)
(* The movie encoder of the OpenGL camera: mediacodec/TextureMovieEncoder. *)
(* An encoder thread owns the codec and takes messages from a Looper queue.*)
(* Caller threads run the public methods, each modelled from one            *)
(* synchronized block or Handler.sendMessage to the next.  Here the callers *)
(* call any method at any time; CameraGLSurfaceView says what the app does. *)
(***************************************************************************)
EXTENDS Naturals, Sequences

CONSTANTS
    Callers,        \* the threads that call the public methods
    MaxContexts,    \* bound: the EGL contexts callers share are 1..MaxContexts
    MaxSessions,    \* bound: encoder threads created in a behaviour
    MaxQueue        \* bound: a call that sends starts below this queue length

ASSUME BoundsAssumption ==
    /\ MaxContexts \in Nat \ {0}
    /\ MaxSessions \in Nat \ {0}
    /\ MaxQueue \in Nat \ {0}

VARIABLES
    mReady,         \* the encoder thread takes messages
    mRunning,       \* an encoder thread exists
    waiting,        \* callers in the wait set of mReadyFence
    mHandler,       \* the session whose handler the field holds; 0 for null
    sessions,       \* encoder threads created so far
    thread,         \* where each encoder thread is in run()
    queue,          \* the Looper queue of each encoder thread
    mVideoEncoder,  \* the VideoEncoderCore of the last session
    fed,            \* that encoder's input surface has got a frame
    mEglCore,       \* the context mEglCore shares with; 0 for null
    mTextureId,     \* a texture is named by the context it was generated in
    pc,             \* where each caller is, and the argument it carries
    exception       \* the uncaught exception that ended the process, if any

fenceVars   == <<mReady, mRunning, waiting>>
threadVars  == <<mHandler, sessions, thread>>
encoderVars == <<mVideoEncoder, fed, mEglCore, mTextureId>>
encVars == <<fenceVars, threadVars, queue, encoderVars, pc, exception>>

Sessions == 1..MaxSessions
Contexts == 1..MaxContexts
NoContext == 0
Context0 == Contexts \cup {NoContext}

MessageType == {"START", "STOP", "FRAME", "TEXTURE", "CONTEXT", "QUIT"}
Message == [what : MessageType, arg : Context0]
ThreadState == {"none", "created", "looping", "quitting", "exited"}
CallerState == {"idle", "wait", "sendStart", "sendQuit", "sendTexture", "sendFrame"}
CallerPC == [at : CallerState, arg : Context0]

Exceptions == [kind : {"none", "NullHandler", "NullEncoder", "NoData", "IOException"},
               at : {"none", "startRecording", "stopRecording", "setTextureId",
                     "frameAvailable", "updateSharedContext", "handleMessage"}]
NoException == [kind |-> "none", at |-> "none"]
Alive == exception = NoException

TypeOK ==
    /\ mReady \in BOOLEAN
    /\ mRunning \in BOOLEAN
    /\ waiting \subseteq Callers
    /\ mHandler \in 0..MaxSessions
    /\ sessions \in 0..MaxSessions
    /\ thread \in [Sessions -> ThreadState]
    /\ queue \in [Sessions -> Seq(Message)]
    /\ mVideoEncoder \in {"null", "open", "released"}
    /\ fed \in BOOLEAN
    /\ mEglCore \in Context0
    /\ mTextureId \in Context0
    /\ pc \in [Callers -> CallerPC]
    /\ exception \in Exceptions

EncInit ==
    /\ mReady = FALSE
    /\ mRunning = FALSE
    /\ waiting = {}
    /\ mHandler = 0
    /\ sessions = 0
    /\ thread = [t \in Sessions |-> "none"]
    /\ queue = [t \in Sessions |-> <<>>]
    /\ mVideoEncoder = "null"
    /\ fed = FALSE
    /\ mEglCore = NoContext
    /\ mTextureId = NoContext
    /\ pc = [c \in Callers |-> [at |-> "idle", arg |-> NoContext]]
    /\ exception = NoException
-----------------------------------------------------------------------------
(* The callers' side.                                                       *)

Goto(c, at, arg) == pc' = [pc EXCEPT ![c] = [at |-> at, arg |-> arg]]

\* An exception nobody catches ends the process with its state as it is.
Throw(kind, at) ==
    /\ exception' = [kind |-> kind, at |-> at]
    /\ UNCHANGED <<fenceVars, threadVars, queue, encoderVars, pc>>

\* A sender may find mHandler null.  A Looper that has quit drops the message.
\* Caller c is at next when sendMessage has returned.
Send(c, what, arg, method, next) ==
    \/ /\ mHandler = 0
       /\ Throw("NullHandler", method)
    \/ /\ mHandler # 0
       /\ Goto(c, next, NoContext)
       /\ queue' = IF thread[mHandler] = "looping"
                   THEN [queue EXCEPT ![mHandler] = Append(@, [what |-> what, arg |-> arg])]
                   ELSE queue
       /\ UNCHANGED <<fenceVars, threadVars, encoderVars, exception>>

\* Caller c is between two calls (and the bound on the queue lets it send).
Idle(c) == Alive /\ pc[c].at = "idle"
Room == mHandler # 0 => Len(queue[mHandler]) < MaxQueue
At(c, at) == Alive /\ pc[c].at = at

\* Mutation: startRecording does not test mRunning.
StartRecordingAlways(c, context) ==
    /\ Idle(c)
    /\ sessions < MaxSessions
    /\ mRunning' = TRUE
    /\ sessions' = sessions + 1
    /\ thread' = [thread EXCEPT ![sessions + 1] = "created"]
    /\ IF mReady
       THEN Goto(c, "sendStart", context) /\ UNCHANGED waiting
       ELSE Goto(c, "wait", context) /\ waiting' = waiting \cup {c}
    /\ UNCHANGED <<mReady, mHandler, queue, encoderVars, exception>>

\* startRecording up to the wait: the fence is released only by waiting.
StartRecording(c, context) ==
    /\ Idle(c)
    /\ \/ /\ mRunning
          /\ UNCHANGED encVars
       \/ /\ ~mRunning
          /\ sessions < MaxSessions
          /\ mRunning' = TRUE
          /\ sessions' = sessions + 1
          /\ thread' = [thread EXCEPT ![sessions + 1] = "created"]
          /\ IF mReady
             THEN Goto(c, "sendStart", context) /\ UNCHANGED waiting
             ELSE Goto(c, "wait", context) /\ waiting' = waiting \cup {c}
          /\ UNCHANGED <<mReady, mHandler, queue, encoderVars, exception>>

\* A notified caller takes the fence again and tests mReady once more.
AwaitReady(c) ==
    /\ At(c, "wait")
    /\ c \notin waiting
    /\ IF mReady
       THEN Goto(c, "sendStart", pc[c].arg) /\ UNCHANGED waiting
       ELSE waiting' = waiting \cup {c} /\ UNCHANGED pc
    /\ UNCHANGED <<mReady, mRunning, threadVars, queue, encoderVars, exception>>

\* wait() may end without notify; an InterruptedException is swallowed.
WakeSpuriously(c) ==
    /\ Alive
    /\ c \in waiting
    /\ waiting' = waiting \ {c}
    /\ UNCHANGED <<mReady, mRunning, threadVars, queue, encoderVars, pc, exception>>

SendStart(c) ==
    /\ At(c, "sendStart")
    /\ Send(c, "START", pc[c].arg, "startRecording", "idle")

\* Mutation: stopRecording posts QUIT before STOP.
StopRecordingQuitFirst(c) ==
    /\ Idle(c) /\ Room
    /\ Send(c, "QUIT", NoContext, "stopRecording", "sendQuit")

StopRecording(c) ==
    /\ Idle(c) /\ Room
    /\ Send(c, "STOP", NoContext, "stopRecording", "sendQuit")

\* Mutation: stopRecording posts STOP alone.
SendQuitForgotten(c) ==
    /\ At(c, "sendQuit")
    /\ Goto(c, "idle", NoContext)
    /\ UNCHANGED <<fenceVars, threadVars, queue, encoderVars, exception>>

SendQuit(c) ==
    /\ At(c, "sendQuit")
    /\ Send(c, "QUIT", NoContext, "stopRecording", "idle")

UpdateSharedContext(c, context) ==
    /\ Idle(c) /\ Room
    /\ Send(c, "CONTEXT", context, "updateSharedContext", "idle")

\* setTextureId and frameAvailable test mReady under the fence, send outside it.
SetTextureId(c, texture) ==
    /\ Idle(c) /\ Room
    /\ IF mReady THEN Goto(c, "sendTexture", texture) ELSE UNCHANGED pc
    /\ UNCHANGED <<fenceVars, threadVars, queue, encoderVars, exception>>

SendTexture(c) ==
    /\ At(c, "sendTexture")
    /\ Send(c, "TEXTURE", pc[c].arg, "setTextureId", "idle")

\* A frame with a zero timestamp is ignored: MPEG4Writer would abort on it.
FrameAvailable(c, zeroTimestamp) ==
    /\ Idle(c) /\ Room
    /\ IF mReady /\ ~zeroTimestamp THEN Goto(c, "sendFrame", NoContext) ELSE UNCHANGED pc
    /\ UNCHANGED <<fenceVars, threadVars, queue, encoderVars, exception>>

SendFrame(c) ==
    /\ At(c, "sendFrame")
    /\ Send(c, "FRAME", NoContext, "frameAvailable", "idle")

IsRecording == mRunning
-----------------------------------------------------------------------------
(* The encoder thread's side: run() and the handlers of its messages.       *)

\* Mutation: run() raises mReady and notifies nobody.
RunReadySilently(t) ==
    /\ Alive
    /\ thread[t] = "created"
    /\ thread' = [thread EXCEPT ![t] = "looping"]
    /\ mHandler' = t
    /\ mReady' = TRUE
    /\ UNCHANGED <<waiting, mRunning, sessions, queue, encoderVars, pc, exception>>

RunReady(t) ==
    /\ Alive
    /\ thread[t] = "created"
    /\ thread' = [thread EXCEPT ![t] = "looping"]
    /\ mHandler' = t
    /\ mReady' = TRUE
    /\ IF waiting = {} THEN UNCHANGED waiting
       ELSE \E c \in waiting : waiting' = waiting \ {c}
    /\ UNCHANGED <<mRunning, sessions, queue, encoderVars, pc, exception>>

\* The message the Looper of thread t dispatches next.
Receives(t, what) ==
    /\ Alive
    /\ thread[t] = "looping"
    /\ queue[t] # <<>>
    /\ Head(queue[t]).what = what
Consume(t) ==
    /\ queue' = [queue EXCEPT ![t] = Tail(@)]
    /\ UNCHANGED <<fenceVars, threadVars, pc, exception>>

\* prepareEncoder: the codec, the EGL core and its window surface, or nothing.
HandleStartRecording(t) ==
    /\ Receives(t, "START")
    /\ \/ /\ mVideoEncoder' = "open"
          /\ fed' = FALSE
          /\ mEglCore' = Head(queue[t]).arg
          /\ UNCHANGED mTextureId
          /\ Consume(t)
       \/ Throw("IOException", "handleMessage")

\* drainEncoder(false), draw, swapBuffers.
HandleFrameAvailable(t) ==
    /\ Receives(t, "FRAME")
    /\ IF mVideoEncoder # "open"
       THEN Throw("NullEncoder", "handleMessage")
       ELSE /\ fed' = TRUE
            /\ UNCHANGED <<mVideoEncoder, mEglCore, mTextureId>>
            /\ Consume(t)

\* Mutation: the drain awaits an end of stream that an unfed encoder never gives.
HandleStopRecordingStuck(t) ==
    /\ Receives(t, "STOP")
    /\ mVideoEncoder = "open" /\ fed
    /\ mVideoEncoder' = "released"
    /\ mEglCore' = NoContext
    /\ UNCHANGED <<fed, mTextureId>>
    /\ Consume(t)

\* drainEncoder(true), then releaseEncoder: MediaMuxer.stop throws if the muxer
\* has got no sample, and the rest is released after it.
HandleStopRecording(t) ==
    /\ Receives(t, "STOP")
    /\ IF mVideoEncoder # "open"
       THEN Throw("NullEncoder", "handleMessage")
       ELSE IF ~fed
       THEN Throw("NoData", "handleMessage")
       ELSE /\ mVideoEncoder' = "released"
            /\ mEglCore' = NoContext
            /\ UNCHANGED <<fed, mTextureId>>
            /\ Consume(t)

\* Mutation: handleSetTexture keeps a name no texture has.
HandleSetTextureUnnamed(t) ==
    /\ Receives(t, "TEXTURE")
    /\ mTextureId' = MaxContexts + 1
    /\ UNCHANGED <<mVideoEncoder, fed, mEglCore>>
    /\ Consume(t)

HandleSetTexture(t) ==
    /\ Receives(t, "TEXTURE")
    /\ mTextureId' = Head(queue[t]).arg
    /\ UNCHANGED <<mVideoEncoder, fed, mEglCore>>
    /\ Consume(t)

\* Mutation: the old EGL core is released and none is made in its place.
HandleUpdateSharedContextHalf(t) ==
    /\ Receives(t, "CONTEXT")
    /\ IF mEglCore = NoContext
       THEN Throw("NullEncoder", "handleMessage")
       ELSE /\ mEglCore' = NoContext
            /\ UNCHANGED <<mVideoEncoder, fed, mTextureId>>
            /\ Consume(t)

\* The window surface is null exactly when mEglCore is.
HandleUpdateSharedContext(t) ==
    /\ Receives(t, "CONTEXT")
    /\ IF mEglCore = NoContext
       THEN Throw("NullEncoder", "handleMessage")
       ELSE /\ mEglCore' = Head(queue[t]).arg
            /\ UNCHANGED <<mVideoEncoder, fed, mTextureId>>
            /\ Consume(t)

\* Looper.quit drops every message still in the queue.
HandleQuit(t) ==
    /\ Receives(t, "QUIT")
    /\ thread' = [thread EXCEPT ![t] = "quitting"]
    /\ queue' = [queue EXCEPT ![t] = <<>>]
    /\ UNCHANGED <<fenceVars, mHandler, sessions, encoderVars, pc, exception>>

\* Mutation: run() clears mRunning on its way out and leaves mReady up.
RunExitStillReady(t) ==
    /\ Alive
    /\ thread[t] = "quitting"
    /\ thread' = [thread EXCEPT ![t] = "exited"]
    /\ mRunning' = FALSE
    /\ mHandler' = 0
    /\ UNCHANGED <<mReady, waiting, sessions, queue, encoderVars, pc, exception>>

\* Mutation: run() clears mReady on its way out and leaves mRunning up.
RunExitStillRunning(t) ==
    /\ Alive
    /\ thread[t] = "quitting"
    /\ thread' = [thread EXCEPT ![t] = "exited"]
    /\ mReady' = FALSE
    /\ mHandler' = 0
    /\ UNCHANGED <<mRunning, waiting, sessions, queue, encoderVars, pc, exception>>

RunExit(t) ==
    /\ Alive
    /\ thread[t] = "quitting"
    /\ thread' = [thread EXCEPT ![t] = "exited"]
    /\ mReady' = FALSE
    /\ mRunning' = FALSE
    /\ mHandler' = 0
    /\ UNCHANGED <<waiting, sessions, queue, encoderVars, pc, exception>>
-----------------------------------------------------------------------------
\* A caller that is inside a method goes on with it.
ContinueCall(c) ==
    \/ AwaitReady(c)
    \/ SendStart(c)
    \/ SendQuit(c)
    \/ SendTexture(c)
    \/ SendFrame(c)

EncoderThread(t) ==
    \/ RunReady(t)
    \/ HandleStartRecording(t)
    \/ HandleFrameAvailable(t)
    \/ HandleStopRecording(t)
    \/ HandleSetTexture(t)
    \/ HandleUpdateSharedContext(t)
    \/ HandleQuit(t)
    \/ RunExit(t)

Call(c) ==
    \/ \E context \in Contexts : StartRecording(c, context)
    \/ StopRecording(c)
    \/ \E context \in Contexts : UpdateSharedContext(c, context)
    \/ \E texture \in Contexts : SetTextureId(c, texture)
    \/ \E zeroTimestamp \in BOOLEAN : FrameAvailable(c, zeroTimestamp)

\* A process that an exception has ended takes no step.
ProcessDead == ~Alive /\ UNCHANGED encVars

EncNext ==
    \/ \E c \in Callers : Call(c) \/ ContinueCall(c) \/ WakeSpuriously(c)
    \/ \E t \in Sessions : EncoderThread(t)
    \/ ProcessDead

EncSpec == EncInit /\ [][EncNext]_encVars

\* Threads that can run are scheduled: the encoder thread, and a caller inside a
\* method.  Nothing obliges a caller to make another call.
EncFairness ==
    /\ \A t \in Sessions : WF_encVars(EncoderThread(t))
    /\ \A c \in Callers : WF_encVars(ContinueCall(c))

FairEncSpec == EncSpec /\ EncFairness
-----------------------------------------------------------------------------
(* Properties.  With one caller they hold whatever it calls, in any order.  *)

\* Every message that uses the codec or its window surface is dispatched while
\* they exist, and no second START reaches a thread whose encoder is open: the
\* handlers test nothing, and rely on the order in which callers post.
EncoderUsedOnlyWhileOpen ==
    \A t \in Sessions : queue[t] # <<>> =>
        CASE Head(queue[t]).what = "START" -> mVideoEncoder # "open"
          [] Head(queue[t]).what \in {"STOP", "FRAME", "CONTEXT"} -> mVideoEncoder = "open"
          [] OTHER -> TRUE

\* So no handler ever throws for want of the codec or of the window surface.
HandlersFindEncoder == exception.kind # "NullEncoder"

\* mRunning admits one encoder thread at a time: a new one is created only after
\* the last has left run(), so the fields "accessed exclusively by encoder
\* thread" never have two owners.
OneEncoderThread ==
    \A t, u \in Sessions :
        {thread[t], thread[u]} \subseteq {"created", "looping", "quitting"} => t = u

\* A thread leaves its Looper only with the codec released: QUIT never overtakes
\* or replaces STOP, so no recording is abandoned with its codec still open.
ReleasedAtExit ==
    \A t \in Sessions : thread[t] = "quitting" => mVideoEncoder # "open"

\* The fence tells the truth: mReady is up exactly while mHandler is the handler
\* of the current thread, and never without mRunning.
FenceHonest ==
    /\ mReady <=> mHandler # 0
    /\ mReady => mRunning /\ mHandler = sessions

\* Once QUIT is in its queue the encoder thread exits and allows a new recording.
QuitEndsThread ==
    \A t \in Sessions :
        (\E i \in DOMAIN queue[t] : queue[t][i].what = "QUIT")
            ~> (thread[t] = "exited" \/ ~Alive)
=============================================================================
