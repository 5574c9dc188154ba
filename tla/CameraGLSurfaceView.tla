------------------------ MODULE CameraGLSurfaceView ------------------------
(***************************************************************************)
(* The OpenGL camera screen: MyCameraActivity (UI thread), its              *)
(* CameraGLSurfaceView (GL thread) and the TextureMovieEncoder and MyCamera *)
(* they drive.  GLSurfaceView's own GL thread is external: one pass   *)
(* of its loop runs one queued event, or tells the renderer of a new or     *)
(* resized surface and then draws, or just draws a requested frame.         *)
(***************************************************************************)
EXTENDS TextureMovieEncoder, MyCamera

CONSTANTS
    GL,             \* the GL thread, the encoder's only caller
    MaxEvents       \* bound: runnables queued for the GL thread

ASSUME ViewAssumption == Callers = {GL} /\ MaxEvents \in Nat \ {0}

VARIABLES
    resumed,            \* the activity is between onResume and onPause
    activityEnabled,    \* MyCameraActivity.mRecordingEnabled, the button's text
    events,             \* startRecord's runnables in the GL event queue
    glStep,             \* where the GL thread is in its loop
    hasSurface,         \* GLSurfaceView holds an EGL context and surface
    glContext,          \* its current EGL context, numbered as created
    mTextureID,         \* the camera's texture, named by its context
    latched,            \* mSurface has latched a frame, so has a timestamp
    mRecordingEnabled,  \* the recording state last asked of the view
    mRecordingStatus,
    zeroFrame           \* history: a frame was ignored for its timestamp
                        \* since the last encoder thread was created

activityVars == <<resumed, activityEnabled>>
surfaceVars  == <<hasSurface, glContext, mTextureID>>
recordVars   == <<mRecordingEnabled, mRecordingStatus>>
screenVars == <<activityVars, events, glStep, surfaceVars, latched, recordVars, zeroFrame>>
viewVars == <<screenVars, camera>>
vars == <<encVars, viewVars>>

\* "init" stands for the -1 of the constructor.
RecordingStatus == {"init", "off", "on", "resumed"}
GLStep == {"loop", "changed", "draw", "texture", "frame"}

ViewTypeOK ==
    /\ TypeOK
    /\ resumed \in BOOLEAN
    /\ activityEnabled \in BOOLEAN
    /\ events \in 0..MaxEvents
    /\ glStep \in GLStep
    /\ hasSurface \in BOOLEAN
    /\ glContext \in Context0
    /\ mTextureID \in Context0
    /\ latched \in BOOLEAN
    /\ mRecordingEnabled \in BOOLEAN
    /\ mRecordingStatus \in RecordingStatus
    /\ zeroFrame \in BOOLEAN
    /\ camera \in Camera

Init ==
    /\ EncInit
    /\ CameraInit
    /\ resumed = TRUE
    /\ activityEnabled = FALSE
    /\ events = 0
    /\ glStep = "loop"
    /\ hasSurface = FALSE
    /\ glContext = NoContext
    /\ mTextureID = NoContext
    /\ latched = FALSE
    /\ mRecordingEnabled = FALSE
    /\ mRecordingStatus = "init"
    /\ zeroFrame = FALSE
-----------------------------------------------------------------------------
\* The process lives: no exception of the encoder or of the camera has ended it.
Running == Alive /\ ~camera.failed

(* The UI thread.                                                           *)

\* The button's onClick.  The runnable reads the activity's field when it runs.
StartRecord ==
    /\ Running
    /\ resumed
    /\ events < MaxEvents
    /\ activityEnabled' = ~activityEnabled
    /\ events' = events + 1
    /\ UNCHANGED <<encVars, resumed, glStep, surfaceVars, latched, recordVars, zeroFrame, camera>>

\* The GL thread is at the top of its loop and not inside a call.
GLIdle == Running /\ pc[GL].at = "idle" /\ glStep = "loop"

\* Mutation: onPause does not stop the camera.
OnPauseKeepsCamera ==
    /\ GLIdle
    /\ resumed
    /\ resumed' = FALSE
    /\ hasSurface' = FALSE
    /\ UNCHANGED <<encVars, activityEnabled, events, glStep, glContext, mTextureID,
                   latched, recordVars, zeroFrame, camera>>

\* GLSurfaceView.onPause waits for the GL thread to give up its context; then the
\* UI thread stops the camera.
OnPause ==
    /\ GLIdle
    /\ resumed
    /\ resumed' = FALSE
    /\ hasSurface' = FALSE
    /\ camera' = Stopped(camera)
    /\ UNCHANGED <<encVars, activityEnabled, events, glStep, glContext, mTextureID,
                   latched, recordVars, zeroFrame>>

OnResume ==
    /\ Running
    /\ ~resumed
    /\ resumed' = TRUE
    /\ UNCHANGED <<encVars, activityEnabled, events, glStep, surfaceVars, latched,
                   recordVars, zeroFrame, camera>>
-----------------------------------------------------------------------------
(* The GL thread.                                                           *)

\* Mutation: changeRecordingState runs without a click.
ChangeRecordingStateUnasked ==
    /\ GLIdle
    /\ events' = events - 1
    /\ mRecordingEnabled' = activityEnabled
    /\ UNCHANGED <<encVars, activityVars, glStep, surfaceVars, latched,
                   mRecordingStatus, zeroFrame, camera>>

\* changeRecordingState, from startRecord's runnable.  Events run before frames,
\* and while the activity is paused too.
ChangeRecordingState ==
    /\ GLIdle
    /\ events > 0
    /\ events' = events - 1
    /\ mRecordingEnabled' = activityEnabled
    /\ UNCHANGED <<encVars, activityVars, glStep, surfaceVars, latched,
                   mRecordingStatus, zeroFrame, camera>>

\* A new context has no frame latched in its SurfaceTexture.
OnSurfaceCreated ==
    /\ GLIdle
    /\ events = 0
    /\ resumed /\ ~hasSurface
    /\ glContext < MaxContexts
    /\ hasSurface' = TRUE
    /\ glContext' = glContext + 1
    /\ mTextureID' = glContext'
    /\ latched' = FALSE
    /\ glStep' = "changed"
    /\ camera' \in Started(camera)
    /\ UNCHANGED <<encVars, activityVars, events, recordVars, zeroFrame>>

\* The device is turned: the manifest keeps the activity, the view is resized.
ResizeSurface ==
    /\ GLIdle
    /\ events = 0
    /\ hasSurface
    /\ glStep' = "changed"
    /\ UNCHANGED <<encVars, activityVars, events, surfaceVars, latched, recordVars, zeroFrame, camera>>

\* Mutation: a running recording is not marked as resumed.
OnSurfaceChangedStillOn ==
    /\ Running
    /\ glStep = "changed"
    /\ mRecordingEnabled' = IsRecording
    /\ mRecordingStatus' = IF IsRecording THEN "on" ELSE "off"
    /\ glStep' = "draw"
    /\ camera' \in Started(Stopped(camera))
    /\ UNCHANGED <<encVars, activityVars, events, surfaceVars, latched, zeroFrame>>

\* Mutation: a new surface forgets that a recording is running.
OnSurfaceChangedForgets ==
    /\ Running
    /\ glStep = "changed"
    /\ mRecordingEnabled' = FALSE
    /\ mRecordingStatus' = "off"
    /\ glStep' = "draw"
    /\ camera' \in Started(Stopped(camera))
    /\ UNCHANGED <<encVars, activityVars, events, surfaceVars, latched, zeroFrame>>

OnSurfaceChanged ==
    /\ Running
    /\ glStep = "changed"
    /\ mRecordingEnabled' = IsRecording
    /\ mRecordingStatus' = IF IsRecording THEN "resumed" ELSE "off"
    /\ glStep' = "draw"
    /\ camera' \in Started(Stopped(camera))
    /\ UNCHANGED <<encVars, activityVars, events, surfaceVars, latched, zeroFrame>>

\* The start of onDrawFrame: updateTexImage latches a camera frame if one has
\* come, and the recording is brought to the state the view was asked for.
\* GLSurfaceView never draws before onSurfaceChanged, so "init" is never seen.
DrawFrame ==
    /\ Running
    /\ glStep = "draw" \/ (GLIdle /\ events = 0 /\ hasSurface)
    /\ glStep' = "texture"
    /\ latched' \in {latched, TRUE}
    /\ UNCHANGED <<activityVars, events, surfaceVars, mRecordingEnabled, camera>>

\* Mutation: onDrawFrame returns once it has started a recording.
DrawStartAndReturn ==
    /\ GLIdle /\ events = 0 /\ hasSurface
    /\ mRecordingEnabled /\ mRecordingStatus = "off"
    /\ StartRecording(GL, glContext)
    /\ mRecordingStatus' = "on"
    /\ latched' \in {latched, TRUE}
    /\ zeroFrame' = (zeroFrame /\ mRunning)
    /\ UNCHANGED <<activityVars, events, glStep, surfaceVars, mRecordingEnabled, camera>>

DrawStart ==
    /\ DrawFrame
    /\ mRecordingEnabled /\ mRecordingStatus = "off"
    /\ StartRecording(GL, glContext)
    /\ mRecordingStatus' = "on"
    /\ zeroFrame' = (zeroFrame /\ mRunning)

DrawResume ==
    /\ DrawFrame
    /\ mRecordingEnabled /\ mRecordingStatus = "resumed"
    /\ UpdateSharedContext(GL, glContext)
    /\ mRecordingStatus' = "on"
    /\ UNCHANGED zeroFrame

DrawStop ==
    /\ DrawFrame
    /\ ~mRecordingEnabled /\ mRecordingStatus \in {"on", "resumed"}
    /\ StopRecording(GL)
    /\ mRecordingStatus' = "off"
    /\ UNCHANGED zeroFrame

DrawSteady ==
    /\ DrawFrame
    /\ mRecordingStatus = IF mRecordingEnabled THEN "on" ELSE "off"
    /\ UNCHANGED <<encVars, mRecordingStatus, zeroFrame>>

\* Mutation: the texture is sent whether the encoder is ready or not.
DrawTextureUnready ==
    /\ Running
    /\ glStep = "texture"
    /\ Idle(GL) /\ Room
    /\ Goto(GL, "sendTexture", mTextureID)
    /\ glStep' = "frame"
    /\ UNCHANGED <<fenceVars, threadVars, queue, encoderVars, exception, activityVars,
                   events, surfaceVars, latched, recordVars, zeroFrame, camera>>

\* The rest of onDrawFrame, each call begun when the one before has returned.
DrawTexture ==
    /\ Running
    /\ glStep = "texture"
    /\ SetTextureId(GL, mTextureID)
    /\ glStep' = "frame"
    /\ UNCHANGED <<activityVars, events, surfaceVars, latched, recordVars, zeroFrame, camera>>

DrawAvailable ==
    /\ Running
    /\ glStep = "frame"
    /\ FrameAvailable(GL, ~latched)
    /\ glStep' = "loop"
    /\ zeroFrame' = (zeroFrame \/ ~latched)
    /\ UNCHANGED <<activityVars, events, surfaceVars, latched, recordVars, camera>>

OnDrawFrame ==
    \/ DrawStart
    \/ DrawResume
    \/ DrawStop
    \/ DrawSteady
    \/ DrawTexture
    \/ DrawAvailable
-----------------------------------------------------------------------------
InsideEncoder ==
    /\ ~camera.failed
    /\ \/ ContinueCall(GL)
       \/ WakeSpuriously(GL)
       \/ \E t \in Sessions : EncoderThread(t)
    /\ UNCHANGED viewVars

\* The camera in the hands of another application.
OutsideCamera == Running /\ OtherApplication /\ UNCHANGED <<encVars, screenVars>>

ProcessEnded == ~Running /\ UNCHANGED vars

Next ==
    \/ StartRecord
    \/ OnPause
    \/ OnResume
    \/ ChangeRecordingState
    \/ OnSurfaceCreated
    \/ ResizeSurface
    \/ OnSurfaceChanged
    \/ OnDrawFrame
    \/ InsideEncoder
    \/ OutsideCamera
    \/ ProcessEnded

Spec == Init /\ [][Next]_vars

\* The threads of the process are scheduled: the encoder thread whenever it has
\* something to do, the GL thread inside a call or a pass of its loop.  Nothing
\* is assumed of the user, nor of the camera: no frame need ever be drawn.
Fairness ==
    /\ \A t \in Sessions : WF_vars(~camera.failed /\ EncoderThread(t) /\ UNCHANGED viewVars)
    /\ WF_vars(~camera.failed /\ ContinueCall(GL) /\ UNCHANGED viewVars)
    /\ WF_vars(glStep # "loop" /\ (OnSurfaceChanged \/ OnDrawFrame))
    /\ WF_vars(ChangeRecordingState)

FairSpec == Spec /\ Fairness
-----------------------------------------------------------------------------
(* The abstract side of the encoder's messages, see EncoderMessages.  Only the *)
(* last session has any, and what stands behind QUIT is never handled.        *)

\* The first n messages of q are those in front of QUIT.
QuitBehind(q, n) ==
    /\ \A i \in 1..n : q[i].what # "QUIT"
    /\ n < Len(q) => q[n + 1].what = "QUIT"

BeforeQuit(q) == SubSeq(q, 1, CHOOSE n \in 0..Len(q) : QuitBehind(q, n))

Answered == IF sessions = 0 THEN <<>> ELSE BeforeQuit(queue[sessions])

\* START has been posted to the last session, and STOP has not.
RecordingPosted ==
    /\ sessions # 0
    /\ thread[sessions] = "looping"
    /\ pc[GL].at \notin {"wait", "sendStart", "sendQuit"}
    /\ \A i \in DOMAIN queue[sessions] : queue[sessions][i].what # "QUIT"

\* The context of the last START or CONTEXT in q, or the one there was before.
LastContext(q, before) ==
    LET posts == {i \in DOMAIN q : q[i].what \in {"START", "CONTEXT"}}
    IN  IF posts = {} THEN before
        ELSE q[CHOOSE i \in posts : \A j \in posts : j <= i].arg

\* The context posted last in that recording.
SharedContext == IF RecordingPosted THEN LastContext(Answered, mEglCore) ELSE NoContext

EncoderView ==
    INSTANCE EncoderMessages WITH
        glAlive <- hasSurface,
        shared <- SharedContext,
        queue <- Answered
-----------------------------------------------------------------------------
(* Properties.                                                              *)

\* The GL thread posts in the order of EncoderMessages, whatever pauses, turns and
\* clicks come in between: no frame is posted for another context than the last one
\* shared, no context or frame before START or, to be handled, behind STOP, and no
\* recording is given up without its STOP.
MessagesSpec == EncoderView!MessagesSpec

\* A queued frame is drawn with the texture of the context the encoder shares
\* with: a frame taken in the context of a new surface is never drawn before
\* the encoder has been moved to that context, however long the queue is.
FrameContextCurrent ==
    \A t \in Sessions :
        (queue[t] # <<>> /\ Head(queue[t]).what = "FRAME") => mTextureId = mEglCore

\* When the view holds the recording for off, no encoder is left recording: its
\* thread has been told to quit, whatever surface changes came in between.
NoOrphanRecording ==
    mRecordingStatus \in {"init", "off"} /\ pc[GL].at = "idle" =>
        \A t \in Sessions : thread[t] = "looping" =>
            \E i \in DOMAIN queue[t] : queue[t][i].what = "QUIT"

\* MediaMuxer.stop throws when it was fed nothing.  The draw that starts a
\* recording also posts its first frame, so this can only end a recording whose
\* frames were ignored for a zero timestamp.
NoDataOnlyAfterZeroFrame == exception.kind = "NoData" => zeroFrame

\* A recording the view has stopped comes to its end: its thread exits, so a
\* new recording can start, unless the process died before.
StopEndsRecording ==
    (mRecordingStatus = "off" /\ mRunning) ~> (~mRunning \/ mRecordingStatus # "off" \/ ~Running)

\* The GL thread leaves startRecording, so a pass of its loop always ends and
\* the UI thread waiting in onPause goes on.
GLPassEnds == (glStep # "loop") ~> (GLIdle \/ ~Running)

\* The camera that runs is open by us, and a paused or surfaceless screen runs none;
\* so the view never opens it while it runs it itself, though onSurfaceCreated stops
\* nothing and relies on the pause before it.  (A start whose texture was refused is
\* the exception: the camera is open, running is false, and no stop helps.)
CameraFollowsScreen ==
    /\ camera.running => resumed /\ hasSurface /\ camera.device = "ours"
    /\ camera.failed => ~camera.running

\* The comment in onDrawFrame: "Tell the video encoder thread that a new frame is
\* available.  This will be ignored if we're not actually recording."
FrameIgnoredWhenNotRecording ==
    ~(exception.kind = "NullHandler" /\ exception.at = "frameAvailable")

\* The doc of startRecording: it "returns after the recorder thread has started
\* and is ready to accept Messages".
StartedThreadAcceptsMessages ==
    [][(DrawStart /\ pc'[GL].at = "idle") => (mHandler # 0 /\ thread[mHandler] = "looping")]_vars
=============================================================================
