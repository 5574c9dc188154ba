--------------------- MODULE CameraGLSurfaceViewProofs ---------------------
(***************************************************************************)
(* The screen as a client of the encoder: every step of CameraGLSurfaceView *)
(* is a step of TextureMovieEncoder with one caller, or leaves the encoder  *)
(* alone.  So what is proved of the encoder for any caller holds of the app.*)
(***************************************************************************)
EXTENDS CameraGLSurfaceView, TextureMovieEncoderProofs, WellFoundedInduction

\* While there is something to draw there are a context and its texture.
SurfaceInv ==
    hasSurface \/ glStep # "loop" => glContext \in Contexts /\ mTextureID \in Contexts

\* The view's own variables keep their types and SurfaceInv in every step, given
\* that the encoder's keep theirs.
OwnTypeOK ==
    /\ resumed \in BOOLEAN
    /\ activityEnabled \in BOOLEAN
    /\ events \in 0..MaxEvents
    /\ glStep \in GLStep
    /\ hasSurface \in BOOLEAN
    /\ glContext \in Context0
    /\ mTextureID \in Context0
    /\ latched \in BOOLEAN
    /\ mRecordingEnabled \in BOOLEAN
    /\ mRecordingStatus \in RecordingStatus
    /\ zeroFrame \in BOOLEAN
    /\ camera \in Camera

\* The camera runs only while the view has a surface, and is then open by us.
CameraInv ==
    /\ camera.running => hasSurface /\ camera.device = "ours"
    /\ camera.failed => ~camera.running

ViewInv == TypeOK /\ OwnTypeOK /\ SurfaceInv
-----------------------------------------------------------------------------
\* A call of the view is a call the encoder allows its caller.
LEMMA StepSimulation ==
    ASSUME ViewInv, [Next]_vars
    PROVE  [EncNext]_encVars
<1> USE ViewAssumption
<1>1. CASE UNCHANGED vars
    BY <1>1 DEF vars
<1>2. CASE \/ StartRecord \/ OnPause \/ OnResume \/ ChangeRecordingState
           \/ OnSurfaceCreated \/ ResizeSurface \/ OnSurfaceChanged
    BY <1>2 DEF StartRecord, OnPause, OnResume, ChangeRecordingState,
                OnSurfaceCreated, ResizeSurface, OnSurfaceChanged
<1>3. ASSUME DrawStart \/ DrawResume \/ DrawStop \/ DrawSteady
      PROVE  [EncNext]_encVars
    <2>1. hasSurface \/ glStep # "loop"
        BY <1>3 DEF DrawStart, DrawResume, DrawStop, DrawSteady, DrawFrame
    <2>2. glContext \in Contexts
        BY <2>1 DEF ViewInv, SurfaceInv
    <2>3. Call(GL) \/ UNCHANGED encVars
        BY <1>3, <2>2 DEF DrawStart, DrawResume, DrawStop, DrawSteady, Call
    <2>4. QED
        BY <2>3 DEF EncNext
<1>4. ASSUME DrawTexture PROVE [EncNext]_encVars
    <2>1. mTextureID \in Contexts
        BY <1>4 DEF DrawTexture, ViewInv, SurfaceInv
    <2>2. Call(GL)
        BY <1>4, <2>1 DEF DrawTexture, Call
    <2>3. QED
        BY <2>2 DEF EncNext
<1>5. ASSUME DrawAvailable PROVE [EncNext]_encVars
    <2>1. (~latched) \in BOOLEAN
        OBVIOUS
    <2>2. Call(GL)
        BY <1>5, <2>1 DEF DrawAvailable, Call
    <2>3. QED
        BY <2>2 DEF EncNext
<1>6. CASE InsideEncoder
    BY <1>6 DEF InsideEncoder, EncNext
<1>7. CASE OutsideCamera \/ ProcessEnded
    BY <1>7 DEF OutsideCamera, ProcessEnded, vars
<1>8. QED
    BY <1>1, <1>2, <1>3, <1>4, <1>5, <1>6, <1>7 DEF Next, OnDrawFrame

\* What the camera's operators return.
LEMMA StoppedTyped ==
    ASSUME NEW c \in Camera
    PROVE  Stopped(c) \in Camera
BY DEF Stopped, Camera

LEMMA StartedTyped ==
    ASSUME NEW c \in Camera
    PROVE  Started(c) \subseteq Camera
BY DEF Started, Camera

LEMMA StoppedOff ==
    ASSUME NEW c \in Camera
    PROVE  ~Stopped(c).running /\ Stopped(c).failed = c.failed
BY DEF Stopped, Camera

LEMMA StartedOnce ==
    ASSUME NEW c \in Camera, ~c.running, ~c.failed, NEW d \in Started(c)
    PROVE  (d.running => d.device = "ours") /\ (d.failed => ~d.running)
BY DEF Started, Camera

LEMMA OwnStep ==
    ASSUME ViewInv, [Next]_vars
    PROVE  OwnTypeOK' /\ SurfaceInv'
<1> USE ViewAssumption DEF ViewInv, OwnTypeOK, SurfaceInv, GLStep, RecordingStatus,
                           activityVars, surfaceVars, recordVars
<1>1. CASE UNCHANGED vars
    BY <1>1 DEF vars, viewVars, screenVars
<1>2. CASE StartRecord
    BY <1>2 DEF StartRecord
<1>3. CASE OnPause
    BY <1>3, StoppedTyped DEF OnPause, GLIdle
<1>4. CASE OnResume
    BY <1>4 DEF OnResume
<1>5. CASE ChangeRecordingState
    BY <1>5 DEF ChangeRecordingState
<1>6. CASE OnSurfaceCreated
    <2>1. glContext' \in Contexts
        BY <1>6, BoundsAssumption DEF OnSurfaceCreated, Contexts, Context0, NoContext
    <2>2. QED
        BY <1>6, <2>1, ContextTyped, StartedTyped DEF OnSurfaceCreated
<1>7. CASE ResizeSurface
    BY <1>7 DEF ResizeSurface
<1>8. CASE OnSurfaceChanged
    <2>1. Stopped(camera) \in Camera
        BY StoppedTyped
    <2>2. camera' \in Camera
        BY <1>8, <2>1, StartedTyped DEF OnSurfaceChanged
    <2>3. QED
        BY <1>8, <2>2 DEF OnSurfaceChanged, IsRecording, TypeOK
<1>9. CASE DrawStart \/ DrawResume \/ DrawStop \/ DrawSteady
    BY <1>9 DEF DrawStart, DrawResume, DrawStop, DrawSteady, DrawFrame
<1>10. CASE DrawTexture \/ DrawAvailable
    BY <1>10 DEF DrawTexture, DrawAvailable
<1>11. CASE InsideEncoder
    BY <1>11 DEF InsideEncoder, viewVars, screenVars
<1>12. CASE OutsideCamera
    BY <1>12 DEF OutsideCamera, OtherApplication, screenVars, Camera
<1>13. CASE ProcessEnded
    BY <1>13 DEF ProcessEnded, vars, viewVars, screenVars
<1>14. QED
    BY <1>1, <1>2, <1>3, <1>4, <1>5, <1>6, <1>7, <1>8, <1>9, <1>10, <1>11, <1>12, <1>13
       DEF Next, OnDrawFrame

LEMMA ViewInit == Init => EncInit /\ ViewInv
<1> SUFFICES ASSUME Init PROVE EncInit /\ ViewInv
    OBVIOUS
<1>1. EncInit /\ TypeOK
    BY TypeInit DEF Init
<1>2. 0 \in 0..MaxEvents
    BY ViewAssumption
<1>3. OwnTypeOK
    BY <1>2, ContextTyped DEF Init, OwnTypeOK, GLStep, RecordingStatus, CameraInit, Camera
<1>4. SurfaceInv
    BY DEF Init, SurfaceInv
<1>5. QED
    BY <1>1, <1>3, <1>4 DEF ViewInv

LEMMA ViewCorrect == Spec => []ViewInv
<1>1. ViewInv /\ [Next]_vars => ViewInv'
    BY StepSimulation, TypeStep, OwnStep DEF ViewInv
<1>2. QED
    BY <1>1, ViewInit, PTL DEF Spec

\* A step of the view keeps CameraInv: only a start sets running, and it comes
\* after a stop or without a surface.
LEMMA CameraStep ==
    ASSUME camera \in Camera, hasSurface \in BOOLEAN, CameraInv,
           hasSurface \/ glStep # "changed", [Next]_vars
    PROVE  CameraInv'
<1> USE DEF CameraInv
<1>1. CASE OnPause
    BY <1>1, StoppedOff DEF OnPause, GLIdle, Running
<1>2. CASE OnSurfaceCreated
    <2>1. ~camera.running /\ ~camera.failed
        BY <1>2 DEF OnSurfaceCreated, GLIdle, Running
    <2>2. QED
        BY <1>2, <2>1, StartedOnce DEF OnSurfaceCreated
<1>3. CASE OnSurfaceChanged
    <2>1. Stopped(camera) \in Camera /\ ~Stopped(camera).running /\ ~Stopped(camera).failed
        BY <1>3, StoppedTyped, StoppedOff DEF OnSurfaceChanged, Running
    <2>2. hasSurface /\ hasSurface'
        BY <1>3 DEF OnSurfaceChanged, surfaceVars
    <2>3. QED
        BY <1>3, <2>1, <2>2, StartedOnce DEF OnSurfaceChanged
<1>4. CASE OutsideCamera
    BY <1>4 DEF OutsideCamera, OtherApplication, screenVars, surfaceVars, Camera
<1>5. CASE StartRecord \/ OnResume \/ ChangeRecordingState \/ ResizeSurface \/ OnDrawFrame
    BY <1>5 DEF StartRecord, OnResume, ChangeRecordingState, ResizeSurface, OnDrawFrame,
                DrawStart, DrawResume, DrawStop, DrawSteady, DrawFrame, DrawTexture,
                DrawAvailable, surfaceVars
<1>6. CASE InsideEncoder \/ ProcessEnded \/ UNCHANGED vars
    BY <1>6 DEF InsideEncoder, ProcessEnded, vars, viewVars, screenVars, surfaceVars
<1>7. QED
    BY <1>1, <1>2, <1>3, <1>4, <1>5, <1>6 DEF Next

\* A new or resized surface is still there when its callback runs.
LEMMA ChangedStep ==
    ASSUME hasSurface \/ glStep # "changed", [Next]_vars
    PROVE  (hasSurface \/ glStep # "changed")'
<1>1. CASE OnPause
    BY <1>1 DEF OnPause, GLIdle
<1>2. CASE OnSurfaceCreated \/ ResizeSurface
    BY <1>2 DEF OnSurfaceCreated, ResizeSurface, surfaceVars
<1>3. CASE OnSurfaceChanged \/ OnDrawFrame
    BY <1>3 DEF OnSurfaceChanged, OnDrawFrame, DrawStart, DrawResume, DrawStop, DrawSteady,
                DrawFrame, DrawTexture, DrawAvailable, surfaceVars
<1>4. CASE \/ StartRecord \/ OnResume \/ ChangeRecordingState
           \/ InsideEncoder \/ OutsideCamera \/ ProcessEnded \/ UNCHANGED vars
    BY <1>4 DEF StartRecord, OnResume, ChangeRecordingState, InsideEncoder, OutsideCamera,
                ProcessEnded, vars, viewVars, screenVars, surfaceVars
<1>5. QED
    BY <1>1, <1>2, <1>3, <1>4 DEF Next

\* A surface is there only while the activity is resumed.
LEMMA SurfaceStep ==
    ASSUME hasSurface => resumed, [Next]_vars
    PROVE  (hasSurface => resumed)'
<1>1. CASE OnPause
    BY <1>1 DEF OnPause
<1>2. CASE OnSurfaceCreated \/ ResizeSurface
    BY <1>2 DEF OnSurfaceCreated, ResizeSurface, surfaceVars, activityVars
<1>3. CASE OnSurfaceChanged \/ OnDrawFrame
    BY <1>3 DEF OnSurfaceChanged, OnDrawFrame, DrawStart, DrawResume, DrawStop, DrawSteady,
                DrawFrame, DrawTexture, DrawAvailable, surfaceVars, activityVars
<1>4. CASE \/ StartRecord \/ OnResume \/ ChangeRecordingState
           \/ InsideEncoder \/ OutsideCamera \/ ProcessEnded \/ UNCHANGED vars
    BY <1>4 DEF StartRecord, OnResume, ChangeRecordingState, InsideEncoder, OutsideCamera,
                ProcessEnded, vars, viewVars, screenVars, surfaceVars, activityVars
<1>5. QED
    BY <1>1, <1>2, <1>3, <1>4 DEF Next

LEMMA CameraInvHolds == Spec => []CameraInv
<1> DEFINE Inv == CameraInv /\ (hasSurface \/ glStep # "changed")
<1>1. Init => Inv
    BY DEF Init, CameraInit, CameraInv
<1>2. ViewInv /\ Inv /\ [Next]_vars => Inv'
    BY CameraStep, ChangedStep DEF ViewInv, OwnTypeOK
<1>3. QED
    BY <1>1, <1>2, ViewCorrect, PTL DEF Spec

\* A paused screen runs no camera, one that runs is open by us, and the view never
\* opens the camera while it runs it itself.
THEOREM CameraOwned == Spec => []CameraFollowsScreen
<1>1. Init => (hasSurface => resumed)
    BY DEF Init
<1>2. (hasSurface => resumed) /\ [Next]_vars => (hasSurface => resumed)'
    BY SurfaceStep
<1>3. CameraInv /\ (hasSurface => resumed) => CameraFollowsScreen
    BY DEF CameraInv, CameraFollowsScreen
<1>4. QED
    BY <1>1, <1>2, <1>3, CameraInvHolds, PTL DEF Spec

\* Every variable of the screen and of its encoder keeps its type.
THEOREM ViewTypeCorrect == Spec => []ViewTypeOK
<1>1. ViewInv => ViewTypeOK
    BY DEF ViewInv, OwnTypeOK, ViewTypeOK
<1>2. QED
    BY <1>1, ViewCorrect, PTL

\* The app uses the encoder as one caller may: whatever the user and the system
\* do, its behaviour is one of TextureMovieEncoder's.
THEOREM ViewImplementsEncoder == Spec => EncSpec
<1>1. ViewInv /\ [Next]_vars => [EncNext]_encVars
    BY StepSimulation
<1>2. QED
    BY <1>1, ViewInit, ViewCorrect, PTL DEF Spec, EncSpec

\* In the app no message of a recording reaches an encoder that is not open, and
\* none is left open by a thread that exits, through all pauses, turns and clicks.
THEOREM AppUsesOpenEncoder == Spec => [](EncoderUsedOnlyWhileOpen /\ ReleasedAtExit)
<1>1. EncSpec => []EncoderUsedOnlyWhileOpen
    BY EncoderUse, ViewAssumption
<1>2. EncSpec => []ReleasedAtExit
    BY EncoderReleased, ViewAssumption
<1>3. QED
    BY <1>1, <1>2, ViewImplementsEncoder, PTL
-----------------------------------------------------------------------------
(* The messages of a recording, against the view's own state.               *)

\* Among the first n messages of q there is no QUIT.
NoQuit(q, n) == \A i \in 1..n : q[i].what # "QUIT"

\* The last of the first n messages of q that has one of these types carries x, or
\* there is none and x is what the encoder has from before.
LastIs(q, n, types, before, x) ==
    \/ before = x /\ \A i \in 1..n : q[i].what \notin types
    \/ \E i \in 1..n :
          /\ q[i].what \in types /\ q[i].arg = x
          /\ \A j \in i + 1..n : q[j].what \notin types

\* The texture, and the context, the encoder has when those n are handled.
TextureIs(q, n, x) == LastIs(q, n, {"TEXTURE"}, mTextureId, x)
ContextIs(q, n, x) == LastIs(q, n, {"START", "CONTEXT"}, mEglCore, x)

\* The encoder has got a frame, or has when those n are handled.
HasFrame(q, n) ==
    (mVideoEncoder = "open" /\ fed) \/ \E i \in 1..n : q[i].what = "FRAME"

\* START has been posted to the thread that loops, and neither STOP nor QUIT.
Recorded ==
    /\ Current("looping")
    /\ ~Starting(GL)
    /\ pc[GL].at # "sendQuit"
    /\ NoQuit(queue[sessions], Len(queue[sessions]))

\* Where the GL thread may be inside a call, and what it carries there.
PassInv ==
    /\ Starting(GL) =>
          glStep = "texture" /\ mRecordingStatus = "on" /\ pc[GL].arg = glContext
    /\ pc[GL].at = "sendQuit" => glStep = "texture"
    /\ pc[GL].at = "sendTexture" => glStep = "frame" /\ pc[GL].arg = glContext
    /\ pc[GL].at = "sendFrame" => glStep = "loop"
    /\ glStep \in {"texture", "frame"} \/ pc[GL].at = "sendFrame" =>
          mRecordingStatus \in {"on", "off"}
    /\ mTextureID = glContext

\* While it records the view knows.
StatusInv == Recorded => mRecordingStatus \in {"on", "resumed"}

\* A view that holds its recording for on has posted its context, and before its
\* frame the texture.
PostedInv ==
    Recorded =>
        /\ mRecordingStatus = "on" /\ glStep # "changed" =>
              ContextIs(queue[sessions], Len(queue[sessions]), glContext)
        /\ (glStep = "frame" /\ pc[GL].at = "idle") \/ pc[GL].at = "sendFrame" =>
              TextureIs(queue[sessions], Len(queue[sessions]), glContext)

\* Every frame that will be handled finds a texture of the encoder's context.
FrameInv ==
    Current("looping") =>
        \A i \in 1..Len(queue[sessions]) :
            queue[sessions][i].what = "FRAME" /\ NoQuit(queue[sessions], i - 1) =>
                \E x \in Context0 :
                    TextureIs(queue[sessions], i - 1, x) /\ ContextIs(queue[sessions], i - 1, x)

\* If no frame was ignored, every pass of a recording posts one ...
PassData ==
    ~zeroFrame /\ Recorded /\ pc[GL].at = "idle" /\ glStep \in {"loop", "changed", "draw"} =>
        HasFrame(queue[sessions], Len(queue[sessions]))

\* ... and every STOP that will be handled stands behind one.
StopData ==
    ~zeroFrame /\ Current("looping") =>
        \A i \in 1..Len(queue[sessions]) :
            queue[sessions][i].what = "STOP" /\ NoQuit(queue[sessions], i - 1) =>
                HasFrame(queue[sessions], i - 1)

DataInv == PassData /\ StopData /\ NoDataOnlyAfterZeroFrame
-----------------------------------------------------------------------------
(* What a message does to a queue.                                          *)

LEMMA Appended ==
    ASSUME NEW q \in Seq(Message), NEW m \in Message
    PROVE  /\ Len(q) \in Nat /\ Len(Append(q, m)) = Len(q) + 1
           /\ \A i \in 1..Len(q) : Append(q, m)[i] = q[i]
           /\ Append(q, m)[Len(q) + 1] = m
BY AppendProperties, LenProperties

LEMMA Taken ==
    ASSUME NEW q \in Seq(Message), q # <<>>
    PROVE  /\ Len(q) \in Nat \ {0} /\ Head(q) = q[1] /\ Tail(q) \in Seq(Message)
           /\ Len(Tail(q)) = Len(q) - 1
           /\ \A i \in 1..Len(Tail(q)) : Tail(q)[i] = q[i + 1]
BY EmptySeq, HeadTailProperties

\* What was said of the first n messages is not changed by one behind them.
LEMMA AppendKeeps ==
    ASSUME NEW q \in Seq(Message), NEW m \in Message, NEW n \in Nat, n <= Len(q)
    PROVE  /\ NoQuit(Append(q, m), n) <=> NoQuit(q, n)
           /\ HasFrame(q, n) => HasFrame(Append(q, m), n)
           /\ \A types, before, x :
                 LastIs(q, n, types, before, x) => LastIs(Append(q, m), n, types, before, x)
<1>1. \A i \in 1..n : i \in 1..Len(q)
    BY Appended
<1>2. \A i \in 1..n : Append(q, m)[i] = q[i]
    BY <1>1, Appended
<1>3. \A i \in 1..n : \A j \in i + 1..n : j \in 1..n
    OBVIOUS
<1>4. \A i \in 1..n : \A j \in i + 1..n : Append(q, m)[j] = q[j]
    BY <1>2, <1>3
<1>5. QED
    BY <1>2, <1>4 DEF NoQuit, HasFrame, LastIs

\* The message behind them decides, if it has one of the types.
LEMMA AppendLast ==
    ASSUME NEW q \in Seq(Message), NEW m \in Message, NEW n, n = Len(q) + 1
    PROVE  /\ NoQuit(Append(q, m), n) <=> NoQuit(q, Len(q)) /\ m.what # "QUIT"
           /\ HasFrame(q, Len(q)) \/ m.what = "FRAME" => HasFrame(Append(q, m), n)
           /\ \A types, before, x : m.what \in types /\ m.arg = x =>
                 LastIs(Append(q, m), n, types, before, x)
           /\ \A types, before, x : m.what \notin types /\ LastIs(q, Len(q), types, before, x) =>
                 LastIs(Append(q, m), n, types, before, x)
<1>1. n \in Nat /\ n \in 1..n /\ \A i \in 1..n : i \in 1..Len(q) \/ i = n
    BY Appended
<1>2. \A i \in 1..Len(q) : i \in 1..n
    BY Appended
<1>3. \A i \in 1..Len(q) : Append(q, m)[i] = q[i]
    BY Appended
<1>4. Append(q, m)[n] = m
    BY Appended
<1>5. NoQuit(Append(q, m), n) <=> NoQuit(q, Len(q)) /\ m.what # "QUIT"
    BY <1>1, <1>2, <1>3, <1>4 DEF NoQuit
<1>6. HasFrame(q, Len(q)) \/ m.what = "FRAME" => HasFrame(Append(q, m), n)
    BY <1>1, <1>2, <1>3, <1>4 DEF HasFrame
<1>7. ASSUME NEW types, NEW before, NEW x, m.what \in types, m.arg = x
      PROVE  LastIs(Append(q, m), n, types, before, x)
    <2>1. \A j \in n + 1..n : FALSE
        BY <1>1
    <2>2. QED
        BY <1>1, <1>4, <1>7, <2>1 DEF LastIs
<1>8. ASSUME NEW types, NEW before, NEW x, m.what \notin types,
             LastIs(q, Len(q), types, before, x)
      PROVE  LastIs(Append(q, m), n, types, before, x)
    <2>1. CASE before = x /\ \A i \in 1..Len(q) : q[i].what \notin types
        BY <1>1, <1>3, <1>4, <1>8, <2>1 DEF LastIs
    <2>2. ASSUME NEW i \in 1..Len(q), q[i].what \in types, q[i].arg = x,
                 \A j \in i + 1..Len(q) : q[j].what \notin types
          PROVE  LastIs(Append(q, m), n, types, before, x)
        <3>1. \A j \in i + 1..n : (j \in 1..Len(q) /\ j \in i + 1..Len(q)) \/ j = n
            BY Appended
        <3>2. \A j \in i + 1..n : Append(q, m)[j].what \notin types
            BY <1>3, <1>4, <1>8, <2>2, <3>1
        <3>3. QED
            BY <1>2, <1>3, <2>2, <3>2 DEF LastIs
    <2>3. QED
        BY <1>8, <2>1, <2>2 DEF LastIs
<1>9. QED
    BY <1>5, <1>6, <1>7, <1>8

\* Without the first message, which the encoder has then.
LEMMA TailKeeps ==
    ASSUME NEW q \in Seq(Message), q # <<>>, NEW n \in Nat, n < Len(q)
    PROVE  /\ NoQuit(q, n + 1) <=> NoQuit(Tail(q), n) /\ Head(q).what # "QUIT"
           /\ (\E i \in 1..n + 1 : q[i].what = "FRAME") <=>
                 Head(q).what = "FRAME" \/ \E i \in 1..n : Tail(q)[i].what = "FRAME"
           /\ \A types, before, x : LastIs(q, n + 1, types, before, x) =>
                 LastIs(Tail(q), n, types,
                        IF Head(q).what \in types THEN Head(q).arg ELSE before, x)
<1>1. \A i \in 1..n : i + 1 \in 1..n + 1 /\ Tail(q)[i] = q[i + 1]
    BY Taken
<1>2. 1 \in 1..n + 1 /\ Head(q) = q[1]
    BY Taken
<1>3. \A i \in 1..n + 1 : i = 1 \/ (i - 1 \in 1..n /\ q[i] = Tail(q)[i - 1])
    BY Taken
<1>4. NoQuit(q, n + 1) <=> NoQuit(Tail(q), n) /\ Head(q).what # "QUIT"
    BY <1>1, <1>2, <1>3 DEF NoQuit
<1>5. (\E i \in 1..n + 1 : q[i].what = "FRAME") <=>
          Head(q).what = "FRAME" \/ \E i \in 1..n : Tail(q)[i].what = "FRAME"
    BY <1>1, <1>2, <1>3
<1>6. ASSUME NEW types, NEW before, NEW x, LastIs(q, n + 1, types, before, x)
      PROVE  LastIs(Tail(q), n, types,
                    IF Head(q).what \in types THEN Head(q).arg ELSE before, x)
    <2> DEFINE held == IF Head(q).what \in types THEN Head(q).arg ELSE before
    <2>1. CASE before = x /\ \A i \in 1..n + 1 : q[i].what \notin types
        BY <1>1, <1>2, <2>1 DEF LastIs
    <2>2. ASSUME NEW i \in 1..n + 1, q[i].what \in types, q[i].arg = x,
                 \A j \in i + 1..n + 1 : q[j].what \notin types
          PROVE  LastIs(Tail(q), n, types, held, x)
        <3>1. CASE i = 1
            <4>1. held = x
                BY <1>2, <2>2, <3>1
            <4>2. \A k \in 1..n : k + 1 \in i + 1..n + 1
                BY <3>1
            <4>3. \A k \in 1..n : Tail(q)[k].what \notin types
                BY <1>1, <2>2, <4>2
            <4>4. QED
                BY <4>1, <4>3 DEF LastIs
        <3>2. CASE i # 1
            <4>1. i - 1 \in 1..n /\ Tail(q)[i - 1] = q[i]
                BY <1>3, <3>2
            <4>2. \A k \in (i - 1) + 1..n : k \in 1..n /\ k + 1 \in i + 1..n + 1
                BY <3>2
            <4>3. \A k \in (i - 1) + 1..n : Tail(q)[k].what \notin types
                BY <1>1, <2>2, <4>2
            <4>4. QED
                BY <2>2, <4>1, <4>3 DEF LastIs
        <3>3. QED
            BY <3>1, <3>2
    <2>3. QED
        BY <1>6, <2>1, <2>2 DEF LastIs
<1>7. QED
    BY <1>4, <1>5, <1>6
-----------------------------------------------------------------------------
(* What a step does to the recording.                                       *)

\* The GL thread has posted m and goes on at next.
Posted(m, next) ==
    /\ UNCHANGED <<sessions, thread, encoderVars, exception>>
    /\ pc'[GL] = [at |-> next, arg |-> NoContext]
    /\ Current("looping") => queue'[sessions] = Append(queue[sessions], m)

\* It has found no handler.
Threw ==
    /\ UNCHANGED <<sessions, thread, queue, encoderVars, pc>>
    /\ ~Current("looping")
    /\ exception'.kind = "NullHandler"

LEMMA SendEffect ==
    ASSUME TypeOK, ThreadInv, NEW what, NEW arg, NEW method, NEW next,
           Send(GL, what, arg, method, next)
    PROVE  Posted([what |-> what, arg |-> arg], next) \/ Threw
<1>1. CASE mHandler = 0
    <2>1. ~Current("looping")
        BY <1>1 DEF ThreadInv, Current, TypeOK
    <2>2. QED
        BY <1>1, <2>1 DEF Send, Throw, Threw, threadVars
<1>2. CASE mHandler # 0
    <2>1. pc'[GL] = [at |-> next, arg |-> NoContext]
        BY <1>2, ViewAssumption DEF Send, Goto, TypeOK
    <2>2. Current("looping") => mHandler = sessions /\ sessions \in Sessions
        BY BoundsAssumption DEF ThreadInv, Current, TypeOK, Sessions
    <2>3. Current("looping") =>
              queue'[sessions] = Append(queue[sessions], [what |-> what, arg |-> arg])
        BY <1>2, <2>2 DEF Send, Current, TypeOK
    <2>4. QED
        BY <1>2, <2>1, <2>3 DEF Send, Posted, threadVars
<1>3. QED
    BY <1>1, <1>2

\* The encoder thread has handled m, the first of its messages.
Handled(m) ==
    /\ Current("looping") /\ queue[sessions] # <<>> /\ m = Head(queue[sessions])
    /\ queue'[sessions] = Tail(queue[sessions])
    /\ UNCHANGED <<sessions, thread, exception>>
    /\ m.what # "QUIT"
    /\ mTextureId' = IF m.what = "TEXTURE" THEN m.arg ELSE mTextureId
    /\ mEglCore' = IF m.what \in {"START", "CONTEXT"} THEN m.arg
                   ELSE IF m.what = "STOP" THEN NoContext ELSE mEglCore
    /\ m.what \in {"TEXTURE", "CONTEXT"} => UNCHANGED <<mVideoEncoder, fed>>
    /\ m.what = "FRAME" => mVideoEncoder' = "open" /\ fed'

\* The four things a step of the encoder thread may do: throw, begin, end, or
\* handle a message.
LEMMA EncoderEffect ==
    ASSUME TypeOK, ThreadInv, QueueInv(GL), NEW t \in Sessions, EncoderThread(t)
    PROVE  /\ pc' = pc
           /\ \/ /\ UNCHANGED <<sessions, thread, queue, encoderVars>>
                 /\ exception'.kind = "NoData" =>
                       /\ Current("looping") /\ queue[sessions] # <<>>
                       /\ Head(queue[sessions]).what = "STOP" /\ ~fed
              \/ /\ Starting(GL) /\ queue'[sessions'] = <<>>
                 /\ UNCHANGED exception
              \/ /\ ~Current("looping")' /\ UNCHANGED exception
                 /\ Current("looping") =>
                       queue[sessions] # <<>> /\ Head(queue[sessions]).what = "QUIT"
              \/ \E m \in Message : Handled(m)
<1> DEFINE Stay == /\ UNCHANGED <<sessions, thread, queue, encoderVars>>
                   /\ exception'.kind = "NoData" =>
                         /\ Current("looping") /\ queue[sessions] # <<>>
                         /\ Head(queue[sessions]).what = "STOP" /\ ~fed
           Begin == Starting(GL) /\ queue'[sessions'] = <<>> /\ UNCHANGED exception
           End == /\ ~Current("looping")' /\ UNCHANGED exception
                  /\ Current("looping") =>
                        queue[sessions] # <<>> /\ Head(queue[sessions]).what = "QUIT"
           Handle == \E m \in Message : Handled(m)
           open == mVideoEncoder = "open"
           Goal == pc' = pc /\ (Stay \/ Begin \/ End \/ Handle)
<1>1. open \in BOOLEAN
    OBVIOUS
<1>2. ASSUME NEW what, Receives(t, what)
      PROVE  /\ t = sessions /\ Current("looping") /\ queue[sessions] # <<>>
             /\ Head(queue[sessions]).what = what /\ Head(queue[sessions]) \in Message
             /\ what \in {"FRAME", "TEXTURE", "CONTEXT", "STOP"} => open
    <2>1. /\ t = sessions /\ Current("looping")
          /\ queue[t] \in Seq(Message) /\ queue[t] # <<>>
          /\ Shape(queue[t], pc[GL].at = "sendQuit", open)
          /\ Head(queue[t]).what = what
        BY <1>2, ViewAssumption, ReceivedShape
    <2>2. what \in {"FRAME", "TEXTURE", "CONTEXT", "STOP"} => open
        BY <1>1, <2>1, ShapeHead
    <2>3. Head(queue[t]) \in Message
        BY <2>1, HeadTailProperties
    <2>4. QED
        BY <2>1, <2>2, <2>3
<1>3. ASSUME NEW kind, kind # "NoData", NEW at, Throw(kind, at) PROVE Goal
    BY <1>3 DEF Throw, threadVars
<1>4. ASSUME Consume(t)
      PROVE  /\ queue'[t] = Tail(queue[t])
             /\ UNCHANGED <<sessions, thread, exception, pc>>
    BY <1>4 DEF Consume, threadVars, TypeOK
<1>5. ASSUME RunReady(t) PROVE Goal
    <2>1. t = sessions /\ Current("created")
        BY <1>5, LiveIsCurrent DEF RunReady, Current
    <2>2. pc[GL].at = "wait" /\ queue[sessions] = <<>>
        BY <2>1 DEF QueueInv, ThreadInv, Current
    <2>3. UNCHANGED <<sessions, queue, exception, pc>>
        BY <1>5 DEF RunReady
    <2>4. QED
        BY <2>2, <2>3 DEF Starting
<1>6. ASSUME RunExit(t) \/ HandleQuit(t) PROVE Goal
    <2>1. t = sessions
        BY <1>6, LiveIsCurrent DEF RunExit, HandleQuit, Receives
    <2>2. ~Current("looping")' /\ UNCHANGED <<exception, pc>>
        BY <1>6, <2>1 DEF RunExit, HandleQuit, Current, TypeOK
    <2>3. Current("looping") =>
              queue[sessions] # <<>> /\ Head(queue[sessions]).what = "QUIT"
        BY <1>6, <2>1 DEF RunExit, HandleQuit, Receives, Current
    <2>4. QED
        BY <2>2, <2>3
<1>7. ASSUME HandleStartRecording(t) PROVE Goal
    <2>1. CASE Throw("IOException", "handleMessage")
        BY <1>3, <2>1
    <2>2. CASE ~Throw("IOException", "handleMessage")
        BY <1>2, <1>4, <1>7, <2>2 DEF HandleStartRecording, Handled
    <2>3. QED
        BY <2>1, <2>2
<1>8. ASSUME HandleFrameAvailable(t) PROVE Goal
    BY <1>2, <1>4, <1>8 DEF HandleFrameAvailable, Handled
<1>9. ASSUME HandleStopRecording(t) PROVE Goal
    <2>1. Receives(t, "STOP")
        BY <1>9 DEF HandleStopRecording
    <2>2. open /\ t = sessions
        BY <1>2, <2>1
    <2>3. CASE ~fed
        <3>1. Throw("NoData", "handleMessage")
            BY <1>9, <2>2, <2>3 DEF HandleStopRecording
        <3>2. QED
            BY <1>2, <2>1, <2>3, <3>1 DEF Throw, threadVars
    <2>4. CASE fed
        BY <1>2, <1>4, <1>9, <2>1, <2>2, <2>4 DEF HandleStopRecording, Handled
    <2>5. QED
        BY <2>3, <2>4
<1>10. ASSUME HandleSetTexture(t) PROVE Goal
    BY <1>2, <1>4, <1>10 DEF HandleSetTexture, Handled
<1>11. ASSUME HandleUpdateSharedContext(t) PROVE Goal
    <2>1. CASE mEglCore = NoContext
        BY <1>3, <1>11, <2>1 DEF HandleUpdateSharedContext
    <2>2. CASE mEglCore # NoContext
        BY <1>2, <1>4, <1>11, <2>2 DEF HandleUpdateSharedContext, Handled
    <2>3. QED
        BY <2>1, <2>2
<1>12. QED
    BY <1>5, <1>6, <1>7, <1>8, <1>9, <1>10, <1>11 DEF EncoderThread

\* A message behind QUIT or STOP adds nothing to a recording, nor does one taken.
LEMMA PostedRecorded ==
    ASSUME TypeOK, NEW m \in Message, NEW next, Posted(m, next), Recorded',
           ~Starting(GL), pc[GL].at # "sendQuit"
    PROVE  Recorded /\ m.what # "QUIT"
<1>1. Current("looping") /\ queue[sessions] \in Seq(Message)
    BY BoundsAssumption DEF Recorded, Posted, Current, TypeOK, Sessions
<1>2. queue'[sessions'] = Append(queue[sessions], m)
    BY <1>1 DEF Posted
<1>3. NoQuit(Append(queue[sessions], m), Len(Append(queue[sessions], m)))
    BY <1>2 DEF Recorded
<1>4. NoQuit(queue[sessions], Len(queue[sessions])) /\ m.what # "QUIT"
    BY <1>1, <1>3, Appended, AppendLast
<1>5. QED
    BY <1>1, <1>4 DEF Recorded

LEMMA HandledRecorded ==
    ASSUME TypeOK, QueueInv(GL), NEW m \in Message, Handled(m), pc' = pc, Recorded'
    PROVE  Recorded /\ m.what # "STOP"
<1> DEFINE q == queue[sessions]
           open == mVideoEncoder = "open"
<1>1. q \in Seq(Message) /\ q # <<>> /\ m = Head(q) /\ m.what # "QUIT" /\ Current("looping")
    BY BoundsAssumption DEF Handled, Current, TypeOK, Sessions
<1>2. NoQuit(Tail(q), Len(Tail(q)))
    BY DEF Handled, Recorded
<1>3. NoQuit(q, Len(q))
    <2>1. Len(Tail(q)) \in Nat /\ Len(Tail(q)) + 1 = Len(q)
        BY <1>1, Taken
    <2>2. QED
        BY <1>1, <1>2, <2>1, TailKeeps
<1>4. ~Starting(GL) /\ pc[GL].at # "sendQuit"
    BY DEF Recorded, Starting
<1>5. Shape(q, FALSE, open)
    BY <1>1, <1>4 DEF QueueInv
<1>6. q[1].what # "STOP"
    <2>1. 1 \in 1..Len(q) /\ (1 < Len(q) => 2 \in 1..Len(q))
        BY <1>1, Taken
    <2>2. QED
        BY <1>3, <1>5, <2>1 DEF Shape, NoQuit
<1>7. QED
    BY <1>1, <1>3, <1>4, <1>6, Taken DEF Recorded
-----------------------------------------------------------------------------
(* Each invariant, step by step.                                            *)

LEMMA PassStep ==
    ASSUME TypeOK, PassInv, [Next]_vars
    PROVE  PassInv'
<1> USE ViewAssumption DEF PassInv, Starting
<1>1. pc \in [Callers -> CallerPC]
    BY DEF TypeOK
<1>2. ASSUME NEW at, NEW arg, Goto(GL, at, arg)
      PROVE  pc'[GL].at = at /\ pc'[GL].arg = arg
    BY <1>1, <1>2 DEF Goto
<1>3. ASSUME NEW what, NEW arg, NEW method, NEW next, Send(GL, what, arg, method, next)
      PROVE  pc'[GL] = pc[GL] \/ pc'[GL].at = next
    BY <1>2, <1>3 DEF Send, Throw
<1>4. CASE UNCHANGED vars \/ ProcessEnded
    BY <1>4 DEF ProcessEnded, vars, encVars, viewVars, screenVars, surfaceVars, recordVars
<1>5. CASE StartRecord \/ OnPause \/ OnResume \/ OutsideCamera \/ ChangeRecordingState
    BY <1>5 DEF StartRecord, OnPause, OnResume, OutsideCamera, ChangeRecordingState, encVars,
                screenVars, surfaceVars, recordVars
<1>6. CASE OnSurfaceCreated \/ ResizeSurface
    BY <1>6 DEF OnSurfaceCreated, ResizeSurface, GLIdle, encVars, surfaceVars, recordVars
<1>7. CASE OnSurfaceChanged
    BY <1>7 DEF OnSurfaceChanged, encVars, surfaceVars
<1>8. ASSUME DrawFrame, pc[GL].at = "idle"
      PROVE  glStep' = "texture" /\ UNCHANGED surfaceVars
    BY <1>8 DEF DrawFrame
<1>9. CASE DrawStart
    <2>1. pc[GL].at = "idle" /\ mRecordingStatus' = "on"
        BY <1>9 DEF DrawStart, StartRecording, Idle
    <2>2. pc' = pc \/ Goto(GL, "sendStart", glContext) \/ Goto(GL, "wait", glContext)
        BY <1>9 DEF DrawStart, StartRecording, encVars
    <2>3. QED
        BY <1>2, <1>8, <1>9, <2>1, <2>2 DEF DrawStart, surfaceVars
<1>10. CASE DrawResume
    <2>1. pc[GL].at = "idle" /\ mRecordingStatus' = "on"
        BY <1>10 DEF DrawResume, UpdateSharedContext, Idle
    <2>2. pc'[GL] = pc[GL] \/ pc'[GL].at = "idle"
        BY <1>3, <1>10 DEF DrawResume, UpdateSharedContext
    <2>3. QED
        BY <1>8, <1>10, <2>1, <2>2 DEF DrawResume, surfaceVars
<1>11. CASE DrawStop
    <2>1. pc[GL].at = "idle" /\ mRecordingStatus' = "off"
        BY <1>11 DEF DrawStop, StopRecording, Idle
    <2>2. pc'[GL] = pc[GL] \/ pc'[GL].at = "sendQuit"
        BY <1>3, <1>11 DEF DrawStop, StopRecording
    <2>3. QED
        BY <1>8, <1>11, <2>1, <2>2 DEF DrawStop, surfaceVars
<1>12. CASE DrawSteady
    <2>1. glStep \in {"loop", "draw"} /\ pc[GL].at \notin {"wait", "sendStart", "sendQuit", "sendTexture", "sendFrame"}
        BY <1>12 DEF DrawSteady, DrawFrame, GLIdle
    <2>2. pc' = pc /\ mRecordingStatus' \in {"on", "off"} /\ glStep' = "texture"
          /\ UNCHANGED surfaceVars
        BY <1>12 DEF DrawSteady, DrawFrame, encVars
    <2>3. QED
        BY <2>1, <2>2 DEF surfaceVars
<1>13. CASE DrawTexture
    <2>1. pc[GL].at = "idle" /\ glStep = "texture" /\ glStep' = "frame"
          /\ UNCHANGED <<surfaceVars, recordVars>>
        BY <1>13 DEF DrawTexture, SetTextureId, Idle
    <2>2. pc' = pc \/ Goto(GL, "sendTexture", mTextureID)
        BY <1>13 DEF DrawTexture, SetTextureId
    <2>3. QED
        BY <1>2, <2>1, <2>2 DEF surfaceVars, recordVars
<1>14. CASE DrawAvailable
    <2>1. pc[GL].at = "idle" /\ glStep = "frame" /\ glStep' = "loop"
          /\ UNCHANGED <<surfaceVars, recordVars>>
        BY <1>14 DEF DrawAvailable, FrameAvailable, Idle
    <2>2. pc' = pc \/ Goto(GL, "sendFrame", NoContext)
        BY <1>14 DEF DrawAvailable, FrameAvailable
    <2>3. QED
        BY <1>2, <2>1, <2>2 DEF surfaceVars, recordVars
<1>15. CASE InsideEncoder
    <2>1. UNCHANGED <<glStep, surfaceVars, mRecordingStatus>>
        BY <1>15 DEF InsideEncoder, viewVars, screenVars, recordVars
    <2>2. \/ pc'[GL] = pc[GL]
          \/ pc'[GL].at = "idle"
          \/ pc[GL].at = "wait" /\ pc'[GL].at = "sendStart" /\ pc'[GL].arg = pc[GL].arg
        <3>1. CASE AwaitReady(GL)
            BY <1>2, <3>1 DEF AwaitReady, At
        <3>2. CASE SendStart(GL) \/ SendQuit(GL) \/ SendTexture(GL) \/ SendFrame(GL)
            BY <1>3, <3>2 DEF SendStart, SendQuit, SendTexture, SendFrame
        <3>3. CASE WakeSpuriously(GL)
            BY <3>3 DEF WakeSpuriously
        <3>4. ASSUME NEW t \in Sessions, EncoderThread(t) PROVE pc' = pc
            BY <3>4 DEF EncoderThread, RunReady, HandleStartRecording, HandleFrameAvailable,
                        HandleStopRecording, HandleSetTexture, HandleUpdateSharedContext,
                        HandleQuit, RunExit, Consume, Throw
        <3>5. QED
            BY <1>15, <3>1, <3>2, <3>3, <3>4 DEF InsideEncoder, ContinueCall
    <2>3. QED
        BY <2>1, <2>2 DEF surfaceVars
<1>16. QED
    BY <1>4, <1>5, <1>6, <1>7, <1>9, <1>10, <1>11, <1>12, <1>13, <1>14, <1>15
       DEF Next, OnDrawFrame

\* The encoder and its queues as they were.
LEMMA EncoderSame ==
    ASSUME UNCHANGED encVars
    PROVE  /\ UNCHANGED <<sessions, thread, queue, mTextureId, mEglCore, mVideoEncoder, fed,
                          pc, exception>>
           /\ Recorded' <=> Recorded
           /\ Current("looping")' <=> Current("looping")
<1>1. UNCHANGED <<sessions, thread, queue, mTextureId, mEglCore, mVideoEncoder, fed, pc,
                  exception>>
    BY DEF encVars, threadVars, encoderVars
<1>2. QED
    BY <1>1 DEF Recorded, Current, Starting

\* The messages a call posts.
LEMMA MessageTyped ==
    ASSUME NEW what \in MessageType, NEW arg \in Context0
    PROVE  [what |-> what, arg |-> arg] \in Message
BY DEF Message

\* A call of startRecording that creates a thread leaves none looping.
LEMMA StartEffect ==
    ASSUME TypeOK, ThreadInv, NEW context, StartRecording(GL, context)
    PROVE  \/ mRunning /\ UNCHANGED encVars
           \/ ~mRunning /\ ~Current("looping") /\ ~Current("looping")' /\ UNCHANGED exception
<1>1. CASE mRunning
    BY <1>1 DEF StartRecording
<1>2. CASE ~mRunning
    <2>1. ~Current("looping")
        BY <1>2 DEF ThreadInv, Current
    <2>2. sessions + 1 \in Sessions /\ sessions' = sessions + 1
          /\ thread' = [thread EXCEPT ![sessions + 1] = "created"] /\ UNCHANGED exception
        BY <1>2, BoundsAssumption DEF StartRecording, TypeOK, Sessions
    <2>3. ~Current("looping")'
        BY <2>2 DEF Current, TypeOK
    <2>4. QED
        BY <1>2, <2>1, <2>2, <2>3
<1>3. QED
    BY <1>1, <1>2

\* A caller inside a method waits, or posts the message it stands before.
LEMMA CallEffect ==
    ASSUME TypeOK, ThreadInv, ContinueCall(GL) \/ WakeSpuriously(GL)
    PROVE  \/ /\ UNCHANGED <<sessions, thread, queue, encoderVars, exception>>
              /\ pc' = pc \/ (Starting(GL) /\ Starting(GL)')
           \/ /\ pc[GL].at = "sendStart"
              /\ Posted([what |-> "START", arg |-> pc[GL].arg], "idle") \/ Threw
           \/ /\ pc[GL].at = "sendQuit"
              /\ Posted([what |-> "QUIT", arg |-> NoContext], "idle") \/ Threw
           \/ /\ pc[GL].at = "sendTexture"
              /\ Posted([what |-> "TEXTURE", arg |-> pc[GL].arg], "idle") \/ Threw
           \/ /\ pc[GL].at = "sendFrame"
              /\ Posted([what |-> "FRAME", arg |-> NoContext], "idle") \/ Threw
<1>1. CASE AwaitReady(GL)
    <2>1. pc[GL].at = "wait" /\ (pc' = pc \/ pc'[GL].at = "sendStart")
        BY <1>1, ViewAssumption DEF AwaitReady, At, Goto, TypeOK
    <2>2. QED
        BY <1>1, <2>1 DEF AwaitReady, Starting, threadVars
<1>2. CASE WakeSpuriously(GL)
    BY <1>2 DEF WakeSpuriously, threadVars
<1>3. CASE SendStart(GL)
    BY <1>3, SendEffect DEF SendStart, At
<1>4. CASE SendQuit(GL)
    BY <1>4, SendEffect DEF SendQuit, At
<1>5. CASE SendTexture(GL)
    BY <1>5, SendEffect DEF SendTexture, At
<1>6. CASE SendFrame(GL)
    BY <1>6, SendEffect DEF SendFrame, At
<1>7. QED
    BY <1>1, <1>2, <1>3, <1>4, <1>5, <1>6 DEF ContinueCall

\* With QUIT in its queue nothing is recorded, nor while STOP or START is on its way.
LEMMA QuitPosted ==
    ASSUME TypeOK, NEW arg \in Context0, NEW next,
           Posted([what |-> "QUIT", arg |-> arg], next)
    PROVE  ~Recorded'
<1> DEFINE m == [what |-> "QUIT", arg |-> arg]
<1> SUFFICES ASSUME Recorded' PROVE FALSE
    OBVIOUS
<1>1. m \in Message
    BY MessageTyped DEF MessageType
<1>2. Current("looping") /\ queue[sessions] \in Seq(Message)
    BY BoundsAssumption DEF Recorded, Posted, Current, TypeOK, Sessions
<1>3. queue'[sessions'] = Append(queue[sessions], m)
    BY <1>2 DEF Posted
<1>4. NoQuit(Append(queue[sessions], m), Len(Append(queue[sessions], m)))
    BY <1>3 DEF Recorded
<1>5. QED
    BY <1>1, <1>2, <1>4, Appended, AppendLast

LEMMA NothingRecorded ==
    ASSUME Threw \/ \E m : Posted(m, "sendQuit")
    PROVE  ~Recorded'
BY DEF Threw, Posted, Recorded, Current

\* What is recorded after a step inside the encoder was recorded before, or its
\* START was just posted.
LEMMA InsideRecorded ==
    ASSUME TypeOK, ThreadInv, QueueInv(GL), InsideEncoder, Recorded', ~Starting(GL)
    PROVE  Recorded
<1> USE ContextTyped
<1>1. CASE ContinueCall(GL) \/ WakeSpuriously(GL)
    <2>1. CASE /\ UNCHANGED <<sessions, thread, queue, encoderVars, exception>>
               /\ pc' = pc
        BY <2>1 DEF Recorded, Current, Starting
    <2>2. CASE Threw
        BY <2>2, NothingRecorded
    <2>3. CASE Posted([what |-> "QUIT", arg |-> NoContext], "idle")
        BY <2>3, QuitPosted
    <2>4. CASE /\ pc[GL].at = "sendTexture"
               /\ Posted([what |-> "TEXTURE", arg |-> pc[GL].arg], "idle")
        <3>1. pc[GL].arg \in Context0
            BY ViewAssumption DEF TypeOK, CallerPC
        <3>2. QED
            BY <2>4, <3>1, MessageTyped, PostedRecorded DEF MessageType
    <2>5. CASE /\ pc[GL].at = "sendFrame"
               /\ Posted([what |-> "FRAME", arg |-> NoContext], "idle")
        BY <2>5, MessageTyped, PostedRecorded DEF MessageType
    <2>6. QED
        BY <1>1, <2>1, <2>2, <2>3, <2>4, <2>5, CallEffect DEF Starting
<1>2. ASSUME NEW t \in Sessions, EncoderThread(t) PROVE Recorded
    <2>1. pc' = pc
        BY <1>2, EncoderEffect
    <2>2. CASE UNCHANGED <<sessions, thread, queue, encoderVars>>
        BY <2>1, <2>2 DEF Recorded, Current, Starting
    <2>3. CASE ~Current("looping")'
        BY <2>3 DEF Recorded
    <2>4. ASSUME NEW m \in Message, Handled(m) PROVE Recorded
        BY <2>1, <2>4, HandledRecorded
    <2>5. QED
        BY <1>2, <2>2, <2>3, <2>4, EncoderEffect
<1>3. QED
    BY <1>1, <1>2 DEF InsideEncoder

\* A pass of the loop that posts nothing by itself.
LEMMA DrawRecorded ==
    ASSUME TypeOK, DrawTexture \/ DrawAvailable
    PROVE  /\ UNCHANGED <<sessions, thread, queue, mTextureId, mEglCore, mVideoEncoder, fed,
                          exception, glContext, mRecordingStatus, mReady>>
           /\ pc[GL].at = "idle"
           /\ pc'[GL].at \in {"idle", "sendTexture", "sendFrame"}
           /\ Recorded' <=> Recorded
<1>1. pc[GL].at = "idle" /\ pc'[GL].at \in {"idle", "sendTexture", "sendFrame"}
    BY ViewAssumption
       DEF DrawTexture, DrawAvailable, SetTextureId, FrameAvailable, Idle, Goto, TypeOK
<1>2. UNCHANGED <<sessions, thread, queue, mTextureId, mEglCore, mVideoEncoder, fed,
                  exception, glContext, mRecordingStatus, mReady>>
    BY DEF DrawTexture, DrawAvailable, SetTextureId, FrameAvailable, fenceVars, threadVars,
           encoderVars, surfaceVars, recordVars
<1>3. QED
    BY <1>1, <1>2 DEF Recorded, Current, Starting

LEMMA StatusStep ==
    ASSUME TypeOK, ThreadInv, QueueInv(GL), PassInv, StatusInv, [Next]_vars
    PROVE  StatusInv'
<1> USE DEF StatusInv
<1>1. CASE \/ UNCHANGED vars \/ ProcessEnded \/ StartRecord \/ OnPause \/ OnResume
           \/ OutsideCamera \/ ChangeRecordingState \/ OnSurfaceCreated \/ ResizeSurface
           \/ DrawSteady
    <2>1. UNCHANGED encVars /\ mRecordingStatus' = mRecordingStatus
        BY <1>1 DEF vars, viewVars, screenVars, recordVars, ProcessEnded, StartRecord, OnPause,
                    OnResume, OutsideCamera, ChangeRecordingState, OnSurfaceCreated,
                    ResizeSurface, DrawSteady
    <2>2. QED
        BY <2>1, EncoderSame
<1>2. CASE OnSurfaceChanged
    <2>1. Recorded => mRunning
        BY DEF Recorded, ThreadInv, Current
    <2>2. UNCHANGED encVars /\ (mRunning => mRecordingStatus' = "resumed")
        BY <1>2 DEF OnSurfaceChanged, IsRecording
    <2>3. QED
        BY <2>1, <2>2, EncoderSame
<1>3. CASE DrawStart \/ DrawResume
    BY <1>3 DEF DrawStart, DrawResume
<1>4. CASE DrawStop
    <2>1. Threw \/ Posted([what |-> "STOP", arg |-> NoContext], "sendQuit")
        BY <1>4, SendEffect DEF DrawStop, StopRecording
    <2>2. QED
        BY <2>1, NothingRecorded
<1>5. CASE DrawTexture \/ DrawAvailable
    BY <1>5, DrawRecorded
<1>6. CASE InsideEncoder
    <2>1. mRecordingStatus' = mRecordingStatus
        BY <1>6 DEF InsideEncoder, viewVars, screenVars, recordVars
    <2>2. Starting(GL) => mRecordingStatus = "on"
        BY DEF PassInv
    <2>3. QED
        BY <1>6, <2>1, <2>2, InsideRecorded
<1>7. QED
    BY <1>1, <1>2, <1>3, <1>4, <1>5, <1>6 DEF Next, OnDrawFrame

\* The queue behind a message posted to it ...
LEMMA PostedQueue ==
    ASSUME TypeOK, NEW m \in Message, NEW next, Posted(m, next), Current("looping")
    PROVE  /\ queue[sessions] \in Seq(Message) /\ Len(queue[sessions]) \in Nat
           /\ queue'[sessions'] = Append(queue[sessions], m)
           /\ Len(queue'[sessions']) = Len(queue[sessions]) + 1
           /\ Current("looping")'
           /\ UNCHANGED <<mTextureId, mEglCore, mVideoEncoder, fed, exception>>
<1>1. queue[sessions] \in Seq(Message)
    BY BoundsAssumption DEF Current, TypeOK, Sessions
<1>2. QED
    BY <1>1, Appended DEF Posted, Current, encoderVars

\* ... and without the one the encoder has handled.
LEMMA HandledQueue ==
    ASSUME TypeOK, NEW m \in Message, Handled(m)
    PROVE  /\ queue[sessions] \in Seq(Message) /\ queue[sessions] # <<>>
           /\ m = Head(queue[sessions]) /\ m = queue[sessions][1]
           /\ queue'[sessions'] = Tail(queue[sessions])
           /\ Len(queue'[sessions']) \in Nat
           /\ Len(queue[sessions]) = Len(queue'[sessions']) + 1
           /\ \A i \in 1..Len(queue'[sessions']) :
                 /\ i + 1 \in 1..Len(queue[sessions])
                 /\ queue'[sessions'][i] = queue[sessions][i + 1]
           /\ Current("looping") /\ Current("looping")'
<1>1. queue[sessions] \in Seq(Message) /\ queue[sessions] # <<>>
    BY BoundsAssumption DEF Handled, Current, TypeOK, Sessions
<1>2. queue'[sessions'] = Tail(queue[sessions]) /\ m = Head(queue[sessions])
    BY DEF Handled
<1>3. /\ Len(queue[sessions]) \in Nat \ {0} /\ Head(queue[sessions]) = queue[sessions][1]
      /\ Len(Tail(queue[sessions])) = Len(queue[sessions]) - 1
      /\ \A i \in 1..Len(Tail(queue[sessions])) :
            Tail(queue[sessions])[i] = queue[sessions][i + 1]
    BY <1>1, Taken
<1>4. \A i \in 1..Len(Tail(queue[sessions])) : i + 1 \in 1..Len(queue[sessions])
    BY <1>3
<1>5. Current("looping") /\ Current("looping")'
    BY DEF Handled, Current
<1>6. QED
    BY <1>1, <1>2, <1>3, <1>4, <1>5

\* What the encoder has when n messages are handled does not change as it handles.
LEMMA HandledLast ==
    ASSUME TypeOK, NEW m \in Message, Handled(m), m.what # "STOP",
           NEW n \in Nat, n <= Len(queue'[sessions']), NEW x
    PROVE  /\ TextureIs(queue[sessions], n + 1, x) =>
                 LastIs(queue'[sessions'], n, {"TEXTURE"}, mTextureId', x)
           /\ ContextIs(queue[sessions], n + 1, x) =>
                 LastIs(queue'[sessions'], n, {"START", "CONTEXT"}, mEglCore', x)
<1>1. n < Len(queue[sessions])
    BY HandledQueue
<1>2. \A types, before : LastIs(queue[sessions], n + 1, types, before, x) =>
          LastIs(queue'[sessions'], n, types, IF m.what \in types THEN m.arg ELSE before, x)
    BY <1>1, HandledQueue, TailKeeps
<1>3. mTextureId' = IF m.what \in {"TEXTURE"} THEN m.arg ELSE mTextureId
    BY DEF Handled
<1>4. mEglCore' = IF m.what \in {"START", "CONTEXT"} THEN m.arg ELSE mEglCore
    BY DEF Handled
<1>5. QED
    BY <1>2, <1>3, <1>4 DEF TextureIs, ContextIs

\* A message posted behind them neither.
LEMMA PostedLast ==
    ASSUME TypeOK, NEW m \in Message, NEW next, Posted(m, next), Current("looping"),
           NEW n \in Nat, n <= Len(queue[sessions]), NEW x
    PROVE  /\ TextureIs(queue[sessions], n, x) =>
                 LastIs(queue'[sessions'], n, {"TEXTURE"}, mTextureId', x)
           /\ ContextIs(queue[sessions], n, x) =>
                 LastIs(queue'[sessions'], n, {"START", "CONTEXT"}, mEglCore', x)
<1> DEFINE q == queue[sessions]
<1>1. /\ q \in Seq(Message) /\ queue'[sessions'] = Append(q, m)
      /\ UNCHANGED <<mTextureId, mEglCore>>
    BY PostedQueue
<1>2. \A types, before : LastIs(q, n, types, before, x) =>
          LastIs(Append(q, m), n, types, before, x)
    BY <1>1, AppendKeeps
<1>3. QED
    BY <1>1, <1>2 DEF TextureIs, ContextIs

\* The message posted last, and the types it has not.
LEMMA PostedNow ==
    ASSUME TypeOK, NEW m \in Message, NEW next, Posted(m, next), Current("looping"), NEW x
    PROVE  /\ (IF m.what = "TEXTURE" THEN m.arg = x
               ELSE TextureIs(queue[sessions], Len(queue[sessions]), x)) =>
                  LastIs(queue'[sessions'], Len(queue'[sessions']), {"TEXTURE"}, mTextureId', x)
           /\ (IF m.what \in {"START", "CONTEXT"} THEN m.arg = x
               ELSE ContextIs(queue[sessions], Len(queue[sessions]), x)) =>
                  LastIs(queue'[sessions'], Len(queue'[sessions']), {"START", "CONTEXT"},
                         mEglCore', x)
<1> DEFINE q == queue[sessions]
<1>1. /\ \A types, before : m.what \in types /\ m.arg = x =>
            LastIs(Append(q, m), Len(q) + 1, types, before, x)
      /\ \A types, before : m.what \notin types /\ LastIs(q, Len(q), types, before, x) =>
            LastIs(Append(q, m), Len(q) + 1, types, before, x)
    BY PostedQueue, AppendLast
<1>2. /\ queue'[sessions'] = Append(q, m) /\ Len(queue'[sessions']) = Len(q) + 1
      /\ UNCHANGED <<mTextureId, mEglCore>>
    BY PostedQueue
<1>3. QED
    BY <1>1, <1>2 DEF TextureIs, ContextIs

\* The two halves of PostedInv, of the next state.
LEMMA PostedIntro ==
    ASSUME Recorded' /\ mRecordingStatus' = "on" /\ glStep' # "changed" =>
               LastIs(queue'[sessions'], Len(queue'[sessions']), {"START", "CONTEXT"},
                      mEglCore', glContext'),
           Recorded' /\ ((glStep' = "frame" /\ pc'[GL].at = "idle") \/ pc'[GL].at = "sendFrame") =>
               LastIs(queue'[sessions'], Len(queue'[sessions']), {"TEXTURE"},
                      mTextureId', glContext')
    PROVE  PostedInv'
BY DEF PostedInv, TextureIs, ContextIs

LEMMA PostedStep ==
    ASSUME TypeOK, OwnTypeOK, ThreadInv, QueueInv(GL), PassInv, StatusInv, PostedInv, [Next]_vars
    PROVE  PostedInv'
<1> USE ViewAssumption, ContextTyped
<1> DEFINE n == Len(queue[sessions])
           n2 == Len(queue'[sessions'])
           Context2 == LastIs(queue'[sessions'], n2, {"START", "CONTEXT"}, mEglCore', glContext')
           Texture2 == LastIs(queue'[sessions'], n2, {"TEXTURE"}, mTextureId', glContext')
<1>1. ASSUME UNCHANGED <<encVars, glContext>>
      PROVE  /\ Context2 <=> ContextIs(queue[sessions], n, glContext)
             /\ Texture2 <=> TextureIs(queue[sessions], n, glContext)
             /\ Recorded' <=> Recorded
             /\ pc' = pc
    BY <1>1, EncoderSame DEF ContextIs, TextureIs
<1>2. CASE \/ UNCHANGED vars \/ ProcessEnded \/ StartRecord \/ OnPause \/ OnResume
           \/ OutsideCamera \/ ChangeRecordingState
    <2>1. UNCHANGED <<encVars, glContext, mRecordingStatus, glStep>>
        BY <1>2 DEF vars, viewVars, screenVars, surfaceVars, recordVars, ProcessEnded,
                    StartRecord, OnPause, OnResume, OutsideCamera, ChangeRecordingState
    <2>2. QED
        BY <1>1, <2>1, PostedIntro DEF PostedInv
<1>3. CASE OnSurfaceCreated \/ ResizeSurface
    <2>1. UNCHANGED encVars /\ glStep' = "changed" /\ pc[GL].at = "idle"
        BY <1>3 DEF OnSurfaceCreated, ResizeSurface, GLIdle
    <2>2. pc' = pc
        BY <2>1, EncoderSame
    <2>3. QED
        BY <2>1, <2>2, PostedIntro
<1>4. CASE OnSurfaceChanged
    <2>1. /\ UNCHANGED encVars /\ glStep = "changed" /\ glStep' = "draw"
          /\ mRecordingStatus' # "on"
        BY <1>4 DEF OnSurfaceChanged
    <2>2. pc' = pc /\ pc[GL].at # "sendFrame"
        BY <2>1, EncoderSame DEF PassInv
    <2>3. QED
        BY <2>1, <2>2, PostedIntro
<1>5. ASSUME DrawFrame
      PROVE  /\ glStep' = "texture" /\ UNCHANGED glContext
             /\ glStep # "changed" /\ pc[GL].at # "sendFrame"
    BY <1>5 DEF DrawFrame, GLIdle, surfaceVars, PassInv
<1>6. CASE DrawSteady
    <2>1. UNCHANGED <<encVars, glContext, mRecordingStatus>>
        BY <1>5, <1>6 DEF DrawSteady
    <2>2. QED
        BY <1>1, <1>5, <1>6, <2>1, PostedIntro DEF DrawSteady, PostedInv
<1>7. CASE DrawStart
    <2>1. CASE mRunning /\ UNCHANGED encVars
        <3>1. ~Recorded'
            BY <1>7, <2>1, EncoderSame DEF DrawStart, StatusInv
        <3>2. QED
            BY <3>1, PostedIntro
    <2>2. CASE ~Current("looping")'
        BY <2>2, PostedIntro DEF Recorded
    <2>3. QED
        BY <1>7, <2>1, <2>2, StartEffect DEF DrawStart
<1>8. CASE DrawResume
    <2> DEFINE m == [what |-> "CONTEXT", arg |-> glContext]
    <2>1. Threw \/ Posted(m, "idle")
        BY <1>8, SendEffect DEF DrawResume, UpdateSharedContext
    <2>2. CASE Threw
        BY <2>2, NothingRecorded, PostedIntro
    <2>3. CASE Posted(m, "idle")
        <3>1. m \in Message
            BY MessageTyped DEF MessageType, OwnTypeOK
        <3>2. Recorded' => Current("looping")
            BY <2>3 DEF Recorded, Posted, Current
        <3>3. Recorded' => Context2
            BY <1>5, <1>8, <2>3, <3>1, <3>2, PostedNow DEF DrawResume
        <3>4. pc'[GL].at = "idle" /\ glStep' = "texture"
            BY <1>5, <1>8, <2>3 DEF DrawResume, Posted
        <3>5. QED
            BY <3>3, <3>4, PostedIntro
    <2>4. QED
        BY <2>1, <2>2, <2>3
<1>9. CASE DrawStop
    <2>1. Threw \/ Posted([what |-> "STOP", arg |-> NoContext], "sendQuit")
        BY <1>9, SendEffect DEF DrawStop, StopRecording
    <2>2. QED
        BY <2>1, NothingRecorded, PostedIntro
<1>10. ASSUME DrawTexture \/ DrawAvailable
       PROVE  /\ Context2 <=> ContextIs(queue[sessions], n, glContext)
              /\ Texture2 <=> TextureIs(queue[sessions], n, glContext)
              /\ Recorded' <=> Recorded
              /\ mRecordingStatus' = mRecordingStatus
              /\ pc[GL].at = "idle"
    BY <1>10, DrawRecorded DEF ContextIs, TextureIs
<1>11. CASE DrawTexture
    <2>1. Recorded' => mReady
        BY <1>10, <1>11, BoundsAssumption
           DEF DrawTexture, Recorded, ThreadInv, Current
    <2>2. mReady => pc'[GL].at = "sendTexture"
        BY <1>11 DEF DrawTexture, SetTextureId, Goto, TypeOK
    <2>3. ~mReady => pc'[GL].at = "idle"
        BY <1>10, <1>11 DEF DrawTexture, SetTextureId
    <2>4. glStep = "texture"
        BY <1>11 DEF DrawTexture
    <2>5. QED
        BY <1>10, <1>11, <2>1, <2>2, <2>3, <2>4, PostedIntro DEF PostedInv
<1>12. CASE DrawAvailable
    <2>1. glStep = "frame" /\ glStep' = "loop"
        BY <1>12 DEF DrawAvailable
    <2>2. QED
        BY <1>10, <1>12, <2>1, PostedIntro DEF PostedInv
<1>13. CASE InsideEncoder
    <2>1. UNCHANGED <<glStep, glContext, mRecordingStatus>>
        BY <1>13 DEF InsideEncoder, viewVars, screenVars, surfaceVars, recordVars
    <2>2. ASSUME ~Starting(GL), Recorded'
          PROVE  Recorded /\ (mRecordingStatus = "on" /\ glStep # "changed" =>
                                  ContextIs(queue[sessions], n, glContext))
        BY <1>13, <2>2, InsideRecorded DEF PostedInv
    <2>3. CASE ContinueCall(GL) \/ WakeSpuriously(GL)
        <3>1. CASE /\ UNCHANGED <<sessions, thread, queue, encoderVars, exception>>
                   /\ pc' = pc \/ (Starting(GL) /\ Starting(GL)')
            <4>1. CASE Starting(GL)'
                BY <4>1, PostedIntro DEF Recorded, Starting
            <4>2. CASE pc' = pc /\ ~Starting(GL)
                <5>1. Recorded' <=> Recorded
                    BY <3>1, <4>2 DEF Recorded, Current, Starting
                <5>2. /\ Context2 <=> ContextIs(queue[sessions], n, glContext)
                      /\ Texture2 <=> TextureIs(queue[sessions], n, glContext)
                    BY <2>1, <3>1 DEF ContextIs, TextureIs, encoderVars
                <5>3. QED
                    BY <2>1, <4>2, <5>1, <5>2, PostedIntro DEF PostedInv
            <4>3. QED
                BY <3>1, <4>1, <4>2 DEF Starting
        <3>2. CASE Threw
            BY <3>2, NothingRecorded, PostedIntro
        <3>3. ASSUME NEW what \in MessageType, NEW arg \in Context0,
                     Posted([what |-> what, arg |-> arg], "idle")
              PROVE  /\ [what |-> what, arg |-> arg] \in Message
                     /\ Recorded' => Current("looping")
                     /\ pc'[GL].at = "idle"
            BY <3>3, MessageTyped DEF Posted, Recorded, Current
        <3>4. pc[GL].arg \in Context0
            BY DEF TypeOK, CallerPC
        <3>5. CASE /\ pc[GL].at = "sendStart"
                   /\ Posted([what |-> "START", arg |-> pc[GL].arg], "idle")
            <4>1. pc[GL].arg = glContext /\ glStep = "texture"
                BY <3>5 DEF PassInv, Starting
            <4>2. Recorded' => Context2
                BY <2>1, <3>3, <3>4, <3>5, <4>1, PostedNow DEF MessageType
            <4>3. pc'[GL].at = "idle"
                BY <3>3, <3>4, <3>5 DEF MessageType
            <4>4. QED
                BY <2>1, <4>1, <4>2, <4>3, PostedIntro
        <3>6. CASE Posted([what |-> "QUIT", arg |-> NoContext], "idle")
            BY <3>6, QuitPosted, PostedIntro
        <3>7. CASE /\ pc[GL].at = "sendTexture"
                   /\ Posted([what |-> "TEXTURE", arg |-> pc[GL].arg], "idle")
            <4>1. pc[GL].arg = glContext /\ ~Starting(GL)
                BY <3>7 DEF PassInv, Starting
            <4>2. Recorded' => Texture2
                BY <2>1, <3>3, <3>4, <3>7, <4>1, PostedNow DEF MessageType
            <4>3. Recorded' /\ ContextIs(queue[sessions], n, glContext) => Context2
                BY <2>1, <3>3, <3>4, <3>7, PostedNow DEF MessageType
            <4>4. QED
                BY <2>1, <2>2, <4>1, <4>2, <4>3, PostedIntro
        <3>8. CASE /\ pc[GL].at = "sendFrame"
                   /\ Posted([what |-> "FRAME", arg |-> NoContext], "idle")
            <4>1. glStep = "loop" /\ ~Starting(GL)
                BY <3>8 DEF PassInv, Starting
            <4>2. Recorded' /\ ContextIs(queue[sessions], n, glContext) => Context2
                BY <2>1, <3>3, <3>8, PostedNow DEF MessageType
            <4>3. pc'[GL].at = "idle"
                BY <3>3, <3>8 DEF MessageType
            <4>4. QED
                BY <2>1, <2>2, <4>1, <4>2, <4>3, PostedIntro
        <3>9. QED
            BY <2>3, <3>1, <3>2, <3>5, <3>6, <3>7, <3>8, CallEffect
    <2>4. ASSUME NEW t \in Sessions, EncoderThread(t) PROVE PostedInv'
        <3>1. pc' = pc
            BY <2>4, EncoderEffect
        <3>2. CASE Starting(GL)
            BY <3>1, <3>2, PostedIntro DEF Recorded, Starting
        <3>3. CASE UNCHANGED <<sessions, thread, queue, encoderVars>> /\ ~Starting(GL)
            <4>1. /\ Context2 <=> ContextIs(queue[sessions], n, glContext)
                  /\ Texture2 <=> TextureIs(queue[sessions], n, glContext)
                BY <2>1, <3>3 DEF ContextIs, TextureIs, encoderVars
            <4>2. QED
                BY <2>1, <2>2, <3>1, <3>3, <4>1, PostedIntro DEF PostedInv
        <3>4. CASE ~Current("looping")'
            BY <3>4, PostedIntro DEF Recorded
        <3>5. ASSUME NEW m \in Message, Handled(m), ~Starting(GL) PROVE PostedInv'
            <4>1. CASE Recorded'
                <5>1. Recorded /\ m.what # "STOP"
                    BY <3>1, <3>5, <4>1, HandledRecorded
                <5>2. n2 \in Nat /\ n = n2 + 1
                    BY <3>5, HandledQueue
                <5>3. /\ TextureIs(queue[sessions], n, glContext) => Texture2
                      /\ ContextIs(queue[sessions], n, glContext) => Context2
                    BY <2>1, <3>5, <5>1, <5>2, HandledLast
                <5>4. QED
                    BY <2>1, <3>1, <5>1, <5>3, PostedIntro DEF PostedInv
            <4>2. CASE ~Recorded'
                BY <4>2, PostedIntro
            <4>3. QED
                BY <4>1, <4>2
        <3>6. QED
            BY <2>4, <3>2, <3>3, <3>4, <3>5, EncoderEffect
    <2>5. QED
        BY <1>13, <2>3, <2>4 DEF InsideEncoder
<1>14. QED
    BY <1>2, <1>3, <1>4, <1>6, <1>7, <1>8, <1>9, <1>11, <1>12, <1>13 DEF Next, OnDrawFrame

\* The frame at i is drawn in the context its texture is of; Context2 and Texture2
\* of the next state.
LEMMA FrameIntro ==
    ASSUME Current("looping")' =>
               \A i \in 1..Len(queue'[sessions']) :
                   queue'[sessions'][i].what = "FRAME" /\ NoQuit(queue'[sessions'], i - 1) =>
                       \E x \in Context0 :
                           /\ LastIs(queue'[sessions'], i - 1, {"TEXTURE"}, mTextureId', x)
                           /\ LastIs(queue'[sessions'], i - 1, {"START", "CONTEXT"}, mEglCore', x)
    PROVE  FrameInv'
BY DEF FrameInv, TextureIs, ContextIs

\* A message posted behind the frames, which is a frame only if texture and context
\* are posted.
LEMMA FramePosted ==
    ASSUME TypeOK, FrameInv, NEW m \in Message, NEW next, Posted(m, next),
           m.what = "FRAME" /\ Current("looping") /\ NoQuit(queue[sessions], Len(queue[sessions])) =>
               \E x \in Context0 : /\ TextureIs(queue[sessions], Len(queue[sessions]), x)
                                   /\ ContextIs(queue[sessions], Len(queue[sessions]), x)
    PROVE  FrameInv'
<1> DEFINE q == queue[sessions]
           q2 == queue'[sessions']
<1>1. CASE ~Current("looping")
    <2>1. ~Current("looping")'
        BY <1>1 DEF Posted, Current
    <2>2. QED
        BY <2>1, FrameIntro
<1>2. CASE Current("looping")
    <2>1. q \in Seq(Message) /\ Len(q) \in Nat /\ q2 = Append(q, m) /\ Len(q2) = Len(q) + 1
        BY <1>2, PostedQueue
    <2>2. ASSUME NEW i \in 1..Len(q2), q2[i].what = "FRAME", NoQuit(q2, i - 1)
          PROVE  \E x \in Context0 :
                     /\ LastIs(q2, i - 1, {"TEXTURE"}, mTextureId', x)
                     /\ LastIs(q2, i - 1, {"START", "CONTEXT"}, mEglCore', x)
        <3>1. i - 1 \in Nat /\ i - 1 <= Len(q)
            BY <2>1
        <3>2. NoQuit(q, i - 1)
            BY <2>1, <2>2, <3>1, AppendKeeps
        <3>3. \E x \in Context0 : TextureIs(q, i - 1, x) /\ ContextIs(q, i - 1, x)
            <4>1. CASE i = Len(q) + 1
                <5>1. m.what = "FRAME" /\ i - 1 = Len(q)
                    BY <2>1, <2>2, <4>1, Appended
                <5>2. QED
                    BY <1>2, <3>2, <5>1
            <4>2. CASE i # Len(q) + 1
                <5>1. i \in 1..Len(q) /\ q[i].what = "FRAME"
                    BY <2>1, <2>2, <4>2, Appended
                <5>2. QED
                    BY <1>2, <3>2, <5>1 DEF FrameInv
            <4>3. QED
                BY <4>1, <4>2
        <3>4. QED
            BY <1>2, <3>1, <3>3, PostedLast
    <2>3. QED
        BY <2>2, FrameIntro
<1>3. QED
    BY <1>1, <1>2

\* Behind STOP stands QUIT, so no message behind it will be handled.
LEMMA StopLast ==
    ASSUME TypeOK, QueueInv(GL), ~Starting(GL), NEW m \in Message, Handled(m), m.what = "STOP",
           NEW i \in 1..Len(queue'[sessions']), queue'[sessions'][i].what # "QUIT"
    PROVE  ~NoQuit(queue'[sessions'], i - 1)
<1> DEFINE q == queue[sessions]
           q2 == queue'[sessions']
<1>1. q[1].what = "STOP" /\ Len(q2) \in Nat /\ Len(q) = Len(q2) + 1 /\ q2[1] = q[2]
    <2>1. Len(q2) \in Nat /\ Len(q) = Len(q2) + 1 /\ m = q[1]
        BY HandledQueue
    <2>2. 1 \in 1..Len(q2)
        BY <2>1
    <2>3. QED
        BY <2>1, <2>2, HandledQueue
<1>2. Shape(q, pc[GL].at = "sendQuit", mVideoEncoder = "open")
    BY HandledQueue DEF QueueInv
<1>3. 1 \in 1..Len(q) /\ 1 < Len(q)
    BY <1>1
<1>4. q2[1].what = "QUIT"
    BY <1>1, <1>2, <1>3 DEF Shape
<1>5. i # 1
    BY <1>4
<1>6. 1 \in 1..i - 1
    BY <1>1, <1>5
<1>7. QED
    BY <1>4, <1>6 DEF NoQuit

\* A message handled in front of the frames.
LEMMA FrameHandled ==
    ASSUME TypeOK, QueueInv(GL), FrameInv, ~Starting(GL), NEW m \in Message, Handled(m)
    PROVE  FrameInv'
<1> DEFINE q == queue[sessions]
           q2 == queue'[sessions']
<1>1. /\ q \in Seq(Message) /\ q # <<>> /\ m = Head(q) /\ q2 = Tail(q)
      /\ Len(q2) \in Nat /\ Len(q) = Len(q2) + 1 /\ Current("looping")
    BY HandledQueue
<1>2. ASSUME NEW i \in 1..Len(q2), q2[i].what = "FRAME", NoQuit(q2, i - 1)
      PROVE  \E x \in Context0 :
                 /\ LastIs(q2, i - 1, {"TEXTURE"}, mTextureId', x)
                 /\ LastIs(q2, i - 1, {"START", "CONTEXT"}, mEglCore', x)
    <2>1. m.what # "STOP"
        BY <1>2, StopLast
    <2>2. i - 1 \in Nat /\ i - 1 < Len(q) /\ i - 1 <= Len(q2) /\ (i - 1) + 1 = i /\ (i + 1) - 1 = i
        BY <1>1
    <2>3. NoQuit(q, i)
        <3>1. m.what # "QUIT"
            BY DEF Handled
        <3>2. NoQuit(q, (i - 1) + 1)
            BY <1>1, <1>2, <2>2, <3>1, TailKeeps
        <3>3. QED
            BY <2>2, <3>2
    <2>4. i + 1 \in 1..Len(q) /\ q[i + 1].what = "FRAME"
        BY <1>2, HandledQueue
    <2>5. \E x \in Context0 : TextureIs(q, i, x) /\ ContextIs(q, i, x)
        BY <1>1, <2>2, <2>3, <2>4 DEF FrameInv
    <2>6. QED
        BY <2>1, <2>2, <2>5, HandledLast
<1>3. QED
    BY <1>2, FrameIntro

\* No other step touches the messages.
LEMMA FrameSame ==
    ASSUME FrameInv, UNCHANGED <<sessions, thread, queue, mTextureId, mEglCore>>
    PROVE  FrameInv'
BY DEF FrameInv, Current, TextureIs, ContextIs

LEMMA FrameStep ==
    ASSUME TypeOK, OwnTypeOK, ThreadInv, QueueInv(GL), PassInv, StatusInv, PostedInv, FrameInv,
           [Next]_vars
    PROVE  FrameInv'
<1> USE ContextTyped
<1>1. CASE UNCHANGED encVars
    BY <1>1, EncoderSame, FrameSame
<1>2. CASE ~Current("looping")'
    BY <1>2, FrameIntro
<1>3. ASSUME Threw PROVE FrameInv'
    BY <1>3, FrameSame DEF Threw, encoderVars
<1>4. ASSUME NEW what \in MessageType, what # "FRAME", NEW arg \in Context0, NEW next,
             Posted([what |-> what, arg |-> arg], next)
      PROVE  FrameInv'
    BY <1>4, MessageTyped, FramePosted
<1>5. CASE DrawStart
    BY <1>1, <1>2, <1>5, StartEffect DEF DrawStart
<1>6. CASE DrawResume
    <2>1. Threw \/ Posted([what |-> "CONTEXT", arg |-> glContext], "idle")
        BY <1>6, SendEffect DEF DrawResume, UpdateSharedContext
    <2>2. QED
        BY <1>3, <1>4, <2>1 DEF MessageType, OwnTypeOK
<1>7. CASE DrawStop
    <2>1. Threw \/ Posted([what |-> "STOP", arg |-> NoContext], "sendQuit")
        BY <1>7, SendEffect DEF DrawStop, StopRecording
    <2>2. QED
        BY <1>3, <1>4, <2>1 DEF MessageType
<1>8. CASE DrawTexture \/ DrawAvailable
    BY <1>8, DrawRecorded, FrameSame
<1>9. CASE ContinueCall(GL) \/ WakeSpuriously(GL)
    <2>1. pc[GL].arg \in Context0
        BY ViewAssumption DEF TypeOK, CallerPC
    <2>2. CASE UNCHANGED <<sessions, thread, queue, encoderVars, exception>>
        BY <2>2, FrameSame DEF encoderVars
    <2>3. CASE /\ pc[GL].at = "sendFrame"
               /\ Posted([what |-> "FRAME", arg |-> NoContext], "idle")
        <3>1. glStep = "loop" /\ mRecordingStatus \in {"on", "off"}
            BY <2>3 DEF PassInv
        <3>2. ASSUME Current("looping"), NoQuit(queue[sessions], Len(queue[sessions]))
              PROVE  /\ TextureIs(queue[sessions], Len(queue[sessions]), glContext)
                     /\ ContextIs(queue[sessions], Len(queue[sessions]), glContext)
            <4>1. Recorded
                BY <2>3, <3>2 DEF Recorded, Starting
            <4>2. mRecordingStatus = "on"
                BY <3>1, <4>1 DEF StatusInv
            <4>3. QED
                BY <2>3, <3>1, <4>1, <4>2 DEF PostedInv
        <3>3. QED
            BY <2>3, <3>2, MessageTyped, FramePosted DEF MessageType, OwnTypeOK
    <2>4. QED
        BY <1>3, <1>4, <1>9, <2>1, <2>2, <2>3, CallEffect DEF MessageType
<1>10. ASSUME NEW t \in Sessions, EncoderThread(t) PROVE FrameInv'
    <2>1. CASE UNCHANGED <<sessions, thread, queue, encoderVars>>
        BY <2>1, FrameSame DEF encoderVars
    <2>2. CASE queue'[sessions'] = <<>>
        BY <2>2, EmptySeq, FrameIntro
    <2>3. ASSUME NEW m \in Message, Handled(m) PROVE FrameInv'
        <3>1. ~Starting(GL)
            BY <2>3 DEF Handled, QueueInv
        <3>2. QED
            BY <2>3, <3>1, FrameHandled
    <2>4. QED
        BY <1>2, <1>10, <2>1, <2>2, <2>3, EncoderEffect
<1>11. CASE \/ UNCHANGED vars \/ ProcessEnded \/ StartRecord \/ OnPause \/ OnResume
            \/ OutsideCamera \/ ChangeRecordingState \/ OnSurfaceCreated \/ ResizeSurface
            \/ OnSurfaceChanged \/ DrawSteady
    BY <1>1, <1>11 DEF vars, ProcessEnded, StartRecord, OnPause, OnResume, OutsideCamera,
                       ChangeRecordingState, OnSurfaceCreated, ResizeSurface,
                       OnSurfaceChanged, DrawSteady
<1>12. QED
    BY <1>5, <1>6, <1>7, <1>8, <1>9, <1>10, <1>11 DEF Next, OnDrawFrame, InsideEncoder

\* In the next state the encoder has, or will have, a frame from the first n messages.
Framed(n) ==
    (mVideoEncoder' = "open" /\ fed') \/ \E i \in 1..n : queue'[sessions'][i].what = "FRAME"

LEMMA PassIntro ==
    ASSUME ~zeroFrame' /\ Recorded' /\ pc'[GL].at = "idle" /\ glStep' \in {"loop", "changed", "draw"}
               => Framed(Len(queue'[sessions']))
    PROVE  PassData'
BY DEF PassData, Framed, HasFrame

LEMMA StopIntro ==
    ASSUME ~zeroFrame' /\ Current("looping")' =>
               \A i \in 1..Len(queue'[sessions']) :
                   queue'[sessions'][i].what = "STOP" /\ NoQuit(queue'[sessions'], i - 1) =>
                       Framed(i - 1)
    PROVE  StopData'
BY DEF StopData, Framed, HasFrame

\* A frame that was posted stays so, or is handled, as messages are posted behind it
\* and handled in front of it.
LEMMA PostedFrame ==
    ASSUME TypeOK, NEW m \in Message, NEW next, Posted(m, next), Current("looping"),
           NEW n \in Nat, n <= Len(queue[sessions]), HasFrame(queue[sessions], n)
    PROVE  Framed(n)
<1> DEFINE q == queue[sessions]
<1>1. /\ q \in Seq(Message) /\ queue'[sessions'] = Append(q, m)
      /\ UNCHANGED <<mVideoEncoder, fed>>
    BY PostedQueue
<1>2. HasFrame(Append(q, m), n)
    BY <1>1, AppendKeeps
<1>3. QED
    BY <1>1, <1>2 DEF HasFrame, Framed

LEMMA HandledFrame ==
    ASSUME TypeOK, QueueInv(GL), ~Starting(GL), NEW m \in Message, Handled(m), m.what # "STOP",
           NEW n \in Nat, n <= Len(queue'[sessions']), HasFrame(queue[sessions], n + 1)
    PROVE  Framed(n)
<1> DEFINE q == queue[sessions]
           open == mVideoEncoder = "open"
<1>1. /\ q \in Seq(Message) /\ q # <<>> /\ m = Head(q) /\ queue'[sessions'] = Tail(q)
      /\ n < Len(q) /\ Current("looping")
    BY HandledQueue
<1>2. CASE \E i \in 1..n + 1 : q[i].what = "FRAME"
    <2>1. m.what = "FRAME" \/ \E i \in 1..n : Tail(q)[i].what = "FRAME"
        BY <1>1, <1>2, TailKeeps
    <2>2. m.what = "FRAME" => mVideoEncoder' = "open" /\ fed'
        BY DEF Handled
    <2>3. QED
        BY <1>1, <2>1, <2>2 DEF Framed
<1>3. CASE open /\ fed
    <2>1. Shape(q, pc[GL].at = "sendQuit", open) /\ open \in BOOLEAN
        BY <1>1 DEF QueueInv
    <2>2. m.what # "START"
        BY <1>1, <1>3, <2>1, ShapeHead
    <2>3. m.what \in {"TEXTURE", "CONTEXT", "FRAME"}
        BY <2>2 DEF Message, MessageType, Handled
    <2>4. QED
        BY <1>3, <2>3 DEF Handled, Framed
<1>4. QED
    BY <1>2, <1>3 DEF HasFrame

\* A message posted behind every STOP, which is a STOP itself only if a frame is in
\* front of it.
LEMMA StopPosted ==
    ASSUME TypeOK, StopData, NEW m \in Message, NEW next, Posted(m, next),
           UNCHANGED zeroFrame,
           ~zeroFrame /\ m.what = "STOP" /\ Current("looping")
               /\ NoQuit(queue[sessions], Len(queue[sessions])) =>
                   HasFrame(queue[sessions], Len(queue[sessions]))
    PROVE  StopData'
<1> DEFINE q == queue[sessions]
           q2 == queue'[sessions']
<1>1. CASE ~Current("looping")
    <2>1. ~Current("looping")'
        BY <1>1 DEF Posted, Current
    <2>2. QED
        BY <2>1, StopIntro
<1>2. CASE Current("looping")
    <2>1. q \in Seq(Message) /\ Len(q) \in Nat /\ q2 = Append(q, m) /\ Len(q2) = Len(q) + 1
        BY <1>2, PostedQueue
    <2>2. ASSUME ~zeroFrame, NEW i \in 1..Len(q2), q2[i].what = "STOP", NoQuit(q2, i - 1)
          PROVE  Framed(i - 1)
        <3>1. i - 1 \in Nat /\ i - 1 <= Len(q)
            BY <2>1
        <3>2. NoQuit(q, i - 1)
            BY <2>1, <2>2, <3>1, AppendKeeps
        <3>3. HasFrame(q, i - 1)
            <4>1. CASE i = Len(q) + 1
                <5>1. m.what = "STOP" /\ i - 1 = Len(q)
                    BY <2>1, <2>2, <4>1, Appended
                <5>2. QED
                    BY <1>2, <2>2, <3>2, <5>1
            <4>2. CASE i # Len(q) + 1
                <5>1. i \in 1..Len(q) /\ q[i].what = "STOP"
                    BY <2>1, <2>2, <4>2, Appended
                <5>2. QED
                    BY <1>2, <2>2, <3>2, <5>1 DEF StopData
            <4>3. QED
                BY <4>1, <4>2
        <3>4. QED
            BY <1>2, <3>1, <3>3, PostedFrame
    <2>3. QED
        BY <2>2, StopIntro
<1>3. QED
    BY <1>1, <1>2

\* A message handled in front of them.
LEMMA StopHandled ==
    ASSUME TypeOK, QueueInv(GL), StopData, ~Starting(GL), NEW m \in Message, Handled(m),
           UNCHANGED zeroFrame
    PROVE  StopData'
<1> DEFINE q == queue[sessions]
           q2 == queue'[sessions']
<1>1. /\ q \in Seq(Message) /\ q # <<>> /\ m = Head(q) /\ q2 = Tail(q)
      /\ Len(q2) \in Nat /\ Len(q) = Len(q2) + 1 /\ Current("looping")
    BY HandledQueue
<1>2. ASSUME ~zeroFrame, NEW i \in 1..Len(q2), q2[i].what = "STOP", NoQuit(q2, i - 1)
      PROVE  Framed(i - 1)
    <2>1. m.what # "STOP"
        BY <1>2, StopLast
    <2>2. i - 1 \in Nat /\ i - 1 < Len(q) /\ i - 1 <= Len(q2) /\ (i - 1) + 1 = i /\ (i + 1) - 1 = i
        BY <1>1
    <2>3. NoQuit(q, i)
        <3>1. m.what # "QUIT"
            BY DEF Handled
        <3>2. NoQuit(q, (i - 1) + 1)
            BY <1>1, <1>2, <2>2, <3>1, TailKeeps
        <3>3. QED
            BY <2>2, <3>2
    <2>4. i + 1 \in 1..Len(q) /\ q[i + 1].what = "STOP"
        BY <1>2, HandledQueue
    <2>5. HasFrame(q, i)
        BY <1>1, <1>2, <2>2, <2>3, <2>4 DEF StopData
    <2>6. QED
        BY <2>1, <2>2, <2>5, HandledFrame
<1>3. QED
    BY <1>2, StopIntro

\* Where the messages, the encoder and what is known of the frames stay as they are.
LEMMA DataSame ==
    ASSUME UNCHANGED <<sessions, thread, queue, mVideoEncoder, fed, zeroFrame>>
    PROVE  /\ StopData => StopData'
           /\ HasFrame(queue[sessions], Len(queue[sessions])) => Framed(Len(queue'[sessions']))
BY DEF StopData, HasFrame, Framed, Current

\* Every step but a draw, a call and a message: the encoder and the history of its
\* frames stay as they are.
Aside ==
    \/ UNCHANGED vars
    \/ ProcessEnded
    \/ StartRecord
    \/ OnPause
    \/ OnResume
    \/ OutsideCamera
    \/ ChangeRecordingState
    \/ OnSurfaceCreated
    \/ ResizeSurface
    \/ OnSurfaceChanged
    \/ DrawSteady

LEMMA AsideSame ==
    ASSUME Aside
    PROVE  UNCHANGED <<encVars, zeroFrame>>
BY DEF Aside, vars, viewVars, screenVars, ProcessEnded, StartRecord, OnPause, OnResume,
       OutsideCamera, ChangeRecordingState, OnSurfaceCreated, ResizeSurface,
       OnSurfaceChanged, DrawSteady

\* Where a recording is started, none has been running or nothing changes.
LEMMA StartZero ==
    ASSUME TypeOK, OwnTypeOK, ThreadInv, DrawStart
    PROVE  /\ glStep' = "texture" /\ UNCHANGED exception /\ exception.kind = "none"
           /\ UNCHANGED <<encVars, zeroFrame>> \/ ~Current("looping")'
<1>1. StartRecording(GL, glContext) /\ zeroFrame' = (zeroFrame /\ mRunning) /\ glStep' = "texture"
    BY DEF DrawStart, DrawFrame
<1>2. exception.kind = "none"
    BY <1>1 DEF StartRecording, Idle, Alive, NoException
<1>3. zeroFrame \in BOOLEAN
    BY DEF OwnTypeOK
<1>4. CASE mRunning /\ UNCHANGED encVars
    BY <1>1, <1>2, <1>3, <1>4, EncoderSame
<1>5. CASE ~Current("looping")' /\ UNCHANGED exception
    BY <1>1, <1>2, <1>5
<1>6. QED
    BY <1>1, <1>4, <1>5, StartEffect

LEMMA StopStep ==
    ASSUME TypeOK, OwnTypeOK, ThreadInv, QueueInv(GL), PassInv, DataInv, [Next]_vars
    PROVE  StopData'
<1> USE ContextTyped DEF DataInv
<1>1. CASE UNCHANGED <<encVars, zeroFrame>>
    BY <1>1, EncoderSame, DataSame
<1>2. CASE ~Current("looping")'
    BY <1>2, StopIntro
<1>3. ASSUME Threw PROVE StopData'
    BY <1>2, <1>3 DEF Threw, Current
<1>4. ASSUME NEW what \in MessageType, what # "STOP", NEW arg \in Context0, NEW next,
             Posted([what |-> what, arg |-> arg], next), UNCHANGED zeroFrame
      PROVE  StopData'
    BY <1>4, MessageTyped, StopPosted
<1>5. CASE DrawStart
    BY <1>1, <1>2, <1>5, StartZero
<1>6. CASE DrawResume
    <2>1. Threw \/ Posted([what |-> "CONTEXT", arg |-> glContext], "idle")
        BY <1>6, SendEffect DEF DrawResume, UpdateSharedContext
    <2>2. QED
        BY <1>3, <1>4, <1>6, <2>1 DEF DrawResume, MessageType, OwnTypeOK
<1>7. CASE DrawStop
    <2> DEFINE m == [what |-> "STOP", arg |-> NoContext]
    <2>1. Threw \/ Posted(m, "sendQuit")
        BY <1>7, SendEffect DEF DrawStop, StopRecording
    <2>2. pc[GL].at = "idle" /\ glStep \in {"loop", "draw"} /\ UNCHANGED zeroFrame
        BY <1>7 DEF DrawStop, DrawFrame, GLIdle, StopRecording, Idle
    <2>3. ASSUME ~zeroFrame, Current("looping"), NoQuit(queue[sessions], Len(queue[sessions]))
          PROVE  HasFrame(queue[sessions], Len(queue[sessions]))
        <3>1. Recorded
            BY <2>2, <2>3 DEF Recorded, Starting
        <3>2. QED
            BY <2>2, <2>3, <3>1 DEF PassData
    <2>4. m \in Message
        BY MessageTyped DEF MessageType
    <2>5. QED
        BY <1>3, <2>1, <2>2, <2>3, <2>4, StopPosted
<1>8. CASE DrawTexture
    BY <1>8, DrawRecorded, DataSame DEF DrawTexture
<1>9. CASE DrawAvailable
    <2>1. zeroFrame' = (zeroFrame \/ ~latched)
        BY <1>9 DEF DrawAvailable
    <2>2. CASE zeroFrame'
        BY <2>2, StopIntro
    <2>3. CASE ~zeroFrame' /\ ~zeroFrame
        <3>1. UNCHANGED zeroFrame
            BY <2>1, <2>3 DEF OwnTypeOK
        <3>2. QED
            BY <1>9, <3>1, DrawRecorded, DataSame
    <2>4. QED
        BY <2>1, <2>2, <2>3
<1>10. CASE InsideEncoder
    <2>1. UNCHANGED zeroFrame
        BY <1>10 DEF InsideEncoder, viewVars, screenVars
    <2>2. CASE ContinueCall(GL) \/ WakeSpuriously(GL)
        <3>1. pc[GL].arg \in Context0
            BY ViewAssumption DEF TypeOK, CallerPC
        <3>2. CASE UNCHANGED <<sessions, thread, queue, encoderVars, exception>>
            BY <2>1, <3>2, DataSame DEF encoderVars
        <3>3. QED
            BY <1>3, <1>4, <2>1, <2>2, <3>1, <3>2, CallEffect DEF MessageType
    <2>3. ASSUME NEW t \in Sessions, EncoderThread(t) PROVE StopData'
        <3>1. CASE UNCHANGED <<sessions, thread, queue, encoderVars>>
            BY <2>1, <3>1, DataSame DEF encoderVars
        <3>2. CASE queue'[sessions'] = <<>>
            BY <3>2, EmptySeq, StopIntro
        <3>3. ASSUME NEW m \in Message, Handled(m) PROVE StopData'
            <4>1. ~Starting(GL)
                BY <3>3 DEF Handled, QueueInv
            <4>2. QED
                BY <2>1, <3>3, <4>1, StopHandled
        <3>4. QED
            BY <1>2, <2>3, <3>1, <3>2, <3>3, EncoderEffect
    <2>4. QED
        BY <1>10, <2>2, <2>3 DEF InsideEncoder
<1>11. CASE Aside
    BY <1>1, <1>11, AsideSame
<1>12. QED
    BY <1>5, <1>6, <1>7, <1>8, <1>9, <1>10, <1>11 DEF Next, OnDrawFrame, Aside

LEMMA PassDataStep ==
    ASSUME TypeOK, OwnTypeOK, ThreadInv, QueueInv(GL), PassInv, DataInv, [Next]_vars
    PROVE  PassData'
<1> USE ContextTyped DEF DataInv
<1> DEFINE q == queue[sessions]
           q2 == queue'[sessions']
<1>1. CASE ~Recorded' \/ glStep' \notin {"loop", "changed", "draw"} \/ pc'[GL].at # "idle"
    BY <1>1, PassIntro
<1>2. CASE /\ UNCHANGED <<encVars, zeroFrame>>
           /\ pc[GL].at = "idle" /\ glStep' \in {"loop", "changed", "draw"} =>
                  glStep \in {"loop", "changed", "draw"}
    <2>1. ASSUME ~zeroFrame', Recorded', pc'[GL].at = "idle",
                 glStep' \in {"loop", "changed", "draw"}
          PROVE  Framed(Len(q2))
        BY <1>2, <2>1, EncoderSame, DataSame DEF PassData
    <2>2. QED
        BY <2>1, PassIntro
<1>3. CASE DrawStart \/ DrawResume \/ DrawStop \/ DrawTexture
    BY <1>1, <1>3 DEF DrawStart, DrawResume, DrawStop, DrawTexture, DrawFrame
<1>4. CASE DrawAvailable
    <2>1. Recorded' => mReady
        BY <1>4, DrawRecorded, BoundsAssumption DEF Recorded, ThreadInv, Current
    <2>2. mReady /\ latched => pc'[GL].at = "sendFrame"
        BY <1>4, ViewAssumption DEF DrawAvailable, FrameAvailable, Goto, TypeOK
    <2>3. ~latched => zeroFrame'
        BY <1>4 DEF DrawAvailable
    <2>4. QED
        BY <2>1, <2>2, <2>3, PassIntro
<1>5. CASE InsideEncoder
    <2>1. UNCHANGED <<zeroFrame, glStep>>
        BY <1>5 DEF InsideEncoder, viewVars, screenVars
    <2>2. CASE ContinueCall(GL) \/ WakeSpuriously(GL)
        <3>1. CASE /\ pc[GL].at = "sendFrame"
                   /\ Posted([what |-> "FRAME", arg |-> NoContext], "idle")
            <4> DEFINE m == [what |-> "FRAME", arg |-> NoContext]
            <4>1. m \in Message
                BY MessageTyped DEF MessageType
            <4>2. ASSUME Recorded' PROVE Framed(Len(q2))
                <5>1. Current("looping")
                    BY <3>1, <4>2 DEF Recorded, Posted, Current
                <5>2. /\ q \in Seq(Message) /\ q2 = Append(q, m) /\ Len(q2) = Len(q) + 1
                      /\ Len(q) \in Nat
                    BY <3>1, <4>1, <5>1, PostedQueue
                <5>3. q2[Len(q2)].what = "FRAME" /\ Len(q2) \in 1..Len(q2)
                    BY <4>1, <5>2, Appended
                <5>4. QED
                    BY <5>3 DEF Framed
            <4>3. QED
                BY <4>2, PassIntro
        <3>2. CASE pc[GL].at \in {"sendStart", "sendQuit", "sendTexture"}
            BY <1>1, <2>1, <3>2 DEF PassInv, Starting
        <3>3. CASE Threw
            BY <1>1, <3>3, NothingRecorded
        <3>4. CASE /\ UNCHANGED <<sessions, thread, queue, encoderVars, exception>>
                   /\ pc' = pc \/ Starting(GL)'
            <4>1. CASE Starting(GL)'
                BY <1>1, <4>1 DEF Recorded, Starting
            <4>2. CASE pc' = pc
                <5>1. Recorded' <=> Recorded
                    BY <3>4, <4>2 DEF Recorded, Current, Starting
                <5>2. HasFrame(q, Len(q)) => Framed(Len(q2))
                    BY <2>1, <3>4, DataSame DEF encoderVars
                <5>3. QED
                    BY <2>1, <4>2, <5>1, <5>2, PassIntro DEF PassData
            <4>3. QED
                BY <3>4, <4>1, <4>2
        <3>5. QED
            BY <2>2, <3>1, <3>2, <3>3, <3>4, CallEffect
    <2>3. ASSUME NEW t \in Sessions, EncoderThread(t) PROVE PassData'
        <3>1. pc' = pc
            BY <2>3, EncoderEffect
        <3>2. CASE UNCHANGED <<sessions, thread, queue, encoderVars>>
            <4>1. Recorded' <=> Recorded
                BY <3>1, <3>2 DEF Recorded, Current, Starting
            <4>2. HasFrame(q, Len(q)) => Framed(Len(q2))
                BY <2>1, <3>2, DataSame DEF encoderVars
            <4>3. QED
                BY <2>1, <3>1, <4>1, <4>2, PassIntro DEF PassData
        <3>3. CASE Starting(GL) \/ ~Current("looping")'
            BY <1>1, <3>1, <3>3 DEF Recorded, Starting
        <3>4. ASSUME NEW m \in Message, Handled(m) PROVE PassData'
            <4>1. ~Starting(GL)
                BY <3>4 DEF Handled, QueueInv
            <4>2. Recorded' => Recorded /\ m.what # "STOP"
                BY <3>1, <3>4, HandledRecorded
            <4>3. Len(q2) \in Nat /\ Len(q2) <= Len(q2) /\ Len(q) = Len(q2) + 1
                BY <3>4, HandledQueue
            <4>4. m.what # "STOP" /\ HasFrame(q, Len(q)) => Framed(Len(q2))
                BY <3>4, <4>1, <4>3, HandledFrame
            <4>5. QED
                BY <2>1, <3>1, <4>2, <4>4, PassIntro DEF PassData
        <3>5. QED
            BY <2>3, <3>2, <3>3, <3>4, EncoderEffect
    <2>4. QED
        BY <1>5, <2>2, <2>3 DEF InsideEncoder
<1>6. CASE DrawSteady
    BY <1>1, <1>6 DEF DrawSteady, DrawFrame
<1>7. CASE Aside /\ ~DrawSteady
    <2>1. UNCHANGED <<encVars, zeroFrame>>
        BY <1>7, AsideSame
    <2>2. glStep' = glStep \/ glStep = "loop" \/ glStep = "changed"
        BY <1>7 DEF Aside, vars, viewVars, screenVars, ProcessEnded, StartRecord, OnPause,
                    OnResume, OutsideCamera, ChangeRecordingState, OnSurfaceCreated,
                    ResizeSurface, OnSurfaceChanged, GLIdle
    <2>3. QED
        BY <1>2, <2>1, <2>2
<1>8. QED
    BY <1>3, <1>4, <1>5, <1>6, <1>7 DEF Next, OnDrawFrame, Aside

LEMMA NoDataStep ==
    ASSUME TypeOK, OwnTypeOK, ThreadInv, QueueInv(GL), DataInv, [Next]_vars
    PROVE  NoDataOnlyAfterZeroFrame'
<1> USE DEF DataInv, NoDataOnlyAfterZeroFrame
<1>1. CASE UNCHANGED <<encVars, zeroFrame>>
    BY <1>1, EncoderSame
<1>2. ASSUME zeroFrame => zeroFrame', UNCHANGED exception \/ exception'.kind = "NullHandler"
      PROVE  NoDataOnlyAfterZeroFrame'
    BY <1>2
<1>3. ASSUME NEW m, NEW next, Posted(m, next) \/ Threw
      PROVE  UNCHANGED exception \/ exception'.kind = "NullHandler"
    BY <1>3 DEF Posted, Threw
<1>4. CASE DrawStart
    BY <1>4, StartZero
<1>5. CASE DrawResume
    BY <1>2, <1>3, <1>5, SendEffect DEF DrawResume, UpdateSharedContext
<1>6. CASE DrawStop
    BY <1>2, <1>3, <1>6, SendEffect DEF DrawStop, StopRecording
<1>7. CASE DrawTexture
    BY <1>2, <1>7, DrawRecorded DEF DrawTexture
<1>8. CASE DrawAvailable
    BY <1>2, <1>8, DrawRecorded DEF DrawAvailable
<1>9. CASE InsideEncoder
    <2>1. UNCHANGED zeroFrame
        BY <1>9 DEF InsideEncoder, viewVars, screenVars
    <2>2. CASE ContinueCall(GL) \/ WakeSpuriously(GL)
        BY <1>2, <1>3, <2>1, <2>2, CallEffect
    <2>3. ASSUME NEW t \in Sessions, EncoderThread(t) PROVE NoDataOnlyAfterZeroFrame'
        <3>1. CASE UNCHANGED exception
            BY <2>1, <3>1
        <3>2. ASSUME Current("looping"), queue[sessions] # <<>>,
                     Head(queue[sessions]).what = "STOP", ~fed
              PROVE  zeroFrame
            <4>1. queue[sessions] \in Seq(Message)
                BY <3>2, BoundsAssumption DEF Current, TypeOK, Sessions
            <4>2. 1 \in 1..Len(queue[sessions]) /\ queue[sessions][1].what = "STOP"
                BY <3>2, <4>1, Taken
            <4>3. NoQuit(queue[sessions], 1 - 1) /\ ~HasFrame(queue[sessions], 1 - 1)
                BY <3>2 DEF NoQuit, HasFrame
            <4>4. QED
                BY <3>2, <4>2, <4>3 DEF StopData
        <3>3. CASE exception'.kind = "NoData" =>
                       /\ Current("looping") /\ queue[sessions] # <<>>
                       /\ Head(queue[sessions]).what = "STOP" /\ ~fed
            BY <2>1, <3>2, <3>3
        <3>4. CASE \E m \in Message : Handled(m)
            BY <3>1, <3>4 DEF Handled
        <3>5. QED
            BY <2>3, <3>1, <3>3, <3>4, EncoderEffect
    <2>4. QED
        BY <1>9, <2>2, <2>3 DEF InsideEncoder
<1>10. CASE Aside
    BY <1>1, <1>10, AsideSame
<1>11. QED
    BY <1>4, <1>5, <1>6, <1>7, <1>8, <1>9, <1>10 DEF Next, OnDrawFrame, Aside
-----------------------------------------------------------------------------
\* What the view relies on when it posts: where it is in its pass, what it has
\* posted, and what the encoder will have made of it when it comes to a message.
RecordingInv == PassInv /\ StatusInv /\ PostedInv /\ FrameInv /\ DataInv

LEMMA RecordingInit == Init => RecordingInv
<1> SUFFICES ASSUME Init PROVE RecordingInv
    OBVIOUS
<1>1. ~Current("looping") /\ ~Recorded
    BY DEF Init, EncInit, Current, Recorded
<1>2. pc[GL].at = "idle" /\ exception.kind = "none"
    BY ViewAssumption DEF Init, EncInit, NoException
<1>3. PassInv
    BY <1>2 DEF Init, PassInv, Starting
<1>4. QED
    BY <1>1, <1>2, <1>3
       DEF RecordingInv, StatusInv, PostedInv, FrameInv, DataInv, PassData, StopData,
           NoDataOnlyAfterZeroFrame

LEMMA RecordingStep ==
    ASSUME TypeOK, OwnTypeOK, ThreadInv, QueueInv(GL), RecordingInv, [Next]_vars
    PROVE  RecordingInv'
BY PassStep, StatusStep, PostedStep, FrameStep, StopStep, PassDataStep, NoDataStep
   DEF RecordingInv, DataInv

LEMMA RecordingCorrect ==
    Spec => [](TypeOK /\ OwnTypeOK /\ ThreadInv /\ QueueInv(GL) /\ RecordingInv)
<1>1. EncInit => TypeOK /\ ThreadInv /\ QueueInv(GL)
    BY TypeInit, ThreadInit, QueueInit, ViewAssumption
<1>2. TypeOK /\ ThreadInv /\ QueueInv(GL) /\ [EncNext]_encVars
          => (TypeOK /\ ThreadInv /\ QueueInv(GL))'
    BY TypeStep, ThreadStep, QueueStep, ViewAssumption
<1>3. EncSpec => [](TypeOK /\ ThreadInv /\ QueueInv(GL))
    BY <1>1, <1>2, PTL DEF EncSpec
<1>4. ViewInv => OwnTypeOK
    BY DEF ViewInv
<1>5. TypeOK /\ OwnTypeOK /\ ThreadInv /\ QueueInv(GL) /\ RecordingInv /\ [Next]_vars
          => RecordingInv'
    BY RecordingStep
<1>6. QED
    BY <1>3, <1>4, <1>5, RecordingInit, ViewCorrect, ViewImplementsEncoder, PTL DEF Spec

\* However long its queue is, the encoder draws each frame with the texture of the
\* context it shares: no surface that comes in between gets an old texture drawn.
THEOREM FramesInTheirContext == Spec => []FrameContextCurrent
<1>1. TypeOK /\ ThreadInv /\ FrameInv => FrameContextCurrent
    <2> SUFFICES ASSUME TypeOK, ThreadInv, FrameInv, NEW t \in Sessions, queue[t] # <<>>,
                        Head(queue[t]).what = "FRAME"
                 PROVE  mTextureId = mEglCore
        BY DEF FrameContextCurrent
    <2>1. t = sessions /\ Current("looping")
        BY LiveIsCurrent DEF ThreadInv, Current
    <2>2. queue[t] \in Seq(Message)
        BY DEF TypeOK
    <2>3. 1 \in 1..Len(queue[t]) /\ queue[t][1].what = "FRAME"
        BY <2>2, Taken
    <2>4. NoQuit(queue[t], 1 - 1)
        BY DEF NoQuit
    <2>5. PICK x \in Context0 : TextureIs(queue[t], 1 - 1, x) /\ ContextIs(queue[t], 1 - 1, x)
        BY <2>1, <2>3, <2>4 DEF FrameInv
    <2>6. mTextureId = x /\ mEglCore = x
        BY <2>5 DEF TextureIs, ContextIs, LastIs
    <2>7. QED
        BY <2>6
<1>2. QED
    BY <1>1, RecordingCorrect, PTL DEF RecordingInv

\* A view that takes its recording for over has told the encoder thread to quit.
THEOREM RecordingsEnded == Spec => []NoOrphanRecording
<1>1. TypeOK /\ ThreadInv /\ StatusInv => NoOrphanRecording
    <2> SUFFICES ASSUME TypeOK, ThreadInv, StatusInv, mRecordingStatus \in {"init", "off"},
                        pc[GL].at = "idle", NEW t \in Sessions, thread[t] = "looping"
                 PROVE  \E i \in DOMAIN queue[t] : queue[t][i].what = "QUIT"
        BY DEF NoOrphanRecording
    <2>1. t = sessions /\ Current("looping")
        BY LiveIsCurrent DEF Current
    <2>2. ~NoQuit(queue[t], Len(queue[t]))
        BY <2>1 DEF StatusInv, Recorded, Starting
    <2>3. DOMAIN queue[t] = 1..Len(queue[t])
        BY LenProperties DEF TypeOK
    <2>4. QED
        BY <2>2, <2>3 DEF NoQuit
<1>2. QED
    BY <1>1, RecordingCorrect, PTL DEF RecordingInv

\* A recording ends for want of data only if a frame of it was ignored.
THEOREM RecordingsGetData == Spec => []NoDataOnlyAfterZeroFrame
BY RecordingCorrect, PTL DEF RecordingInv, DataInv
-----------------------------------------------------------------------------
(* The messages that count.                                                 *)

\* Every set of natural numbers has a least one.
LEMMA LeastNatural ==
    ASSUME NEW S, S \subseteq Nat, S # {}
    PROVE  \E n \in S : \A m \in S : n <= m
<1> DEFINE R == OpToRel(<, Nat)
<1>1. IsWellFoundedOn(R, Nat)
    BY NatLessThanWellFounded, Zenon
<1>2. \A m, n \in Nat : m < n => <<m, n>> \in R
    BY DEF OpToRel
<1> HIDE DEF R
<1>3. PICK n \in S : \A m \in S : <<m, n>> \notin R
    BY <1>1, WFMin
<1>4. ASSUME NEW m \in S PROVE n <= m
    <2>1. m \in Nat /\ n \in Nat /\ ~(m < n)
        BY <1>2, <1>3
    <2>2. QED
        BY <2>1
<1>5. QED
    BY <1>4

Splits(q, n) == n \in 0..Len(q) /\ QuitBehind(q, n)

\* In terms of NoQuit.
LEMMA SplitsIs ==
    ASSUME NEW q, NEW n
    PROVE  Splits(q, n) <=>
               /\ n \in 0..Len(q)
               /\ NoQuit(q, n)
               /\ n < Len(q) => q[n + 1].what = "QUIT"
BY DEF Splits, QuitBehind, NoQuit

LEMMA SplitExists ==
    ASSUME NEW q \in Seq(Message)
    PROVE  \E n \in Nat : Splits(q, n)
<1> DEFINE S == {n \in Nat : n < Len(q) /\ q[n + 1].what = "QUIT"}
<1>1. Len(q) \in Nat
    BY LenProperties
<1>2. CASE S = {}
    <2>1. ASSUME NEW i \in 1..Len(q) PROVE q[i].what # "QUIT"
        <3>1. i - 1 \in Nat /\ i - 1 < Len(q) /\ (i - 1) + 1 = i
            BY <1>1
        <3>2. QED
            BY <1>2, <3>1
    <2>2. QED
        BY <1>1, <2>1, SplitsIs DEF NoQuit
<1>3. CASE S # {}
    <2>1. PICK n \in S : \A m \in S : n <= m
        BY <1>3, LeastNatural
    <2>2. n \in Nat /\ n < Len(q) /\ q[n + 1].what = "QUIT"
        BY <2>1
    <2>3. ASSUME NEW i \in 1..n PROVE q[i].what # "QUIT"
        <3>1. i - 1 \in Nat /\ i - 1 < Len(q) /\ (i - 1) + 1 = i /\ ~(n <= i - 1)
            BY <1>1, <2>2
        <3>2. QED
            BY <2>1, <3>1
    <2>4. QED
        BY <1>1, <2>2, <2>3, SplitsIs DEF NoQuit
<1>4. QED
    BY <1>2, <1>3

LEMMA SplitUnique ==
    ASSUME NEW q \in Seq(Message), NEW n, NEW m, Splits(q, n), Splits(q, m)
    PROVE  n = m
<1>1. Len(q) \in Nat
    BY LenProperties
<1>2. ASSUME NEW k \in Nat, NEW l \in Nat, Splits(q, k), Splits(q, l), k < l PROVE FALSE
    <2>1. k < Len(q) /\ k + 1 \in 1..l
        BY <1>1, <1>2, SplitsIs
    <2>2. QED
        BY <1>2, <2>1, SplitsIs DEF NoQuit
<1>3. n \in Nat /\ m \in Nat
    BY <1>1, SplitsIs
<1>4. QED
    BY <1>2, <1>3

LEMMA Prefix ==
    ASSUME NEW q \in Seq(Message), NEW n \in 0..Len(q)
    PROVE  /\ SubSeq(q, 1, n) \in Seq(Message) /\ Len(SubSeq(q, 1, n)) = n
           /\ \A i \in 1..n : SubSeq(q, 1, n)[i] = q[i]
<1>1. Len(q) \in Nat /\ \A i \in 1..Len(q) : q[i] \in Message
    BY LenProperties, ElementOfSeq
<1>2. 1 \in Int /\ n \in Int /\ \A i \in 1..n : q[i] \in Message
    BY <1>1
<1>3. /\ SubSeq(q, 1, n) \in Seq(Message)
      /\ Len(SubSeq(q, 1, n)) = IF 1 <= n THEN n - 1 + 1 ELSE 0
      /\ \A i \in 1..n - 1 + 1 : SubSeq(q, 1, n)[i] = q[1 + i - 1]
    BY <1>2, SubSeqProperties
<1>4. (IF 1 <= n THEN n - 1 + 1 ELSE 0) = n /\ n - 1 + 1 = n /\ \A i \in 1..n : 1 + i - 1 = i
    BY <1>1
<1>5. QED
    BY <1>3, <1>4

LEMMA BeforeQuitIs ==
    ASSUME NEW q \in Seq(Message), NEW n, Splits(q, n)
    PROVE  BeforeQuit(q) = SubSeq(q, 1, n)
<1>1. n \in 0..Len(q) /\ QuitBehind(q, n)
    BY DEF Splits
<1>2. \A k \in 0..Len(q) : QuitBehind(q, k) => k = n
    BY SplitUnique DEF Splits
<1>3. (CHOOSE k \in 0..Len(q) : QuitBehind(q, k)) = n
    BY <1>1, <1>2
<1>4. QED
    BY <1>3 DEF BeforeQuit

\* Without QUIT they are all of them.
LEMMA BeforeQuitAll ==
    ASSUME NEW q \in Seq(Message), NoQuit(q, Len(q))
    PROVE  BeforeQuit(q) = q
<1>1. Len(q) \in Nat
    BY LenProperties
<1>2. Splits(q, Len(q))
    BY <1>1, SplitsIs
<1>3. SubSeq(q, 1, Len(q)) = q
    BY SubSeqFull
<1>4. QED
    BY <1>2, <1>3, BeforeQuitIs

LEMMA BeforeQuitEmpty == BeforeQuit(<<>>) = <<>>
<1>1. <<>> \in Seq(Message) /\ Len(<<>>) = 0
    BY EmptySeq
<1>2. NoQuit(<<>>, Len(<<>>))
    BY <1>1 DEF NoQuit
<1>3. QED
    BY <1>1, <1>2, BeforeQuitAll

\* QUIT and what is posted behind it add nothing.
LEMMA BeforeQuitAppend ==
    ASSUME NEW q \in Seq(Message), NEW m \in Message,
           m.what = "QUIT" \/ ~NoQuit(q, Len(q))
    PROVE  BeforeQuit(Append(q, m)) = BeforeQuit(q)
<1>1. PICK n \in Nat : Splits(q, n)
    BY SplitExists
<1>2. n \in 0..Len(q) /\ Len(q) \in Nat /\ NoQuit(q, n)
    BY <1>1, LenProperties, SplitsIs
<1>3. Append(q, m) \in Seq(Message) /\ Len(Append(q, m)) = Len(q) + 1
    BY AppendProperties
<1>4. \A i \in 1..Len(q) : Append(q, m)[i] = q[i]
    BY Appended
<1>5. Append(q, m)[n + 1].what = "QUIT"
    <2>1. CASE n < Len(q)
        <3>1. n + 1 \in 1..Len(q)
            BY <1>2, <2>1
        <3>2. QED
            BY <1>1, <1>4, <2>1, <3>1, SplitsIs
    <2>2. CASE n = Len(q)
        <3>1. m.what = "QUIT"
            BY <1>2, <2>2
        <3>2. QED
            BY <2>2, <3>1, Appended
    <2>3. QED
        BY <1>2, <2>1, <2>2
<1>6. NoQuit(Append(q, m), n)
    BY <1>2, AppendKeeps
<1>7. Splits(Append(q, m), n)
    <2>1. n \in 0..Len(Append(q, m))
        BY <1>2, <1>3
    <2>2. QED
        BY <1>5, <1>6, <2>1, SplitsIs
<1>8. SubSeq(Append(q, m), 1, n) = SubSeq(q, 1, n)
    <2>1. \A i \in 1..n : i \in 1..Len(q)
        BY <1>2
    <2>2. \A i \in 1..n : Append(q, m)[i] = q[i]
        BY <1>4, <2>1
    <2>3. n \in 0..Len(Append(q, m))
        BY <1>2, <1>3
    <2> DEFINE a == SubSeq(Append(q, m), 1, n)
               b == SubSeq(q, 1, n)
    <2>4. /\ a \in Seq(Message) /\ Len(a) = n
          /\ \A i \in 1..n : a[i] = Append(q, m)[i]
        BY <1>3, <2>3, Prefix
    <2>5. b \in Seq(Message) /\ Len(b) = n /\ \A i \in 1..n : b[i] = q[i]
        BY <1>2, Prefix
    <2> HIDE DEF a, b
    <2>6. a = b
        BY <2>2, <2>4, <2>5, SeqEqual
    <2>7. QED
        BY <2>6 DEF a, b
<1>9. QED
    BY <1>1, <1>3, <1>7, <1>8, BeforeQuitIs

\* A message that is handled is the first of them.
LEMMA BeforeQuitTail ==
    ASSUME NEW q \in Seq(Message), q # <<>>, Head(q).what # "QUIT"
    PROVE  BeforeQuit(q) # <<>> /\ BeforeQuit(Tail(q)) = Tail(BeforeQuit(q))
<1>1. PICK n \in Nat : Splits(q, n)
    BY SplitExists
<1>2. /\ Len(q) \in Nat \ {0} /\ Head(q) = q[1] /\ Tail(q) \in Seq(Message)
      /\ Len(Tail(q)) = Len(q) - 1
      /\ \A i \in 1..Len(Tail(q)) : Tail(q)[i] = q[i + 1]
    BY Taken
<1>3. n \in 1..Len(q)
    BY <1>1, <1>2, SplitsIs
<1>4. Splits(Tail(q), n - 1)
    <2>1. n - 1 \in 0..Len(Tail(q)) /\ n - 1 \in Nat /\ n - 1 < Len(q) /\ (n - 1) + 1 = n
        BY <1>2, <1>3
    <2>2. NoQuit(Tail(q), n - 1)
        BY <1>1, <2>1, TailKeeps, SplitsIs
    <2>3. n - 1 < Len(Tail(q)) => n \in 1..Len(Tail(q)) /\ n < Len(q)
        BY <1>2, <1>3
    <2>4. n - 1 < Len(Tail(q)) => Tail(q)[(n - 1) + 1].what = "QUIT"
        BY <1>1, <1>2, <2>1, <2>3, SplitsIs
    <2>5. QED
        BY <2>1, <2>2, <2>4, SplitsIs
<1>5. BeforeQuit(q) = SubSeq(q, 1, n) /\ BeforeQuit(Tail(q)) = SubSeq(Tail(q), 1, n - 1)
    BY <1>1, <1>2, <1>4, BeforeQuitIs
<1> DEFINE s == SubSeq(q, 1, n)
           u == SubSeq(Tail(q), 1, n - 1)
<1>6. /\ s \in Seq(Message) /\ Len(s) = n
      /\ \A i \in 1..n : s[i] = q[i]
    BY <1>3, Prefix
<1>7. /\ u \in Seq(Message) /\ Len(u) = n - 1
      /\ \A i \in 1..n - 1 : u[i] = Tail(q)[i]
    <2>1. n - 1 \in 0..Len(Tail(q))
        BY <1>2, <1>3
    <2>2. QED
        BY <1>2, <2>1, Prefix
<1> HIDE DEF s, u
<1>8. s # <<>> /\ Tail(s) \in Seq(Message) /\ Len(Tail(s)) = n - 1
      /\ \A i \in 1..n - 1 : Tail(s)[i] = s[i + 1]
    <2>1. s # <<>>
        BY <1>3, <1>6, EmptySeq
    <2>2. QED
        BY <1>6, <2>1, Taken
<1>9. ASSUME NEW i \in 1..n - 1 PROVE u[i] = Tail(s)[i]
    <2>1. i \in 1..Len(Tail(q)) /\ i + 1 \in 1..n
        BY <1>2, <1>3
    <2>2. QED
        BY <1>2, <1>6, <1>7, <1>8, <2>1
<1>10. u = Tail(s)
    BY <1>7, <1>8, <1>9, SeqEqual
<1>11. QED
    BY <1>5, <1>8, <1>10 DEF s, u

\* A first message that is QUIT leaves none.
LEMMA BeforeQuitNone ==
    ASSUME NEW q \in Seq(Message), q # <<>>, Head(q).what = "QUIT"
    PROVE  BeforeQuit(q) = <<>>
<1>1. Splits(q, 0)
    BY Taken, SplitsIs DEF NoQuit
<1>2. SubSeq(q, 1, 0) = <<>>
    BY SubSeqEmpty
<1>3. QED
    BY <1>1, <1>2, BeforeQuitIs
-----------------------------------------------------------------------------
(* The view as the GL thread of EncoderMessages.                            *)

\* The last post in q gives the context.
LEMMA LastContextIs ==
    ASSUME NEW q \in Seq(Message), NEW before, NEW x,
           LastIs(q, Len(q), {"START", "CONTEXT"}, before, x)
    PROVE  LastContext(q, before) = x
<1> DEFINE posts == {i \in DOMAIN q : q[i].what \in {"START", "CONTEXT"}}
<1>1. DOMAIN q = 1..Len(q) /\ Len(q) \in Nat
    BY LenProperties
<1>2. CASE before = x /\ \A i \in 1..Len(q) : q[i].what \notin {"START", "CONTEXT"}
    BY <1>1, <1>2 DEF LastContext
<1>3. ASSUME NEW i \in 1..Len(q), q[i].what \in {"START", "CONTEXT"}, q[i].arg = x,
             \A j \in i + 1..Len(q) : q[j].what \notin {"START", "CONTEXT"}
      PROVE  LastContext(q, before) = x
    <2>1. i \in posts /\ posts \subseteq 1..Len(q)
        BY <1>1, <1>3
    <2>2. ASSUME NEW j \in posts PROVE j <= i
        BY <1>1, <1>3
    <2>3. LastContext(q, before) =
              IF posts = {} THEN before ELSE q[CHOOSE k \in posts : \A j \in posts : j <= k].arg
        BY DEF LastContext
    <2> HIDE DEF posts
    <2>4. \A k \in posts : (\A j \in posts : j <= k) => k = i
        <3> SUFFICES ASSUME NEW k \in posts, \A j \in posts : j <= k PROVE k = i
            OBVIOUS
        <3>1. i <= k /\ k <= i /\ k \in Nat /\ i \in Nat
            BY <1>1, <2>1, <2>2
        <3>2. QED
            BY <3>1
    <2>5. (CHOOSE k \in posts : \A j \in posts : j <= k) = i
        BY <2>1, <2>2, <2>4
    <2>6. QED
        BY <1>3, <2>1, <2>3, <2>5
<1>4. QED
    BY <1>2, <1>3 DEF LastIs

\* There is a last post, or there is none.
LEMMA SomeLast ==
    ASSUME NEW q \in Seq(Message), NEW types, NEW before, NEW S,
           \A i \in 1..Len(q) : q[i].what \in types => q[i].arg \in S,
           before \in S \/ \E i \in 1..Len(q) : q[i].what \in types
    PROVE  \E x \in S : LastIs(q, Len(q), types, before, x)
<1> DEFINE D == {n \in Nat : n < Len(q) /\ q[Len(q) - n].what \in types}
<1>1. Len(q) \in Nat
    BY LenProperties
<1>2. CASE \A i \in 1..Len(q) : q[i].what \notin types
    BY <1>2 DEF LastIs
<1>3. ASSUME NEW k \in 1..Len(q), q[k].what \in types
      PROVE  \E x \in S : LastIs(q, Len(q), types, before, x)
    <2>1. Len(q) - k \in D
        <3>1. Len(q) - k \in Nat /\ Len(q) - k < Len(q) /\ Len(q) - (Len(q) - k) = k
            BY <1>1
        <3>2. QED
            BY <1>3, <3>1
    <2>2. PICK n \in D : \A m \in D : n <= m
        BY <2>1, LeastNatural
    <2> DEFINE i == Len(q) - n
    <2>3. n \in Nat /\ n < Len(q) /\ q[i].what \in types
        BY <2>2
    <2>4. i \in 1..Len(q)
        BY <1>1, <2>3
    <2>5. ASSUME NEW j \in i + 1..Len(q) PROVE q[j].what \notin types
        <3>1. Len(q) - j \in Nat /\ Len(q) - j < Len(q) /\ Len(q) - (Len(q) - j) = j
              /\ ~(n <= Len(q) - j)
            BY <1>1, <2>3
        <3>2. Len(q) - j \notin D
            BY <2>2, <3>1
        <3>3. QED
            BY <3>1, <3>2
    <2>6. q[i].arg \in S
        BY <2>3, <2>4
    <2> HIDE DEF i
    <2>7. QED
        BY <2>3, <2>4, <2>5, <2>6 DEF LastIs
<1>4. QED
    BY <1>2, <1>3

\* A recording shares a context with the encoder.
SharedInv == Recorded => \E x \in Contexts : ContextIs(queue[sessions], Len(queue[sessions]), x)

LEMMA SharedHolds ==
    ASSUME TypeOK, QueueInv(GL), ContextInv
    PROVE  SharedInv
<1> SUFFICES ASSUME Recorded
             PROVE  \E x \in Contexts : ContextIs(queue[sessions], Len(queue[sessions]), x)
    BY DEF SharedInv
<1> DEFINE q == queue[sessions]
           open == mVideoEncoder = "open"
<1>1. sessions \in Sessions /\ q \in Seq(Message) /\ Len(q) \in Nat
    BY BoundsAssumption, LenProperties DEF Recorded, Current, TypeOK, Sessions
<1>2. \A i \in 1..Len(q) : q[i].what \in {"START", "CONTEXT"} => q[i].arg \in Contexts
    BY <1>1 DEF ContextInv
<1>3. Shape(q, FALSE, open) /\ NoQuit(q, Len(q))
    BY DEF Recorded, QueueInv
<1>4. mEglCore \in Contexts \/ \E i \in 1..Len(q) : q[i].what \in {"START", "CONTEXT"}
    <2>1. CASE open
        BY <2>1 DEF ContextInv
    <2>2. CASE ~open
        <3>1. Len(q) # 0 /\ q[1].what \in {"START", "QUIT"}
            BY <1>3, <2>2 DEF Shape
        <3>2. 1 \in 1..Len(q)
            BY <1>1, <3>1
        <3>3. QED
            BY <1>3, <3>1, <3>2 DEF NoQuit
    <2>3. QED
        BY <2>1, <2>2
<1> HIDE DEF q
<1>5. \E x \in Contexts : LastIs(q, Len(q), {"START", "CONTEXT"}, mEglCore, x)
    BY <1>1, <1>2, <1>4, SomeLast
<1>6. QED
    BY <1>5 DEF ContextIs, q

\* Inside a pass of its loop, or inside a call, the GL thread has its surface ...
AliveInv == glStep # "loop" \/ pc[GL].at # "idle" => hasSurface

\* ... and what it is about to post finds room.
RoomInv ==
    pc[GL].at \in {"sendTexture", "sendFrame"} /\ Current("looping") =>
        Len(queue[sessions]) < MaxQueue

LEMMA AliveStep ==
    ASSUME TypeOK, ThreadInv, QueueInv(GL), AliveInv, [Next]_vars
    PROVE  AliveInv'
<1> USE DEF AliveInv
<1>1. CASE UNCHANGED vars \/ ProcessEnded
    BY <1>1 DEF ProcessEnded, vars, encVars, viewVars, screenVars, surfaceVars
<1>2. CASE StartRecord \/ OnResume \/ OutsideCamera \/ ChangeRecordingState
    BY <1>2 DEF StartRecord, OnResume, OutsideCamera, ChangeRecordingState, encVars,
                screenVars, surfaceVars
<1>3. CASE OnPause
    BY <1>3 DEF OnPause, GLIdle, encVars
<1>4. CASE OnSurfaceCreated \/ ResizeSurface
    BY <1>4 DEF OnSurfaceCreated, ResizeSurface, surfaceVars
<1>5. CASE OnSurfaceChanged
    BY <1>5 DEF OnSurfaceChanged, surfaceVars
<1>6. CASE DrawStart \/ DrawResume \/ DrawStop \/ DrawSteady
    BY <1>6 DEF DrawStart, DrawResume, DrawStop, DrawSteady, DrawFrame, surfaceVars
<1>7. CASE DrawTexture \/ DrawAvailable
    BY <1>7 DEF DrawTexture, DrawAvailable, surfaceVars
<1>8. CASE InsideEncoder
    <2>1. UNCHANGED <<glStep, hasSurface>>
        BY <1>8 DEF InsideEncoder, viewVars, screenVars, surfaceVars
    <2>2. CASE ContinueCall(GL)
        <3>1. pc[GL].at # "idle"
            BY <2>2 DEF ContinueCall, AwaitReady, SendStart, SendQuit, SendTexture, SendFrame, At
        <3>2. QED
            BY <2>1, <3>1
    <2>3. CASE WakeSpuriously(GL)
        BY <2>1, <2>3 DEF WakeSpuriously
    <2>4. ASSUME NEW t \in Sessions, EncoderThread(t) PROVE AliveInv'
        BY <2>1, <2>4, EncoderEffect
    <2>5. QED
        BY <1>8, <2>2, <2>3, <2>4 DEF InsideEncoder
<1>9. QED
    BY <1>1, <1>2, <1>3, <1>4, <1>5, <1>6, <1>7, <1>8 DEF Next, OnDrawFrame

LEMMA RoomStep ==
    ASSUME TypeOK, ThreadInv, QueueInv(GL), RoomInv, [Next]_vars
    PROVE  RoomInv'
<1> USE DEF RoomInv
<1>1. CASE UNCHANGED encVars
    BY <1>1, EncoderSame
<1>2. CASE DrawStart
    <2>1. pc[GL].at = "idle"
        BY <1>2 DEF DrawStart, StartRecording, Idle
    <2>2. pc' = pc \/ Goto(GL, "sendStart", glContext) \/ Goto(GL, "wait", glContext)
        BY <1>2 DEF DrawStart, StartRecording, encVars
    <2>3. QED
        BY <2>1, <2>2, ViewAssumption DEF Goto, TypeOK
<1>3. CASE DrawResume
    <2>1. pc[GL].at = "idle"
        BY <1>3 DEF DrawResume, UpdateSharedContext, Idle
    <2>2. Threw \/ Posted([what |-> "CONTEXT", arg |-> glContext], "idle")
        BY <1>3, SendEffect DEF DrawResume, UpdateSharedContext
    <2>3. QED
        BY <2>1, <2>2 DEF Threw, Posted
<1>4. CASE DrawStop
    <2>1. pc[GL].at = "idle"
        BY <1>4 DEF DrawStop, StopRecording, Idle
    <2>2. Threw \/ Posted([what |-> "STOP", arg |-> NoContext], "sendQuit")
        BY <1>4, SendEffect DEF DrawStop, StopRecording
    <2>3. QED
        BY <2>1, <2>2 DEF Threw, Posted
<1>5. CASE DrawTexture \/ DrawAvailable
    <2>1. Room /\ UNCHANGED <<sessions, thread, queue>>
        BY <1>5, DrawRecorded DEF DrawTexture, DrawAvailable, SetTextureId, FrameAvailable
    <2>2. Current("looping") => mHandler = sessions /\ mHandler # 0
        BY DEF ThreadInv, Current, TypeOK
    <2>3. QED
        BY <2>1, <2>2 DEF Room, Current
<1>6. CASE InsideEncoder
    <2>1. CASE ContinueCall(GL) \/ WakeSpuriously(GL)
        <3>1. \/ UNCHANGED <<sessions, thread, queue, pc>>
              \/ pc'[GL].at \in {"idle", "wait", "sendStart"}
            BY <2>1, CallEffect DEF Threw, Posted, Starting
        <3>2. QED
            BY <3>1 DEF Current
    <2>2. ASSUME NEW t \in Sessions, EncoderThread(t) PROVE RoomInv'
        <3>1. pc' = pc
            BY <2>2, EncoderEffect
        <3>2. CASE UNCHANGED <<sessions, thread, queue>>
            BY <3>1, <3>2 DEF Current
        <3>3. CASE Starting(GL) \/ ~Current("looping")'
            BY <3>1, <3>3 DEF Starting
        <3>4. ASSUME NEW m \in Message, Handled(m) PROVE RoomInv'
            <4>1. /\ Current("looping") /\ Len(queue'[sessions']) \in Nat
                  /\ Len(queue[sessions]) = Len(queue'[sessions']) + 1
                BY <3>4, HandledQueue
            <4>2. pc[GL].at \in {"sendTexture", "sendFrame"} =>
                      Len(queue'[sessions']) < MaxQueue
                BY <4>1, BoundsAssumption
            <4>3. QED
                BY <3>1, <4>2
        <3>5. QED
            BY <2>2, <3>2, <3>3, <3>4, EncoderEffect
    <2>3. QED
        BY <1>6, <2>1, <2>2 DEF InsideEncoder
<1>7. CASE \/ StartRecord \/ OnPause \/ OnResume \/ OutsideCamera \/ ChangeRecordingState
           \/ OnSurfaceCreated \/ ResizeSurface \/ OnSurfaceChanged \/ DrawSteady
           \/ ProcessEnded \/ UNCHANGED vars
    BY <1>1, <1>7
       DEF StartRecord, OnPause, OnResume, OutsideCamera, ChangeRecordingState,
           OnSurfaceCreated, ResizeSurface, OnSurfaceChanged, DrawSteady, ProcessEnded, vars
<1>8. QED
    BY <1>2, <1>3, <1>4, <1>5, <1>6, <1>7 DEF Next, OnDrawFrame
-----------------------------------------------------------------------------
(* The refinement, step by step.                                            *)

\* What the mapped queue and context stand for.
MappedInv ==
    /\ Answered = IF Current("looping") THEN BeforeQuit(queue[sessions]) ELSE <<>>
    /\ ~Recorded => SharedContext = NoContext
    /\ \A x : Recorded /\ ContextIs(queue[sessions], Len(queue[sessions]), x) =>
          SharedContext = x /\ Answered = queue[sessions]

LEMMA Mapped == TypeOK /\ ThreadInv => MappedInv
<1> SUFFICES ASSUME TypeOK, ThreadInv PROVE MappedInv
    OBVIOUS
<1>1. sessions # 0 => sessions \in Sessions /\ queue[sessions] \in Seq(Message)
    BY BoundsAssumption DEF TypeOK, Sessions
<1>2. Answered = IF Current("looping") THEN BeforeQuit(queue[sessions]) ELSE <<>>
    <2>1. CASE sessions = 0
        BY <2>1 DEF Answered, Current
    <2>2. CASE sessions # 0 /\ thread[sessions] = "looping"
        <3>1. Current("looping")
            BY <1>1, <2>2, BoundsAssumption DEF Current, Sessions
        <3>2. QED
            BY <2>2, <3>1 DEF Answered
    <2>3. CASE sessions # 0 /\ thread[sessions] # "looping"
        <3>1. queue[sessions] = <<>> /\ ~Current("looping")
            BY <1>1, <2>3 DEF ThreadInv, Current
        <3>2. QED
            BY <2>3, <3>1, BeforeQuitEmpty DEF Answered
    <2>4. QED
        BY <2>1, <2>2, <2>3
<1>3. RecordingPosted <=> Recorded
    <2>1. CASE sessions = 0
        BY <2>1 DEF RecordingPosted, Recorded, Current
    <2>2. CASE sessions # 0
        <3>1. sessions > 0 /\ DOMAIN queue[sessions] = 1..Len(queue[sessions])
            BY <1>1, <2>2, BoundsAssumption, LenProperties DEF Sessions
        <3>2. QED
            BY <2>2, <3>1 DEF RecordingPosted, Recorded, Current, Starting, NoQuit
    <2>3. QED
        BY <2>1, <2>2
<1>4. ASSUME NEW x, Recorded, ContextIs(queue[sessions], Len(queue[sessions]), x)
      PROVE  SharedContext = x /\ Answered = queue[sessions]
    <2>1. Current("looping") /\ NoQuit(queue[sessions], Len(queue[sessions])) /\ sessions # 0
        BY <1>4 DEF Recorded, Current
    <2>2. Answered = queue[sessions]
        BY <1>1, <1>2, <2>1, BeforeQuitAll
    <2>3. LastContext(queue[sessions], mEglCore) = x
        BY <1>1, <1>4, <2>1, LastContextIs DEF ContextIs
    <2>4. QED
        BY <1>3, <1>4, <2>2, <2>3 DEF SharedContext
<1>5. ~Recorded => SharedContext = NoContext
    BY <1>3 DEF SharedContext
<1>6. QED
    BY <1>2, <1>4, <1>5 DEF MappedInv

LEMMA MappedNext == (TypeOK /\ ThreadInv)' => MappedInv'
BY Mapped, PTL

\* The mapped state as it was.
MappedSame == UNCHANGED <<glContext, hasSurface, SharedContext, Answered>>

\* A step of EncoderMessages, or none.
MessageStep == [EncoderView!MessagesNext]_(EncoderView!messageVars)

LEMMA SameIsStep == MappedSame => MessageStep
BY DEF MappedSame, MessageStep, EncoderView!messageVars, EncoderView!glVars

\* Nothing happens to the mapped state while the encoder does not change ...
LEMMA SameMapped ==
    ASSUME UNCHANGED <<sessions, thread, queue, mEglCore, pc>>
    PROVE  UNCHANGED <<SharedContext, Answered>>
BY DEF SharedContext, RecordingPosted, Answered

\* ... nor when no recording is shared and no message that counts comes or goes.
LEMMA AsideMapped ==
    ASSUME TypeOK, ThreadInv, TypeOK', ThreadInv', ~Recorded, ~Recorded', Answered' = Answered
    PROVE  UNCHANGED <<SharedContext, Answered>>
BY Mapped, MappedNext DEF MappedInv

\* A post into a recording is a post there.
LEMMA PostedInside ==
    ASSUME TypeOK, ThreadInv, TypeOK', ThreadInv', NEW m \in Message, NEW next,
           Posted(m, next), Recorded, SharedInv, m.what # "QUIT"
    PROVE  /\ Answered = queue[sessions]
           /\ Answered' = Append(Answered, m)
           /\ next = "idle" => Recorded'
<1>1. /\ Current("looping") /\ NoQuit(queue[sessions], Len(queue[sessions]))
      /\ queue[sessions] \in Seq(Message)
    BY PostedQueue DEF Recorded
<1>2. Answered = queue[sessions]
    BY <1>1, Mapped, BeforeQuitAll DEF MappedInv
<1>3. /\ queue'[sessions'] = Append(queue[sessions], m) /\ Current("looping")'
      /\ Len(queue'[sessions']) = Len(queue[sessions]) + 1
    BY <1>1, PostedQueue
<1>4. NoQuit(queue'[sessions'], Len(queue'[sessions']))
    BY <1>1, <1>3, AppendLast
<1>5. queue'[sessions'] \in Seq(Message)
    BY <1>1, <1>3, AppendProperties
<1>6. BeforeQuit(queue'[sessions']) = queue'[sessions']
    BY <1>4, <1>5, BeforeQuitAll
<1>7. Answered' = queue'[sessions']
    BY <1>3, <1>6, MappedNext DEF MappedInv
<1>8. next = "idle" => Recorded'
    BY <1>3, <1>4 DEF Posted, Recorded, Starting
<1>9. QED
    BY <1>2, <1>3, <1>7, <1>8

\* QUIT, and a post behind it or to a thread that does not loop, is not seen.
LEMMA PostedAside ==
    ASSUME TypeOK, ThreadInv, TypeOK', ThreadInv', NEW m \in Message, NEW next,
           Posted(m, next), ~Recorded, ~Recorded', ~Starting(GL),
           m.what = "QUIT" \/ pc[GL].at # "sendQuit"
    PROVE  UNCHANGED <<SharedContext, Answered>>
<1>1. CASE ~Current("looping")
    <2>1. ~Current("looping")'
        BY <1>1 DEF Posted, Current
    <2>2. Answered = <<>> /\ Answered' = <<>>
        BY <1>1, <2>1, Mapped, MappedNext DEF MappedInv
    <2>3. QED
        BY <2>2, AsideMapped
<1>2. CASE Current("looping")
    <2>1. /\ queue[sessions] \in Seq(Message) /\ Current("looping")'
          /\ queue'[sessions'] = Append(queue[sessions], m)
        BY <1>2, PostedQueue
    <2>2. m.what = "QUIT" \/ ~NoQuit(queue[sessions], Len(queue[sessions]))
        BY <1>2 DEF Recorded
    <2>3. BeforeQuit(queue'[sessions']) = BeforeQuit(queue[sessions])
        BY <2>1, <2>2, BeforeQuitAppend
    <2>4. Answered' = Answered
        BY <1>2, <2>1, <2>3, Mapped, MappedNext DEF MappedInv
    <2>5. QED
        BY <2>4, AsideMapped
<1>3. QED
    BY <1>1, <1>2

\* An exception leaves all as it is.
LEMMA ThrewMapped ==
    ASSUME TypeOK, ThreadInv, Threw
    PROVE  UNCHANGED <<SharedContext, Answered>>
BY SameMapped DEF Threw, encoderVars

\* The first START of a session.
LEMMA StartMapped ==
    ASSUME TypeOK, OwnTypeOK, ThreadInv, QueueInv(GL), PassInv, AliveInv, TypeOK', ThreadInv',
           pc[GL].at = "sendStart", UNCHANGED <<glContext, hasSurface>>,
           Posted([what |-> "START", arg |-> pc[GL].arg], "idle")
    PROVE  MessageStep
<1> DEFINE m == [what |-> "START", arg |-> pc[GL].arg]
<1>1. pc[GL].arg = glContext /\ hasSurface /\ ~Recorded /\ Starting(GL)
    BY DEF PassInv, AliveInv, Recorded, Starting
<1>2. m \in Message /\ m.what = "START" /\ m.arg = glContext
    BY <1>1, MessageTyped DEF MessageType, OwnTypeOK
<1>3. CASE ~Current("looping")
    <2>1. ~Current("looping")'
        BY <1>3 DEF Posted, Current
    <2>2. Answered = <<>> /\ Answered' = <<>> /\ ~Recorded'
        BY <1>3, <2>1, Mapped, MappedNext DEF MappedInv, Recorded
    <2>3. QED
        BY <1>1, <2>2, AsideMapped, SameIsStep DEF MappedSame
<1>4. CASE Current("looping")
    <2>1. queue[sessions] = <<>>
        BY <1>1, <1>4 DEF QueueInv
    <2>2. Answered = <<>> /\ SharedContext = NoContext
        BY <1>1, <1>4, <2>1, Mapped, BeforeQuitEmpty DEF MappedInv
    <2> HIDE DEF m
    <2>3. Posted(m, "idle")
        BY DEF m
    <2>4. /\ queue'[sessions'] = Append(<<>>, m) /\ Current("looping")'
          /\ Len(queue'[sessions']) = Len(<<>>) + 1
        BY <1>2, <1>4, <2>1, <2>3, PostedQueue
    <2>5. /\ NoQuit(queue'[sessions'], Len(queue'[sessions']))
          /\ LastIs(queue'[sessions'], Len(queue'[sessions']), {"START", "CONTEXT"},
                    mEglCore', glContext)
        <3>1. <<>> \in Seq(Message) /\ Len(<<>>) = 0
            BY EmptySeq
        <3>2. NoQuit(<<>>, Len(<<>>))
            BY <3>1 DEF NoQuit
        <3>3. NoQuit(queue'[sessions'], Len(queue'[sessions']))
            BY <1>2, <2>4, <3>1, <3>2, AppendLast
        <3>4. QED
            BY <1>2, <1>4, <2>3, <3>3, PostedNow
    <2>6. Recorded'
        BY <2>4, <2>5 DEF Posted, Recorded, Starting
    <2>7. SharedContext' = glContext /\ Answered' = Append(<<>>, m)
        BY <2>4, <2>5, <2>6, MappedNext DEF MappedInv, ContextIs
    <2>8. EncoderView!DrawStart
        <3>1. Len(Answered) < MaxQueue
            BY <2>2, BoundsAssumption, EmptySeq
        <3>2. m = [what |-> "START", arg |-> glContext]
            BY <1>1 DEF m
        <3>3. QED
            BY <1>1, <2>2, <2>7, <3>1, <3>2 DEF EncoderView!DrawStart, EncoderView!Post, NoContext
    <2>9. QED
        BY <2>8 DEF MessageStep, EncoderView!MessagesNext, EncoderView!Draw
<1>5. QED
    BY <1>3, <1>4
LEMMA ResumeMapped ==
    ASSUME TypeOK, OwnTypeOK, ThreadInv, AliveInv, SharedInv, SurfaceInv,
           TypeOK', ThreadInv', DrawResume
    PROVE  MessageStep
<1> DEFINE m == [what |-> "CONTEXT", arg |-> glContext]
<1>1. /\ UNCHANGED <<glContext, hasSurface>> /\ hasSurface
      /\ pc[GL].at = "idle" /\ ~Starting(GL) /\ pc[GL].at # "sendQuit" /\ Room
    BY DEF DrawResume, DrawFrame, surfaceVars, AliveInv, UpdateSharedContext, Idle, Starting
<1>2. m \in Message /\ m.what = "CONTEXT" /\ m.arg = glContext
    BY MessageTyped DEF MessageType, OwnTypeOK
<1>3. Threw \/ Posted(m, "idle")
    BY SendEffect DEF DrawResume, UpdateSharedContext
<1>4. CASE Threw
    BY <1>1, <1>4, ThrewMapped, SameIsStep DEF MappedSame
<1>5. CASE Posted(m, "idle") /\ ~Recorded
    <2>1. ~Recorded'
        BY <1>1, <1>2, <1>5, PostedRecorded
    <2>2. QED
        BY <1>1, <1>2, <1>5, <2>1, PostedAside, SameIsStep DEF MappedSame
<1>6. CASE Posted(m, "idle") /\ Recorded
    <2>1. PICK x \in Contexts : ContextIs(queue[sessions], Len(queue[sessions]), x)
        BY <1>6 DEF SharedInv
    <2>2. SharedContext # NoContext
        BY <1>6, <2>1, Mapped DEF MappedInv, Contexts, NoContext
    <2>3. Answered = queue[sessions] /\ Answered' = Append(Answered, m) /\ Recorded'
        BY <1>2, <1>6, PostedInside
    <2>4. SharedContext' = glContext
        <3>1. Current("looping")
            BY <1>6 DEF Recorded
        <3>2. LastIs(queue'[sessions'], Len(queue'[sessions']), {"START", "CONTEXT"},
                     mEglCore', glContext)
            BY <1>2, <1>6, <3>1, PostedNow
        <3>3. QED
            BY <2>3, <3>2, MappedNext DEF MappedInv, ContextIs
    <2>5. Len(Answered) < MaxQueue
        BY <1>1, <1>6, <2>3 DEF Room, Recorded, ThreadInv, Current, TypeOK
    <2>6. EncoderView!DrawResume
        BY <1>1, <2>2, <2>3, <2>4, <2>5
           DEF EncoderView!DrawResume, EncoderView!Post, NoContext
    <2>7. QED
        BY <2>6 DEF MessageStep, EncoderView!MessagesNext, EncoderView!Draw
<1>7. QED
    BY <1>3, <1>4, <1>5, <1>6

LEMMA StopMapped ==
    ASSUME TypeOK, ThreadInv, AliveInv, SharedInv, TypeOK', ThreadInv', DrawStop
    PROVE  MessageStep
<1> DEFINE m == [what |-> "STOP", arg |-> NoContext]
<1>1. /\ UNCHANGED <<glContext, hasSurface>> /\ hasSurface
      /\ pc[GL].at = "idle" /\ ~Starting(GL) /\ pc[GL].at # "sendQuit" /\ Room
    BY DEF DrawStop, DrawFrame, surfaceVars, AliveInv, StopRecording, Idle, Starting
<1>2. m \in Message /\ m.what = "STOP" /\ m.arg = NoContext
    BY MessageTyped, ContextTyped DEF MessageType
<1>3. Threw \/ Posted(m, "sendQuit")
    BY SendEffect DEF DrawStop, StopRecording
<1>4. ~Recorded'
    BY <1>3, NothingRecorded
<1>5. CASE Threw
    BY <1>1, <1>5, ThrewMapped, SameIsStep DEF MappedSame
<1>6. CASE Posted(m, "sendQuit") /\ ~Recorded
    BY <1>1, <1>2, <1>4, <1>6, PostedAside, SameIsStep DEF MappedSame
<1>7. CASE Posted(m, "sendQuit") /\ Recorded
    <2>1. PICK x \in Contexts : ContextIs(queue[sessions], Len(queue[sessions]), x)
        BY <1>7 DEF SharedInv
    <2>2. SharedContext # NoContext
        BY <1>7, <2>1, Mapped DEF MappedInv, Contexts, NoContext
    <2>3. Answered = queue[sessions] /\ Answered' = Append(Answered, m)
        BY <1>2, <1>7, PostedInside
    <2>4. SharedContext' = NoContext
        BY <1>4, MappedNext DEF MappedInv
    <2>5. Len(Answered) < MaxQueue
        BY <1>1, <1>7, <2>3 DEF Room, Recorded, ThreadInv, Current, TypeOK
    <2>6. EncoderView!DrawStop
        BY <1>1, <2>2, <2>3, <2>4, <2>5
           DEF EncoderView!DrawStop, EncoderView!Post, NoContext
    <2>7. QED
        BY <2>6 DEF MessageStep, EncoderView!MessagesNext, EncoderView!Draw
<1>8. QED
    BY <1>3, <1>5, <1>6, <1>7

\* The texture and the frame of a pass: a recording shares the context they are of.
LEMMA PassMapped ==
    ASSUME TypeOK, OwnTypeOK, ThreadInv, PassInv, StatusInv, PostedInv, AliveInv, RoomInv,
           SharedInv, TypeOK', ThreadInv', UNCHANGED <<glContext, hasSurface>>, NEW m \in Message,
           Posted(m, "idle"),
           \/ pc[GL].at = "sendTexture" /\ m = [what |-> "TEXTURE", arg |-> pc[GL].arg]
           \/ pc[GL].at = "sendFrame" /\ m = [what |-> "FRAME", arg |-> NoContext]
    PROVE  MessageStep
<1>1. m.what \in {"TEXTURE", "FRAME"} /\ hasSurface /\ ~Starting(GL) /\ pc[GL].at # "sendQuit"
    BY DEF AliveInv, Starting
<1>2. CASE ~Recorded
    <2>1. ~Recorded'
        BY <1>1, <1>2, PostedRecorded
    <2>2. QED
        BY <1>1, <1>2, <2>1, PostedAside, SameIsStep DEF MappedSame
<1>3. CASE Recorded
    <2>1. mRecordingStatus = "on" /\ glStep # "changed"
        BY <1>3 DEF PassInv, StatusInv
    <2>2. Current("looping") /\ ContextIs(queue[sessions], Len(queue[sessions]), glContext)
        BY <1>3, <2>1 DEF PostedInv, Recorded
    <2>3. SharedContext = glContext
        BY <1>3, <2>2, Mapped DEF MappedInv
    <2>4. Answered = queue[sessions] /\ Answered' = Append(Answered, m) /\ Recorded'
        BY <1>1, <1>3, PostedInside
    <2>5. LastIs(queue'[sessions'], Len(queue'[sessions']), {"START", "CONTEXT"},
                 mEglCore', glContext)
        BY <1>1, <2>2, PostedNow
    <2>6. SharedContext' = glContext
        BY <2>4, <2>5, MappedNext DEF MappedInv, ContextIs
    <2>7. Len(Answered) < MaxQueue
        BY <2>2, <2>4 DEF RoomInv
    <2>8. CASE pc[GL].at = "sendTexture" /\ m = [what |-> "TEXTURE", arg |-> pc[GL].arg]
        <3>1. m = [what |-> "TEXTURE", arg |-> glContext]
            BY <2>8 DEF PassInv
        <3>2. EncoderView!DrawTexture
            BY <1>1, <2>3, <2>4, <2>6, <2>7, <3>1
               DEF EncoderView!DrawTexture, EncoderView!Post, EncoderView!glVars
        <3>3. QED
            BY <3>2 DEF MessageStep, EncoderView!MessagesNext, EncoderView!Draw
    <2>9. CASE m = [what |-> "FRAME", arg |-> NoContext]
        <3>1. EncoderView!DrawAvailable
            BY <1>1, <2>3, <2>4, <2>6, <2>7, <2>9
               DEF EncoderView!DrawAvailable, EncoderView!Post, EncoderView!glVars, NoContext
        <3>2. QED
            BY <3>1 DEF MessageStep, EncoderView!MessagesNext, EncoderView!Draw
    <2>10. QED
        BY <2>8, <2>9
<1>4. QED
    BY <1>2, <1>3

\* What the GL thread does inside a call.
LEMMA CallMapped ==
    ASSUME TypeOK, OwnTypeOK, ThreadInv, QueueInv(GL), PassInv, StatusInv, PostedInv, AliveInv,
           RoomInv, SharedInv, TypeOK', ThreadInv', UNCHANGED <<glContext, hasSurface>>,
           ContinueCall(GL) \/ WakeSpuriously(GL)
    PROVE  MessageStep
<1> USE ContextTyped
<1>1. CASE Threw
    BY <1>1, ThrewMapped, SameIsStep DEF MappedSame
<1>2. CASE UNCHANGED <<sessions, thread, queue, encoderVars>> /\ pc' = pc
    BY <1>2, SameMapped, SameIsStep DEF MappedSame, encoderVars
<1>3. CASE /\ UNCHANGED <<sessions, thread, queue, encoderVars>>
           /\ Starting(GL) /\ Starting(GL)'
    <2>1. ~Recorded /\ ~Recorded' /\ Answered' = Answered
        BY <1>3 DEF Recorded, Answered
    <2>2. QED
        BY <2>1, AsideMapped, SameIsStep DEF MappedSame
<1>4. CASE pc[GL].at = "sendStart" /\ Posted([what |-> "START", arg |-> pc[GL].arg], "idle")
    BY <1>4, StartMapped
<1>5. CASE pc[GL].at = "sendQuit" /\ Posted([what |-> "QUIT", arg |-> NoContext], "idle")
    <2>1. ~Recorded /\ ~Recorded' /\ ~Starting(GL)
        BY <1>5, QuitPosted DEF Recorded, Starting
    <2>2. [what |-> "QUIT", arg |-> NoContext] \in Message
        BY MessageTyped DEF MessageType
    <2>3. UNCHANGED <<SharedContext, Answered>>
        BY <1>5, <2>1, <2>2, PostedAside
    <2>4. QED
        BY <2>3, SameIsStep DEF MappedSame
<1>6. CASE /\ pc[GL].at = "sendTexture"
           /\ Posted([what |-> "TEXTURE", arg |-> pc[GL].arg], "idle")
    <2>1. pc[GL].arg \in Context0
        BY ViewAssumption DEF TypeOK, CallerPC
    <2>2. [what |-> "TEXTURE", arg |-> pc[GL].arg] \in Message
        BY <2>1, MessageTyped DEF MessageType
    <2>3. QED
        BY <1>6, <2>2, PassMapped
<1>7. CASE pc[GL].at = "sendFrame" /\ Posted([what |-> "FRAME", arg |-> NoContext], "idle")
    <2>1. [what |-> "FRAME", arg |-> NoContext] \in Message
        BY MessageTyped DEF MessageType
    <2>2. QED
        BY <1>7, <2>1, PassMapped
<1>8. QED
    BY <1>1, <1>2, <1>3, <1>4, <1>5, <1>6, <1>7, CallEffect

\* What the encoder thread does: only a message that is handled is seen.
LEMMA EncoderMapped ==
    ASSUME TypeOK, ThreadInv, QueueInv(GL), SharedInv, TypeOK', ThreadInv',
           UNCHANGED <<glContext, hasSurface>>, NEW t \in Sessions, EncoderThread(t)
    PROVE  MessageStep
<1>1. pc' = pc
    BY EncoderEffect
<1>2. CASE UNCHANGED <<sessions, thread, queue, encoderVars>>
    BY <1>1, <1>2, SameMapped, SameIsStep DEF MappedSame, encoderVars
<1>3. CASE Starting(GL) /\ queue'[sessions'] = <<>>
    <2>1. ~Recorded /\ ~Recorded'
        BY <1>1, <1>3 DEF Recorded, Starting
    <2>2. Answered = <<>> /\ Answered' = <<>>
        BY <1>3, Mapped, MappedNext, BeforeQuitEmpty DEF MappedInv, QueueInv
    <2>3. QED
        BY <2>1, <2>2, AsideMapped, SameIsStep DEF MappedSame
<1>4. CASE /\ ~Current("looping")'
           /\ Current("looping") =>
                  queue[sessions] # <<>> /\ Head(queue[sessions]).what = "QUIT"
    <2>1. Answered' = <<>> /\ ~Recorded'
        BY <1>4, MappedNext DEF MappedInv, Recorded
    <2>2. CASE ~Current("looping")
        BY <2>1, <2>2, Mapped, AsideMapped, SameIsStep DEF MappedInv, MappedSame, Recorded
    <2>3. CASE Current("looping")
        <3>1. queue[sessions] \in Seq(Message)
            BY <2>3, BoundsAssumption DEF Current, TypeOK, Sessions
        <3>2. Answered = <<>>
            BY <1>4, <2>3, <3>1, Mapped, BeforeQuitNone DEF MappedInv
        <3>3. ~Recorded
            <4>1. 1 \in 1..Len(queue[sessions]) /\ queue[sessions][1].what = "QUIT"
                BY <1>4, <2>3, <3>1, Taken
            <4>2. QED
                BY <4>1 DEF Recorded, NoQuit
        <3>4. QED
            BY <2>1, <3>2, <3>3, AsideMapped, SameIsStep DEF MappedSame
    <2>4. QED
        BY <2>2, <2>3
<1>5. ASSUME NEW m \in Message, Handled(m) PROVE MessageStep
    <2>1. /\ queue[sessions] \in Seq(Message) /\ queue[sessions] # <<>>
          /\ m = Head(queue[sessions]) /\ queue'[sessions'] = Tail(queue[sessions])
          /\ Len(queue'[sessions']) \in Nat
          /\ Len(queue[sessions]) = Len(queue'[sessions']) + 1
          /\ Current("looping") /\ Current("looping")' /\ m.what # "QUIT"
        BY <1>5, HandledQueue DEF Handled
    <2>2. Answered # <<>> /\ Answered' = Tail(Answered)
        BY <2>1, Mapped, MappedNext, BeforeQuitTail DEF MappedInv
    <2>3. Recorded' <=> Recorded
        <3>1. Recorded' => Recorded
            BY <1>1, <1>5, HandledRecorded
        <3>2. NoQuit(queue[sessions], Len(queue[sessions])) =>
                  NoQuit(queue'[sessions'], Len(queue'[sessions']))
            BY <2>1, TailKeeps
        <3>3. QED
            BY <1>1, <2>1, <3>1, <3>2 DEF Recorded, Starting
    <2>4. SharedContext' = SharedContext
        <3>1. CASE ~Recorded
            BY <2>3, <3>1, Mapped, MappedNext DEF MappedInv
        <3>2. CASE Recorded
            <4>1. m.what # "STOP"
                BY <1>1, <1>5, <2>3, <3>2, HandledRecorded
            <4>2. PICK x \in Contexts :
                      ContextIs(queue[sessions], Len(queue[sessions]), x)
                BY <3>2 DEF SharedInv
            <4>3. LastIs(queue'[sessions'], Len(queue'[sessions']), {"START", "CONTEXT"},
                         mEglCore', x)
                BY <1>5, <2>1, <4>1, <4>2, HandledLast
            <4>4. QED
                BY <2>3, <3>2, <4>2, <4>3, Mapped, MappedNext DEF MappedInv, ContextIs
        <3>3. QED
            BY <3>1, <3>2
    <2>5. EncoderView!Take
        BY <2>2, <2>4 DEF EncoderView!Take, EncoderView!glVars
    <2>6. QED
        BY <2>5 DEF MessageStep, EncoderView!MessagesNext
<1>6. QED
    BY <1>2, <1>3, <1>4, <1>5, EncoderEffect

LEMMA MessagesStep ==
    ASSUME TypeOK, OwnTypeOK, SurfaceInv, ThreadInv, QueueInv(GL), PassInv, StatusInv, PostedInv,
           AliveInv, RoomInv, SharedInv, TypeOK', ThreadInv', [Next]_vars
    PROVE  MessageStep
<1>1. ASSUME UNCHANGED <<encVars, glContext, hasSurface>> PROVE MessageStep
    BY <1>1, EncoderSame, SameMapped, SameIsStep DEF MappedSame
<1>2. ASSUME UNCHANGED encVars PROVE UNCHANGED <<SharedContext, Answered>>
    BY <1>2, EncoderSame, SameMapped
<1>3. CASE \/ UNCHANGED vars \/ ProcessEnded \/ StartRecord \/ OnResume \/ OutsideCamera
           \/ ChangeRecordingState \/ ResizeSurface \/ OnSurfaceChanged \/ DrawSteady
    BY <1>1, <1>3
       DEF vars, viewVars, screenVars, surfaceVars, ProcessEnded, StartRecord, OnResume,
           OutsideCamera, ChangeRecordingState, ResizeSurface, OnSurfaceChanged, DrawSteady,
           DrawFrame
<1>4. CASE OnPause
    <2>1. UNCHANGED <<encVars, glContext>> /\ hasSurface' = FALSE
        BY <1>4 DEF OnPause
    <2>2. CASE hasSurface
        <3>1. EncoderView!OnPause
            BY <1>2, <2>1, <2>2 DEF EncoderView!OnPause
        <3>2. QED
            BY <3>1 DEF MessageStep, EncoderView!MessagesNext
    <2>3. CASE ~hasSurface
        BY <1>1, <2>1, <2>3 DEF OwnTypeOK
    <2>4. QED
        BY <2>2, <2>3
<1>5. CASE OnSurfaceCreated
    <2>1. /\ UNCHANGED encVars /\ ~hasSurface /\ hasSurface' = TRUE
          /\ glContext < MaxContexts /\ glContext' = glContext + 1
        BY <1>5 DEF OnSurfaceCreated
    <2>2. EncoderView!OnSurfaceCreated
        BY <1>2, <2>1 DEF EncoderView!OnSurfaceCreated
    <2>3. QED
        BY <2>2 DEF MessageStep, EncoderView!MessagesNext
<1>6. CASE DrawStart
    <2>1. UNCHANGED <<glContext, hasSurface>>
        BY <1>6 DEF DrawStart, DrawFrame, surfaceVars
    <2>2. CASE UNCHANGED encVars
        BY <1>1, <2>1, <2>2
    <2>3. CASE ~Current("looping") /\ ~Current("looping")'
        <3>1. Answered = <<>> /\ Answered' = <<>> /\ ~Recorded /\ ~Recorded'
            BY <2>3, Mapped, MappedNext DEF MappedInv, Recorded
        <3>2. QED
            BY <2>1, <3>1, AsideMapped, SameIsStep DEF MappedSame
    <2>4. QED
        BY <1>6, <2>2, <2>3, StartEffect DEF DrawStart
<1>7. CASE DrawResume \/ DrawStop
    BY <1>7, ResumeMapped, StopMapped
<1>8. CASE DrawTexture \/ DrawAvailable
    <2>1. /\ UNCHANGED <<sessions, thread, queue, mEglCore, glContext, hasSurface>>
          /\ Recorded' <=> Recorded
        BY <1>8, DrawRecorded DEF DrawTexture, DrawAvailable, surfaceVars
    <2>2. Answered' = Answered
        BY <2>1 DEF Answered
    <2>3. CASE ~Recorded
        BY <2>1, <2>2, <2>3, AsideMapped, SameIsStep DEF MappedSame
    <2>4. CASE Recorded
        <3>1. PICK x \in Contexts : ContextIs(queue[sessions], Len(queue[sessions]), x)
            BY <2>4 DEF SharedInv
        <3>2. LastIs(queue'[sessions'], Len(queue'[sessions']), {"START", "CONTEXT"},
                     mEglCore', x)
            BY <2>1, <3>1 DEF ContextIs
        <3>3. SharedContext' = SharedContext
            BY <2>1, <2>4, <3>1, <3>2, Mapped, MappedNext DEF MappedInv, ContextIs
        <3>4. QED
            BY <2>1, <2>2, <3>3, SameIsStep DEF MappedSame
    <2>5. QED
        BY <2>3, <2>4
<1>9. CASE InsideEncoder
    <2>1. UNCHANGED <<glContext, hasSurface>>
        BY <1>9 DEF InsideEncoder, viewVars, screenVars, surfaceVars
    <2>2. QED
        BY <1>9, <2>1, CallMapped, EncoderMapped DEF InsideEncoder
<1>10. QED
    BY <1>3, <1>4, <1>5, <1>6, <1>7, <1>8, <1>9 DEF Next, OnDrawFrame

LEMMA MessagesStart == Init => EncoderView!MessagesInit
<1> SUFFICES ASSUME Init PROVE EncoderView!MessagesInit
    OBVIOUS
<1>1. Answered = <<>> /\ SharedContext = NoContext
    BY DEF Init, EncInit, Answered, SharedContext, RecordingPosted
<1>2. QED
    BY <1>1 DEF Init, EncoderView!MessagesInit, NoContext

\* The encoder's promise of order: over any number of surfaces, recordings and waiting
\* messages the view posts as EncoderMessages says.
THEOREM PostsInOrder == Spec => MessagesSpec
<1> DEFINE Before == TypeOK /\ ThreadInv /\ QueueInv(GL)
<1>1. Spec => [](Before /\ OwnTypeOK /\ RecordingInv)
    BY RecordingCorrect, PTL
<1>2. Spec => []SurfaceInv
    <2>1. ViewInv => SurfaceInv
        BY DEF ViewInv
    <2>2. QED
        BY <2>1, ViewCorrect, PTL
<1>3. Spec => []ContextInv
    <2>1. EncSpec => [](ContextInv /\ HandlersFindEncoder)
        BY ContextCorrect, ViewAssumption
    <2>2. QED
        BY <2>1, ViewImplementsEncoder, PTL
<1>4. Spec => [](AliveInv /\ RoomInv)
    <2>1. Init => AliveInv /\ RoomInv
        BY ViewAssumption DEF Init, EncInit, AliveInv, RoomInv, Current
    <2>2. Before /\ AliveInv /\ RoomInv /\ [Next]_vars => (AliveInv /\ RoomInv)'
        BY AliveStep, RoomStep
    <2>3. QED
        BY <1>1, <2>1, <2>2, PTL DEF Spec
<1>5. /\ Before /\ OwnTypeOK /\ RecordingInv /\ SurfaceInv /\ ContextInv /\ AliveInv /\ RoomInv
      /\ Before' /\ [Next]_vars
      => MessageStep
    BY MessagesStep, SharedHolds DEF RecordingInv
<1>6. QED
    BY <1>1, <1>2, <1>3, <1>4, <1>5, MessagesStart, PTL
    DEF Spec, MessagesSpec, EncoderView!MessagesSpec, MessageStep
=============================================================================
