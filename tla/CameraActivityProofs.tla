------------------------ MODULE CameraActivityProofs ------------------------
(* The camera screen's invariants, for any number of Camera objects.         *)
EXTENDS CameraActivity, TLAPS

\* The previews that run are of the camera the field holds, which is open.
PreviewOpen == previewing \subseteq Open

\* A pause leaves no camera, and has been one.
PausedEmpty == ~resumed => mCamera = 0 /\ paused

\* Before the first pause a released camera's view has had its surface.
ReleasedSeen == ~paused => \A c \in Cameras : cam[c] = "released" => c \in surfaces

Inv ==
    /\ TypeOK
    /\ NoLeakedCamera
    /\ LentOnlyToRecorder
    /\ PreviewOpen
    /\ PreviewHasSurface
    /\ PausedEmpty
    /\ ReleasedSeen
    /\ FirstVisitConsistent

LEMMA InitInv == Init => Inv
<1> SUFFICES ASSUME Init PROVE Inv
  OBVIOUS
<1>0. 1 \in Cameras /\ 0 \notin Cameras
  BY CameraAssumption DEF Cameras
<1>1. TypeOK
  <2>1. PICK device \in BOOLEAN : taken = device /\ mCamera = IF device THEN 0 ELSE 1
    BY DEF Init
  <2>2. 0 \in 0..MaxCameras /\ 1 \in 0..MaxCameras
    BY CameraAssumption
  <2>3. cam \in [Cameras -> {"none", "locked", "unlocked", "released"}]
    BY DEF Init
  <2> QED BY <2>1, <2>2, <2>3 DEF Init, TypeOK
<1>2. NoLeakedCamera
  BY <1>0 DEF Init, NoLeakedCamera, Open
<1>3. LentOnlyToRecorder
  BY DEF Init, LentOnlyToRecorder
<1>4. PreviewOpen /\ PreviewHasSurface /\ PausedEmpty /\ ReleasedSeen /\ FirstVisitConsistent
  BY DEF Init, PreviewOpen, PreviewHasSurface, PausedEmpty, ReleasedSeen, FirstVisitConsistent
<1> QED BY <1>1, <1>2, <1>3, <1>4 DEF Inv

\* An exception that does not break the first visit's promise changes nothing else.
LEMMA ThrowInv ==
    ASSUME Inv, NEW e, Throw(e),
           e \in {"NullCamera", "NullRecorder", "CameraReleased", "CameraUnlocked",
                  "NoPreview", "RecorderFailed"},
           ~paused => e \notin {"NullRecorder", "CameraReleased"}
    PROVE  Inv'
<1>1. /\ UNCHANGED <<mCamera, cam, previewing, mMediaRecorder, isRecording>>
      /\ UNCHANGED <<resumed, surfaces, focusing, taken, paused>> /\ exception' = e
  BY DEF Throw, activityVars, systemVars
<1>2. TypeOK'
  BY <1>1 DEF Inv, TypeOK
<1>3. FirstVisitConsistent'
  BY <1>1 DEF Inv, FirstVisitConsistent
<1> QED BY <1>1, <1>2, <1>3 DEF Inv, NoLeakedCamera, LentOnlyToRecorder, PreviewOpen,
           PreviewHasSurface, PausedEmpty, ReleasedSeen, Open

LEMMA SurfaceCreatedInv ==
    ASSUME Inv, NEW c \in Cameras, SurfaceCreated(c)
    PROVE  Inv'
<1>1. CASE cam[c] = "released"
  <2>1. Throw("CameraReleased") /\ paused
    BY <1>1 DEF SurfaceCreated, Inv, ReleasedSeen
  <2> QED BY <2>1, ThrowInv
<1>2. CASE cam[c] = "unlocked"
  <2>1. Throw("CameraUnlocked")
    BY <1>2 DEF SurfaceCreated
  <2> QED BY <2>1, ThrowInv
<1>3. CASE cam[c] \notin {"released", "unlocked"}
  <2>1. /\ surfaces' = surfaces \cup {c}
        /\ previewing' = previewing \cup {c} \/ previewing' = previewing
        /\ UNCHANGED <<mCamera, cam, mMediaRecorder, isRecording, resumed, focusing,
                       taken, paused, exception>>
    BY <1>3 DEF SurfaceCreated
  <2>2. c \in Open
    BY <1>3 DEF SurfaceCreated, Open, Inv, TypeOK
  <2>3. TypeOK'
    BY <2>1 DEF Inv, TypeOK
  <2> QED BY <2>1, <2>2, <2>3 DEF Inv, NoLeakedCamera, LentOnlyToRecorder, PreviewOpen,
             PreviewHasSurface, PausedEmpty, ReleasedSeen, FirstVisitConsistent, Open
<1> QED BY <1>1, <1>2, <1>3

LEMMA SurfaceChangedInv ==
    ASSUME Inv, NEW c \in Cameras, SurfaceChanged(c)
    PROVE  Inv'
<1>1. /\ previewing' = previewing \cup {c} \/ previewing' = previewing \ {c}
      /\ UNCHANGED <<mCamera, cam, mMediaRecorder, isRecording, exception>>
      /\ UNCHANGED <<resumed, surfaces, focusing, taken, paused>>
      /\ c \in surfaces /\ c \in Open
  BY DEF SurfaceChanged, systemVars, Open
<1>2. TypeOK'
  BY <1>1 DEF Inv, TypeOK
<1> QED BY <1>1, <1>2 DEF Inv, NoLeakedCamera, LentOnlyToRecorder, PreviewOpen,
           PreviewHasSurface, PausedEmpty, ReleasedSeen, FirstVisitConsistent, Open

LEMMA SurfaceDestroyedInv ==
    ASSUME Inv, NEW c \in Cameras, SurfaceDestroyed(c)
    PROVE  Inv'
<1>1. /\ surfaces' = surfaces \ {c} /\ ~resumed
      /\ UNCHANGED <<mCamera, cam, previewing, mMediaRecorder, isRecording, exception>>
      /\ UNCHANGED <<resumed, focusing, taken, paused>>
  BY DEF SurfaceDestroyed, activityVars
<1>2. Open = {} /\ paused
  BY <1>1 DEF Inv, PausedEmpty, NoLeakedCamera, Open, Cameras
<1>3. TypeOK'
  BY <1>1 DEF Inv, TypeOK
<1> QED BY <1>1, <1>2, <1>3 DEF Inv, NoLeakedCamera, LentOnlyToRecorder, PreviewOpen,
           PreviewHasSurface, PausedEmpty, ReleasedSeen, FirstVisitConsistent, Open

\* Steps of autofocus that leave the cameras alone.
LEMMA FocusInv ==
    ASSUME Inv, focusing' \subseteq Cameras,
           UNCHANGED <<activityVars, resumed, surfaces, taken, paused, exception>>
    PROVE  Inv'
<1>1. UNCHANGED <<mCamera, cam, previewing, mMediaRecorder, isRecording, resumed, surfaces,
                  taken, paused, exception>>
  BY DEF activityVars
<1>2. TypeOK'
  BY <1>1 DEF Inv, TypeOK
<1> QED BY <1>1, <1>2 DEF Inv, NoLeakedCamera, LentOnlyToRecorder, PreviewOpen,
           PreviewHasSurface, PausedEmpty, ReleasedSeen, FirstVisitConsistent, Open

LEMMA CaptureImageInv ==
    ASSUME Inv, CaptureImage
    PROVE  Inv'
<1>1. CASE Throw("CameraUnlocked") \/ Throw("NoPreview")
  BY <1>1, ThrowInv
<1>2. CASE /\ focusing' = focusing \cup {mCamera}
           /\ UNCHANGED <<activityVars, resumed, surfaces, taken, paused, exception>>
  <2>1. focusing' \subseteq Cameras
    BY <1>2 DEF CaptureImage, Inv, TypeOK, Cameras
  <2> QED BY <1>2, <2>1, FocusInv
<1> QED BY <1>1, <1>2 DEF CaptureImage

\* The restart after a picture: all is released, then perhaps one camera opened.
LEMMA RestartInv ==
    ASSUME Inv, mCamera # 0, cam[mCamera] = "locked", mCamera \in previewing,
           StartCamera(Released),
           previewing' = previewing \ {mCamera}, focusing' \subseteq Cameras,
           UNCHANGED <<mMediaRecorder, isRecording, resumed, surfaces, taken, paused, exception>>
    PROVE  Inv'
<1>1. /\ mCamera \in Cameras /\ Open = {mCamera} /\ previewing = {mCamera}
      /\ cam \in [Cameras -> {"none", "locked", "unlocked", "released"}]
  BY DEF Inv, TypeOK, NoLeakedCamera, PreviewOpen, Open, Cameras
<1>2. /\ Released \in [Cameras -> {"none", "released"}]
      /\ \A c \in Cameras : Released[c] = "released" => cam[c] = "released" \/ c = mCamera
  BY <1>1 DEF Released, Open
<1>3. ~mMediaRecorder /\ resumed
  BY <1>1 DEF Inv, LentOnlyToRecorder, PausedEmpty, Open
<1>4. \/ mCamera' = 0 /\ cam' = Released
      \/ \E c \in Cameras : /\ Released[c] = "none" /\ mCamera' = c
                            /\ cam' = [Released EXCEPT ![c] = "locked"]
  BY DEF StartCamera
<1>5. /\ mCamera' \in 0..MaxCameras
      /\ cam' \in [Cameras -> {"none", "locked", "released"}]
      /\ \A c \in Cameras : cam'[c] = "locked" => c = mCamera'
      /\ \A c \in Cameras : cam'[c] = "released" => cam[c] = "released" \/ c = mCamera
  <2>1. CASE mCamera' = 0 /\ cam' = Released
    BY <1>2, <2>1, CameraAssumption
  <2>2. CASE \E c \in Cameras : /\ Released[c] = "none" /\ mCamera' = c
                               /\ cam' = [Released EXCEPT ![c] = "locked"]
    BY <1>2, <2>2 DEF Cameras
  <2> QED BY <1>4, <2>1, <2>2
<1>6. TypeOK'
  BY <1>5 DEF Inv, TypeOK
<1>7. NoLeakedCamera' /\ LentOnlyToRecorder'
  BY <1>3, <1>5 DEF NoLeakedCamera, LentOnlyToRecorder, Open
<1>8. previewing' = {}
  BY <1>1
<1>9. ReleasedSeen'
  BY <1>1, <1>5 DEF Inv, ReleasedSeen, PreviewHasSurface
<1> QED BY <1>3, <1>6, <1>7, <1>8, <1>9
        DEF Inv, PreviewOpen, PreviewHasSurface, PausedEmpty, FirstVisitConsistent

LEMMA OnAutoFocusInv ==
    ASSUME Inv, NEW c \in Cameras, OnAutoFocus(c)
    PROVE  Inv'
<1>1. CASE Throw("NullCamera") \/ Throw("CameraUnlocked") \/ Throw("NoPreview")
  BY <1>1, ThrowInv
<1>2. focusing \ {c} \subseteq Cameras
  BY DEF Inv, TypeOK
<1>3. CASE /\ mCamera # 0 /\ cam[mCamera] = "locked" /\ mCamera \in previewing
           /\ focusing' = focusing \ {c}
           /\ StartCamera(Released)
           /\ previewing' = previewing \ {mCamera}
           /\ UNCHANGED <<mMediaRecorder, isRecording, resumed, surfaces, taken, paused,
                          exception>>
  BY <1>2, <1>3, RestartInv
<1>4. CASE /\ focusing' = focusing \ {c}
           /\ UNCHANGED <<activityVars, resumed, surfaces, taken, paused, exception>>
  BY <1>2, <1>4, FocusInv
<1> QED BY <1>1, <1>3, <1>4 DEF OnAutoFocus

LEMMA StartVideoInv ==
    ASSUME Inv, StartVideo
    PROVE  Inv'
<1>1. CASE Throw("NullCamera") \/ Throw("RecorderFailed")
  BY <1>1, ThrowInv
<1>2. ASSUME NEW recorder \in BOOLEAN, mCamera # 0, ~isRecording,
             cam' = [cam EXCEPT ![mCamera] = IF recorder THEN "unlocked" ELSE "locked"],
             mMediaRecorder' = recorder, isRecording' = recorder,
             UNCHANGED <<mCamera, previewing, systemVars, exception>>
      PROVE  Inv'
  <2>1. /\ UNCHANGED <<mCamera, previewing, exception>>
        /\ UNCHANGED <<resumed, surfaces, focusing, taken, paused>>
    BY <1>2 DEF systemVars
  <2>2. mCamera \in Cameras /\ cam \in [Cameras -> {"none", "locked", "unlocked", "released"}]
    BY <1>2 DEF Inv, TypeOK, Cameras
  <2>3. /\ cam'[mCamera] = IF recorder THEN "unlocked" ELSE "locked"
        /\ \A c \in Cameras : c # mCamera => cam'[c] = cam[c]
        /\ cam' \in [Cameras -> {"none", "locked", "unlocked", "released"}]
    BY <1>2, <2>2
  <2>4. TypeOK'
    BY <1>2, <2>1, <2>3 DEF Inv, TypeOK
  <2>5. NoLeakedCamera' /\ LentOnlyToRecorder' /\ PreviewOpen'
    BY <1>2, <2>1, <2>2, <2>3 DEF Inv, NoLeakedCamera, LentOnlyToRecorder, PreviewOpen, Open
  <2>6. ReleasedSeen'
    BY <2>1, <2>3 DEF Inv, ReleasedSeen
  <2> QED BY <1>2, <2>1, <2>4, <2>5, <2>6
          DEF Inv, PreviewHasSurface, PausedEmpty, FirstVisitConsistent
<1>3. CASE mCamera # 0 /\ cam' = [cam EXCEPT ![mCamera] = "unlocked"]
           /\ mMediaRecorder' = TRUE /\ isRecording' = TRUE
           /\ UNCHANGED <<mCamera, previewing, systemVars, exception>>
  BY <1>2, <1>3 DEF StartVideo
<1>4. CASE mCamera # 0 /\ cam' = [cam EXCEPT ![mCamera] = "locked"]
           /\ mMediaRecorder' = FALSE /\ isRecording' = isRecording
           /\ UNCHANGED <<mCamera, previewing, systemVars, exception>>
  <2>1. isRecording = FALSE
    BY DEF StartVideo, Inv, TypeOK
  <2> QED BY <1>2, <1>4, <2>1 DEF StartVideo
<1> QED BY <1>1, <1>3, <1>4 DEF StartVideo

LEMMA StopVideoInv ==
    ASSUME Inv, StopVideo
    PROVE  Inv'
<1>1. CASE Throw("RecorderFailed")
  BY <1>1, ThrowInv
<1>2. CASE ~mMediaRecorder /\ Throw("NullRecorder")
  <2>1. paused
    BY <1>2 DEF StopVideo, Inv, FirstVisitConsistent
  <2> QED BY <1>2, <2>1, ThrowInv
<1>3. CASE /\ mMediaRecorder
           /\ cam' = [cam EXCEPT ![mCamera] = "locked"]
           /\ mMediaRecorder' = FALSE
           /\ isRecording' = FALSE
           /\ UNCHANGED <<mCamera, previewing, systemVars, exception>>
  <2>1. /\ UNCHANGED <<mCamera, previewing, exception>>
        /\ UNCHANGED <<resumed, surfaces, focusing, taken, paused>>
    BY <1>3 DEF systemVars
  <2>2. mCamera \in Cameras /\ cam \in [Cameras -> {"none", "locked", "unlocked", "released"}]
    BY <1>3 DEF Inv, TypeOK, LentOnlyToRecorder, NoLeakedCamera, Open
  <2>3. /\ cam'[mCamera] = "locked"
        /\ \A c \in Cameras : c # mCamera => cam'[c] = cam[c]
        /\ cam' \in [Cameras -> {"none", "locked", "unlocked", "released"}]
    BY <1>3, <2>2
  <2>4. TypeOK'
    BY <1>3, <2>1, <2>3 DEF Inv, TypeOK
  <2>5. NoLeakedCamera' /\ LentOnlyToRecorder' /\ PreviewOpen'
    BY <1>3, <2>1, <2>2, <2>3 DEF Inv, NoLeakedCamera, LentOnlyToRecorder, PreviewOpen, Open
  <2>6. ReleasedSeen'
    BY <2>1, <2>3 DEF Inv, ReleasedSeen
  <2> QED BY <1>3, <2>1, <2>4, <2>5, <2>6
          DEF Inv, PreviewHasSurface, PausedEmpty, FirstVisitConsistent
<1> QED BY <1>1, <1>2, <1>3 DEF StopVideo

LEMMA OnPauseInv ==
    ASSUME Inv, OnPause
    PROVE  Inv'
<1>1. /\ resumed' = FALSE /\ paused' = TRUE /\ mMediaRecorder' = FALSE
      /\ cam' = Released /\ previewing' = previewing \ {mCamera} /\ mCamera' = 0
      /\ UNCHANGED <<isRecording, surfaces, focusing, taken, exception>>
  BY DEF OnPause
<1>2. cam' \in [Cameras -> {"none", "released"}]
  BY <1>1 DEF Inv, TypeOK, NoLeakedCamera, Open, Released
<1>3. previewing' = {}
  BY <1>1 DEF Inv, PreviewOpen, NoLeakedCamera
<1>4. TypeOK'
  <2>1. cam' \in [Cameras -> {"none", "locked", "unlocked", "released"}]
    BY <1>2
  <2>2. mCamera' \in 0..MaxCameras
    BY <1>1, CameraAssumption
  <2> QED BY <1>1, <1>3, <2>1, <2>2 DEF Inv, TypeOK
<1>5. NoLeakedCamera' /\ LentOnlyToRecorder'
  BY <1>1, <1>2 DEF NoLeakedCamera, LentOnlyToRecorder, Open
<1> QED BY <1>1, <1>3, <1>4, <1>5
        DEF Inv, PreviewOpen, PreviewHasSurface, PausedEmpty, ReleasedSeen, FirstVisitConsistent

\* The activity comes back, or another application takes the device.
LEMMA OutsideInv ==
    ASSUME Inv, OnResume \/ OtherApplication
    PROVE  Inv'
<1>1. /\ UNCHANGED <<mCamera, cam, previewing, mMediaRecorder, isRecording>>
      /\ UNCHANGED <<surfaces, focusing, paused, exception>>
      /\ resumed' \in BOOLEAN /\ taken' \in BOOLEAN /\ (~resumed' => ~resumed)
  BY DEF OnResume, OtherApplication, activityVars, Inv, TypeOK
<1>2. TypeOK'
  BY <1>1 DEF Inv, TypeOK
<1> QED BY <1>1, <1>2 DEF Inv, NoLeakedCamera, LentOnlyToRecorder, PreviewOpen,
           PreviewHasSurface, PausedEmpty, ReleasedSeen, FirstVisitConsistent, Open

LEMMA InvHolds == Spec => []Inv
<1>1. Inv /\ [Next]_vars => Inv'
  <2> SUFFICES ASSUME Inv, [Next]_vars PROVE Inv'
    OBVIOUS
  <2>1. ASSUME NEW c \in Cameras,
               \/ SurfaceCreated(c) \/ SurfaceChanged(c) \/ SurfaceDestroyed(c)
               \/ OnAutoFocus(c) \/ FocusLost(c)
        PROVE  Inv'
    <3>1. CASE FocusLost(c)
      <4>1. focusing' \subseteq Cameras
        BY <3>1 DEF FocusLost, Inv, TypeOK
      <4> QED BY <3>1, <4>1, FocusInv DEF FocusLost
    <3> QED BY <2>1, <3>1, SurfaceCreatedInv, SurfaceChangedInv, SurfaceDestroyedInv,
               OnAutoFocusInv
  <2>2. CASE CaptureImage
    BY <2>2, CaptureImageInv
  <2>3. CASE StartVideo
    BY <2>3, StartVideoInv
  <2>4. CASE StopVideo
    BY <2>4, StopVideoInv
  <2>5. CASE OnPause
    BY <2>5, OnPauseInv
  <2>6. CASE OnResume \/ OtherApplication
    BY <2>6, OutsideInv
  <2>7. CASE UNCHANGED vars
    BY <2>7 DEF vars, activityVars, systemVars, Inv, TypeOK, NoLeakedCamera, LentOnlyToRecorder,
                PreviewOpen, PreviewHasSurface, PausedEmpty, ReleasedSeen, FirstVisitConsistent,
                Open
  <2> QED BY <2>1, <2>2, <2>3, <2>4, <2>5, <2>6, <2>7 DEF Next, ProcessEnded
<1> QED BY InitInv, <1>1, PTL DEF Spec

\* A paused activity holds no camera, whatever callbacks come late.
THEOREM PausedReleased == Spec => []ReleasedWhilePaused
<1>1. Inv => ReleasedWhilePaused
  BY DEF Inv, ReleasedWhilePaused, PausedEmpty, NoLeakedCamera, Open, Cameras
<1> QED BY InvHolds, <1>1, PTL

\* Every open camera is the one that the next stopCamera releases.
THEOREM NoneLeaked == Spec => []NoLeakedCamera
<1>1. Inv => NoLeakedCamera
  BY DEF Inv
<1> QED BY InvHolds, <1>1, PTL

\* The camera comes back from the recorder on every way out.
THEOREM LentAndBack == Spec => []LentOnlyToRecorder
<1>1. Inv => LentOnlyToRecorder
  BY DEF Inv
<1> QED BY InvHolds, <1>1, PTL

\* No preview outlives its surface, though surfaceDestroyed does nothing.
THEOREM PreviewsSeen == Spec => []PreviewHasSurface
<1>1. Inv => PreviewHasSurface
  BY DEF Inv
<1> QED BY InvHolds, <1>1, PTL

\* Until the first pause the fields agree with the cameras.
THEOREM FirstVisit == Spec => []FirstVisitConsistent
<1>1. Inv => FirstVisitConsistent
  BY DEF Inv
<1> QED BY InvHolds, <1>1, PTL
=============================================================================
