--------------------------- MODULE CameraActivity ---------------------------
(***************************************************************************)
(* CameraActivity and its CameraPreview views: the SurfaceView camera       *)
(* screen.  All of it runs on the UI thread, one callback at a time; what   *)
(* is hard is their order: clicks, autofocus and surface callbacks, pauses. *)
(* Every start opens a Camera and adds a preview view that keeps it.  The   *)
(* views are never removed, so old ones get callbacks with their old camera.*)
(***************************************************************************)
EXTENDS Naturals

CONSTANT MaxCameras     \* bound: Camera objects opened

ASSUME CameraAssumption == MaxCameras \in Nat \ {0}

VARIABLES
    resumed,
    mCamera,        \* the Camera the field holds, numbered as opened; 0 for null
    cam,            \* each Camera: locked is ours, unlocked is lent to the recorder
    previewing,     \* cameras whose preview runs
    surfaces,       \* preview views, named by their camera, with a surface
    mMediaRecorder, \* the field is not null
    isRecording,
    focusing,       \* cameras that owe an autofocus callback
    taken,          \* another application has the camera device
    paused,         \* history: the activity has been paused
    exception       \* the uncaught exception that ended the process, if any

activityVars == <<mCamera, cam, previewing, mMediaRecorder, isRecording>>
systemVars == <<resumed, surfaces, focusing, taken, paused>>
vars == <<activityVars, systemVars, exception>>

Cameras == 1..MaxCameras
Alive == exception = "none"
Open == {c \in Cameras : cam[c] \in {"locked", "unlocked"}}

TypeOK ==
    /\ resumed \in BOOLEAN
    /\ mCamera \in 0..MaxCameras
    /\ cam \in [Cameras -> {"none", "locked", "unlocked", "released"}]
    /\ previewing \subseteq Cameras
    /\ surfaces \subseteq Cameras
    /\ mMediaRecorder \in BOOLEAN
    /\ isRecording \in BOOLEAN
    /\ focusing \subseteq Cameras
    /\ taken \in BOOLEAN
    /\ paused \in BOOLEAN
    /\ exception \in {"none", "NullCamera", "NullRecorder", "CameraReleased",
                      "CameraUnlocked", "NoPreview", "RecorderFailed"}

\* getCameraInstance and the rest of startCamera, on the cameras as they are:
\* a new Camera and its view, or null when the device is in use.
StartCamera(cams) ==
    LET new == {c \in Cameras : cams[c] = "none" /\ \A d \in 1..(c - 1) : cams[d] # "none"}
        busy == taken \/ \E c \in Cameras : cams[c] \in {"locked", "unlocked"}
    IN  IF busy THEN mCamera' = 0 /\ cam' = cams
        ELSE \E c \in new : mCamera' = c /\ cam' = [cams EXCEPT ![c] = "locked"]

\* stopPreview and release of the Camera the field holds, if any.
Released == [c \in Cameras |-> IF c = mCamera THEN "released" ELSE cam[c]]

\* onCreate
Init ==
    /\ resumed = TRUE
    /\ \E device \in BOOLEAN :
           /\ taken = device
           /\ mCamera = IF device THEN 0 ELSE 1
           /\ cam = [c \in Cameras |-> IF c = 1 /\ ~device THEN "locked" ELSE "none"]
    /\ previewing = {}
    /\ surfaces = {}
    /\ mMediaRecorder = FALSE
    /\ isRecording = FALSE
    /\ focusing = {}
    /\ paused = FALSE
    /\ exception = "none"

Throw(e) == exception' = e /\ UNCHANGED <<activityVars, systemVars>>
-----------------------------------------------------------------------------
(* CameraPreview.                                                           *)

\* The view of camera c gets a surface.  Only an IOException is caught.
SurfaceCreated(c) ==
    /\ Alive /\ resumed
    /\ cam[c] # "none" /\ c \notin surfaces
    /\ CASE cam[c] = "released" -> Throw("CameraReleased")
         [] cam[c] = "unlocked" -> Throw("CameraUnlocked")
         [] OTHER ->
              /\ surfaces' = surfaces \cup {c}
              /\ \/ previewing' = previewing \cup {c}
                 \/ UNCHANGED previewing
              /\ UNCHANGED <<mCamera, cam, mMediaRecorder, isRecording, resumed, focusing,
                             taken, paused, exception>>

\* Any exception is caught, so a camera that is not ours is left as it is.
SurfaceChanged(c) ==
    /\ Alive
    /\ c \in surfaces
    /\ cam[c] = "locked"
    /\ \/ previewing' = previewing \cup {c}
       \/ previewing' = previewing \ {c}
    /\ UNCHANGED <<mCamera, cam, mMediaRecorder, isRecording, systemVars, exception>>

\* Surfaces go when the activity is no longer seen.  surfaceDestroyed is empty.
SurfaceDestroyed(c) ==
    /\ Alive /\ ~resumed
    /\ c \in surfaces
    /\ surfaces' = surfaces \ {c}
    /\ UNCHANGED <<activityVars, resumed, focusing, taken, paused, exception>>
-----------------------------------------------------------------------------
(* CameraActivity.                                                          *)

\* Camera.autoFocus throws on a camera that is lent out or shows no preview.
CaptureImage ==
    /\ Alive /\ resumed
    /\ mCamera # 0
    /\ CASE cam[mCamera] = "unlocked" -> Throw("CameraUnlocked")
         [] mCamera \notin previewing -> Throw("NoPreview")
         [] OTHER -> /\ focusing' = focusing \cup {mCamera}
                     /\ UNCHANGED <<activityVars, resumed, surfaces, taken, paused, exception>>

\* Mutation: onAutoFocus tests mCamera before it takes the picture, and restarts
\* the camera in any case.
OnAutoFocusRestarts(c) ==
    /\ Alive
    /\ c \in focusing
    /\ focusing' = focusing \ {c}
    /\ StartCamera(Released)
    /\ previewing' = previewing \ {mCamera}
    /\ UNCHANGED <<mMediaRecorder, isRecording, resumed, surfaces, taken, paused, exception>>

\* Mutation: the camera is started again without having been stopped.
OnAutoFocusStarts(c) ==
    /\ Alive
    /\ c \in focusing /\ mCamera # 0
    /\ focusing' = focusing \ {c}
    /\ StartCamera(cam)
    /\ UNCHANGED <<previewing, mMediaRecorder, isRecording, resumed, surfaces, taken, paused,
                   exception>>

\* The callback of camera c works on the Camera the field holds by then: it takes
\* the picture and restarts the camera at once, or failed to focus and does
\* nothing.  The callback of a released camera may be in the UI thread's queue.
OnAutoFocus(c) ==
    /\ Alive
    /\ c \in focusing
    /\ \/ /\ mCamera = 0
          /\ Throw("NullCamera")
       \/ /\ mCamera # 0 /\ cam[mCamera] = "unlocked"
          /\ Throw("CameraUnlocked")
       \/ /\ mCamera # 0 /\ cam[mCamera] = "locked" /\ mCamera \notin previewing
          /\ Throw("NoPreview")
       \/ /\ mCamera # 0 /\ cam[mCamera] = "locked" /\ mCamera \in previewing
          /\ focusing' = focusing \ {c}
          /\ StartCamera(Released)
          /\ previewing' = previewing \ {mCamera}
          /\ UNCHANGED <<mMediaRecorder, isRecording, resumed, surfaces, taken, paused,
                         exception>>
       \/ /\ focusing' = focusing \ {c}
          /\ UNCHANGED <<activityVars, resumed, surfaces, taken, paused, exception>>

\* A released camera may give no callback at all.
FocusLost(c) ==
    /\ Alive
    /\ c \in focusing /\ cam[c] = "released"
    /\ focusing' = focusing \ {c}
    /\ UNCHANGED <<activityVars, resumed, surfaces, taken, paused, exception>>

\* Mutation: caputureVideo takes no notice of a failed prepare.
StartVideoUnchecked ==
    /\ Alive /\ resumed /\ ~isRecording /\ mCamera # 0
    /\ isRecording' = TRUE
    /\ \E prepared \in BOOLEAN :
           /\ mMediaRecorder' = prepared
           /\ cam' = [cam EXCEPT ![mCamera] = IF prepared THEN "unlocked" ELSE "locked"]
    /\ UNCHANGED <<mCamera, previewing, systemVars, exception>>

\* caputureVideo when not recording: prepareVideoRecorder lends the camera to the
\* recorder; if prepare fails releaseMediaRecorder takes it back.  The preview
\* goes on meanwhile.  MediaRecorder.start may throw.
StartVideo ==
    /\ Alive /\ resumed /\ ~isRecording
    /\ \/ /\ mCamera = 0
          /\ Throw("NullCamera")
       \/ /\ mCamera # 0
          /\ Throw("RecorderFailed")
       \/ /\ mCamera # 0
          /\ \/ /\ cam' = [cam EXCEPT ![mCamera] = "unlocked"]
                /\ mMediaRecorder' = TRUE
                /\ isRecording' = TRUE
             \/ /\ cam' = [cam EXCEPT ![mCamera] = "locked"]
                /\ mMediaRecorder' = FALSE
                /\ UNCHANGED isRecording
          /\ UNCHANGED <<mCamera, previewing, systemVars, exception>>

\* Mutation: the recorder is stopped and its camera is not taken back.
StopVideoUnlocked ==
    /\ Alive /\ resumed /\ isRecording
    /\ mMediaRecorder
    /\ mMediaRecorder' = FALSE
    /\ isRecording' = FALSE
    /\ UNCHANGED <<mCamera, cam, previewing, systemVars, exception>>

\* caputureVideo when recording.  MediaRecorder.stop throws without data.
StopVideo ==
    /\ Alive /\ resumed /\ isRecording
    /\ \/ /\ ~mMediaRecorder
          /\ Throw("NullRecorder")
       \/ /\ mMediaRecorder
          /\ Throw("RecorderFailed")
       \/ /\ mMediaRecorder
          /\ cam' = [cam EXCEPT ![mCamera] = "locked"]
          /\ mMediaRecorder' = FALSE
          /\ isRecording' = FALSE
          /\ UNCHANGED <<mCamera, previewing, systemVars, exception>>

\* Mutation: onPause releases the recorder and keeps the camera.
OnPauseKeepsCamera ==
    /\ Alive /\ resumed
    /\ resumed' = FALSE
    /\ paused' = TRUE
    /\ mMediaRecorder' = FALSE
    /\ cam' = [c \in Cameras |-> IF c = mCamera THEN "locked" ELSE cam[c]]
    /\ UNCHANGED <<mCamera, previewing, isRecording, surfaces, focusing, taken, exception>>

\* releaseMediaRecorder, then stopCamera.  isRecording stays.
OnPause ==
    /\ Alive /\ resumed
    /\ resumed' = FALSE
    /\ paused' = TRUE
    /\ mMediaRecorder' = FALSE
    /\ cam' = Released
    /\ previewing' = previewing \ {mCamera}
    /\ mCamera' = 0
    /\ UNCHANGED <<isRecording, surfaces, focusing, taken, exception>>

\* The activity does not override onResume: the camera is not opened again.
OnResume ==
    /\ Alive /\ ~resumed
    /\ resumed' = TRUE
    /\ UNCHANGED <<activityVars, surfaces, focusing, taken, paused, exception>>

\* Another application takes the camera device, or gives it back.
OtherApplication ==
    /\ Alive
    /\ taken \/ Open = {}
    /\ taken' = ~taken
    /\ UNCHANGED <<activityVars, resumed, surfaces, focusing, paused, exception>>

ProcessEnded == ~Alive /\ UNCHANGED vars

Next ==
    \/ \E c \in Cameras :
           \/ SurfaceCreated(c)
           \/ SurfaceChanged(c)
           \/ SurfaceDestroyed(c)
           \/ OnAutoFocus(c)
           \/ FocusLost(c)
    \/ CaptureImage
    \/ StartVideo
    \/ StopVideo
    \/ OnPause
    \/ OnResume
    \/ OtherApplication
    \/ ProcessEnded

Spec == Init /\ [][Next]_vars
-----------------------------------------------------------------------------
(* Properties.                                                              *)

\* "Release the camera immediately on pause event": while the activity is paused
\* it holds no camera, and no late callback opens one again.
ReleasedWhilePaused == ~resumed => Open = {}

\* No Camera is leaked: one that is open is the one the field holds, so the next
\* stopCamera releases it.
NoLeakedCamera == Open \subseteq {mCamera}

\* "Take camera access back from MediaRecorder": a camera is lent exactly while
\* there is a recorder, so it is ours again after each failure, stop and pause.
LentOnlyToRecorder == (\E c \in Cameras : cam[c] = "unlocked") <=> mMediaRecorder

\* surfaceDestroyed is empty because the activity "takes care of releasing the
\* camera preview": no preview runs whose surface has gone.
PreviewHasSurface == previewing \subseteq surfaces

\* The crashes for a recorder that is gone and for a released camera need a pause
\* before: on the first visit fields and views always agree with the cameras.
FirstVisitConsistent ==
    ~paused => /\ exception \notin {"NullRecorder", "CameraReleased"}
               /\ isRecording = mMediaRecorder
=============================================================================
