------------------------------ MODULE MyCamera ------------------------------
(***************************************************************************)
(* CameraOpenGLES/MyCamera.java: the camera of the OpenGL screen.  The view *)
(* calls start and stop from its callbacks, so each is an operator on the   *)
(* camera's state that the view's actions apply (see CameraGLSurfaceView).  *)
(***************************************************************************)

VARIABLE
    camera      \* who has the device open; MyCamera.running; a start has thrown

Camera == [device : {"free", "ours", "theirs"}, running : BOOLEAN, failed : BOOLEAN]

CameraInit == camera = [device |-> "free", running |-> FALSE, failed |-> FALSE]

\* What start may leave.  Camera.open throws when the device is open, by us too;
\* an IOException of setPreviewTexture is caught with the camera left open.
Started(c) ==
    IF c.device # "free"
    THEN {[c EXCEPT !.failed = TRUE]}
    ELSE {[c EXCEPT !.device = "ours", !.running = preview] : preview \in BOOLEAN}

Stopped(c) ==
    IF c.running THEN [c EXCEPT !.device = "free", !.running = FALSE] ELSE c

\* Another application takes the camera, or gives it back.
OtherApplication ==
    /\ \/ camera.device = "free" /\ camera' = [camera EXCEPT !.device = "theirs"]
       \/ camera.device = "theirs" /\ camera' = [camera EXCEPT !.device = "free"]
=============================================================================
