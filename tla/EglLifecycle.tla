---------------------------- MODULE EglLifecycle ----------------------------
(***************************************************************************)
(* EGL in the encoder thread: opengles/EglCore, EglSurfaceBase,             *)
(* WindowSurface and FullFrameRect, as TextureMovieEncoder's handlers use   *)
(* them.  What EGL does is external: a destroyed surface lives on while it  *)
(* is current, and the objects of a share group live until the last context *)
(* of the group is destroyed.  A share group is named by the GL thread's    *)
(* context that the encoder shares with.                                    *)
(***************************************************************************)
EXTENDS EncoderMessages

VARIABLES
    egl,            \* the encoder thread's EGL objects
    programs,       \* the share groups in which the encoder's GL programs exist
    overtaken       \* history: a pause destroyed a context that a message was to share

Contexts == 1..MaxContexts
vars == <<egl, programs, overtaken, messageVars>>

NoCore == 0
Errors == {"none", "BadContext", "AlreadyCreated", "AlreadyConnected", "BadSurface",
           "NoWindow", "NoProgram"}
Egl == [core : Contexts \cup {NoCore},  \* mEglCore, by its share group
        display : 0..1,                 \* references to the display not yet given back
        surface : BOOLEAN,              \* mEGLSurface is not EGL_NO_SURFACE
        window : BOOLEAN,               \* mSurface of WindowSurface is not null
        connected : BOOLEAN,            \* an EGL surface holds the encoder's Surface
        rect : Contexts \cup {NoCore},  \* the group of mFullScreen's program
        drawer : Contexts \cup {NoCore},\* the group of mDirectDrawer's program
        current : {"nothing", "surface", "destroyed"},  \* current on the thread
        error : Errors]

TypeOK ==
    /\ egl \in Egl
    /\ glContext \in 0..MaxContexts
    /\ glAlive \in BOOLEAN
    /\ programs \in [Contexts -> BOOLEAN]
    /\ overtaken \in BOOLEAN
    /\ shared \in 0..MaxContexts
    /\ queue \in Seq([what : {"START", "CONTEXT", "TEXTURE", "FRAME", "STOP"}, arg : 0..MaxContexts])

Init ==
    /\ egl = [core |-> NoCore, display |-> 0, surface |-> FALSE, window |-> FALSE,
              connected |-> FALSE, rect |-> NoCore, drawer |-> NoCore, current |-> "nothing", error |-> "none"]
    /\ programs = [g \in Contexts |-> FALSE]
    /\ overtaken = FALSE
    /\ MessagesInit

Alive == egl.error = "none"
-----------------------------------------------------------------------------
(* The methods of the EGL classes, on the EGL objects e.  After an error     *)
(* that is thrown the process is gone.                                       *)

Fail(e, error) == IF e.error = "none" THEN [e EXCEPT !.error = error] ELSE e

\* new EglCore(context, FLAG_RECORDABLE)
NewEglCore(e, context, alive) ==
    LET initialized == [e EXCEPT !.display = @ + 1]
    IN  IF alive THEN [initialized EXCEPT !.core = context]
        ELSE Fail(initialized, "BadContext")

\* EglCore.createWindowSurface.
ConnectSurface(e) ==
    IF e.connected THEN Fail(e, "AlreadyConnected")
    ELSE [e EXCEPT !.surface = TRUE, !.connected = TRUE]

\* EglSurfaceBase.createWindowSurface.
CreateWindowSurface(e) ==
    IF e.surface THEN Fail(e, "AlreadyCreated") ELSE ConnectSurface(e)

\* new WindowSurface, on the Surface of a new codec.
NewWindowSurface(e) ==
    CreateWindowSurface([e EXCEPT !.surface = FALSE, !.connected = FALSE, !.window = TRUE])

Recreate(e) == IF e.window THEN CreateWindowSurface(e) ELSE Fail(e, "NoWindow")

MakeCurrent(e) ==
    IF e.surface THEN [e EXCEPT !.current = "surface"] ELSE Fail(e, "BadSurface")

\* EglSurfaceBase.releaseEglSurface.  A core without a display destroys nothing,
\* and nobody looks at the error.
ReleaseEglSurface(e) ==
    [e EXCEPT !.surface = FALSE,
              !.connected = e.connected /\ (e.core = NoCore \/ e.current = "surface"),
              !.current = IF @ = "surface" /\ e.core # NoCore THEN "destroyed" ELSE @]

\* WindowSurface.release, which gives the Surface up as well.
ReleaseWindowSurface(e) == [ReleaseEglSurface(e) EXCEPT !.window = FALSE]

\* Mutation: release makes nothing current before it destroys the context.
ReleaseEglCoreCurrent(e) ==
    IF e.core = NoCore THEN e ELSE [e EXCEPT !.core = NoCore, !.display = @ - 1]

\* EglCore.release.
ReleaseEglCore(e) ==
    IF e.core = NoCore THEN e
    ELSE [e EXCEPT !.core = NoCore, !.display = @ - 1, !.current = "nothing",
                   !.connected = e.connected /\ e.current # "destroyed"]

\* GlUtil.createProgram: without a context no shader is made, and 0 returned.
CreateProgram(e) == IF e.current = "nothing" THEN NoCore ELSE e.core

\* new FullFrameRect(new Texture2dProgram(TEXTURE_EXT))
NewFullFrameRect(e) ==
    IF CreateProgram(e) = NoCore THEN Fail(e, "NoProgram")
    ELSE [e EXCEPT !.rect = CreateProgram(e)]

\* FullFrameRect.release(false) forgets the program.
ReleaseFullFrameRect(e) == [e EXCEPT !.rect = NoCore]

\* new DirectDrawer, which looks at no error.
NewDirectDrawer(e) == [e EXCEPT !.drawer = CreateProgram(e)]

NewPrograms(e) == NewDirectDrawer(NewFullFrameRect(e))
-----------------------------------------------------------------------------
(* The handlers of the encoder thread.                                       *)

Receives(what) ==
    /\ Alive
    /\ Take
    /\ Head(queue).what = what
    /\ UNCHANGED overtaken

ContextAlive(g) == g = glContext /\ glAlive

\* The programs of group g once the encoder's context has left the group.
ProgramsWithout(g) ==
    IF g = NoCore \/ ContextAlive(g) THEN programs ELSE [programs EXCEPT ![g] = FALSE]

\* prepareEncoder
HandleStartRecording ==
    /\ Receives("START")
    /\ LET g == Head(queue).arg
       IN  /\ egl' = NewPrograms(MakeCurrent(NewWindowSurface(
                         NewEglCore(egl, g, ContextAlive(g)))))
           /\ programs' = [programs EXCEPT ![g] = TRUE]

\* The first half of handleUpdateSharedContext.
ReleaseOldContext(e) == ReleaseEglCore(ReleaseFullFrameRect(ReleaseEglSurface(e)))

\* Mutation: the old EGL core is released before its surface.
HandleUpdateSharedContextSwapped ==
    /\ Receives("CONTEXT")
    /\ LET g == Head(queue).arg
       IN  /\ egl' = NewPrograms(MakeCurrent(Recreate(
                         NewEglCore(ReleaseEglSurface(ReleaseEglCore(egl)), g, ContextAlive(g)))))
           /\ programs' = [ProgramsWithout(egl.core) EXCEPT ![g] = TRUE]

\* Mutation: the window surface is released, not only its EGL surface.
HandleUpdateSharedContextReleased ==
    /\ Receives("CONTEXT")
    /\ LET g == Head(queue).arg
       IN  /\ egl' = NewPrograms(MakeCurrent(Recreate(
                         NewEglCore(ReleaseEglCore(ReleaseWindowSurface(egl)), g, ContextAlive(g)))))
           /\ programs' = [ProgramsWithout(egl.core) EXCEPT ![g] = TRUE]

\* Mutation: the programs are made before the new surface is current.
HandleUpdateSharedContextEarly ==
    /\ Receives("CONTEXT")
    /\ LET g == Head(queue).arg
       IN  /\ egl' = MakeCurrent(NewPrograms(Recreate(
                         NewEglCore(ReleaseOldContext(egl), g, ContextAlive(g)))))
           /\ programs' = [ProgramsWithout(egl.core) EXCEPT ![g] = TRUE]

\* Mutation: the drawer of the old context is kept.
HandleUpdateSharedContextDrawer ==
    /\ Receives("CONTEXT")
    /\ LET g == Head(queue).arg
       IN  /\ egl' = NewFullFrameRect(MakeCurrent(Recreate(
                         NewEglCore(ReleaseOldContext(egl), g, ContextAlive(g)))))
           /\ programs' = [ProgramsWithout(egl.core) EXCEPT ![g] = TRUE]

\* Mutation: the old EGL core is replaced without being released.
HandleUpdateSharedContextKept ==
    /\ Receives("CONTEXT")
    /\ LET g == Head(queue).arg
       IN  /\ egl' = NewPrograms(MakeCurrent(Recreate(
                         NewEglCore([ReleaseEglSurface(egl) EXCEPT !.connected = FALSE],
                                    g, ContextAlive(g)))))
           /\ programs' = [programs EXCEPT ![g] = TRUE]

HandleUpdateSharedContext ==
    /\ Receives("CONTEXT")
    /\ LET g == Head(queue).arg
       IN  /\ egl' = NewPrograms(MakeCurrent(Recreate(
                         NewEglCore(ReleaseOldContext(egl), g, ContextAlive(g)))))
           /\ programs' = [ProgramsWithout(egl.core) EXCEPT ![g] = TRUE]

\* mTextureId is a field of the encoder (see TextureMovieEncoder), no EGL object.
HandleSetTexture ==
    /\ Receives("TEXTURE")
    /\ UNCHANGED <<egl, programs>>

HandleFrameAvailable ==
    /\ Receives("FRAME")
    /\ UNCHANGED <<egl, programs>>

\* releaseEncoder.  The programs are left to the end of the context: FullFrameRect
\* skips its clean-up, and the DirectDrawer is not released.
HandleStopRecording ==
    /\ Receives("STOP")
    /\ egl' = ReleaseEglCore(ReleaseFullFrameRect(ReleaseWindowSurface(egl)))
    /\ programs' = ProgramsWithout(egl.core)
-----------------------------------------------------------------------------
(* The GL thread posts as EncoderMessages has it.                            *)

\* The objects of a group outlive the GL thread's context if the encoder's is
\* in it.
PauseContext ==
    /\ OnPause
    /\ programs' = IF egl.core = glContext THEN programs
                   ELSE [programs EXCEPT ![glContext] = FALSE]
    /\ overtaken' = (overtaken \/ \E i \in DOMAIN queue :
                        queue[i].what \in {"START", "CONTEXT"} /\ queue[i].arg = glContext)

GLThread ==
    /\ Alive
    /\ \/ PauseContext
       \/ OnSurfaceCreated /\ UNCHANGED <<programs, overtaken>>
       \/ Draw /\ UNCHANGED <<programs, overtaken>>
    /\ UNCHANGED egl

EncoderThread ==
    \/ HandleStartRecording
    \/ HandleUpdateSharedContext
    \/ HandleSetTexture
    \/ HandleFrameAvailable
    \/ HandleStopRecording

\* The activity may stay paused, and an error ends the process.
Rest == (~glAlive \/ ~Alive) /\ UNCHANGED vars

Next == GLThread \/ EncoderThread \/ Rest

Spec == Init /\ [][Next]_vars
-----------------------------------------------------------------------------
(* Properties.                                                               *)

\* The doc of recreate: the create call fails if "the previous EGLSurface isn't
\* fully destroyed".  It always is: the surface is released while its core still
\* has a display, and it stops being current before the new one is made.  The new
\* one's programs are made when it is current, so no constructor throws.  The context to
\* share with is alive when it is posted, and only a pause that comes before its message
\* is handled can make eglCreateContext fail.
RecreateSucceeds == egl.error = "none" \/ (egl.error = "BadContext" /\ overtaken)

\* A frame is drawn with the surface of this recording current, and by a program
\* of the context's own share group.
DrawsInOwnContext ==
    Alive /\ queue # <<>> /\ Head(queue).what = "FRAME" =>
        /\ egl.core # NoCore /\ egl.drawer = egl.core
        /\ egl.current = "surface"

\* Every eglInitialize has its eglTerminate: one display reference with a core and
\* none without, whatever contexts came and went.  The programs that no release
\* deletes are gone with the last context of their group, which the encoder does not
\* hold longer than it draws in it.  A recording that has ended also leaves no
\* surface on the codec's window and nothing current.
NothingLeftInEgl ==
    Alive => /\ egl.display = IF egl.core = NoCore THEN 0 ELSE 1
             /\ \A g \in Contexts : programs[g] => egl.core = g \/ ContextAlive(g)
             /\ egl.core = NoCore =>
                    ~egl.connected /\ ~egl.window /\ egl.current = "nothing"
=============================================================================
