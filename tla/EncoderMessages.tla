-------------------------- MODULE EncoderMessages --------------------------
(***************************************************************************)
(* What the encoder thread may rely on: the order in which the GL thread    *)
(* posts, over the surfaces it gets and loses.  This is the abstract side   *)
(* of CameraGLSurfaceView, which implements it, and the environment of      *)
(* EglLifecycle, which adds what the messages do to EGL.  Only the messages *)
(* that are handled count: nothing behind QUIT.                             *)
(***************************************************************************)
EXTENDS Naturals, Sequences

CONSTANTS
    MaxContexts,    \* bound: contexts the GL thread creates
    MaxQueue        \* bound: messages waiting for the encoder thread

ASSUME MessagesAssumption == MaxContexts \in Nat \ {0} /\ MaxQueue \in Nat \ {0}

VARIABLES
    glContext,      \* contexts the GL thread has created so far
    glAlive,        \* the last of them still exists
    shared,         \* the context posted last in this recording; 0 without one
    queue

glVars == <<glContext, glAlive, shared>>
messageVars == <<glVars, queue>>

MessagesInit ==
    /\ glContext = 0
    /\ glAlive = FALSE
    /\ shared = 0
    /\ queue = <<>>
-----------------------------------------------------------------------------
(* The GL thread.                                                            *)

Post(what, arg) ==
    /\ Len(queue) < MaxQueue
    /\ queue' = Append(queue, [what |-> what, arg |-> arg])

\* A surface is created; the old one is gone.
OnSurfaceCreated ==
    /\ ~glAlive
    /\ glContext < MaxContexts
    /\ glContext' = glContext + 1
    /\ glAlive' = TRUE
    /\ UNCHANGED <<shared, queue>>

\* The activity is paused: GLSurfaceView destroys its context.
OnPause ==
    /\ glAlive
    /\ glAlive' = FALSE
    /\ UNCHANGED <<glContext, shared, queue>>

DrawStart ==
    /\ glAlive /\ shared = 0
    /\ Post("START", glContext)
    /\ shared' = glContext
    /\ UNCHANGED <<glContext, glAlive>>

\* Mutation: the encoder is given the context it already has.
DrawResumeOld ==
    /\ glAlive /\ shared # 0
    /\ Post("CONTEXT", shared)
    /\ UNCHANGED glVars

\* The first draw of a surface that is new, or that was only resized: then the
\* encoder is given the context it has.
DrawResume ==
    /\ glAlive /\ shared # 0
    /\ Post("CONTEXT", glContext)
    /\ shared' = glContext
    /\ UNCHANGED <<glContext, glAlive>>

\* The texture of the frames that follow, of the context that draws them.
DrawTexture ==
    /\ glAlive /\ shared = glContext
    /\ Post("TEXTURE", glContext)
    /\ UNCHANGED glVars

DrawAvailable ==
    /\ glAlive /\ shared = glContext
    /\ Post("FRAME", 0)
    /\ UNCHANGED glVars

DrawStop ==
    /\ glAlive /\ shared # 0
    /\ Post("STOP", 0)
    /\ shared' = 0
    /\ UNCHANGED <<glContext, glAlive>>

Draw ==
    \/ DrawStart
    \/ DrawResume
    \/ DrawTexture
    \/ DrawAvailable
    \/ DrawStop
-----------------------------------------------------------------------------
(* The encoder thread.                                                       *)

Take ==
    /\ queue # <<>>
    /\ queue' = Tail(queue)
    /\ UNCHANGED glVars

MessagesNext == OnSurfaceCreated \/ OnPause \/ Draw \/ Take

MessagesSpec == MessagesInit /\ [][MessagesNext]_messageVars
=============================================================================
