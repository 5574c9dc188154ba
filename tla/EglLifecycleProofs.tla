------------------------- MODULE EglLifecycleProofs -------------------------
(***************************************************************************)
(* Proofs about EglLifecycle, for any number of contexts and any length of  *)
(* the queue: the handlers leave EGL either fully set up or fully given     *)
(* back, whatever surfaces the GL thread gets and loses meanwhile.          *)
(***************************************************************************)
EXTENDS EglLifecycle, SequenceTheorems, TLAPS

\* EGL between two recordings.  The drawer may be the one of the last recording.
Closed(e) ==
    /\ e.core = NoCore /\ e.display = 0
    /\ ~e.window /\ ~e.connected
    /\ e.current = "nothing"

\* EGL during a recording in share group g.
OpenIn(e, g) ==
    /\ e.core = g /\ e.display = 1
    /\ e.surface /\ e.window /\ e.connected
    /\ e.rect = g /\ e.drawer = g
    /\ e.current = "surface"

\* EGL holds nothing or all of a recording, unless creating a context has failed.
EglInv ==
    /\ egl.error \in {"none", "BadContext"}
    /\ egl.error = "none" => Closed(egl) \/ (egl.core # NoCore /\ OpenIn(egl, egl.core))

\* START comes first of all or behind STOP, and nothing else does.
Order(q, open) ==
    \A i \in 1..Len(q) :
        q[i].what = "START" <=> IF i = 1 THEN ~open ELSE q[i - 1].what = "STOP"

\* The queue q and what is posted next continue the recording that is open, or none.
QueueInv ==
    /\ Order(queue, egl.core # NoCore)
    /\ shared = 0 <=> IF queue = <<>> THEN egl.core = NoCore ELSE queue[Len(queue)].what = "STOP"

\* A message carries a context there has been; it is dead only after a pause.
ContextInv ==
    \A i \in 1..Len(queue) :
        queue[i].what \in {"START", "CONTEXT"} =>
            /\ queue[i].arg \in 1..glContext
            /\ ContextAlive(queue[i].arg) \/ overtaken

ProgramsInv == \A g \in Contexts : programs[g] => egl.core = g \/ ContextAlive(g)

Inv ==
    /\ TypeOK
    /\ glAlive => glContext # 0
    /\ EglInv
    /\ egl.error = "BadContext" => overtaken
    /\ Alive => QueueInv /\ ContextInv /\ ProgramsInv
-----------------------------------------------------------------------------
(* The methods of the EGL classes.                                          *)

\* A context that is alive, and only that, lets a core be made.
LEMMA NewEglCoreMakes ==
    ASSUME NEW e \in Egl, NEW g \in Contexts, NEW alive \in BOOLEAN,
           e.error = "none", e.core = NoCore, e.display = 0
    PROVE  LET r == NewEglCore(e, g, alive)
           IN  /\ r \in Egl
               /\ r.display = 1
               /\ r.core = IF alive THEN g ELSE NoCore
               /\ r.error = IF alive THEN "none" ELSE "BadContext"
               /\ r.surface = e.surface /\ r.window = e.window
               /\ r.connected = e.connected /\ r.current = e.current
<1> DEFINE d == [e EXCEPT !.display = @ + 1]
<1>1. /\ d \in Egl /\ d.display = 1 /\ d.core = NoCore /\ d.error = "none"
      /\ d.surface = e.surface /\ d.window = e.window
      /\ d.connected = e.connected /\ d.current = e.current
    BY DEF Egl
<1> HIDE DEF d
<1>2. CASE alive
    BY <1>1, <1>2 DEF NewEglCore, d, Egl
<1>3. CASE ~alive
    <2>1. NewEglCore(e, g, alive) = [d EXCEPT !.error = "BadContext"]
        BY <1>1, <1>3 DEF NewEglCore, Fail, d
    <2> QED
        BY <1>1, <1>3, <2>1 DEF Egl, Errors
<1> QED
    BY <1>2, <1>3

\* The window surface, new or made again, when nothing holds the window.
LEMMA SurfaceMade ==
    ASSUME NEW e \in Egl, NEW r \in {NewWindowSurface(e), Recreate(e)},
           r = NewWindowSurface(e) \/ (e.window /\ ~e.surface /\ ~e.connected)
    PROVE  /\ r \in Egl
           /\ r.surface /\ r.window /\ r.connected
           /\ r.core = e.core /\ r.display = e.display
           /\ r.current = e.current /\ r.error = e.error
<1>1. CASE r = NewWindowSurface(e)
    BY <1>1 DEF NewWindowSurface, CreateWindowSurface, ConnectSurface, Fail, Egl, Errors
<1>2. CASE r = Recreate(e) /\ e.window /\ ~e.surface /\ ~e.connected
    BY <1>2 DEF Recreate, CreateWindowSurface, ConnectSurface, Fail, Egl, Errors
<1>3. QED
    BY <1>1, <1>2

\* Making the surface current and the programs in it completes a recording's EGL,
\* or, without a core, leaves the error that is there.
LEMMA RecordingSetUp ==
    ASSUME NEW e \in Egl, e.surface, e.window, e.connected, e.display = 1,
           e.core # NoCore \/ e.error # "none"
    PROVE  LET r == NewPrograms(MakeCurrent(e))
           IN  /\ r \in Egl
               /\ r.error = e.error
               /\ r.core = e.core
               /\ e.core # NoCore => OpenIn(r, e.core)
<1> DEFINE c == MakeCurrent(e)
           f == NewFullFrameRect(c)
<1>1. /\ c \in Egl /\ c.current = "surface" /\ c.core = e.core /\ c.error = e.error
      /\ c.surface /\ c.window /\ c.connected /\ c.display = 1
    BY DEF MakeCurrent, Egl
<1>2. CreateProgram(c) = c.core
    BY <1>1 DEF CreateProgram
<1>3. /\ f \in Egl /\ f.current = "surface" /\ f.core = c.core /\ f.error = c.error
      /\ f.surface /\ f.window /\ f.connected /\ f.display = 1
      /\ c.core # NoCore => f.rect = c.core
    <2> HIDE DEF c
    <2> QED
        BY <1>1, <1>2 DEF NewFullFrameRect, Fail, Egl
<1>4. CreateProgram(f) = f.core
    BY <1>3 DEF CreateProgram
<1>5. QED
    <2> HIDE DEF f
    <2>1. NewPrograms(MakeCurrent(e)) = [f EXCEPT !.drawer = f.core]
        BY <1>4 DEF NewPrograms, NewDirectDrawer, f, c
    <2> QED
        BY <1>1, <1>3, <2>1 DEF OpenIn, Egl

\* prepareEncoder sets EGL up, or fails for a dead context.
LEMMA StartOpens ==
    ASSUME NEW e \in Egl, NEW g \in Contexts, NEW alive \in BOOLEAN,
           e.error = "none", Closed(e)
    PROVE  LET r == NewPrograms(MakeCurrent(NewWindowSurface(NewEglCore(e, g, alive))))
           IN  /\ r \in Egl
               /\ alive => r.error = "none" /\ OpenIn(r, g)
               /\ ~alive => r.error = "BadContext"
<1> DEFINE c == NewEglCore(e, g, alive)
           w == NewWindowSurface(c)
<1>1. /\ c \in Egl /\ c.display = 1 /\ c.core = (IF alive THEN g ELSE NoCore)
      /\ c.error = IF alive THEN "none" ELSE "BadContext"
    BY NewEglCoreMakes DEF Closed
<1>2. /\ w \in Egl /\ w.surface /\ w.window /\ w.connected
      /\ w.core = c.core /\ w.display = 1 /\ w.error = c.error
    <2> HIDE DEF c
    <2> QED
        BY <1>1, SurfaceMade
<1>3. g # NoCore
    BY DEF Contexts, NoCore
<1> QED
    <2> HIDE DEF c, w
    <2>1. LET r == NewPrograms(MakeCurrent(w))
          IN  r \in Egl /\ r.error = w.error /\ (w.core # NoCore => OpenIn(r, w.core))
        BY <1>1, <1>2, <1>3, RecordingSetUp
    <2> QED
        BY <1>1, <1>2, <1>3, <2>1 DEF c, w

\* What a released EGL surface that was current leaves of e.
SurfaceReleased(r, e) ==
    /\ r \in Egl
    /\ r.core = e.core /\ r.display = e.display /\ r.error = e.error
    /\ r.window = e.window /\ ~r.surface /\ r.current = "destroyed"

LEMMA EglSurfaceReleased ==
    ASSUME NEW e \in Egl, e.core # NoCore, e.current = "surface"
    PROVE  SurfaceReleased(ReleaseEglSurface(e), e)
BY DEF ReleaseEglSurface, SurfaceReleased, Egl

\* Without a current surface the window is free when the core goes.
LEMMA EglCoreReleased ==
    ASSUME NEW e \in Egl, e.core # NoCore, e.display = 1, e.current = "destroyed"
    PROVE  LET r == ReleaseEglCore(e)
           IN  /\ r \in Egl /\ r.error = e.error
               /\ r.core = NoCore /\ r.display = 0
               /\ r.window = e.window /\ r.surface = e.surface
               /\ ~r.connected /\ r.current = "nothing"
<1> DEFINE c == [e EXCEPT !.core = NoCore]
           d == [c EXCEPT !.display = 0]
<1>1. e.display - 1 = 0 /\ (e.connected /\ e.current # "destroyed") = FALSE
    OBVIOUS
<1>2. ReleaseEglCore(e) =
          [e EXCEPT !.core = NoCore, !.display = 0, !.current = "nothing", !.connected = FALSE]
    BY <1>1 DEF ReleaseEglCore
<1>3. ReleaseEglCore(e) = [d EXCEPT !.current = "nothing", !.connected = FALSE]
    BY <1>2
<1>4. /\ c \in Egl /\ c.error = e.error /\ c.core = NoCore
      /\ c.window = e.window /\ c.surface = e.surface
    BY DEF Egl
<1> HIDE DEF c
<1>5. /\ d \in Egl /\ d.error = e.error /\ d.core = NoCore /\ d.display = 0
      /\ d.window = e.window /\ d.surface = e.surface
    BY <1>4 DEF Egl
<1> HIDE DEF d
<1> QED
    BY <1>3, <1>5 DEF Egl

\* The first half of handleUpdateSharedContext gives back all but the window.
LEMMA OldContextReleased ==
    ASSUME NEW e \in Egl, NEW g \in Contexts, e.error = "none", OpenIn(e, g)
    PROVE  LET r == ReleaseOldContext(e)
           IN  /\ r \in Egl /\ r.error = "none"
               /\ r.core = NoCore /\ r.display = 0
               /\ r.window /\ ~r.surface /\ ~r.connected /\ r.current = "nothing"
<1> DEFINE s == ReleaseEglSurface(e)
           f == ReleaseFullFrameRect(s)
<1>1. g # NoCore
    BY DEF Contexts, NoCore
<1>2. SurfaceReleased(s, e)
    BY <1>1, EglSurfaceReleased DEF OpenIn
<1>3. f = [s EXCEPT !.rect = NoCore]
    BY DEF ReleaseFullFrameRect
<1>4. SurfaceReleased(f, e)
    <2> HIDE DEF s, f
    <2> QED
        BY <1>2, <1>3 DEF SurfaceReleased, Egl
<1> QED
    <2> HIDE DEF f
    <2>1. ReleaseOldContext(e) = ReleaseEglCore(f)
        BY DEF ReleaseOldContext, f
    <2> QED
        BY <1>1, <1>4, <2>1, EglCoreReleased DEF OpenIn, SurfaceReleased

\* handleUpdateSharedContext moves EGL to the new context, or fails for a dead one.
LEMMA ContextReopens ==
    ASSUME NEW e \in Egl, NEW old \in Contexts, NEW g \in Contexts, NEW alive \in BOOLEAN,
           e.error = "none", OpenIn(e, old)
    PROVE  LET r == NewPrograms(MakeCurrent(Recreate(NewEglCore(ReleaseOldContext(e), g, alive))))
           IN  /\ r \in Egl
               /\ alive => r.error = "none" /\ OpenIn(r, g)
               /\ ~alive => r.error = "BadContext"
<1> DEFINE o == ReleaseOldContext(e)
           c == NewEglCore(o, g, alive)
           w == Recreate(c)
<1>1. /\ o \in Egl /\ o.error = "none" /\ o.core = NoCore /\ o.display = 0
      /\ o.window /\ ~o.surface /\ ~o.connected
    BY OldContextReleased
<1>2. /\ c \in Egl /\ c.display = 1 /\ c.core = (IF alive THEN g ELSE NoCore)
      /\ c.error = (IF alive THEN "none" ELSE "BadContext")
      /\ c.window /\ ~c.surface /\ ~c.connected
    <2> HIDE DEF o
    <2> QED
        BY <1>1, NewEglCoreMakes
<1>3. /\ w \in Egl /\ w.surface /\ w.window /\ w.connected
      /\ w.core = c.core /\ w.display = 1 /\ w.error = c.error
    <2> HIDE DEF c
    <2> QED
        BY <1>2, SurfaceMade
<1>4. g # NoCore
    BY DEF Contexts, NoCore
<1> QED
    <2> HIDE DEF o, c, w
    <2>1. LET r == NewPrograms(MakeCurrent(w))
          IN  r \in Egl /\ r.error = w.error /\ (w.core # NoCore => OpenIn(r, w.core))
        BY <1>2, <1>3, <1>4, RecordingSetUp
    <2> QED
        BY <1>2, <1>3, <1>4, <2>1 DEF o, c, w

\* releaseEncoder gives everything back.
LEMMA StopCloses ==
    ASSUME NEW e \in Egl, NEW g \in Contexts, e.error = "none", OpenIn(e, g)
    PROVE  LET r == ReleaseEglCore(ReleaseFullFrameRect(ReleaseWindowSurface(e)))
           IN  r \in Egl /\ r.error = "none" /\ Closed(r)
<1> DEFINE s == ReleaseEglSurface(e)
           w == ReleaseWindowSurface(e)
           f == ReleaseFullFrameRect(w)
<1>1. g # NoCore
    BY DEF Contexts, NoCore
<1>2. SurfaceReleased(s, e)
    BY <1>1, EglSurfaceReleased DEF OpenIn
<1>3. w = [s EXCEPT !.window = FALSE] /\ f = [w EXCEPT !.rect = NoCore]
    BY DEF ReleaseWindowSurface, ReleaseFullFrameRect
<1>4. /\ f \in Egl /\ f.core = e.core /\ f.display = e.display /\ f.error = e.error
      /\ ~f.window /\ ~f.surface /\ f.current = "destroyed"
    <2> HIDE DEF s, f, w
    <2> QED
        BY <1>2, <1>3 DEF SurfaceReleased, Egl
<1> QED
    <2> HIDE DEF f
    <2> QED
        BY <1>1, <1>4, EglCoreReleased DEF OpenIn, Closed, f
-----------------------------------------------------------------------------
(* The queue.                                                               *)

Message == [what : {"START", "CONTEXT", "TEXTURE", "FRAME", "STOP"}, arg : 0..MaxContexts]

\* What is behind a message continues the recording it leaves open.
LEMMA OrderTail ==
    ASSUME NEW q \in Seq(Message), NEW open \in BOOLEAN, q # <<>>, Order(q, open)
    PROVE  Order(Tail(q), Head(q).what # "STOP")
<1> DEFINE t == Tail(q)
<1>1. /\ Len(t) = Len(q) - 1 /\ Len(q) \in Nat /\ Head(q) = q[1]
      /\ \A i \in 1..Len(t) : t[i] = q[i + 1]
    BY HeadTailProperties
<1> HIDE DEF t
<1>2. ASSUME NEW i \in 1..Len(t)
      PROVE  t[i].what = "START" <=>
                 IF i = 1 THEN ~(q[1].what # "STOP") ELSE t[i - 1].what = "STOP"
    <2>1. t[i] = q[i + 1] /\ i + 1 \in 1..Len(q) /\ i + 1 # 1 /\ (i + 1) - 1 = i
        BY <1>1
    <2>2. t[i].what = "START" <=> q[i].what = "STOP"
        BY <2>1 DEF Order
    <2>3. CASE i = 1
        BY <2>2, <2>3
    <2>4. CASE i # 1
        <3>1. i - 1 \in 1..Len(t) /\ (i - 1) + 1 = i
            BY <1>1, <2>4
        <3>2. t[i - 1] = q[i]
            BY <1>1, <3>1
        <3> QED
            BY <2>2, <2>4, <3>2
    <2> QED
        BY <2>3, <2>4
<1> QED
    BY <1>1, <1>2 DEF Order, t

\* A message that may follow keeps the order.
LEMMA OrderAppend ==
    ASSUME NEW q \in Seq(Message), NEW open \in BOOLEAN, NEW m \in Message, Order(q, open),
           m.what = "START" <=> IF q = <<>> THEN ~open ELSE q[Len(q)].what = "STOP"
    PROVE  Order(Append(q, m), open)
<1> DEFINE a == Append(q, m)
<1>1. /\ Len(a) = Len(q) + 1 /\ Len(q) \in Nat /\ a[Len(q) + 1] = m
      /\ \A i \in 1..Len(q) : a[i] = q[i]
      /\ q = <<>> <=> Len(q) = 0
    BY AppendProperties, EmptySeq
<1> HIDE DEF a
<1>2. ASSUME NEW i \in 1..Len(a)
      PROVE  a[i].what = "START" <=> IF i = 1 THEN ~open ELSE a[i - 1].what = "STOP"
    <2>1. CASE i \in 1..Len(q)
        <3>1. a[i] = q[i] /\ (i # 1 => a[i - 1] = q[i - 1])
            BY <1>1, <2>1
        <3>2. q[i].what = "START" <=> IF i = 1 THEN ~open ELSE q[i - 1].what = "STOP"
            BY <2>1 DEF Order
        <3> QED
            BY <3>1, <3>2
    <2>2. CASE i = Len(q) + 1
        <3>1. i = 1 <=> q = <<>>
            BY <1>1, <2>2
        <3>2. i # 1 => a[i - 1] = q[Len(q)]
            BY <1>1, <2>2
        <3> QED
            BY <1>1, <2>2, <3>1, <3>2
    <2> QED
        BY <1>1, <2>1, <2>2
<1> QED
    BY <1>2 DEF Order, a

\* Taking a message: it fits the EGL there is, and the ones behind it fit what it leaves.
LEMMA Taken ==
    ASSUME Inv, Alive, Take, UNCHANGED overtaken
    PROVE  /\ queue' \in Seq(Message)
           /\ ContextInv'
           /\ Head(queue).what \in {"START", "CONTEXT", "TEXTURE", "FRAME", "STOP"}
           /\ Head(queue).what = "START" <=> egl.core = NoCore
           /\ Head(queue).what \in {"START", "CONTEXT"} =>
                  /\ Head(queue).arg \in Contexts
                  /\ ContextAlive(Head(queue).arg) \/ overtaken
           /\ (egl'.core # NoCore) = (Head(queue).what # "STOP") => QueueInv'
<1> DEFINE q == queue
           t == Tail(queue)
<1>1. /\ q \in Seq(Message) /\ q # <<>> /\ queue' = t /\ UNCHANGED <<glVars, overtaken>>
    BY DEF Inv, TypeOK, Message, Take
<1>2. /\ t \in Seq(Message) /\ Len(t) = Len(q) - 1 /\ Len(q) \in Nat /\ Len(q) > 0
      /\ Head(q) = q[1] /\ Head(q) \in Message
      /\ \A i \in 1..Len(t) : t[i] = q[i + 1]
      /\ t = <<>> <=> Len(t) = 0
    <2>1. t \in Seq(Message) /\ Len(t) = Len(q) - 1 /\ \A i \in 1..Len(t) : t[i] = q[i + 1]
        BY <1>1, HeadTailProperties
    <2>2. Head(q) \in Message /\ Head(q) = q[1]
        BY <1>1, HeadTailProperties
    <2> HIDE DEF t
    <2>3. Len(q) \in Nat /\ Len(q) > 0 /\ (t = <<>> <=> Len(t) = 0)
        BY <1>1, <2>1, EmptySeq
    <2> QED
        BY <2>1, <2>2, <2>3
<1>3. QueueInv /\ ContextInv
    BY DEF Inv
<1>4. Order(t, Head(q).what # "STOP")
    BY <1>1, <1>3, OrderTail DEF QueueInv
<1>5. Head(q).what = "START" <=> egl.core = NoCore
    BY <1>2, <1>3 DEF QueueInv, Order
<1>6. Head(q).what \in {"START", "CONTEXT"} =>
          /\ Head(q).arg \in Contexts
          /\ ContextAlive(Head(q).arg) \/ overtaken
    <2>1. glContext \in 0..MaxContexts /\ MaxContexts \in Nat
        BY MessagesAssumption DEF Inv, TypeOK
    <2> QED
        BY <1>2, <1>3, <2>1 DEF ContextInv, Contexts
<1>7. ContextInv'
    <2> SUFFICES ASSUME NEW i \in 1..Len(t), t[i].what \in {"START", "CONTEXT"}
                 PROVE  /\ t[i].arg \in 1..glContext
                        /\ ContextAlive(t[i].arg) \/ overtaken
        BY <1>1 DEF ContextInv, glVars, ContextAlive
    <2>1. t[i] = q[i + 1] /\ i + 1 \in 1..Len(q)
        BY <1>2
    <2> QED
        BY <1>3, <2>1 DEF ContextInv
<1>8. ASSUME (egl'.core # NoCore) = (Head(q).what # "STOP")
      PROVE  QueueInv'
    <2>1. Order(t, egl'.core # NoCore)
        BY <1>4, <1>8
    <2>2. shared = 0 <=> q[Len(q)].what = "STOP"
        BY <1>1, <1>3 DEF QueueInv
    <2>3. CASE t = <<>>
        <3>1. q[Len(q)] = Head(q)
            BY <1>2, <2>3
        <3> QED
            BY <1>1, <1>8, <2>1, <2>2, <2>3, <3>1 DEF QueueInv, glVars
    <2>4. CASE t # <<>>
        <3>1. t[Len(t)] = q[Len(q)]
            BY <1>2, <2>4
        <3> QED
            BY <1>1, <2>1, <2>2, <2>4, <3>1 DEF QueueInv, glVars
    <2> QED
        BY <2>3, <2>4
<1> QED
    BY <1>1, <1>2, <1>5, <1>6, <1>7, <1>8 DEF Message

\* With a core there is a recording, set up in the group of its context.
LEMMA CoreIsOpen ==
    ASSUME Inv, Alive, egl.core # NoCore
    PROVE  egl.core \in Contexts /\ OpenIn(egl, egl.core)
BY DEF Inv, TypeOK, Egl, EglInv, Closed, Alive

\* The parts of the invariant the encoder thread leaves alone.
LEMMA EncoderKeeps ==
    ASSUME Inv, Alive, Take, UNCHANGED overtaken, egl' \in Egl, programs' \in [Contexts -> BOOLEAN]
    PROVE  TypeOK' /\ (glAlive => glContext # 0)'
<1>1. queue' \in Seq(Message)
    BY Taken
<1> QED
    BY <1>1 DEF Inv, TypeOK, Message, Take, glVars
-----------------------------------------------------------------------------
(* The steps.                                                               *)

LEMMA StartKeepsInv ==
    ASSUME Inv, HandleStartRecording
    PROVE  Inv'
<1> DEFINE g == Head(queue).arg
<1>1. Alive /\ Take /\ UNCHANGED overtaken /\ Head(queue).what = "START"
    BY DEF HandleStartRecording, Receives
<1>2. /\ egl' = NewPrograms(MakeCurrent(NewWindowSurface(NewEglCore(egl, g, ContextAlive(g)))))
      /\ programs' = [programs EXCEPT ![g] = TRUE]
    BY DEF HandleStartRecording
<1>3. egl.core = NoCore /\ g \in Contexts /\ (ContextAlive(g) \/ overtaken)
    BY <1>1, Taken
<1>4. egl \in Egl /\ egl.error = "none" /\ Closed(egl) /\ ContextAlive(g) \in BOOLEAN
    BY <1>1, <1>3 DEF Inv, TypeOK, EglInv, OpenIn, Alive, ContextAlive
<1> HIDE DEF g
<1>5. /\ egl' \in Egl
      /\ ContextAlive(g) => egl'.error = "none" /\ OpenIn(egl', g)
      /\ ~ContextAlive(g) => egl'.error = "BadContext"
    BY <1>2, <1>3, <1>4, StartOpens
<1>6. g # NoCore
    BY <1>3 DEF Contexts, NoCore
<1>7. TypeOK' /\ (glAlive => glContext # 0)'
    <2>1. programs' \in [Contexts -> BOOLEAN]
        BY <1>2, <1>3 DEF Inv, TypeOK
    <2> QED
        BY <1>1, <1>5, <2>1, EncoderKeeps
<1>8. CASE ContextAlive(g)
    <2>1. egl'.error = "none" /\ OpenIn(egl', g) /\ egl'.core = g
        BY <1>5, <1>8 DEF OpenIn
    <2>2. ContextInv' /\ QueueInv'
        BY <1>1, <1>6, <2>1, Taken
    <2>3. ProgramsInv'
        BY <1>1, <1>2, <1>3, <2>1
           DEF Inv, ProgramsInv, TypeOK, ContextAlive, Take, glVars, Contexts, NoCore
    <2> QED
        BY <1>6, <1>7, <2>1, <2>2, <2>3 DEF Inv, EglInv
<1>9. CASE ~ContextAlive(g)
    BY <1>1, <1>3, <1>5, <1>7, <1>9 DEF Inv, EglInv, Alive
<1> QED
    BY <1>8, <1>9

LEMMA UpdateKeepsInv ==
    ASSUME Inv, HandleUpdateSharedContext
    PROVE  Inv'
<1> DEFINE g == Head(queue).arg
           old == egl.core
<1>1. Alive /\ Take /\ UNCHANGED overtaken /\ Head(queue).what = "CONTEXT"
    BY DEF HandleUpdateSharedContext, Receives
<1>2. /\ egl' = NewPrograms(MakeCurrent(Recreate(
                     NewEglCore(ReleaseOldContext(egl), g, ContextAlive(g)))))
      /\ programs' = [ProgramsWithout(old) EXCEPT ![g] = TRUE]
    BY DEF HandleUpdateSharedContext
<1>3. egl.core # NoCore /\ g \in Contexts /\ (ContextAlive(g) \/ overtaken)
    BY <1>1, Taken
<1>4. /\ egl \in Egl /\ egl.error = "none" /\ old \in Contexts /\ OpenIn(egl, old)
      /\ ContextAlive(g) \in BOOLEAN
    BY <1>1, <1>3, CoreIsOpen DEF Inv, TypeOK, Alive, ContextAlive
<1> HIDE DEF g, old
<1>5. /\ egl' \in Egl
      /\ ContextAlive(g) => egl'.error = "none" /\ OpenIn(egl', g)
      /\ ~ContextAlive(g) => egl'.error = "BadContext"
    BY <1>2, <1>3, <1>4, ContextReopens
<1>6. g # NoCore
    BY <1>3 DEF Contexts, NoCore
<1>7. /\ programs' \in [Contexts -> BOOLEAN]
      /\ \A h \in Contexts : programs'[h] => h = g \/ ContextAlive(h)
    <2>1. ProgramsInv /\ programs \in [Contexts -> BOOLEAN]
        BY <1>1 DEF Inv, TypeOK
    <2>2. /\ ProgramsWithout(old) \in [Contexts -> BOOLEAN]
          /\ \A h \in Contexts : ProgramsWithout(old)[h] => ContextAlive(h)
        BY <1>4, <2>1 DEF ProgramsInv, ProgramsWithout, old, NoCore, Contexts
    <2> QED
        BY <1>2, <1>3, <2>2
<1>8. TypeOK' /\ (glAlive => glContext # 0)'
    BY <1>1, <1>5, <1>7, EncoderKeeps
<1>9. CASE ContextAlive(g)
    <2>1. egl'.error = "none" /\ OpenIn(egl', g) /\ egl'.core = g
        BY <1>5, <1>9 DEF OpenIn
    <2>2. ContextInv' /\ QueueInv'
        BY <1>1, <1>6, <2>1, Taken
    <2>3. ProgramsInv'
        BY <1>1, <1>7, <2>1 DEF ProgramsInv, ContextAlive, Take, glVars
    <2> QED
        BY <1>6, <1>8, <2>1, <2>2, <2>3 DEF Inv, EglInv
<1>10. CASE ~ContextAlive(g)
    BY <1>1, <1>3, <1>5, <1>8, <1>10 DEF Inv, EglInv, Alive
<1> QED
    BY <1>9, <1>10

LEMMA FrameKeepsInv ==
    ASSUME Inv, HandleSetTexture \/ HandleFrameAvailable
    PROVE  Inv'
<1>1. /\ Alive /\ Take /\ UNCHANGED overtaken /\ Head(queue).what \in {"TEXTURE", "FRAME"}
      /\ egl' = egl /\ programs' = programs
    BY DEF HandleSetTexture, HandleFrameAvailable, Receives
<1>2. egl.core # NoCore /\ ContextInv' /\ QueueInv'
    BY <1>1, Taken
<1>3. TypeOK' /\ (glAlive => glContext # 0)'
    BY <1>1, EncoderKeeps DEF Inv, TypeOK
<1>4. ProgramsInv'
    BY <1>1 DEF Inv, ProgramsInv, ContextAlive, Take, glVars
<1> QED
    BY <1>1, <1>2, <1>3, <1>4 DEF Inv, EglInv, Alive, Closed, OpenIn

LEMMA StopKeepsInv ==
    ASSUME Inv, HandleStopRecording
    PROVE  Inv'
<1> DEFINE old == egl.core
<1>1. Alive /\ Take /\ UNCHANGED overtaken /\ Head(queue).what = "STOP"
    BY DEF HandleStopRecording, Receives
<1>2. /\ egl' = ReleaseEglCore(ReleaseFullFrameRect(ReleaseWindowSurface(egl)))
      /\ programs' = ProgramsWithout(old)
    BY DEF HandleStopRecording
<1>3. egl.core # NoCore
    BY <1>1, Taken
<1>4. egl \in Egl /\ egl.error = "none" /\ old \in Contexts /\ OpenIn(egl, old)
    BY <1>1, <1>3, CoreIsOpen DEF Inv, TypeOK, Alive
<1>5. egl' \in Egl /\ egl'.error = "none" /\ Closed(egl') /\ egl'.core = NoCore
    <2> HIDE DEF old
    <2> QED
        BY <1>2, <1>4, StopCloses DEF Closed
<1>6. ContextInv' /\ QueueInv'
    BY <1>1, <1>5, Taken
<1>7. programs' \in [Contexts -> BOOLEAN] /\ ProgramsInv'
    <2>1. ProgramsInv /\ programs \in [Contexts -> BOOLEAN]
        BY <1>1 DEF Inv, TypeOK
    <2>2. UNCHANGED <<glContext, glAlive>>
        BY <1>1 DEF Take, glVars
    <2> QED
        BY <1>2, <1>4, <2>1, <2>2 DEF ProgramsInv, ProgramsWithout, ContextAlive, NoCore, Contexts
<1>8. TypeOK' /\ (glAlive => glContext # 0)'
    BY <1>1, <1>5, <1>7, EncoderKeeps
<1> QED
    BY <1>5, <1>6, <1>7, <1>8 DEF Inv, EglInv

LEMMA PauseKeepsInv ==
    ASSUME Inv, Alive, PauseContext, UNCHANGED egl
    PROVE  Inv'
<1> DEFINE carried == \E i \in DOMAIN queue :
                          queue[i].what \in {"START", "CONTEXT"} /\ queue[i].arg = glContext
<1>1. /\ glAlive /\ ~glAlive' /\ UNCHANGED <<glContext, shared, queue, egl>>
      /\ programs' = (IF egl.core = glContext THEN programs
                      ELSE [programs EXCEPT ![glContext] = FALSE])
      /\ overtaken' = (overtaken \/ carried)
      /\ glAlive' \in BOOLEAN
    BY DEF PauseContext, OnPause
<1>2. glContext \in Contexts
    BY <1>1, MessagesAssumption DEF Inv, TypeOK, Contexts
<1>3. programs \in [Contexts -> BOOLEAN] /\ ProgramsInv /\ ContextInv /\ QueueInv
    BY DEF Inv, TypeOK
<1>4. overtaken' \in BOOLEAN /\ (overtaken => overtaken')
    BY <1>1 DEF Inv, TypeOK
<1>5. programs' \in [Contexts -> BOOLEAN] /\ ProgramsInv'
    BY <1>1, <1>2, <1>3 DEF ProgramsInv, ContextAlive
<1>6. ContextInv'
    <2> SUFFICES ASSUME NEW i \in 1..Len(queue), queue[i].what \in {"START", "CONTEXT"}
                 PROVE  queue[i].arg \in 1..glContext /\ overtaken'
        BY <1>1 DEF ContextInv
    <2>1. queue[i].arg \in 1..glContext /\ (queue[i].arg = glContext \/ overtaken)
        BY <1>3 DEF ContextInv, ContextAlive
    <2>2. i \in DOMAIN queue
        BY DEF Inv, TypeOK
    <2> QED
        BY <1>1, <2>1, <2>2
<1>7. TypeOK' /\ EglInv' /\ QueueInv'
    BY <1>1, <1>3, <1>4, <1>5 DEF Inv, TypeOK, EglInv, QueueInv, Closed, OpenIn
<1> QED
    BY <1>1, <1>4, <1>5, <1>6, <1>7 DEF Inv

LEMMA CreateKeepsInv ==
    ASSUME Inv, Alive, OnSurfaceCreated, UNCHANGED <<egl, programs, overtaken>>
    PROVE  Inv'
<1>1. /\ ~glAlive /\ glAlive' = TRUE /\ glContext' = glContext + 1 /\ glContext < MaxContexts
      /\ UNCHANGED <<shared, queue, egl, programs, overtaken>>
    BY DEF OnSurfaceCreated
<1>2. glContext \in 0..MaxContexts /\ MaxContexts \in Nat
    BY MessagesAssumption DEF Inv, TypeOK
<1>3. ProgramsInv'
    BY <1>1 DEF Inv, ProgramsInv, ContextAlive
<1>4. ContextInv'
    <2> SUFFICES ASSUME NEW i \in 1..Len(queue), queue[i].what \in {"START", "CONTEXT"}
                 PROVE  queue[i].arg \in 1..glContext' /\ overtaken
        BY <1>1 DEF ContextInv
    <2>1. queue[i].arg \in 1..glContext /\ overtaken
        BY <1>1 DEF Inv, ContextInv, ContextAlive
    <2> QED
        BY <1>1, <1>2, <2>1
<1>5. glContext' \in 0..MaxContexts /\ glContext' # 0
    BY <1>1, <1>2
<1>6. TypeOK' /\ EglInv' /\ QueueInv'
    BY <1>1, <1>5 DEF Inv, TypeOK, EglInv, QueueInv, Closed, OpenIn
<1> QED
    BY <1>1, <1>3, <1>4, <1>5, <1>6 DEF Inv, Alive

\* A message posted in its turn, about the context that exists.
LEMMA PostKeepsInv ==
    ASSUME Inv, Alive, NEW m \in Message, UNCHANGED <<egl, programs, overtaken, glContext, glAlive>>,
           queue' = Append(queue, m), shared' \in 0..MaxContexts,
           shared' = 0 <=> m.what = "STOP",
           m.what = "START" <=> shared = 0,
           m.what \in {"START", "CONTEXT"} => m.arg = glContext /\ glAlive
    PROVE  Inv'
<1>1. queue \in Seq(Message)
    BY DEF Inv, TypeOK, Message
<1>2. /\ queue' \in Seq(Message) /\ queue' # <<>>
      /\ Len(queue') = Len(queue) + 1 /\ Len(queue) \in Nat
      /\ queue'[Len(queue) + 1] = m
      /\ \A i \in 1..Len(queue) : queue'[i] = queue[i]
    BY <1>1, AppendProperties
<1>3. QueueInv /\ ContextInv /\ ProgramsInv
    BY DEF Inv
<1>4. Order(queue', egl.core # NoCore)
    <2>1. m.what = "START" <=> IF queue = <<>> THEN ~(egl.core # NoCore)
                               ELSE queue[Len(queue)].what = "STOP"
        BY <1>3 DEF QueueInv
    <2> QED
        BY <1>1, <1>3, <2>1, OrderAppend DEF QueueInv
<1>5. QueueInv'
    BY <1>2, <1>4 DEF QueueInv
<1>6. ContextInv'
    <2> SUFFICES ASSUME NEW i \in 1..Len(queue'), queue'[i].what \in {"START", "CONTEXT"}
                 PROVE  /\ queue'[i].arg \in 1..glContext
                        /\ ContextAlive(queue'[i].arg) \/ overtaken
        BY DEF ContextInv, ContextAlive
    <2>1. CASE i \in 1..Len(queue)
        BY <1>2, <1>3, <2>1 DEF ContextInv
    <2>2. CASE i = Len(queue) + 1
        <3>1. glContext \in Nat /\ (glAlive => glContext # 0)
            BY MessagesAssumption DEF Inv, TypeOK
        <3> QED
            BY <1>2, <2>2, <3>1 DEF ContextAlive
    <2> QED
        BY <1>2, <2>1, <2>2
<1>7. ProgramsInv'
    BY <1>3 DEF ProgramsInv, ContextAlive
<1>8. TypeOK' /\ EglInv'
    BY <1>2 DEF Inv, TypeOK, EglInv, Closed, OpenIn, Message
<1> QED
    BY <1>5, <1>6, <1>7, <1>8 DEF Inv

LEMMA DrawKeepsInv ==
    ASSUME Inv, Alive, Draw, UNCHANGED <<egl, programs, overtaken>>
    PROVE  Inv'
<1>1. /\ glContext \in 0..MaxContexts /\ shared \in 0..MaxContexts /\ MaxContexts \in Nat
      /\ glAlive => glContext # 0
    BY MessagesAssumption DEF Inv, TypeOK
<1>2. CASE DrawStart
    BY <1>1, <1>2, PostKeepsInv, [what |-> "START", arg |-> glContext] \in Message
       DEF DrawStart, Post, Message
<1>3. CASE DrawResume
    BY <1>1, <1>3, PostKeepsInv, [what |-> "CONTEXT", arg |-> glContext] \in Message
       DEF DrawResume, Post, Message
<1>4. CASE DrawAvailable
    BY <1>1, <1>4, PostKeepsInv, [what |-> "FRAME", arg |-> 0] \in Message
       DEF DrawAvailable, Post, Message, glVars
<1>5. CASE DrawStop
    BY <1>1, <1>5, PostKeepsInv, [what |-> "STOP", arg |-> 0] \in Message
       DEF DrawStop, Post, Message
<1>6. CASE DrawTexture
    BY <1>1, <1>6, PostKeepsInv, [what |-> "TEXTURE", arg |-> glContext] \in Message
       DEF DrawTexture, Post, Message, glVars
<1> QED
    BY <1>2, <1>3, <1>4, <1>5, <1>6 DEF Draw

LEMMA StutterKeepsInv ==
    ASSUME Inv, UNCHANGED vars
    PROVE  Inv'
BY DEF Inv, vars, messageVars, glVars, TypeOK, EglInv, QueueInv, ContextInv, ProgramsInv,
       ContextAlive, Closed, OpenIn, Alive

LEMMA InitInv ==
    ASSUME Init
    PROVE  Inv
<1>1. /\ egl = [core |-> NoCore, display |-> 0, surface |-> FALSE, window |-> FALSE,
                connected |-> FALSE, rect |-> NoCore, drawer |-> NoCore, current |-> "nothing",
                error |-> "none"]
      /\ programs = [g \in Contexts |-> FALSE] /\ overtaken = FALSE
      /\ glContext = 0 /\ glAlive = FALSE /\ shared = 0 /\ queue = <<>>
    BY DEF Init, MessagesInit
<1>2. egl \in Egl
    BY <1>1 DEF Egl, Errors
<1>3. TypeOK
    <2>1. queue \in Seq(Message)
        BY <1>1, EmptySeq
    <2>2. glContext \in 0..MaxContexts /\ shared \in 0..MaxContexts
        BY <1>1, MessagesAssumption
    <2>3. programs \in [Contexts -> BOOLEAN]
        BY <1>1
    <2> QED
        BY <1>1, <1>2, <2>1, <2>2, <2>3 DEF TypeOK, Message
<1>4. egl.error = "none" /\ egl.core = NoCore /\ Closed(egl)
    BY <1>1 DEF Closed
<1>5. QueueInv /\ ContextInv /\ ProgramsInv
    BY <1>1, <1>4 DEF QueueInv, Order, ContextInv, ProgramsInv
<1> QED
    BY <1>1, <1>3, <1>4, <1>5 DEF Inv, EglInv

\* The inductive invariant.
THEOREM Invariant == Spec => []Inv
<1>1. ASSUME Inv, [Next]_vars
      PROVE  Inv'
    <2>1. CASE GLThread
        BY <1>1, <2>1, PauseKeepsInv, CreateKeepsInv, DrawKeepsInv DEF GLThread
    <2>2. CASE EncoderThread
        BY <1>1, <2>2, StartKeepsInv, UpdateKeepsInv, FrameKeepsInv, StopKeepsInv DEF EncoderThread
    <2> QED
        BY <1>1, <2>1, <2>2, StutterKeepsInv DEF Next, Rest
<1> QED
    BY <1>1, InitInv, PTL DEF Spec
-----------------------------------------------------------------------------
(* What the encoder may rely on.                                            *)

\* The variables keep their types.
THEOREM Typing == Spec => []TypeOK
<1>1. Inv => TypeOK
    BY DEF Inv
<1> QED
    BY <1>1, Invariant, PTL

\* Over any number of surfaces the encoder's window surface is made again without
\* an error, but for a context that a pause destroyed under a waiting message.
THEOREM RecreateAlwaysSucceeds == Spec => []RecreateSucceeds
<1>1. Inv => RecreateSucceeds
    BY DEF Inv, EglInv, RecreateSucceeds
<1> QED
    BY <1>1, Invariant, PTL

\* A frame that is handled is drawn in the context its programs belong to.
THEOREM AlwaysDrawnInOwnContext == Spec => []DrawsInOwnContext
<1>1. ASSUME Inv
      PROVE  DrawsInOwnContext
    <2> SUFFICES ASSUME Alive, queue # <<>>, Head(queue).what = "FRAME"
                 PROVE  egl.core # NoCore /\ egl.drawer = egl.core /\ egl.current = "surface"
        BY DEF DrawsInOwnContext
    <2>1. queue \in Seq(Message) /\ Order(queue, egl.core # NoCore)
        BY <1>1 DEF Inv, TypeOK, Message, QueueInv
    <2>2. Len(queue) \in Nat \ {0} /\ Head(queue) = queue[1]
        BY <2>1, EmptySeq
    <2>3. egl.core # NoCore
        BY <2>1, <2>2 DEF Order
    <2> QED
        BY <1>1, <2>3, CoreIsOpen DEF OpenIn
<1> QED
    BY <1>1, Invariant, PTL

\* Displays, surfaces and programs are all given back, however often the context changed.
THEOREM NothingEverLeft == Spec => []NothingLeftInEgl
<1>1. ASSUME Inv
      PROVE  NothingLeftInEgl
    <2> SUFFICES ASSUME Alive
                 PROVE  NothingLeftInEgl
        BY DEF NothingLeftInEgl
    <2>1. ProgramsInv /\ (Closed(egl) \/ (egl.core # NoCore /\ OpenIn(egl, egl.core)))
        BY <1>1 DEF Inv, EglInv, Alive
    <2> QED
        BY <2>1 DEF NothingLeftInEgl, ProgramsInv, Closed, OpenIn
<1> QED
    BY <1>1, Invariant, PTL
=============================================================================
