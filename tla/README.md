# A TLA+ verification of AndroidOmx

AndroidOmx is an Android application of about 4,000 lines of Java and 900 of C++ that explores ways
to record the camera: with OpenGL ES and `MediaCodec`, with `MediaRecorder`, and natively with
stagefright. This directory holds TLA+ models of its stateful parts, TLC configurations that check
them on small instances, and proofs that TLAPS checks for every value of the constants.

All Java paths below are under `src/app/src/main/java/com/example/flonly/androidomx/`, all C++ paths
under `src/app/src/main/jni/`.

## 1. The system

| Component | State it keeps | Operations | What is hard | What makes it correct |
|---|---|---|---|---|
| Encoder thread, `mediacodec/TextureMovieEncoder.java` | `mReady`, `mRunning` and `mHandler` under `mReadyFence`; the codec, EGL objects and texture name of the encoder thread | `startRecording`, `stopRecording`, `updateSharedContext`, `setTextureId`, `frameAvailable`, `isRecording`; six message handlers | wait/notify between two threads, an asynchronous stop, fields used outside the lock they are tested under | handlers find the codec they need; one encoder thread at a time; no codec left open; `startRecording` returns; a stop ends the thread |
| OpenGL screen, `CameraOpenGLES/CameraGLSurfaceView.java`, `MyCameraActivity.java` | the wish and the status of the recording, the texture, the button | `startRecord` (UI thread), `onSurfaceCreated`, `onSurfaceChanged`, `onDrawFrame`, pause, resume, queued events (GL thread) | events posted from thread to thread; surfaces that come and go with pauses and turns while a recording runs | frames are drawn with the texture of the context the encoder shares; no recording is forgotten; every pass of the GL thread ends |
| Its camera, `CameraOpenGLES/MyCamera.java` | the `Camera`, `running` | `start`, `stop` | a start that fails half-way; start after start | never opened while open; released on pause |
| Encoder and muxer, `mediacodec/VideoEncoderCore.java` | the codec, `mMuxerStarted`, the track | `drainEncoder`, `release` | an asynchronous codec with few buffers | the file has every frame once, in order; no handler blocks; no exception of `drainEncoder` |
| EGL wrappers, `opengles/EglCore`, `EglSurfaceBase`, `WindowSurface`, `FullFrameRect` | display, context and surface handles; who owns a program | create, make current, release, recreate | destroyed objects live while current; share groups; reference-counted display | recreate succeeds; nothing left current or unbalanced; frames drawn by programs of the right share group |
| SurfaceView screen, `CameraActivity.java`, `CameraPreview.java` | the `Camera`, the recorder, `isRecording` | photograph, video, pause, resume, callbacks of surfaces and autofocus | late callbacks; a camera lent to `MediaRecorder` and taken back on each way out; old preview views that keep an old camera | nothing held while paused; nothing leaked; fields agree with cameras |
| Semaphore, `sync/psem.cpp` | `_count`, a mutex, a condition variable | `Post`, `Pend` | wake-ups lost, stolen or spurious | a counting semaphore |
| Worker, `thread/thread.cpp` | `_run`, the thread's handle and a one-task slot of two plain fields | `Start`, `Stop`, `AddTask`, the worker loop | fields written and read without a lock; a `Start` that does not ask whether there is a worker | tasks run once with their own argument; `Stop` returns and its worker is gone |
| Colour conversion, `media/tools.cpp` | three write pointers | `RGB24ToYUV420` | pointer arithmetic, 8-bit colour arithmetic | all of NV21, nothing outside the buffer |
| Native pipeline, `media/AVSource.cpp`, `media/VideoCodec.cpp`, `java_interface/api.cpp` | two pictures, a one-buffer group, a frame counter; encoder and writer | `testomx`, `init`, `test`, the destructor; `read` | pacing; an init that goes on after a failure; 32-bit frame times; one buffer that must come back | frame times increase; a recording that started ends |
| OMX probing, `media/H264Encoder.cpp` | `mNode` and the port definition on the stack | `init`, `test` (`list_component`, `initBuffer`, `configComponent`) | statuses nobody looks at, a node number with no initial value, one definition that serves two ports | one node for each listing; no port given what belongs to another |
| `OmxMaster`, `BufferManager`, `MyCodec`, start screen, tutorial screens, `CPLock` | none that matters, or no caller | | | not modelled, see 7 |

How they interact: the UI thread toggles a field and queues a runnable for the GL thread
(`queueEvent`); the GL thread, in `onDrawFrame`, turns the wish into calls of the encoder's methods;
those send messages through a `Handler` to the encoder thread, which drains the codec, draws through
EGL to the codec's input surface and swaps. The contexts of the GL and the encoder thread share their
textures and programs. The camera is opened and released by callbacks of the GL thread and by the UI
thread's `onPause`, which first waits for the GL thread. The native classes are independent of this.
A call from Java into the native library runs the pipeline; the probe stands beside it, commented out.
`Android.mk` compiles only `OmxMaster`, `H264Encoder` and `api.cpp`; the gradle build's ndk module
compiles everything under `jni`, so the native thread, semaphore and pipeline are part of the program.

`PROJECT.json` lists the hazards, each at its line, with the properties that watch it.

## 2. Modules

```
 CameraGLSurfaceView ── extends ──▶ TextureMovieEncoder, MyCamera
      implements EncSpec of TextureMovieEncoder (one caller)
                                                    refines ──▶ EncoderMessages
 EglLifecycle ── extends ──▶ EncoderMessages
 VideoEncoderCore ── extends ──▶ FrameTimestamp      refines ──▶ Recording
 CPThread ── extends ──▶ CPSem                       refines ──▶ Semaphore
 NativeLibrary ── extends ──▶ NativePipeline, OmxProbe
 NativePipeline ── extends ──▶ Rgb24ToYuv420
 CameraActivity   stands alone
 <Module>Proofs   extends the module and TLAPS
```

**TextureMovieEncoder.** `Callers` call any public method at any time. A method is split where another
thread can come in: at each `synchronized (mReadyFence)` block and each `sendMessage`, so `pc[c]` says
where caller `c` is (`wait` in the wait loop of `startRecording`, `sendQuit` between the two sends of
`stopRecording`, `sendFrame` between the test of `mReady` and the use of `mHandler`, and so on).
`thread[t]` is the life of the t-th encoder thread through `run()`, `queue[t]` its Looper's queue; each
handler is one action. `mVideoEncoder` is null, open or released; `exception` records the uncaught
exception that ended the process, after which nothing happens. Texture names and contexts are numbers.
Everything a handler computes without a protocol (matrices, drawing) is left out.

**CameraGLSurfaceView** composes the activity, `GLSurfaceView`'s own thread (external: one pass of its
loop runs an event, or the callbacks of a new or resized surface and then a draw, or a draw), the
encoder and **MyCamera**. `onDrawFrame` is three steps, for the encoder's methods it calls can each block
or interleave with the encoder thread; in between the UI thread may click but not pause, because
`GLSurfaceView.onPause` waits for the GL thread. The history variable `zeroFrame` says whether a frame
of the recording that the present encoder thread belongs to was ignored for its zero timestamp. `MyCamera`'s two methods are operators on the
camera's state, applied by the actions that call them: open throws if anyone has the device, and a
refused preview texture leaves it open with `running` false.

**EncoderMessages** is the contract between the two sides of the handler's queue: the order in which the
GL thread posts contexts, textures, frames and the ends of a recording, over the surfaces it gets and loses.
CameraGLSurfaceView implements it (`MessagesSpec`): its queue is that of the last session up to `QUIT`
(`Answered`), and `shared` is the context of the last `START` or `CONTEXT` in it or handled (`SharedContext`).
EglLifecycle assumes it and adds what each message does to EGL, so what it shows is true of the screen.

**VideoEncoderCore** is the encoder thread between handler and handler (`at`), and `drainEncoder` result
by result: try again, new buffers, format, codec configuration, data. The codec is external and moves by
itself: it announces its format before any buffer, one input gives one output, the end of stream is a
buffer of its own or a flag on the last, and both ends are bounded (`InputSlots`, `OutputBuffers`), so a
swap blocks while the input is full. The GL thread goes on meanwhile (`PostFrame`): it latches the next
image of the camera into the texture and posts its timestamp, whether the encoder thread has drawn the
last one or not, so a frame has a timestamp (`submitted`) and an image (`shown`). The **FrameTimestamp** operators are the packing of a timestamp in
the two ints of a message: a frame is named by the presentation time it gets from them, so a packing
that confused two frames would break the promise of the recording. **Recording** is that promise: the
saved file has each submitted frame once, in order and with its time, and a recording without a frame fails.

**EglLifecycle** holds the EGL objects as one record, and the methods of `EglCore`, `EglSurfaceBase`,
`WindowSurface`, `FullFrameRect` and the program constructors as operators on it that compose as the
handlers compose them, so the order of the calls in a handler is the order of composition. A share group is
named by the GL context that starts it. EGL itself is external: a destroyed surface keeps its window while
it is current, a shader is only made in a current context, and the objects of a group live until its last
context goes. A pause destroys the GL thread's context while messages that carry it may be waiting.

**CameraActivity** numbers the `Camera` objects as they are opened and lets surface and autofocus
callbacks of any of them come at any time the system may send them, also after a pause.

**CPSem** has `Post` and the two ends of `Pend` as steps, because they hold the mutex, and **Semaphore** is
what a counting semaphore promises. **CPThread** writes and reads the two slot fields one by one and in
either order, as a compiler may, and uses `CPSem`'s actions for its token. Its owner makes the calls in any
order. `Start` does not look at `_run`, so each one that succeeds creates a worker; the workers are numbered
(`Threads`), `thread` is the last, the one that `_thread` holds, and `process` and `job` are functions of the
worker. The history variable `lost` is the set of those whose handle a `Start` has overwritten while `_run`
was up: nobody joins them any more.

**Rgb24ToYuv420** is the loop, one pixel a step, with the three pointers as offsets into the buffer and
every colour expression taken mod 256 where the code's type is `unsigned char`. **NativePipeline** uses it
for the red and the blue picture, and adds the rest of `testomx`: on the UI thread the steps of `init`,
each of which may fail and goes on, the poll and the destructor; on the encoder's input thread
`AVSource::read`, split where it blocks for the one buffer. OMXCodec and MPEG4Writer are external: a
writer that started reads frame by frame until the source ends, and gives each buffer back. The clock is
what passes between two frames (`Spent`) and what the source slept; the word size is a constant.

**OmxProbe** is `H264Encoder`: the media service lists roles one by one, of which any may be an AVC
encoder's, and every call to it may fail. The frame's width stands for the fields that `configComponent`
writes, and `rest` for those it only passes on, by the port they were read from; the value 555 that the code
writes before it reads a port back is the "sentinel". `mNode` starts as garbage, which may be the number
of another client's node. **NativeLibrary** is `api.cpp`: a call runs the pipeline or, in the build that has
the commented lines in, the probe.

Definitions whose comment begins with "Mutation" are not part of the model. Each is an action with a
plausible mistake, and the property it is paired with in `PROJECT.json` is violated when it takes the
place of the real one.

## 3. Runs

| Run | Question | Bounds | States |
|---|---|---|---|
| `encoder_one_caller` | Are messages always handled in a state that fits them, and do start and stop end, when one thread calls the methods in any order? | 2 contexts, 2 sessions, queue 3 | 9,327 |
| `camera_gl_view` | Does the screen use the encoder as one caller may (`EncSpec`), does it post in the order that EGL needs (`MessagesSpec`), does no frame, recording or camera go astray over pauses, turns and clicks? | 3 contexts, 2 sessions, queue 4, 2 pending clicks | 156,092 |
| `video_encoder_core` | Is `Recording`'s promise kept with few buffers, does a frame show the image of its time, and does every handler end? | 2 input slots, 2 output buffers, 4 frames, 1 change of buffers, ints of 4 values | 25,335 |
| `egl_lifecycle` | Do release and recreate follow the one order that EGL allows? | 3 contexts, queue 4 | 8,488 |
| `camera_activity` | Is the camera released, taken back and never leaked whatever callback is late? | 3 cameras | 602 |
| `cpsem` | Is it a counting semaphore, its liveness included? | 4 threads, count up to 4 | 221 |
| `cpthread` | Are tasks intact, also over a restart or with two workers, and does `Stop` return? | 3 tasks, 2 workers | 108,530 |
| `native_pipeline` | Is every byte of the pictures written, with the right sample; do frame times increase; does a recording that started end? Does the probe keep to its own node and ports? | sides 2, 4, 6; 6 frames, 10 ticks a second, words of 64 values, 0, 3 or 5 ticks between frames; 3 roles, 2 probes | 49,617 |
| `encoder_arbitrary_threads`, `view_frame_ignored`, `view_start_ready`, `source_pace` | Four statements of the documentation that the code does not keep, see 6. | as above; two callers for the first, pictures of 2 by 2 for the last | |

Why the bounds are enough. Two sessions are what a restart needs: the second thread meets the fields and
the posted messages of the first. Two contexts are one change of context while recording, and three are two whose messages wait in one queue. A queue of
three holds the longest group that can overtake or be overtaken (`STOP`, `QUIT` and one more), and the
screen's queue of four a whole recording, `START` to `STOP`, behind which nothing was drawn; a call
that sends starts below the bound, so a bound never cuts a call in two. Two frame buffers make both the
full input and the full output happen, and with four frames and ints of four values a timestamp reaches
the negative low half. Three cameras make an old view outlive its camera and a new one be opened
meanwhile. Pictures of 6 by 6 have inner and border blocks. With 6 frames, the product of the frame
time stays just below the words of 64 values, and one frame more would wrap; the times between frames are
below, at and above the period. Two workers of a `CPThread` are one after the other, with a `Stop` between
them, or both at once. The theorems of section 5 do without the bounds.

The type invariants `TypeOK` of the encoder and `ViewTypeOK` of the screen are checked, and proved for
every bound. Those of the other modules are stated for the reader and for the proofs, where each is part of a
proved invariant; no run spends a property on them. The probes are two so that the second may
find the node of the first, and three roles hold an AVC encoder's before, behind and between others.

Deadlock is checked in every run; a process that an exception has ended, a paused screen and a finished
loop stay where they are by an explicit action.

### What the main properties say

- `EncoderUsedOnlyWhileOpen`, `HandlersFindEncoder`: the handlers test nothing. That no handler meets a
  null codec depends on the order in which callers post and on `mRunning` being reset last.
- `ReleasedAtExit`: `QUIT` never overtakes `STOP`.
- `OneEncoderThread`, `FenceHonest`: what `mReadyFence` protects is true of the thread.
- `FrameContextCurrent`: after a new surface, the message with the new context is handled before the
  first frame of it, however long the queue.
- `MessagesSpec`: whatever pauses, turns and clicks come between, no frame is posted for another context than
  the one shared last, nothing is handled before `START` or behind `STOP`, and no recording is given up
  without its `STOP`. This is what EglLifecycle's properties rest on.
- `NoOrphanRecording`: when the view believes that no recording runs, the encoder thread has its `QUIT`.
- `NoDataOnlyAfterZeroFrame`: `MediaMuxer.stop` throws when it was fed nothing; this can only follow a
  frame ignored for a zero timestamp since the encoder's thread was made, as the draw that starts a
  recording posts a frame as well. (Since `startRecording` and not since the `START` was handled: a click can
  end a recording and begin the next before the first is taken from the queue.)
- `CameraFollowsScreen`: no camera runs on a paused screen, and none is opened twice; `onSurfaceCreated` and
  `onSurfaceChanged` both start it, and only one of them stops it first.
- `PromiseKept`, `DrainNeverThrows`, `HandlerEnds`: refinement of `Recording`, and the drain's
  own exceptions and loops. `HandlerEnds` takes a codec with two output buffers: with a single one the codec
  configuration can hold it while the swap waits for room in the input, and the drain that would give it
  back comes with the next frame only.
- `ImagesMatchTimes`: the doc of `frameAvailable` admits that the caller may latch a new image before the last
  is drawn. A frame then shows a later image than its timestamp says, but only when the encoder thread
  has fallen behind, never an earlier one, and neither images nor times go back.
- `RecreateSucceeds`, `DrawsInOwnContext`, `NothingLeftInEgl`: EGL. The first also says that the context
  to share with can only be gone when a pause has overtaken its message; the last, that programs, which
  nobody releases, exist only in the encoder's own share group or in one whose GL context lives.
- `ReleasedWhilePaused`, `NoLeakedCamera`, `LentOnlyToRecorder`, `PreviewHasSurface`,
  `FirstVisitConsistent`: the SurfaceView screen.
- `NoLostWakeup`, `ImplementsSemaphore`, `TasksIntact`, `NoWorkerAfterStop`, `StopReturns`, `LastTaskRuns`: the native thread.
  The single worker of an owner that waits runs each task once and whole. After a restart `TasksIntact` still
  keeps the order, and however many workers there are, the tasks run and the tokens left are at most the
  tasks added and the stops made. `NoWorkerAfterStop` and `StopReturns` are about the worker that `Stop` can
  know: no other is left but those a second `Start` has lost, and `Stop` returns unless one of these is still
  alive to take its token. `LastTaskRuns` holds with any number of workers.
- `WritesInBounds`, `PictureComplete`: the conversion, against a closed formula of NV21 (`Nv21`).
- `TimesIncrease`, `TestReturns`: the source ends before its 32-bit product wraps, and the one buffer goes
  round until then, so that `testomx`, which holds the UI thread, returns.
- `OwnNodeOnly`, `PortsKeepTheirOwn`: whatever calls fail, a listing allocates one node at most, a node once
  allocated ends the use of a garbage number, 555 reaches no port, and a port only gets what was read of
  another after its own `getParameter` has failed.

## 4. Fairness

Fairness is only assumed of threads that the scheduler runs, never of users, cameras or frames.

- `EncFairness`: a thread inside a method and the encoder thread take steps while they can. A caller is not
  obliged to call anything. The wait in `startRecording` ends because the notify is sent, not because a
  spurious wake-up must come: there is no fairness on `WakeSpuriously`.
- `Fairness` of the screen: the same for the composition, a pass of the GL thread's loop goes on once
  begun, and a queued event is run.
- `FairSpec` of `VideoEncoderCore`: a handler goes on with its drain, swap or release; the codec goes on
  with the buffers it has. Nothing makes a frame or a stop arrive, nor the codec change its buffers.
- `FairSemSpec`: weak fairness of `PendGoesOn`: a thread that can have the mutex gets it. `FairSpec` of
  `CPThread`: the owner goes on with a call it has begun, each worker that is not blocked goes on, and while a
  unit lies there again and again for those who wait, in the end one of them takes it (strong fairness, since each
  spurious round leaves and re-enters the wait). No spurious wake-up has to come, so it cannot make good
  for a lost signal.
- `NativeSpec`: when the call is the pipeline, the UI thread and the encoder's input thread go on. Nothing makes a poll of a writer
  that never started say that it has ended.

## 5. Proofs

Each `...Proofs` module extends its component. Assumptions are the components' own `ASSUME`s, which TLC
evaluates in the runs: bounds are positive or natural, `Threads` is finite and, in `CPThread`, the numbers of the workers,
`Ints` is even and positive and the frame numbers are longs, levels are bytes, the screen has the one caller
`GL`, and the source's frame times fit its words. The bounds themselves are arbitrary. TLC
finds each invariant below true with the configuration of the module's run.

**TextureMovieEncoderProofs.** `TypeCorrect`, `OneThread` and `FenceTruth` hold for any set of callers.
Their invariant is `ThreadInv`: only the last session can be alive, its state decides `mRunning`, `mHandler`
and `mReady`, and a thread that does not loop has no messages. `EncoderUse`, `EncoderReleased` and
`HandlersSafe` are for one caller, as in the app. `EncoderUsedOnlyWhileOpen` speaks of the first message
only and is not inductive; the invariant `QueueInv` describes the shape of the whole queue: `START` is
first and only while the codec is not open, `STOP` and `QUIT` are neighbours unless the caller is between
its two sends, and nothing but `START` or `QUIT` is first while the codec is not open. One lemma per way a
queue grows or shrinks shows that the shape survives. `HandlersSafe` adds `ContextInv`: what carries a
context carries a real one.

**CameraGLSurfaceViewProofs.** In four parts.

- `ViewImplementsEncoder`: each step of the screen is a step of the encoder's specification with one caller
  or leaves the encoder alone, so the encoder's theorems carry over (`AppUsesOpenEncoder`). It needs
  `SurfaceInv`, that there is a context and a texture whenever something is drawn.
- `CameraOwned` rests on `CameraInv`, that a running camera is ours and has a surface, together with the
  facts that a surface is still there when its `onSurfaceChanged` runs and that one is there only while the
  activity is resumed.
- `FramesInTheirContext`, `RecordingsEnded` and `RecordingsGetData` speak of a message when it is first in the
  queue, or of an exception, long after the GL thread has done what decides it. Their invariant
  `RecordingInv` says what the GL thread has done so far in its pass (`PassInv`), that
  the view knows of the recording while it runs (`StatusInv`: this is what `onSurfaceChanged`'s choice of
  status preserves), which context and texture the encoder will have when it has handled
  everything posted (`PostedInv`), the same for every frame in the queue (`FrameInv`), and that every `STOP`
  in it stands behind a frame (`DataInv`). `LastIs(q, n, ...)` is the common idea: what the encoder has
  after the first n messages. The lemmas about it say what appending and taking a message does.
- `PostsInOrder` is the refinement `MessagesSpec`. The abstract queue is what stands before `QUIT`; the
  lemmas `SplitsIs` and `BeforeQuit...` say how that part grows and shrinks, and `Mapped` what
  the abstract context is. The steps also need that a pass has its surface (`AliveInv`) and that a
  call once begun finds room (`RoomInv`). The definition of the part before `QUIT` is a `CHOOSE`; that there is
  a first `QUIT` is the least-number principle (`LeastNatural`), an induction that needs no operator
  parameter.

**EglLifecycleProofs.** `RecreateAlwaysSucceeds`, `AlwaysDrawnInOwnContext`, `NothingEverLeft`. The invariant:
EGL holds all of a recording or nothing (`EglInv`); `START` comes first or behind `STOP`, and nothing else
does, so that the handlers meet the EGL state that fits them (`QueueInv`); a context in a message exists unless a
pause overtook it (`ContextInv`); a group whose programs are left has a context (`ProgramsInv`). Each of
the methods that the handlers are composed of has a lemma that says what it makes of an open or a closed EGL.
By `PostsInOrder` the screen posts as this module assumes.

**VideoEncoderCoreProofs.** `DrainsThrowNothing`, `ImagesFollowTheTimes` and `KeepsPromise`, which is the
refinement of `Recording`. The conjuncts of the invariant: output buffers are free or on their way out
(`FreeInv`); the thread has the codec's buffers or will be told of new ones first (`BuffersInv`); the format
comes once and before any frame (`FormatInv`); the end of the stream is behind all frames (`EosInv`); what
was submitted is what was written, then the output, then the input, in this order (`FramesInv`);
what is latched, posted, drawn and shown never goes back (`ImagesInv`). `FramesInv` counts the frames of the
output by a recursive function, and `NothingLeft` concludes that on release everything is written.
`RoundTrip` shows that splitting a timestamp into two ints and joining them is the identity for every long,
also one with a negative low half, for ints of any even number of values, 2^32 among them.

**CPThreadProofs.** Of the semaphore: `NoWakeupLost` is inductive with the types; the cases are about the
cardinality of the threads that are awake. `ImplementsSafety` is the safety half of `ImplementsSemaphore`.
Of the thread: `TasksStayIntact` and `StoppedForGood`, for any number of workers and any order of calls. Each
worker but the last has been stopped or lost (`StopsInv`), and until one is lost at most one lives at a time:
without `_run` nobody does but the lost and the one `Stop` waits for (`WorkersInv`). Tasks that run, units on
their way and units waiting add up to no more than what was added and stopped (`UnitsInv`); the slot is whole
when its unit is posted (`SlotInv`) and only gets younger (`OrderInv`); an owner that waits for each task of
its one worker has at most one under way, and then nobody writes the slot while the worker reads it (`AloneInv`).

**CameraActivityProofs.** The five invariants of the run, strengthened by `PreviewOpen` (running previews
belong to open cameras), `PausedEmpty` and `ReleasedSeen` (until the first pause, the view of a released
camera has had its surface, so no new surface finds a released camera).

**Rgb24ToYuv420Proofs.** `ColoursNeverWrap`: for all 2^24 colours the `unsigned char` arithmetic gives the
exact value, between 16 and 235 or 240, so the clamps of the code are never needed. `InBounds` and
`PictureIsComplete`: for every even width and height no write leaves the buffer, and in the end every byte
of it has its NV21 sample. The invariant `Pointers` gives each pointer as a function of row and column, and
`WrittenInv` says that the offsets behind the pointers (`Done`) have their samples and no others have any.

**NativeLibraryProofs.** `FrameTimesIncrease`, and `LibraryTimesIncrease` for the library with the probe: for
every frame rate up to that of the clock, every length
and word size with `Fps * VideoLen * Second < Words` (30 * 5 * 1,000,000 < 2^32 in the code). The invariant
`TimesInv` says that the frames given have the times of 1, 2, and so on, and that a frame is under way only
while one is left; `NoWrap` and `QuotientGrows` are the arithmetic. `LibraryWritesInBounds` and
`LibraryPicturesComplete` carry the conversion's theorems over to the two pictures of the source.
`PipelineTypeCorrect` adds that the one buffer is free unless the reader has it. `OnlyItsOwnNodes` and
`PortsAlwaysKeepTheirOwn`, for any number of roles and probes: a listing that has not found has allocated less
often than `test` was called, and what is held when a port is written belongs to the port, unless reading it
has failed (`ProbeInv`).

Only model-checked: liveness in every module (`QuitEndsThread`, `StopEndsRecording`,
`GLPassEnds`, `HandlerEnds`, `StopReturns`, `LastTaskRuns`, `TestReturns` and the fair part of
`ImplementsSemaphore`), which is out of the prover's reach. Every invariant and every other property that
a passing run checks is proved for all bounds.

## 6. What the models show of the code

Four places where the documentation says something else than the code does; each has a run.

1. `TextureMovieEncoder`'s class comment lets control messages come from arbitrary threads. With two callers
   one may post `STOP` and `QUIT` while another, inside `startRecording`, has not posted `START` yet: the
   handler finds a null encoder (`encoder_arbitrary_threads`). With one caller, as in the app, it cannot
   happen; that is proved.
2. `onDrawFrame` says that a frame "will be ignored if we're not actually recording".
   `frameAvailable` tests `mReady` under the lock and uses `mHandler` outside it, and the
   thread of a recording that was just stopped sets it to null meanwhile (`view_frame_ignored`). `setTextureId`
   does the same (`TextureMovieEncoder.java:234`), but no comment promises anything of it.
3. `startRecording` "returns after the recorder thread has started and is ready to accept Messages". If the
   last thread is still finishing, `mRunning` is true, the call returns, and the new recording never
   exists (`view_start_ready`).
4. `updateSouce` sleeps when a frame comes later than a period after the last one, and by as much as it is
   late, and lets an early frame through; the log of its other branch, which is commented out, says "encode cost too much time".
   The sign is inverted, and as the clock is read before the sleep, each sleep makes the next frame late as
   well (`source_pace`).

Observations that have no document to contradict:

- A click before a surface change is lost: `onSurfaceChanged` overwrites the wish with what the encoder
  does at the moment, and the button stays out of step. No recording is forgotten (`NoOrphanRecording`).
- When `OMXCodec::Create` finds no encoder, `init` adds a null source to the writer, and the destructor calls
  `stop` on it; `NativePipeline` ends in "crashed" there. `init` has no return statement, but nobody uses
  its value.
- When the preview texture is refused (an `IOException`), `MyCamera.running` stays false with the camera
  open, and no later `stop` releases it. `CameraFollowsScreen` therefore speaks of the camera that runs.
- `FullFrameRect.release(false)` and the drawer leave their programs to the end of the context, but the
  context shares with the GL thread's, so they live until the last context of the group goes and every
  recording adds its own (`programs` in `EglLifecycle`).
- A pause can destroy the GL context before the encoder thread has handled the message that carries it;
  `EglCore` then throws (`BadContext` in `EglLifecycle`; `RecreateSucceeds` says that nothing else brings it about).
- A pause during a recording of `CameraActivity` releases the recorder but not `isRecording`, so the next
  click uses a null recorder; `FirstVisitConsistent` shows that this takes a pause. The activity does not
  reopen its camera on resume either.
- `CPThread::Start` does not test `_run`. After two of them `_thread` holds the second worker only, and a
  `Stop` posts one token and joins that one: the first worker may outlive the object, or take the token and die,
  and then `Stop` never returns. `NoWorkerAfterStop` and `StopReturns` therefore except the workers lost in
  this way; without the exception TLC shows both. A second `Start` whose `pthread_create` fails even lowers
  `_run` of the running worker, which then has no one to stop it. With two workers an older task may also end
  after a younger one.
- A restarted `CPThread` may find tokens of its first life, and run the old task again, or take the token
  of `Stop` for a task: `TasksIntact` bounds the runs by the tasks added and the stops. An
  `AddTask` before the last task has ended can lose it or mix the two, as the slot holds one task.
- `Start` writes the terminator of the name one byte behind its buffer (`_name[len]` at `thread.cpp:31`; the
  name is left out of the model). Nothing calls `CPThread` in this commit: the lines that did,
  `VideoCodec.cpp:80-81`, are commented out.
- A frame may show a later image than its timestamp when the encoder thread stalls; its author knew
  (the doc of `frameAvailable`), and `ImagesMatchTimes` says how far it goes.
- `CameraGLSurfaceView` names its output file once, in its constructor, so a second recording overwrites the
  first. That two muxers never write it at once is `OneEncoderThread`.
- Nothing stops the encoder when the activity is destroyed during a recording: its thread stays in its
  looper and the file is never finished. The model's activity is paused and resumed, never destroyed.
- `H264Encoder` looks at no status and never sets `mNode` before it is used: without an AVC encoder the calls go to
  whatever node has that number. A `getParameter` that fails lets the definition of the input port reach
  the output port. No node is freed.
- For odd widths the chroma pointers of `RGB24ToYUV420` pass the end of the buffer; the code only converts
  640 by 480.

## 7. What is not modelled, and the plan

Left out for good: shaders, matrices and vertices (`DirectDrawer`, `Texture2dProgram`, `Drawable2d`,
`GlUtil`), which have no protocol; off-screen EGL surfaces and `saveFrame`, which nothing calls; `CPLock`,
which nothing uses; `OmxMaster`'s methods and `BufferManager`, which nothing calls, and `H264Encoder`'s
callbacks, which only log; `VideoCodec::encode_video` and `thread_main`, whose use is commented out;
`MyCodec`, whose one use is commented out; the start screen and the
tutorial's triangle; the vendored headers and libraries. These headers are most of the C++ lines under `src/`:
about 70,000, against 900 of the application's own native code, so the modules cover a small share of all
lines, though about a third of the application's own Java and C++ and nearly all of its stateful code.

Two external behaviours are simpler than they may be on a device: the codec never drops a frame whose
timestamp does not increase, and a destroyed activity is not modelled.

Order of the modules, the most important behaviour first, and what is still to do:

1. `TextureMovieEncoder` (checked and proved).
2. `CameraGLSurfaceView` and `MyCamera` on top of it, with the refinements to the encoder and to
   `EncoderMessages` (checked and proved).
3. `VideoEncoderCore` against `Recording`, with the GL thread's images (checked and proved).
4. `EglLifecycle` on `EncoderMessages` (checked and proved).
5. `CameraActivity` (checked and proved).
6. `CPSem` against `Semaphore`, and `CPThread` (checked and proved).
7. `FrameTimestamp` and `Rgb24ToYuv420` (checked and proved).
8. `NativePipeline`, `OmxProbe` and `NativeLibrary` (checked and proved).
9. To do: the safety part of what liveness rests on, for every bound. In the encoder, that a thread for which
   a call waits is always on its way to the notify; in the codec, that a handler that waits for room finds the
   codec able to make it; in `CPThread`, that a worker that `Stop` waits for has a unit to take.

## 8. Running it

`tlc -config X.cfg M` for each run of `PROJECT.json`, from this directory, and `tlapm M.tla` for each
`...Proofs` module. Every run takes about a minute at most, every proof module a few minutes at most.
