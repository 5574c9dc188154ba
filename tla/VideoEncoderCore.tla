-------------------------- MODULE VideoEncoderCore --------------------------
(***************************************************************************)
(* mediacodec/VideoEncoderCore.java: a MediaCodec that encodes the frames   *)
(* drawn to its input surface, and a MediaMuxer fed by drainEncoder.  The   *)
(* encoder thread (TextureMovieEncoder's handlers) drains, draws and swaps  *)
(* for every frame, and drains to the end of stream before it releases.     *)
(* The codec runs by itself: it holds a few input and output buffers only.  *)
(* So does the GL thread, which latches the camera's next image in the      *)
(* texture whether the encoder thread has drawn the last one or not.        *)
(***************************************************************************)
EXTENDS FrameTimestamp, Sequences

CONSTANTS
    InputSlots,     \* buffers of the input surface
    OutputBuffers,  \* output buffers of the codec
    MaxFrames,      \* bound: frames posted in a recording
    MaxChanges      \* bound: times the codec replaces its output buffers

ASSUME CodecAssumption ==
    /\ InputSlots \in Nat \ {0}
    /\ OutputBuffers \in Nat \ {0}
    /\ MaxFrames \in Nat \cap LongRange
    /\ MaxChanges \in Nat

VARIABLES
    at,             \* where the encoder thread is
    endOfStream,    \* drainEncoder's argument
    mMuxerStarted,
    buffers,        \* the generation of encoderOutputBuffers
    written,        \* the samples the muxer has got
    latched,        \* the camera's image in the texture, by its timestamp
    frames,         \* the frames posted and not yet swapped, by their timestamps
    drawn,          \* the image drawn to the input surface since the last swap
    submitted,      \* the timestamps of the frames swapped to the input surface
    shown,          \* the images on them
    overtaken,      \* history: an image was latched while a frame waited
    input,          \* what the input surface holds: frames, 0 for end of stream
    output,         \* what dequeueOutputBuffer will return, in order
    free,           \* output buffers the codec may fill
    announced,      \* how far the codec is: nothing, format or config sent
    generation,     \* of the codec's output buffers
    exception

threadVars == <<at, endOfStream, mMuxerStarted, buffers, written, exception>>
codecVars  == <<input, output, free, announced, generation>>
frameVars  == <<latched, frames, drawn, submitted, shown, overtaken>>
coreVars   == <<threadVars, frameVars, codecVars>>

Exceptions == {"none", "FormatTwice", "NullBuffer", "MuxerNotStarted", "NoData"}
Alive == exception = "none"

\* An image and a frame are named by their time; 0, which is never presented, stands
\* for no data.  "BUFFERS" and "FORMAT" are negative statuses.
Time0 == 0..MaxFrames
Output == [what : {"BUFFERS", "FORMAT", "CONFIG", "DATA"}, frame : Time0, eos : BOOLEAN]
Status(what) == [what |-> what, frame |-> 0, eos |-> FALSE]
Data(frame, eos) == [what |-> "DATA", frame |-> frame, eos |-> eos]

TypeOK ==
    /\ at \in {"idle", "drain", "draw", "swap", "release", "released"}
    /\ endOfStream \in BOOLEAN
    /\ mMuxerStarted \in BOOLEAN
    /\ buffers \in 0..MaxChanges
    /\ written \in Seq(Time0)
    /\ {latched, drawn} \subseteq Time0
    /\ {frames, submitted, shown, input} \subseteq Seq(Time0)
    /\ overtaken \in BOOLEAN
    /\ output \in Seq(Output)
    /\ free \in 0..OutputBuffers
    /\ announced \in {"nothing", "format", "config"}
    /\ generation \in 0..MaxChanges
    /\ exception \in Exceptions

\* The constructor; the encoder is started and the muxer is not.
Init ==
    /\ at = "idle"
    /\ endOfStream = FALSE
    /\ mMuxerStarted = FALSE
    /\ buffers = 0
    /\ written = <<>>
    /\ latched = 0
    /\ frames = <<>>
    /\ drawn = 0
    /\ submitted = <<>>
    /\ shown = <<>>
    /\ overtaken = FALSE
    /\ input = <<>>
    /\ output = <<>>
    /\ free = OutputBuffers
    /\ announced = "nothing"
    /\ generation = 0
    /\ exception = "none"

Throw(e) ==
    /\ exception' = e
    /\ UNCHANGED <<at, endOfStream, mMuxerStarted, buffers, written, frameVars, codecVars>>
-----------------------------------------------------------------------------
(* The encoder thread.                                                      *)

\* handleFrameAvailable begins with drainEncoder(false), which gets the buffers.
BeginFrame ==
    /\ Alive /\ at = "idle" /\ frames # <<>>
    /\ at' = "drain"
    /\ endOfStream' = FALSE
    /\ buffers' = generation
    /\ UNCHANGED <<mMuxerStarted, written, exception, frameVars, codecVars>>

\* Mutation: no end of stream is signalled to the encoder.
BeginStopUnsignalled ==
    /\ Alive /\ at = "idle" /\ frames = <<>>
    /\ at' = "drain"
    /\ endOfStream' = TRUE
    /\ buffers' = generation
    /\ UNCHANGED <<mMuxerStarted, written, exception, frameVars, codecVars>>

\* handleStopRecording begins with drainEncoder(true), which signals the end.  Its
\* message is behind those of the frames.
BeginStop ==
    /\ Alive /\ at = "idle" /\ frames = <<>>
    /\ at' = "drain"
    /\ endOfStream' = TRUE
    /\ buffers' = generation
    /\ input' = Append(input, 0)
    /\ UNCHANGED <<mMuxerStarted, written, exception, frameVars, output, free,
                   announced, generation>>

\* Where the thread goes on when drainEncoder returns.
AfterDrain == IF endOfStream THEN "release" ELSE "draw"

\* Mutation: a drain to the end of stream also gives up when nothing is ready.
DrainTryAgainAlways ==
    /\ Alive /\ at = "drain"
    /\ output = <<>>
    /\ at' = AfterDrain
    /\ UNCHANGED <<endOfStream, mMuxerStarted, buffers, written, exception,
                   frameVars, codecVars>>

\* Mutation: every drain spins when nothing is ready.
DrainTryAgainNever ==
    /\ Alive /\ at = "drain"
    /\ output = <<>>
    /\ UNCHANGED coreVars

\* INFO_TRY_AGAIN_LATER: a drain to the end of stream only spins on it.
DrainTryAgain ==
    /\ Alive /\ at = "drain"
    /\ output = <<>>
    /\ at' = IF endOfStream THEN "drain" ELSE AfterDrain
    /\ UNCHANGED <<endOfStream, mMuxerStarted, buffers, written, exception,
                   frameVars, codecVars>>

\* dequeueOutputBuffer returns the given kind of status or buffer.
Dequeues(what) ==
    /\ Alive /\ at = "drain"
    /\ output # <<>>
    /\ Head(output).what = what

\* Mutation: the drain goes on with the buffers it has.
DrainBuffersStale ==
    /\ Dequeues("BUFFERS")
    /\ output' = Tail(output)
    /\ UNCHANGED <<at, endOfStream, mMuxerStarted, buffers, written, exception, frameVars,
                   input, free, announced, generation>>

DrainBuffers ==
    /\ Dequeues("BUFFERS")
    /\ buffers' = generation
    /\ output' = Tail(output)
    /\ UNCHANGED <<at, endOfStream, mMuxerStarted, written, exception, frameVars,
                   input, free, announced, generation>>

DrainFormat ==
    /\ Dequeues("FORMAT")
    /\ IF mMuxerStarted
       THEN Throw("FormatTwice")
       ELSE /\ mMuxerStarted' = TRUE
            /\ output' = Tail(output)
            /\ UNCHANGED <<at, endOfStream, buffers, written, exception, frameVars,
                           input, free, announced, generation>>

\* releaseOutputBuffer, then out of the loop if the buffer ends the stream.
ReleaseOutputBuffer ==
    /\ free' = free + 1
    /\ output' = Tail(output)
    /\ at' = IF Head(output).eos THEN AfterDrain ELSE "drain"
    /\ UNCHANGED <<endOfStream, mMuxerStarted, buffers, exception, frameVars,
                   input, announced, generation>>

\* Codec config was fed to the muxer with the format: its size is set to 0.
DrainConfig ==
    /\ Dequeues("CONFIG")
    /\ IF buffers # generation
       THEN Throw("NullBuffer")
       ELSE ReleaseOutputBuffer /\ UNCHANGED written

DrainData ==
    /\ Dequeues("DATA")
    /\ IF buffers # generation
       THEN Throw("NullBuffer")
       ELSE IF Head(output).frame = 0
       THEN ReleaseOutputBuffer /\ UNCHANGED written
       ELSE IF ~mMuxerStarted
       THEN Throw("MuxerNotStarted")
       ELSE /\ written' = Append(written, Head(output).frame)
            /\ ReleaseOutputBuffer

\* Mutation: the frame is drawn after the swap, which shows the image before it.
DrawLate ==
    /\ Alive /\ at = "draw"
    /\ drawn' = IF submitted = <<>> THEN 0 ELSE submitted[Len(submitted)]
    /\ at' = "swap"
    /\ UNCHANGED <<endOfStream, mMuxerStarted, buffers, written, exception,
                   latched, frames, submitted, shown, overtaken, codecVars>>

\* The image is the one in the texture now, not when the frame was posted.
Draw ==
    /\ Alive /\ at = "draw"
    /\ drawn' = latched
    /\ at' = "swap"
    /\ UNCHANGED <<endOfStream, mMuxerStarted, buffers, written, exception,
                   latched, frames, submitted, shown, overtaken, codecVars>>

\* setPresentationTime, then eglSwapBuffers, which waits for a free buffer of the
\* input surface.
SwapBuffers ==
    /\ Alive /\ at = "swap"
    /\ Len(input) < InputSlots
    /\ submitted' = Append(submitted, Head(frames))
    /\ shown' = Append(shown, drawn)
    /\ input' = Append(input, Handled(Head(frames)))
    /\ frames' = Tail(frames)
    /\ at' = "idle"
    /\ UNCHANGED <<endOfStream, mMuxerStarted, buffers, written, exception, latched,
                   drawn, overtaken, output, free, announced, generation>>

\* The encoder is stopped and released; then MediaMuxer.stop throws if it was fed
\* no data.
Release ==
    /\ Alive /\ at = "release"
    /\ IF written = <<>>
       THEN Throw("NoData")
       ELSE /\ at' = "released"
            /\ UNCHANGED <<endOfStream, mMuxerStarted, buffers, written, exception,
                           frameVars, codecVars>>
-----------------------------------------------------------------------------
(* The GL thread, while it records.                                         *)

\* A pass of onDrawFrame: updateTexImage latches the next image if one has come,
\* and frameAvailable posts its timestamp.  A pass without a new image (the view
\* was resized) posts the same timestamp again.
PostFrame ==
    /\ Alive /\ ~endOfStream
    /\ Len(submitted) + Len(frames) < MaxFrames
    /\ latched' \in {latched, latched + 1} \ {0}
    /\ frames' = Append(frames, latched')
    /\ overtaken' = (overtaken \/ (latched' # latched /\ frames # <<>>))
    /\ UNCHANGED <<threadVars, drawn, submitted, shown, codecVars>>
-----------------------------------------------------------------------------
(* The codec.  It tells its format once, and it does so before any buffer.  *)

CodecFormat ==
    /\ Alive /\ at # "released"
    /\ input # <<>> /\ announced = "nothing"
    /\ announced' = "format"
    /\ output' = Append(output, Status("FORMAT"))
    /\ UNCHANGED <<threadVars, frameVars, input, free, generation>>

CodecConfig ==
    /\ Alive /\ at # "released"
    /\ announced = "format" /\ free > 0
    /\ announced' = "config"
    /\ output' = Append(output, Status("CONFIG"))
    /\ free' = free - 1
    /\ UNCHANGED <<threadVars, frameVars, input, generation>>

\* One input gives one output.  The end of stream is a buffer of its own, or a
\* flag on the last frame's; without frames it may come with no format.
CodecEncode ==
    /\ Alive /\ at # "released"
    /\ input # <<>> /\ free > 0
    /\ announced = "config" \/ (Head(input) = 0 /\ announced = "nothing")
    /\ \/ /\ output' = Append(output, Data(Head(input), Head(input) = 0))
          /\ input' = Tail(input)
       \/ /\ Len(input) = 2 /\ input[2] = 0
          /\ output' = Append(output, Data(Head(input), TRUE))
          /\ input' = <<>>
    /\ free' = free - 1
    /\ UNCHANGED <<threadVars, frameVars, announced, generation>>

\* The codec replaces its output buffers while it holds them all.
CodecChangeBuffers ==
    /\ Alive /\ at # "released"
    /\ free = OutputBuffers
    /\ generation < MaxChanges
    /\ generation' = generation + 1
    /\ output' = Append(output, Status("BUFFERS"))
    /\ UNCHANGED <<threadVars, frameVars, input, free, announced>>
-----------------------------------------------------------------------------
DrainEncoder ==
    \/ DrainTryAgain
    \/ DrainBuffers
    \/ DrainFormat
    \/ DrainConfig
    \/ DrainData

EncoderThread ==
    \/ BeginFrame
    \/ BeginStop
    \/ DrainEncoder
    \/ Draw
    \/ SwapBuffers
    \/ Release

Codec ==
    \/ CodecFormat
    \/ CodecConfig
    \/ CodecEncode

\* The recording is over, or the exception has ended the process.
Ended == (at = "released" \/ ~Alive) /\ UNCHANGED coreVars

Next ==
    \/ EncoderThread
    \/ PostFrame
    \/ Codec
    \/ CodecChangeBuffers
    \/ Ended

Spec == Init /\ [][Next]_coreVars

\* The encoder thread goes on with the handler it is in, and the codec with the
\* buffers it has.  Nothing makes a camera frame or a stop arrive.
FairSpec ==
    /\ Spec
    /\ WF_coreVars(DrainEncoder \/ Draw \/ SwapBuffers \/ Release)
    /\ WF_coreVars(Codec)
-----------------------------------------------------------------------------
(* Properties.                                                              *)

\* The exceptions of drainEncoder are never thrown: the muxer is started once,
\* before the first sample, and the buffers at hand are the codec's own.
DrainNeverThrows == exception \in {"none", "NoData"}

\* The recording keeps its promise: when it has been released the file holds
\* every frame swapped to the input surface, once, in order and with the timestamp
\* that the camera gave it.
Promise == INSTANCE Recording WITH
    Times <- Time0,
    file <- IF at = "released" THEN written ELSE <<>>,
    state <- IF at = "released" THEN "saved"
             ELSE IF exception = "NoData" THEN "failed" ELSE "recording"

PromiseKept == Promise!RecordingSpec

\* The doc of frameAvailable has it that "we don't want the caller to latch a new
\* frame until we're done with this one".  Nothing prevents it, so a frame may show a
\* later image than its timestamp says: but only if the encoder thread fell behind,
\* and never an earlier one.  Neither the times nor the images of a movie go back.
ImagesMatchTimes ==
    /\ \A p \in DOMAIN shown :
           shown[p] = submitted[p] \/ (overtaken /\ shown[p] > submitted[p])
    /\ \A p \in 1..Len(shown) - 1 :
           shown[p] <= shown[p + 1] /\ submitted[p] <= submitted[p + 1]

\* Every handler ends, however much is still to encode.  The class doc: drain before
\* every swap "to ensure that the producer side doesn't get backed up"; and the drain of
\* a stop reaches the end of the stream.  It takes two output buffers: the configuration
\* would hold a single one while the swap waits for room in the input, and the drain
\* that would give it back only comes with the next frame.
HandlerEnds ==
    (OutputBuffers > 1 /\ at \notin {"idle", "released"})
        ~> (at \in {"idle", "released"} \/ ~Alive)
=============================================================================
