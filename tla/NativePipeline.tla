--------------------------- MODULE NativePipeline ---------------------------
(***************************************************************************)
(* The native encoder: media/AVSource.cpp and media/VideoCodec.cpp, run by   *)
(* testomx of java_interface/api.cpp.  The UI thread builds a source of red  *)
(* and blue frames (with RGB24ToYUV420), an encoder on it and a writer on    *)
(* that, then polls for the end.  Stagefright is external: while the writer  *)
(* runs, its threads read the encoder and so the source, frame by frame.     *)
(***************************************************************************)
EXTENDS Rgb24ToYuv420, Sequences

CONSTANTS
    Fps, VideoLen,  \* frames in a second, and seconds until the end of stream
    Second,         \* ticks of the clock in a second: 1000000 in the code
    Words,          \* values of a uint32_t: 2^32 in the code
    Spent           \* ticks that may pass between two frames, sleeping aside

ASSUME PipelineAssumption ==
    /\ {Fps, VideoLen, Second, Words} \subseteq Nat \ {0}
    /\ Spent \subseteq Nat
    /\ Fps <= Second
    /\ Fps * VideoLen * Second < Words

VARIABLES
    at,             \* where the UI thread is in testomx
    mVideoEncoder,
    mMp4Write,
    reader,         \* where the encoder's input thread is
    free,           \* buffers in mGroup that nobody holds
    mFrameCount,
    elapsed,        \* time_wait before the period is taken off: since the last frame
    slept,          \* how long the source slept before the last frame
    times           \* kKeyTime of the frames given to the encoder

conversionVars == vars
sourceVars == <<reader, free, mFrameCount, elapsed, slept, times>>
codecVars == <<mVideoEncoder, mMp4Write>>
pipelineVars == <<conversionVars, at, codecVars, sourceVars>>

Red == <<255, 0, 0>>
Blue == <<0, 0, 255>>
Frames == Fps * VideoLen
Period == Second \div Fps

PipelineTypeOK ==
    /\ TypeOK
    /\ at \in {"red", "blue", "create", "addSource", "start", "test", "destroy",
               "returned", "crashed"}
    /\ mVideoEncoder \in {"none", "null", "open"}
    /\ mMp4Write \in {"none", "added", "refused", "writing", "ended", "stopped"}
    /\ reader \in {"idle", "acquire", "update", "holds"}
    /\ free \in 0..1
    /\ mFrameCount \in 0..Frames
    /\ elapsed \in Nat
    /\ slept \in Nat
    /\ times \in Seq(0..Words - 1)

\* The constructors of VideoCodec and AVSource, up to the first conversion.
PipelineInit ==
    /\ Init /\ colour = Red
    /\ at = "red"
    /\ mVideoEncoder = "none"
    /\ mMp4Write = "none"
    /\ reader = "idle"
    /\ free = 1
    /\ mFrameCount = 0
    /\ elapsed = 0
    /\ slept = 0
    /\ times = <<>>

Goes(from, to) == at = from /\ at' = to
-----------------------------------------------------------------------------
(* The UI thread.                                                            *)

\* createYuvData: RGB24ToYUV420 for red, then for blue.
Convert ==
    /\ at \in {"red", "blue"}
    /\ ConvertRed \/ ConvertBlue \/ ConvertLuma
    /\ UNCHANGED <<at, codecVars, sourceVars>>

ConvertNext ==
    /\ j = nHeight
    /\ \/ /\ Goes("red", "blue")
          /\ colour' = Blue
          /\ i' = 0 /\ j' = 0
          /\ bufY' = 0 /\ bufU' = Area /\ bufV' = Area + 1
          /\ written' = [o \in {} |-> 0]
          /\ UNCHANGED <<nWidth, nHeight>>
       \/ Goes("blue", "create") /\ UNCHANGED conversionVars
    /\ UNCHANGED <<codecVars, sourceVars>>

\* OMXCodec::Create may find no encoder, and init goes on.
Create ==
    /\ Goes("create", "addSource")
    /\ mVideoEncoder' \in {"null", "open"}
    /\ UNCHANGED <<conversionVars, mMp4Write, sourceVars>>

\* A source that is null may be more than the writer can take.
AddSource ==
    /\ \/ /\ Goes("addSource", "start")
          /\ mMp4Write' = "refused"
       \/ /\ mVideoEncoder = "open"
          /\ Goes("addSource", "start")
          /\ mMp4Write' = "added"
       \/ /\ mVideoEncoder = "null"
          /\ Goes("addSource", "crashed")
          /\ UNCHANGED mMp4Write
    /\ UNCHANGED <<conversionVars, mVideoEncoder, sourceVars>>

\* MPEG4Writer::start fails or sets its threads to work.
Start ==
    /\ Goes("start", "test")
    /\ mMp4Write' \in {"refused"} \cup (IF mMp4Write = "added" THEN {"writing"} ELSE {})
    /\ UNCHANGED <<conversionVars, mVideoEncoder, sourceVars>>

\* test polls reachedEOS, then stops the writer.  What a writer that never
\* started says of its end is not known.
Test ==
    /\ Goes("test", "destroy")
    /\ mMp4Write \in {"ended", "refused"}
    /\ mMp4Write' = "stopped"
    /\ UNCHANGED <<conversionVars, mVideoEncoder, sourceVars>>

\* A poll that finds no end.
Poll ==
    /\ at = "test"
    /\ mMp4Write \in {"writing", "refused"}
    /\ UNCHANGED pipelineVars

\* ~VideoCodec stops the encoder, there or not.
Destroy ==
    /\ Goes("destroy", IF mVideoEncoder = "null" THEN "crashed" ELSE "returned")
    /\ UNCHANGED <<conversionVars, codecVars, sourceVars>>
-----------------------------------------------------------------------------
(* The encoder's input thread, in AVSource.                                  *)

\* Mutation: the source never ends.
ReadEndless ==
    /\ mMp4Write = "writing"
    /\ reader = "idle"
    /\ reader' = "acquire"
    /\ UNCHANGED <<conversionVars, at, codecVars, free, mFrameCount, elapsed, slept, times>>

\* The end of the stream reaches the writer, whose track is then done.
Read ==
    /\ mMp4Write = "writing"
    /\ reader = "idle"
    /\ IF mFrameCount >= Frames
       THEN mMp4Write' = "ended" /\ UNCHANGED reader
       ELSE reader' = "acquire" /\ UNCHANGED mMp4Write
    /\ UNCHANGED <<conversionVars, at, mVideoEncoder, free, mFrameCount, elapsed, slept, times>>

\* acquire_buffer blocks.
AcquireBuffer ==
    /\ reader = "acquire"
    /\ free > 0
    /\ free' = free - 1
    /\ reader' = "update"
    /\ UNCHANGED <<conversionVars, at, codecVars, mFrameCount, elapsed, slept, times>>

KeyTime(count) == ((count * Second) % Words) \div Fps

\* updateSouce: the time since the last frame is taken before the sleep, so the
\* sleep counts towards the next.  Then the frame is given its time.
UpdateSouce ==
    /\ reader = "update"
    /\ \E spent \in Spent :
           elapsed' = IF mFrameCount = 0 THEN 0 ELSE slept + spent
    /\ slept' = IF elapsed' > Period THEN elapsed' - Period ELSE 0
    /\ mFrameCount' = mFrameCount + 1
    /\ times' = Append(times, KeyTime(mFrameCount'))
    /\ reader' = "holds"
    /\ UNCHANGED <<conversionVars, at, codecVars, free>>

\* Mutation: the encoder keeps the frame while it reads the next one.
ReleaseBufferLate ==
    /\ reader = "holds"
    /\ reader' = "idle"
    /\ UNCHANGED <<conversionVars, at, codecVars, free, mFrameCount, elapsed, slept, times>>

\* The encoder has copied the frame.
ReleaseBuffer ==
    /\ reader = "holds"
    /\ reader' = "idle"
    /\ free' = free + 1
    /\ UNCHANGED <<conversionVars, at, codecVars, mFrameCount, elapsed, slept, times>>
-----------------------------------------------------------------------------
UIThread ==
    \/ Convert
    \/ ConvertNext
    \/ Create
    \/ AddSource
    \/ Start
    \/ Test
    \/ Poll
    \/ Destroy

Reader ==
    \/ Read
    \/ AcquireBuffer
    \/ UpdateSouce
    \/ ReleaseBuffer

Ended == at \in {"returned", "crashed"} /\ UNCHANGED pipelineVars

PipelineNext == UIThread \/ Reader \/ Ended

PipelineSpec == PipelineInit /\ [][PipelineNext]_pipelineVars
-----------------------------------------------------------------------------
(* Properties.                                                               *)

\* The frames' times are what MPEG4Writer needs: each is later than the one before,
\* so the 32-bit product of AVSource::read has not wrapped.
TimesIncrease == \A k \in 1..Len(times) - 1 : times[k] < times[k + 1]

\* A recording that has started ends: the one buffer goes round, the source stops
\* after its frames, and testomx, which holds the UI thread, returns.
TestReturns == mMp4Write = "writing" ~> at = "returned"

\* The message of updateSouce for a frame it does not sleep before, "encode cost too
\* much time": such a frame has come no earlier than a period after the last one.
NoSleepOnlyWhenLate == mFrameCount > 1 /\ slept = 0 => elapsed >= Period
=============================================================================
