------------------------------ MODULE Recording ------------------------------
(***************************************************************************)
(* What a recording promises: frames are submitted one by one, and when it  *)
(* is stopped the movie file holds each of them once, in order, with its    *)
(* own time.  A recording that got no frame fails instead: the muxer makes  *)
(* no empty file.                                                           *)
(***************************************************************************)
EXTENDS Sequences

CONSTANT Times

VARIABLES
    submitted,      \* the times of the frames drawn to the encoder's input surface
    file,           \* those of the frames in the finished movie file
    state

recordingVars == <<submitted, file, state>>

RecordingInit ==
    /\ submitted = <<>>
    /\ file = <<>>
    /\ state = "recording"

Submit ==
    /\ state = "recording"
    /\ \E time \in Times : submitted' = Append(submitted, time)
    /\ UNCHANGED <<file, state>>

Save ==
    /\ state = "recording"
    /\ submitted # <<>>
    /\ file' = submitted
    /\ state' = "saved"
    /\ UNCHANGED submitted

Fail ==
    /\ state = "recording"
    /\ submitted = <<>>
    /\ state' = "failed"
    /\ UNCHANGED <<submitted, file>>

RecordingSpec == RecordingInit /\ [][Submit \/ Save \/ Fail]_recordingVars
=============================================================================
