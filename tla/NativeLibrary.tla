--------------------------- MODULE NativeLibrary ---------------------------
(***************************************************************************)
(* java_interface/api.cpp: what a call from Java into the native library    *)
(* does.  Both testomx functions run the pipeline; the probe stands beside  *)
(* it, its call commented out, for a build that uses it instead.            *)
(***************************************************************************)
EXTENDS NativePipeline, OmxProbe

VARIABLE
    call            \* which of the two the call runs

nativeVars == <<call, pipelineVars, probeVars>>

NativeInit ==
    /\ call \in {"pipeline", "probe"}
    /\ PipelineInit
    /\ ProbeInit

Pipeline(A) == call = "pipeline" /\ A /\ UNCHANGED <<call, probeVars>>

RunsProbe == call = "probe" /\ Probe /\ UNCHANGED <<call, pipelineVars>>

NativeNext == Pipeline(PipelineNext) \/ RunsProbe

\* Both threads of the pipeline run when it is the call; a writer that never started
\* may keep test waiting for ever.
NativeSpec ==
    /\ NativeInit
    /\ [][NativeNext]_nativeVars
    /\ WF_nativeVars(Pipeline(UIThread /\ ~(at = "test" /\ mMp4Write = "refused")))
    /\ WF_nativeVars(Pipeline(Reader))
=============================================================================
