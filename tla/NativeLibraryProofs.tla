------------------------- MODULE NativeLibraryProofs -------------------------
(***************************************************************************)
(* Proofs about the native library.  The times of NativePipeline's frames,  *)
(* for every rate, length, clock and word size that the assumption allows:  *)
(* the 32-bit product never wraps.  Its two pictures, which are complete.   *)
(* And OmxProbe, for any number of roles and of calls: it keeps to its own  *)
(* nodes, whatever calls fail.                                              *)
(***************************************************************************)
EXTENDS NativeLibrary, Rgb24ToYuv420Proofs, SequenceTheorems

LEMMA Constants ==
    /\ Fps \in Nat \ {0} /\ VideoLen \in Nat \ {0}
    /\ Second \in Nat \ {0} /\ Words \in Nat \ {0}
    /\ Fps <= Second
    /\ Frames \in Nat /\ Frames * Second < Words
BY PipelineAssumption DEF Frames

\* A product grows with its first factor.
LEMMA ProductGrows ==
    ASSUME NEW a \in Nat, NEW b \in Nat, NEW c \in Nat, a <= b
    PROVE  a * c <= b * c
<1> DEFINE d == b - a
<1>1. d \in Nat /\ b = a + d
    OBVIOUS
<1>2. d * c \in Nat
    BY <1>1
<1>3. (a + d) * c = a * c + d * c
    BY <1>1
<1> QED
    BY <1>1, <1>2, <1>3

\* Division, by its quotient and remainder.
LEMMA Division ==
    ASSUME NEW a \in Nat, NEW f \in Nat \ {0}
    PROVE  /\ a \div f \in Nat
           /\ a % f \in Nat /\ a % f < f
           /\ a = f * (a \div f) + (a % f)
OBVIOUS

\* A dividend that grows by the divisor or more has a larger quotient.
LEMMA QuotientGrows ==
    ASSUME NEW a \in Nat, NEW s \in Nat, NEW f \in Nat \ {0}, f <= s
    PROVE  a \div f < (a + s) \div f
<1> DEFINE p == a \div f
           q == (a + s) \div f
<1>1. p \in Nat /\ q \in Nat
    BY Division
<1>2. a = f * p + (a % f) /\ a % f \in Nat
    BY Division
<1>3. a + s = f * q + ((a + s) % f) /\ (a + s) % f \in Nat /\ (a + s) % f < f
    BY Division
<1>4. f * q > f * p
    <2> HIDE DEF p, q
    <2>1. f * p \in Nat /\ f * q \in Nat
        BY <1>1
    <2> QED
        BY <1>2, <1>3, <2>1
<1>5. ~(q <= p)
    <2> HIDE DEF p, q
    <2>1. SUFFICES ASSUME q <= p PROVE FALSE
        OBVIOUS
    <2>2. q * f <= p * f
        BY <1>1, <2>1, ProductGrows
    <2>3. q * f = f * q /\ p * f = f * p
        BY <1>1
    <2>4. f * p \in Nat /\ f * q \in Nat
        BY <1>1
    <2> QED
        BY <1>4, <2>2, <2>3, <2>4
<1> QED
    BY <1>1, <1>5

\* Up to the last frame the product has not wrapped.
LEMMA NoWrap ==
    ASSUME NEW k \in Nat, k <= Frames
    PROVE  KeyTime(k) = (k * Second) \div Fps
<1>1. k * Second <= Frames * Second
    BY Constants, ProductGrows
<1>2. k * Second \in Nat /\ Frames * Second \in Nat
    BY Constants
<1>3. k * Second < Words
    BY <1>1, <1>2, Constants
<1> DEFINE x == k * Second
<1>4. x % Words = x
    <2> HIDE DEF x
    <2>1. x \in Nat /\ x < Words
        BY <1>2, <1>3 DEF x
    <2> QED
        BY <2>1, Constants
<1> QED
    BY <1>4 DEF KeyTime

LEMMA KeyTimesIncrease ==
    ASSUME NEW k \in Nat, k + 1 <= Frames
    PROVE  KeyTime(k) < KeyTime(k + 1)
<1>1. KeyTime(k) = (k * Second) \div Fps /\ KeyTime(k + 1) = ((k + 1) * Second) \div Fps
    BY NoWrap, Constants
<1>2. (k + 1) * Second = k * Second + Second /\ k * Second \in Nat
    BY Constants
<1> QED
    BY <1>1, <1>2, QuotientGrows, Constants
-----------------------------------------------------------------------------
\* A frame is only under way while one is left, and the frames given so far have
\* the times of 1, 2, and so on.
TimesInv ==
    /\ mFrameCount \in Nat /\ mFrameCount <= Frames
    /\ reader \in {"acquire", "update"} => mFrameCount < Frames
    /\ times \in Seq(Int)
    /\ Len(times) = mFrameCount
    /\ \A k \in 1..mFrameCount : times[k] = KeyTime(k)

LEMMA TimesInvInit == PipelineInit => TimesInv
BY Constants DEF PipelineInit, TimesInv

LEMMA KeyTimeInt == ASSUME NEW k \in Nat PROVE KeyTime(k) \in Int
<1>1. k * Second \in Nat
    BY Constants
<1> DEFINE x == k * Second
           y == x % Words
<1>2. y \in Nat
    <2> HIDE DEF x
    <2>1. x \in Nat
        BY <1>1 DEF x
    <2> QED
        BY <2>1, Constants
<1>3. y \div Fps \in Int
    <2> HIDE DEF y
    <2> QED
        BY <1>2, Constants
<1> QED
    BY <1>3 DEF KeyTime

LEMMA TimesInvStep == TimesInv /\ [PipelineNext]_pipelineVars => TimesInv'
<1> SUFFICES ASSUME TimesInv, [PipelineNext]_pipelineVars PROVE TimesInv'
    OBVIOUS
<1>1. CASE UNCHANGED <<reader, mFrameCount, times>>
    BY <1>1 DEF TimesInv
<1>2. CASE Read /\ mFrameCount < Frames
    BY <1>2 DEF TimesInv, Read
<1>3. CASE AcquireBuffer
    BY <1>3 DEF TimesInv, AcquireBuffer
<1>4. CASE UpdateSouce
    <2>1. /\ mFrameCount < Frames /\ reader' = "holds"
          /\ mFrameCount' = mFrameCount + 1
          /\ times' = Append(times, KeyTime(mFrameCount + 1))
        BY <1>4 DEF TimesInv, UpdateSouce
    <2>2. KeyTime(mFrameCount + 1) \in Int
        BY KeyTimeInt DEF TimesInv
    <2>3. /\ times' \in Seq(Int) /\ Len(times') = mFrameCount + 1
          /\ \A k \in 1..mFrameCount : times'[k] = KeyTime(k)
          /\ times'[mFrameCount + 1] = KeyTime(mFrameCount + 1)
        BY <2>1, <2>2 DEF TimesInv
    <2> QED
        BY <2>1, <2>3, Constants DEF TimesInv
<1>5. CASE ReleaseBuffer
    BY <1>5 DEF TimesInv, ReleaseBuffer
<1>6. CASE UIThread \/ Ended \/ UNCHANGED pipelineVars
    <2>1. UNCHANGED sourceVars
        BY <1>6 DEF UIThread, Convert, ConvertNext, Create, AddSource, Start, Test, Poll,
                    Destroy, Ended, pipelineVars, sourceVars
    <2> QED
        BY <1>1, <2>1 DEF sourceVars
<1>7. CASE Read /\ ~(mFrameCount < Frames)
    <2>1. mFrameCount >= Frames
        BY <1>7, Constants DEF TimesInv
    <2> QED
        BY <1>1, <1>7, <2>1 DEF Read
<1> QED
    BY <1>2, <1>3, <1>4, <1>5, <1>6, <1>7 DEF PipelineNext, Reader

LEMMA TimesInvIncreases == TimesInv => TimesIncrease
<1> SUFFICES ASSUME TimesInv, NEW k \in 1..Len(times) - 1
             PROVE  times[k] < times[k + 1]
    BY DEF TimesIncrease
<1>1. k \in Nat /\ k + 1 <= Frames /\ k \in 1..mFrameCount /\ k + 1 \in 1..mFrameCount
    BY Constants DEF TimesInv
<1>2. times[k] = KeyTime(k) /\ times[k + 1] = KeyTime(k + 1)
    BY <1>1 DEF TimesInv
<1> QED
    BY <1>1, <1>2, KeyTimesIncrease

\* The times that AVSource::read gives its frames increase, for as long as the end of
\* the stream comes before the product of 32 bits wraps.
THEOREM FrameTimesIncrease == PipelineSpec => []TimesIncrease
BY TimesInvIncreases, TimesInvInit, TimesInvStep, PTL DEF PipelineSpec

LEMMA TimesHold == NativeSpec => []TimesInv
<1>1. NativeInit => TimesInv
    BY TimesInvInit DEF NativeInit
<1>2. TimesInv /\ [NativeNext]_nativeVars => TimesInv'
    <2>1. [NativeNext]_nativeVars => [PipelineNext]_pipelineVars
        BY DEF NativeNext, Pipeline, RunsProbe, nativeVars
    <2> QED
        BY <2>1, TimesInvStep
<1> QED
    BY <1>1, <1>2, PTL DEF NativeSpec

\* It is so in the library as well, in which a call may run the probe instead.
THEOREM LibraryTimesIncrease == NativeSpec => []TimesIncrease
BY TimesHold, TimesInvIncreases, PTL
-----------------------------------------------------------------------------
(* The two pictures.                                                         *)

\* Red is among the colours that are converted, so blue is.
PictureInv == WrittenInv /\ {0, 255} \subseteq Levels

LEMMA NextPicture == Init' => WrittenInv'
BY WrittenInit, PTL

\* createYuvData starts the second picture as the first was started.
LEMMA SecondPicture ==
    ASSUME PictureInv, ConvertNext, ~UNCHANGED conversionVars
    PROVE  PictureInv'
<1>1. /\ colour' = Blue /\ i' = 0 /\ j' = 0
      /\ bufY' = 0 /\ bufU' = Area /\ bufV' = Area + 1
      /\ written' = [o \in {} |-> 0]
      /\ UNCHANGED <<nWidth, nHeight>>
    BY DEF ConvertNext
<1>2. Area' = Area /\ Blue \in Levels \X Levels \X Levels
    BY <1>1 DEF Area, Blue, PictureInv
<1>3. Init'
    BY <1>1, <1>2 DEF Init, PictureInv, WrittenInv, Inv, TypeOK
<1>4. WrittenInv'
    BY <1>3, NextPicture
<1> QED
    BY <1>4 DEF PictureInv

LEMMA PicturesCorrect == NativeSpec => []PictureInv
<1>1. NativeInit => PictureInv
    BY WrittenInit DEF NativeInit, PipelineInit, PictureInv, Init, Red, NoPicture
<1>2. ASSUME PictureInv, [NativeNext]_nativeVars
      PROVE  PictureInv'
    <2>1. CASE UNCHANGED conversionVars
        BY <1>2, <2>1, WrittenSame DEF conversionVars, PictureInv
    <2>2. CASE Convert
        BY <1>2, <2>2, PixelWritten DEF Convert, PictureInv
    <2>3. CASE ConvertNext /\ ~UNCHANGED conversionVars
        BY <1>2, <2>3, SecondPicture
    <2>4. QED
        BY <1>2, <2>1, <2>2, <2>3
           DEF NativeNext, Pipeline, RunsProbe, PipelineNext, UIThread, Reader, Create, AddSource,
               Start, Test, Poll, Destroy, Read, AcquireBuffer, UpdateSouce, ReleaseBuffer, Ended,
               nativeVars, pipelineVars
<1> QED
    BY <1>1, <1>2, PTL DEF NativeSpec

\* Neither picture of the source leaves its buffer, if the sides are even.
THEOREM LibraryWritesInBounds == NativeSpec => []WritesInBounds
<1>1. PictureInv => WritesInBounds
    BY WrittenIsComplete DEF PictureInv
<1> QED
    BY <1>1, PicturesCorrect, PTL

\* The source has both its pictures whole before it is read.
THEOREM LibraryPicturesComplete == NativeSpec => []PictureComplete
<1>1. PictureInv => PictureComplete
    BY WrittenIsComplete DEF PictureInv
<1> QED
    BY <1>1, PicturesCorrect, PTL
-----------------------------------------------------------------------------
(* The types of the pipeline.                                                *)

\* A time is a word, wrapped or not.
LEMMA KeyTimeFits == ASSUME NEW k \in Nat PROVE KeyTime(k) \in 0..Words - 1
<1> DEFINE x == k * Second
           y == x % Words
           q == y \div Fps
<1>1. x \in Nat
    BY Constants
<1>2. y \in Nat /\ y < Words
    BY <1>1, Constants, Division
<1>3. q \in Nat /\ y % Fps \in Nat /\ y = Fps * q + (y % Fps)
    BY <1>2, Constants, Division
<1>4. q <= Fps * q
    BY <1>3, Constants, ProductGrows, 1 * q = q
<1>5. q \in 0..Words - 1
    <2> HIDE DEF y, q
    <2>1. Fps * q \in Nat
        BY <1>3, Constants
    <2> QED
        BY <1>2, <1>3, <1>4, <2>1, Constants
<1> QED
    BY <1>5 DEF KeyTime

LEMMA PeriodIs == Period \in Nat
BY Constants, Division DEF Period

\* The buffer is free unless the reader has it.
TypeInv ==
    /\ PipelineTypeOK
    /\ free = IF reader \in {"update", "holds"} THEN 0 ELSE 1

LEMMA TypeInvStep ==
    ASSUME TypeInv, TimesInv, TimesInv', TypeOK', [PipelineNext]_pipelineVars
    PROVE  TypeInv'
<1> USE DEF TypeInv, PipelineTypeOK
<1>1. CASE UNCHANGED pipelineVars \/ Ended
    BY <1>1 DEF Ended, pipelineVars, codecVars, sourceVars
<1>2. CASE UIThread
    BY <1>2 DEF UIThread, Convert, ConvertNext, Create, AddSource, Start, Test, Poll, Destroy,
                Goes, pipelineVars, codecVars, sourceVars
<1>3. CASE Read
    BY <1>3 DEF Read, codecVars
<1>4. CASE AcquireBuffer \/ ReleaseBuffer
    BY <1>4 DEF AcquireBuffer, ReleaseBuffer, codecVars
<1>5. CASE UpdateSouce
    <2>1. mFrameCount' \in 0..Frames
        BY Constants DEF TimesInv
    <2>2. elapsed' \in Nat
        <3>1. PICK spent \in Spent : elapsed' = IF mFrameCount = 0 THEN 0 ELSE slept + spent
            BY <1>5 DEF UpdateSouce
        <3> QED
            BY <3>1, PipelineAssumption
    <2>3. slept' \in Nat
        BY <1>5, <2>2, PeriodIs DEF UpdateSouce
    <2>4. times' \in Seq(0..Words - 1)
        <3>1. times' = Append(times, KeyTime(mFrameCount')) /\ mFrameCount' \in Nat
            BY <1>5, <2>1, Constants DEF UpdateSouce
        <3>2. KeyTime(mFrameCount') \in 0..Words - 1
            BY <3>1, KeyTimeFits
        <3> QED
            BY <3>1, <3>2, AppendProperties
    <2>5. reader = "update" /\ reader' = "holds" /\ UNCHANGED <<at, codecVars, free>>
        BY <1>5 DEF UpdateSouce
    <2> QED
        BY <2>1, <2>2, <2>3, <2>4, <2>5 DEF codecVars
<1> QED
    BY <1>1, <1>2, <1>3, <1>4, <1>5 DEF PipelineNext, Reader

\* Types of the pipeline: among them, that its one buffer is never given back twice, and
\* that no frame is read behind the end of the stream.
THEOREM PipelineTypeCorrect == NativeSpec => []PipelineTypeOK
<1>1. NativeInit => TypeInv
    <2> SUFFICES ASSUME NativeInit PROVE TypeInv
        OBVIOUS
    <2>1. PipelineInit /\ TypeOK /\ 0 \in 0..Frames
        BY InitInv, Constants DEF NativeInit, PipelineInit, Inv
    <2> QED
        BY <2>1 DEF PipelineInit, TypeInv, PipelineTypeOK
<1>2. TypeInv /\ TimesInv /\ TimesInv' /\ PictureInv' /\ [NativeNext]_nativeVars => TypeInv'
    <2>1. [NativeNext]_nativeVars => [PipelineNext]_pipelineVars
        BY DEF NativeNext, Pipeline, RunsProbe, nativeVars
    <2> QED
        BY <2>1, TypeInvStep DEF PictureInv, WrittenInv, Inv
<1>3. NativeSpec => []TimesInv
    BY TimesHold
<1>4. TypeInv => PipelineTypeOK
    BY DEF TypeInv
<1> QED
    BY <1>1, <1>2, <1>3, <1>4, PicturesCorrect, PTL DEF NativeSpec
-----------------------------------------------------------------------------
(* The probe.                                                               *)

\* What configComponent holds belongs to the port, unless nothing could be read of it.
Holds(port) ==
    Allocated => portDefn.rest = port \/ <<mNode, port>> \in misread

\* A listing allocates until it has found, and what is then written to a port was
\* read of it.
ProbeInv ==
    /\ ProbeTypeOK
    /\ probe = "new" => nodes = 0 /\ probes = 0
    /\ OwnNodeOnly
    /\ probe = "list" /\ ~found => nodes < probes
    /\ probe \in {"setIn", "getBack"} => Holds("in")
    /\ probe = "setOut" => Holds("out")
    /\ PortsKeepTheirOwn

LEMMA ProbeConstants ==
    /\ MaxRoles \in Nat \ {0} /\ MaxProbes \in Nat \ {0}
    /\ OtherNode \in Nodes /\ NoNode # OtherNode /\ NoNode \notin Nodes
    /\ \A n \in Nodes : n \in 0..MaxProbes
BY ProbeAssumption DEF OtherNode, NoNode, Nodes

LEMMA ProbeInvInit == ProbeInit => ProbeInv
<1> SUFFICES ASSUME ProbeInit PROVE ProbeInv
    OBVIOUS
<1>1. /\ probe = "new" /\ probes = 0 /\ roles = <<>> /\ found = FALSE
      /\ mNode \in {OtherNode, NoNode} /\ nodes = 0
      /\ portDefn = [width |-> "stack", rest |-> "stack"]
      /\ ports = [np \in Nodes \X Ports |-> [width |-> "own", rest |-> np[2]]]
      /\ misread = {}
    BY DEF ProbeInit
<1>2. \A np \in Nodes \X Ports : np[2] \in Ports
    OBVIOUS
<1>3. portDefn \in Defn /\ ports \in [Nodes \X Ports -> Defn]
    BY <1>1, <1>2 DEF Defn
<1>4. ProbeTypeOK
    <2>1. roles \in Seq(BOOLEAN)
        BY <1>1, EmptySeq
    <2>2. mNode \in Nodes \cup {NoNode} /\ 0 \in 0..MaxProbes
        BY <1>1, ProbeConstants
    <2> QED
        BY <1>1, <1>3, <2>1, <2>2 DEF ProbeTypeOK
<1>5. PortsKeepTheirOwn
    BY <1>1 DEF PortsKeepTheirOwn
<1> QED
    BY <1>1, <1>4, <1>5 DEF ProbeInv, OwnNodeOnly

LEMMA ConnectKeepsInv == ProbeInv /\ Connect => ProbeInv'
BY DEF ProbeInv, Connect, ProbeGoes, ProbeTypeOK, OwnNodeOnly, Holds, Allocated, PortsKeepTheirOwn

LEMMA ListNodesKeepsInv == ProbeInv /\ ListNodes => ProbeInv'
<1> SUFFICES ASSUME ProbeInv, ListNodes PROVE ProbeInv'
    OBVIOUS
<1>1. /\ probe = "idle" /\ probe' = "list" /\ probes < MaxProbes /\ probes' = probes + 1
      /\ found' = FALSE /\ UNCHANGED <<mNode, nodes, portDefn, ports, misread>>
    BY DEF ListNodes, ProbeGoes
<1>2. roles' \in Seq(BOOLEAN)
    <2>1. PICK n \in 0..MaxRoles : roles' \in [1..n -> BOOLEAN]
        BY DEF ListNodes
    <2> QED
        BY <2>1, ProbeConstants
<1>3. probes \in Nat /\ nodes \in Nat /\ nodes <= probes /\ probes' \in 0..MaxProbes
    BY <1>1, ProbeConstants DEF ProbeInv, ProbeTypeOK, OwnNodeOnly
<1>4. ProbeTypeOK'
    BY <1>1, <1>2, <1>3 DEF ProbeInv, ProbeTypeOK
<1>5. OwnNodeOnly' /\ nodes' < probes' /\ PortsKeepTheirOwn'
    BY <1>1, <1>3 DEF ProbeInv, OwnNodeOnly, PortsKeepTheirOwn
<1> QED
    BY <1>1, <1>4, <1>5 DEF ProbeInv

LEMMA VisitRoleKeepsInv == ProbeInv /\ VisitRole => ProbeInv'
<1> SUFFICES ASSUME ProbeInv, VisitRole PROVE ProbeInv'
    OBVIOUS
<1>1. /\ probe = "list" /\ roles # <<>> /\ roles' = Tail(roles)
      /\ found' = (found \/ Head(roles))
      /\ UNCHANGED <<probe, probes, portDefn, ports, misread>>
    BY DEF VisitRole
<1>2. roles' \in Seq(BOOLEAN) /\ Head(roles) \in BOOLEAN
    BY <1>1, HeadTailProperties DEF ProbeInv, ProbeTypeOK
<1>3. found' \in BOOLEAN
    BY <1>1, <1>2 DEF ProbeInv, ProbeTypeOK
<1>4. /\ probes \in 0..MaxProbes /\ nodes \in 0..MaxProbes /\ nodes <= probes
      /\ nodes > 0 => mNode # OtherNode
      /\ mNode \in Nodes \cup {NoNode} /\ (~found => nodes < probes)
    BY <1>1 DEF ProbeInv, ProbeTypeOK, OwnNodeOnly
<1>5. /\ mNode' \in Nodes \cup {NoNode} /\ nodes' \in 0..MaxProbes /\ nodes' <= probes
      /\ nodes' > 0 => mNode' # OtherNode
      /\ ~found' => nodes' < probes
    <2>1. CASE UNCHANGED <<mNode, nodes>>
        BY <1>1, <1>4, <2>1
    <2>2. CASE Head(roles) /\ ~found /\ nodes' = nodes + 1 /\ mNode' = nodes'
        <3>1. nodes' \in 0..MaxProbes /\ nodes' # 0 /\ nodes' <= probes
            <4>1. nodes < probes /\ nodes' = nodes + 1
                BY <1>4, <2>2
            <4> QED
                BY <1>4, <4>1, ProbeConstants
        <3>2. nodes' \in Nodes /\ nodes' # OtherNode
            BY <3>1, ProbeConstants DEF Nodes, OtherNode
        <3> QED
            BY <1>1, <2>2, <3>1, <3>2
    <2>3. CASE Head(roles) /\ ~found /\ mNode' \in {mNode, NoNode} /\ UNCHANGED nodes
        BY <1>1, <1>4, <2>3, ProbeConstants
    <2> QED
        BY <2>1, <2>2, <2>3 DEF VisitRole, AllocateNode
<1>6. ProbeTypeOK'
    BY <1>1, <1>2, <1>3, <1>5 DEF ProbeInv, ProbeTypeOK
<1>7. PortsKeepTheirOwn'
    BY <1>1 DEF ProbeInv, PortsKeepTheirOwn
<1> QED
    BY <1>1, <1>5, <1>6, <1>7 DEF ProbeInv, OwnNodeOnly

LEMMA EndOfListKeepsInv == ProbeInv /\ EndOfList => ProbeInv'
BY DEF ProbeInv, EndOfList, ProbeGoes, ProbeTypeOK, Defn, OwnNodeOnly, PortsKeepTheirOwn

\* Reading a parameter: what is held then belongs to the port that was read.
LEMMA GetKeepsInv ==
    ASSUME ProbeInv, NEW port \in Ports, NEW defn \in Defn, GetParameter(port, defn),
           probe' \in {"setIn", "getOut", "setOut"}, probe # "new",
           probe' = "setIn" => port = "in", probe' = "setOut" => port = "out"
    PROVE  ProbeInv'
<1>1. UNCHANGED <<probes, roles, found, mNode, nodes, ports>> /\ (Allocated' <=> Allocated)
    BY DEF GetParameter, Allocated
<1>2. ASSUME Allocated
      PROVE  <<mNode, port>> \in Nodes \X Ports
    BY <1>2, ProbeConstants DEF Allocated, ProbeInv, ProbeTypeOK, Nodes, OtherNode
<1>3. portDefn' \in Defn /\ misread' \subseteq Nodes \X Ports /\ misread \subseteq misread'
    BY <1>2 DEF GetParameter, ProbeInv, ProbeTypeOK
<1>4. Allocated => portDefn'.rest = port \/ <<mNode, port>> \in misread'
    <2> SUFFICES ASSUME Allocated, <<mNode, port>> \notin misread'
                 PROVE  portDefn'.rest = port
        OBVIOUS
    <2>1. portDefn' = ports[<<mNode, port>>] /\ <<mNode, port>> \notin misread
        BY <1>3 DEF GetParameter
    <2> QED
        BY <1>2, <2>1 DEF ProbeInv, PortsKeepTheirOwn
<1>5. ProbeTypeOK'
    BY <1>1, <1>3 DEF ProbeInv, ProbeTypeOK
<1>6. PortsKeepTheirOwn' /\ OwnNodeOnly'
    BY <1>1, <1>3 DEF ProbeInv, PortsKeepTheirOwn, OwnNodeOnly
<1> QED
    BY <1>1, <1>4, <1>5, <1>6 DEF ProbeInv, Holds

\* Writing what is held of the port, with the width that is asked.
LEMMA SetKeepsInv ==
    ASSUME ProbeInv, NEW port \in Ports, SetParameter(port, AskWidth), Holds(port),
           probe' \in {"getBack", "idle"}, probe # "new", probe' = "getBack" => port = "in"
    PROVE  ProbeInv'
<1> DEFINE defn == AskWidth
<1>1. defn \in Defn /\ defn.width = "asked" /\ defn.rest = portDefn.rest
    BY DEF AskWidth, ProbeInv, ProbeTypeOK, Defn
<1> HIDE DEF defn
<1>2. /\ UNCHANGED <<probes, roles, found, mNode, nodes, misread>> /\ (Allocated' <=> Allocated)
      /\ portDefn' = defn
      /\ (Allocated /\ ports' = [ports EXCEPT ![<<mNode, port>>] = defn]) \/ UNCHANGED ports
    BY DEF SetParameter, Allocated, defn
<1>3. ProbeTypeOK'
    BY <1>1, <1>2 DEF ProbeInv, ProbeTypeOK
<1>4. PortsKeepTheirOwn'
    <2> SUFFICES ASSUME NEW np \in Nodes \X Ports
                 PROVE  /\ ports'[np].width \in {"own", "asked"}
                        /\ ports'[np].rest # np[2] => np \in misread
        BY <1>2 DEF PortsKeepTheirOwn
    <2>1. CASE ports'[np] = ports[np]
        BY <2>1 DEF ProbeInv, PortsKeepTheirOwn
    <2>2. CASE Allocated /\ np = <<mNode, port>> /\ ports'[np] = defn
        BY <1>1, <2>2 DEF Holds
    <2> QED
        BY <1>2, <2>1, <2>2 DEF ProbeInv, ProbeTypeOK
<1>5. OwnNodeOnly'
    BY <1>2 DEF ProbeInv, OwnNodeOnly
<1>6. Holds(port)'
    BY <1>1, <1>2 DEF Holds
<1> QED
    BY <1>2, <1>3, <1>4, <1>5, <1>6 DEF ProbeInv

LEMMA ConfigComponentKeepsInv == ProbeInv /\ ConfigComponent => ProbeInv'
<1> SUFFICES ASSUME ProbeInv, ConfigComponent PROVE ProbeInv'
    OBVIOUS
<1>1. portDefn \in Defn /\ {"in", "out"} \subseteq Ports
    BY DEF ProbeInv, ProbeTypeOK, Ports
<1>2. CASE GetIn
    BY <1>1, <1>2, GetKeepsInv DEF GetIn, ProbeGoes
<1>3. CASE SetIn
    BY <1>1, <1>3, SetKeepsInv DEF SetIn, ProbeGoes, ProbeInv
<1>4. CASE GetBack
    <2>1. [portDefn EXCEPT !.width = "sentinel"] \in Defn
        BY <1>1 DEF Defn
    <2> QED
        BY <1>1, <1>4, <2>1, GetKeepsInv DEF GetBack, ProbeGoes
<1>5. CASE GetOut
    BY <1>1, <1>5, GetKeepsInv DEF GetOut, ProbeGoes
<1>6. CASE SetOut
    BY <1>1, <1>6, SetKeepsInv DEF SetOut, ProbeGoes, ProbeInv
<1> QED
    BY <1>2, <1>3, <1>4, <1>5, <1>6 DEF ConfigComponent

\* The probe's inductive invariant.
THEOREM ProbeInvariant == NativeSpec => []ProbeInv
<1>1. NativeInit => ProbeInv
    BY ProbeInvInit DEF NativeInit
<1>2. ASSUME ProbeInv, [NativeNext]_nativeVars
      PROVE  ProbeInv'
    <2>1. CASE UNCHANGED probeVars
        BY <1>2, <2>1 DEF probeVars, ProbeInv, ProbeTypeOK, OwnNodeOnly, Holds, Allocated,
                          PortsKeepTheirOwn
    <2>2. CASE Probe /\ ~UNCHANGED probeVars
        BY <1>2, <2>2, ConnectKeepsInv, ListNodesKeepsInv, VisitRoleKeepsInv, EndOfListKeepsInv,
           ConfigComponentKeepsInv DEF Probe, ProbeRests
    <2> QED
        BY <1>2, <2>1, <2>2 DEF NativeNext, Pipeline, RunsProbe, nativeVars
<1> QED
    BY <1>1, <1>2, PTL DEF NativeSpec

\* However many roles and encoders a listing has, one node is allocated for each, and
\* from the first on the garbage in mNode reaches no other client's node.
THEOREM OnlyItsOwnNodes == NativeSpec => []OwnNodeOnly
<1>1. ProbeInv => OwnNodeOnly
    BY DEF ProbeInv
<1> QED
    BY <1>1, ProbeInvariant, PTL

\* A port is set from what was read of it unless a read has failed, and never to the
\* width that only marks a failed read.
THEOREM PortsAlwaysKeepTheirOwn == NativeSpec => []PortsKeepTheirOwn
<1>1. ProbeInv => PortsKeepTheirOwn
    BY DEF ProbeInv
<1> QED
    BY <1>1, ProbeInvariant, PTL
=============================================================================
