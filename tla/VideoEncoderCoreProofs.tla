------------------------ MODULE VideoEncoderCoreProofs ------------------------
(***************************************************************************)
(* Proofs about VideoEncoderCore, for any numbers of frames, buffers and    *)
(* changes of them: the file holds what was drawn, no drain throws, and the *)
(* images of the movie follow its times.  First about FrameTimestamp, on    *)
(* which the times of the file rest: the packing of a timestamp loses       *)
(* nothing, for an int of any even width.                                   *)
(***************************************************************************)
EXTENDS VideoEncoderCore, FunctionTheorems, FiniteSetTheorems, SequenceTheorems, TLAPS

\* A quotient and a remainder are all there is of a number.
LEMMA DivMod ==
    ASSUME NEW x \in Int, NEW m \in Nat \ {0}
    PROVE  x \div m \in Int /\ x % m \in 0..m - 1 /\ x = m * (x \div m) + (x % m)
BY Z3

\* The remainder is the only one.
LEMMA ModUnique ==
    ASSUME NEW m \in Nat \ {0}, NEW q \in Int, NEW r \in 0..m - 1
    PROVE  (m * q + r) % m = r
<1> DEFINE x == m * q + r
           p == x \div m
           s == x % m
<1>1. x \in Int
  BY SMT
<1>2. p \in Int /\ s \in 0..m - 1 /\ x = m * p + s
  BY <1>1, DivMod
<1>3. m * (q - p) = s - r
  BY <1>2, SMT
<1>4. q - p = 0
  <2> DEFINE d == q - p
  <2>1. d \in Int /\ m * d < m /\ m * d > -m
    BY <1>2, <1>3, SMT
  <2>2. CASE d >= 1
    <3>1. m * d >= m
      BY <2>1, <2>2, SMT
    <3> QED BY <2>1, <3>1, SMT
  <2>3. CASE d <= -1
    <3>1. m * d <= -m
      BY <2>1, <2>3, SMT
    <3> QED BY <2>1, <3>1, SMT
  <2> QED BY <2>1, <2>2, <2>3, SMT
<1> QED BY <1>2, <1>3, <1>4, SMT

\* Half of an even number, without a division.
LEMMA Half ==
    ASSUME NEW n \in Nat \ {0}, n % 2 = 0
    PROVE  n \div 2 \in Nat \ {0} /\ n = 2 * (n \div 2)
BY SMT

\* A number that a signed type can hold is not changed by it.
LEMMA WrappedSame ==
    ASSUME NEW n \in Nat \ {0}, n % 2 = 0, NEW x \in Signed(n)
    PROVE  Wrapped(x, n) = x
<1> DEFINE h == n \div 2
<1>1. h \in Nat \ {0} /\ n = 2 * h
  BY Half
<1>2. x \in Int /\ -h <= x /\ x < h
  BY <1>1 DEF Signed
<1>3. CASE x >= 0
  <2>1. x \in 0..n - 1
    BY <1>1, <1>2, <1>3, SMT
  <2>2. (n * 0 + x) % n = x
    BY <2>1, ModUnique
  <2>3. x % n = x
    BY <2>2, <1>2, SMT
  <2> QED BY <2>3, <1>2 DEF Wrapped
<1>4. CASE x < 0
  <2>1. x + n \in 0..n - 1
    BY <1>1, <1>2, <1>4, SMT
  <2>2. (n * (-1) + (x + n)) % n = x + n
    BY <2>1, ModUnique
  <2>3. n * (-1) + (x + n) = x
    BY <1>2, SMT
  <2>4. x % n = x + n
    BY <2>2, <2>3
  <2>5. ~(x + n < h)
    BY <1>1, <1>2, SMT
  <2> QED BY <2>4, <2>5, <1>2, SMT DEF Wrapped
<1> QED BY <1>2, <1>3, <1>4, SMT

\* The cast keeps the low bits.
LEMMA LowBits ==
    ASSUME NEW n \in Nat \ {0}, n % 2 = 0, NEW x \in Int
    PROVE  Wrapped(x, n) \in Signed(n) /\ Wrapped(x, n) % n = x % n
<1> DEFINE h == n \div 2
           low == x % n
<1>1. h \in Nat \ {0} /\ n = 2 * h
  BY Half
<1>2. low \in 0..n - 1
  BY DivMod
<1>3. CASE low < h
  <2>1. Wrapped(x, n) = low
    BY <1>3 DEF Wrapped
  <2>2. (n * 0 + low) % n = low
    BY <1>2, ModUnique
  <2>3. low % n = low
    BY <2>2, <1>2, SMT
  <2> QED BY <1>1, <1>2, <1>3, <2>1, <2>3, SMT DEF Signed
<1>4. CASE ~(low < h)
  <2>1. Wrapped(x, n) = low - n
    BY <1>4 DEF Wrapped
  <2>2. (n * (-1) + low) % n = low
    BY <1>2, ModUnique
  <2>3. n * (-1) + low = low - n
    BY <1>2, SMT
  <2>4. (low - n) % n = low
    BY <2>2, <2>3
  <2>5. low - n \in -h .. h - 1
    BY <1>1, <1>2, <1>4, SMT
  <2> QED BY <2>1, <2>4, <2>5 DEF Signed
<1> QED BY <1>3, <1>4

\* The range of a long is made of int-many ints, and it is even.
LEMMA LongHalf ==
    LET h == Ints \div 2
    IN  /\ h \in Nat \ {0} /\ Ints = 2 * h
        /\ Ints * Ints \in Nat \ {0} /\ (Ints * Ints) % 2 = 0
        /\ (Ints * Ints) \div 2 = Ints * h
<1> DEFINE h == Ints \div 2
           n == Ints * h
<1>1. h \in Nat \ {0} /\ Ints = 2 * h
  BY TimestampAssumption, Half
<1>2. n \in Nat \ {0} /\ Ints * Ints = 2 * n
  BY <1>1, SMT
<1>3. (2 * n) % 2 = 0 /\ (2 * n) \div 2 = n
  <2> HIDE DEF n
  <2> QED BY <1>2, SMT
<1> QED BY <1>1, <1>2, <1>3

\* The high half of a long is an int.
LEMMA HighHalf ==
    ASSUME NEW timestamp \in LongRange
    PROVE  timestamp \div Ints \in IntRange
<1> DEFINE h == Ints \div 2
           hi == timestamp \div Ints
           lo == timestamp % Ints
<1>1. h \in Nat \ {0} /\ Ints = 2 * h /\ Ints \in Nat \ {0} /\ (Ints * Ints) \div 2 = Ints * h
  BY LongHalf, TimestampAssumption
<1>2. timestamp \in Int /\ -(Ints * h) <= timestamp /\ timestamp < Ints * h
  BY <1>1, SMT DEF LongRange, Signed
<1>3. hi \in Int /\ lo \in 0..Ints - 1 /\ timestamp = Ints * hi + lo
  BY <1>1, <1>2, DivMod
<1> HIDE DEF hi, lo, h
<1>4. hi < h
  <2> SUFFICES ASSUME hi >= h PROVE FALSE
    BY <1>1, <1>3, SMT
  <2>1. Ints * hi >= Ints * h
    BY <1>1, <1>3, SMT
  <2> QED BY <1>1, <1>2, <1>3, <2>1, SMT
<1>5. hi >= -h
  <2> SUFFICES ASSUME hi + 1 <= -h PROVE FALSE
    BY <1>1, <1>3, SMT
  <2>1. Ints * (hi + 1) <= Ints * (-h)
    BY <1>1, <1>3, SMT
  <2>2. Ints * (hi + 1) = Ints * hi + Ints /\ Ints * (-h) = -(Ints * h)
    BY <1>1, <1>3, SMT
  <2> QED BY <1>1, <1>2, <1>3, <2>1, <2>2, SMT
<1>6. hi \in -h .. h - 1
  BY <1>1, <1>3, <1>4, <1>5, SMT
<1> QED BY <1>6 DEF IntRange, Signed, hi, h

\* What frameAvailable splits, handleMessage puts together: for every long, also
\* one with a negative low half, and for ints of any even number of values.
THEOREM RoundTrip ==
    ASSUME NEW timestamp \in LongRange
    PROVE  /\ Arg1(timestamp) \in IntRange
           /\ Arg2(timestamp) \in IntRange
           /\ Handled(timestamp) = timestamp
<1> DEFINE hi == timestamp \div Ints
           lo == timestamp % Ints
           n == Ints * Ints
<1>1. Ints \in Nat \ {0} /\ Ints % 2 = 0 /\ n \in Nat \ {0} /\ n % 2 = 0
  BY LongHalf, TimestampAssumption
<1>2. timestamp \in Int
  BY <1>1, SMT DEF LongRange, Signed
<1>3. hi \in Int /\ lo \in 0..Ints - 1 /\ timestamp = Ints * hi + lo
  BY <1>1, <1>2, DivMod
<1>4. Arg1(timestamp) = hi /\ hi \in IntRange
  BY <1>1, HighHalf, WrappedSame DEF Arg1, ToInt, IntRange
<1>5. Arg2(timestamp) \in IntRange /\ Arg2(timestamp) % Ints = lo
  BY <1>1, <1>2, LowBits DEF Arg2, ToInt, IntRange
<1>6. hi * Ints + lo = timestamp
  <2> HIDE DEF hi, lo
  <2> QED BY <1>1, <1>3, SMT
<1>7. Handled(timestamp) = Wrapped(timestamp, n)
  BY <1>4, <1>5, <1>6 DEF Handled, Joined, ToLong
<1>8. Wrapped(timestamp, n) = timestamp
  BY <1>1, WrappedSame DEF LongRange
<1> QED BY <1>4, <1>5, <1>7, <1>8
-----------------------------------------------------------------------------
(* What the codec has put out.                                              *)

Buffers == {o \in Output : o.what \in {"CONFIG", "DATA"}}
DataFrames == {o \in Output : o.what = "DATA" /\ o.frame # 0}

\* How many of the first n elements of q are in W.
Places(q, W, n) == {k \in 1..n : q[k] \in W}
Count(q, W, n) == Cardinality(Places(q, W, n))

\* The frames in the input surface: the end of the stream is not one.
InputFrames == IF input # <<>> /\ input[Len(input)] = 0 THEN Len(input) - 1 ELSE Len(input)

\* Every output buffer is with the codec or on its way out.
FreeInv == free + Count(output, Buffers, Len(output)) = OutputBuffers

\* The thread has the codec's buffers, or is told of new ones before it gets any.
BuffersInv ==
    buffers # generation =>
        \E k \in 1..Len(output) : /\ output[k].what = "BUFFERS"
                                  /\ \A l \in 1..k - 1 : output[l] \notin Buffers

\* The format comes once, and before the frames.
IsFormat(k) == k \in 1..Len(output) /\ output[k].what = "FORMAT"
FormatInv ==
    /\ announced = "nothing" =>
           /\ ~mMuxerStarted
           /\ \A k \in 1..Len(output) : ~IsFormat(k) /\ output[k] \notin DataFrames
    /\ announced # "nothing" /\ ~mMuxerStarted => \E k \in 1..Len(output) : IsFormat(k)
    /\ mMuxerStarted => \A k \in 1..Len(output) : ~IsFormat(k)
    /\ \A k, l \in 1..Len(output) : IsFormat(k) /\ IsFormat(l) => k = l
    /\ ~mMuxerStarted =>
           \A k \in 1..Len(output) : output[k] \in DataFrames => \E l \in 1..k - 1 : IsFormat(l)

\* The end of the stream is signalled once, and it is behind all frames.
EosInv ==
    /\ endOfStream => at \in {"drain", "release", "released"} /\ frames = <<>>
    /\ at \in {"release", "released"} => endOfStream
    /\ \A k \in 1..Len(input) : input[k] = 0 => k = Len(input) /\ endOfStream
    /\ \A k \in 1..Len(output) : output[k].eos =>
           /\ endOfStream /\ input = <<>>
           /\ \A l \in k + 1..Len(output) : output[l] \notin DataFrames
    /\ at \in {"release", "released"} =>
           /\ input = <<>>
           /\ \A k \in 1..Len(output) : output[k] \notin DataFrames

\* A frame submitted is in the file, on its way out of the codec or still to encode,
\* and in this order.
FramesInv ==
    LET out == Count(output, DataFrames, Len(output))
    IN  /\ Len(submitted) = Len(written) + out + InputFrames
        /\ \A k \in 1..Len(written) : written[k] = submitted[k]
        /\ \A k \in 1..Len(output) : output[k] \in DataFrames =>
               output[k].frame = submitted[Len(written) + Count(output, DataFrames, k)]
        /\ \A k \in 1..InputFrames : input[k] = submitted[Len(written) + out + k]

\* The images: what is posted is not newer than the texture, nor older than what is
\* swapped, and a frame shows a newer one only if it was overtaken.
Follows(image, time) == image = time \/ (overtaken /\ image > time)
ImagesInv ==
    /\ latched <= Len(submitted) + Len(frames)
    /\ Len(shown) = Len(submitted)
    /\ at \in {"draw", "swap"} \/ (at = "drain" /\ ~endOfStream) => frames # <<>>
    /\ \A k \in 1..Len(frames) : frames[k] # 0 /\ Follows(latched, frames[k])
    /\ \A k \in 1..Len(submitted) :
           /\ submitted[k] # 0 /\ submitted[k] <= latched /\ shown[k] <= latched
           /\ \A l \in 1..Len(frames) : submitted[k] <= frames[l]
           /\ Follows(shown[k], submitted[k])
           /\ at = "swap" => shown[k] <= drawn
    /\ \A k, l \in 1..Len(frames) : k < l => frames[k] <= frames[l]
    /\ \A k \in 1..Len(submitted) - 1 :
           submitted[k] <= submitted[k + 1] /\ shown[k] <= shown[k + 1]
    /\ at = "swap" => drawn <= latched /\ Follows(drawn, frames[1])

Inv ==
    /\ TypeOK
    /\ FreeInv /\ BuffersInv /\ FormatInv
    /\ EosInv /\ FramesInv /\ ImagesInv
    /\ exception \in {"none", "NoData"}
    /\ at = "released" => written # <<>>
    /\ exception = "NoData" => written = <<>> /\ at = "release"
-----------------------------------------------------------------------------
(* Counting.                                                                *)

LEMMA CountIsNat ==
    ASSUME NEW q, NEW W, NEW n \in Nat
    PROVE  IsFiniteSet(Places(q, W, n)) /\ Count(q, W, n) \in Nat /\ Count(q, W, n) <= n
<1>1. IsFiniteSet(1..n) /\ Cardinality(1..n) = n
  BY FS_Interval, SMT
<1>2. Places(q, W, n) \in SUBSET (1..n)
  BY DEF Places
<1> QED BY <1>1, <1>2, FS_Subset, FS_CardinalityType DEF Count

LEMMA CountNone ==
    ASSUME NEW q, NEW W, NEW n \in Nat
    PROVE  Count(q, W, n) = 0 <=> \A k \in 1..n : q[k] \notin W
<1>1. Count(q, W, n) = 0 <=> Places(q, W, n) = {}
  BY CountIsNat, FS_EmptySet DEF Count
<1> QED BY <1>1 DEF Places

LEMMA CountMonotone ==
    ASSUME NEW q, NEW W, NEW n \in Nat, NEW k \in 0..n
    PROVE  Count(q, W, k) \in Nat /\ Count(q, W, n) \in Nat /\ Count(q, W, k) <= Count(q, W, n)
<1>1. Places(q, W, k) \in SUBSET Places(q, W, n)
  BY SMT DEF Places
<1>2. IsFiniteSet(Places(q, W, n)) /\ Count(q, W, n) \in Nat
  BY CountIsNat
<1>3. Count(q, W, k) \in Nat
  BY CountIsNat, k \in Nat
<1> QED BY <1>1, <1>2, <1>3, FS_Subset DEF Count

LEMMA CountNext ==
    ASSUME NEW q, NEW W, NEW n \in Nat
    PROVE  Count(q, W, n + 1) = IF q[n + 1] \in W THEN Count(q, W, n) + 1 ELSE Count(q, W, n)
<1>1. IsFiniteSet(Places(q, W, n)) /\ n + 1 \notin Places(q, W, n)
  <2>1. n + 1 \notin 1..n
    BY SMT
  <2> QED BY <2>1, CountIsNat DEF Places
<1>2. 1..n + 1 = (1..n) \cup {n + 1}
  BY SMT
<1>3. CASE q[n + 1] \in W
  <2>1. Places(q, W, n + 1) = Places(q, W, n) \cup {n + 1}
    BY <1>2, <1>3 DEF Places
  <2> QED BY <1>1, <1>3, <2>1, FS_AddElement DEF Count
<1>4. CASE q[n + 1] \notin W
  <2>1. Places(q, W, n + 1) = Places(q, W, n)
    BY <1>2, <1>4 DEF Places
  <2> QED BY <1>4, <2>1 DEF Count
<1> QED BY <1>3, <1>4

LEMMA CountAppend ==
    ASSUME NEW S, NEW q \in Seq(S), NEW m \in S, NEW W
    PROVE  /\ \A n \in 0..Len(q) : Count(Append(q, m), W, n) = Count(q, W, n)
           /\ Count(Append(q, m), W, Len(q) + 1) =
                  IF m \in W THEN Count(q, W, Len(q)) + 1 ELSE Count(q, W, Len(q))
<1> DEFINE a == Append(q, m)
<1>1. Len(q) \in Nat /\ a[Len(q) + 1] = m /\ \A k \in 1..Len(q) : a[k] = q[k]
  BY AppendProperties, LenProperties
<1> HIDE DEF a
<1>2. \A n \in 0..Len(q) : Places(a, W, n) = Places(q, W, n)
  BY <1>1, SMT DEF Places
<1>3. \A n \in 0..Len(q) : Count(a, W, n) = Count(q, W, n)
  BY <1>2 DEF Count
<1>4. Count(a, W, Len(q)) = Count(q, W, Len(q))
  BY <1>1, <1>3
<1>5. Count(a, W, Len(q) + 1) =
          IF a[Len(q) + 1] \in W THEN Count(a, W, Len(q)) + 1 ELSE Count(a, W, Len(q))
  BY <1>1, CountNext
<1>6. Count(a, W, Len(q) + 1) =
          IF m \in W THEN Count(q, W, Len(q)) + 1 ELSE Count(q, W, Len(q))
  BY <1>1, <1>4, <1>5
<1> QED BY <1>3, <1>6 DEF a

LEMMA CountTail ==
    ASSUME NEW S, NEW q \in Seq(S), q # <<>>, NEW W, NEW n \in 0..Len(q) - 1
    PROVE  /\ Count(q, W, n + 1) \in Nat /\ Count(Tail(q), W, n) \in Nat
           /\ Count(q, W, n + 1) =
                  IF Head(q) \in W THEN Count(Tail(q), W, n) + 1 ELSE Count(Tail(q), W, n)
<1> DEFINE P == Places(q, W, n + 1) \ {1}
           T == Places(Tail(q), W, n)
           f == [k \in P |-> k - 1]
<1>1. /\ Len(q) \in Nat /\ n \in Nat /\ n <= Len(q) - 1 /\ Len(Tail(q)) = Len(q) - 1
      /\ \A k \in 1..Len(q) - 1 : Tail(q)[k] = q[k + 1]
      /\ Head(q) = q[1]
  BY HeadTailProperties, LenProperties
<1>2. IsFiniteSet(Places(q, W, n + 1)) /\ IsFiniteSet(T)
  BY <1>1, CountIsNat
<1>3. P = {k \in 2..n + 1 : q[k] \in W} /\ T = {k \in 1..n : q[k + 1] \in W}
  <2>1. \A k \in 1..n : Tail(q)[k] = q[k + 1]
    BY <1>1, SMT
  <2>2. \A k : k \in 2..n + 1 <=> k \in 1..n + 1 /\ k # 1
    BY <1>1, SMT
  <2> QED BY <2>1, <2>2 DEF Places
<1>4. f \in Bijection(P, T)
  <2>1. \A k \in P : k - 1 \in T
    BY <1>1, <1>3, SMT
  <2>2. \A k, l \in P : k - 1 = l - 1 => k = l
    BY <1>3, SMT
  <2>3. \A t \in T : t + 1 \in P /\ (t + 1) - 1 = t
    BY <1>1, <1>3, SMT
  <2> HIDE DEF P, T
  <2>4. f \in [P -> T]
    BY <2>1
  <2>5. \A k, l \in P : f[k] = f[l] => k = l
    BY <2>2
  <2>6. \A t \in T : \E k \in P : f[k] = t
    BY <2>3
  <2> HIDE DEF f
  <2> QED BY <2>4, <2>5, <2>6, Fun_IsBij
<1>5. IsFiniteSet(P) /\ Cardinality(P) = Cardinality(T)
  <2>1. ExistsBijection(P, T)
    BY <1>4 DEF ExistsBijection
  <2>2. IsFiniteSet(P)
    BY <1>2, FS_RemoveElement
  <2> QED BY <2>1, <2>2, FS_Bijection
<1>6. 1 \in Places(q, W, n + 1) <=> Head(q) \in W
  BY <1>1, SMT DEF Places
<1>7. Cardinality(P) = IF Head(q) \in W THEN Count(q, W, n + 1) - 1 ELSE Count(q, W, n + 1)
  BY <1>2, <1>6, FS_RemoveElement DEF Count
<1>8. Count(q, W, n + 1) \in Nat /\ Count(Tail(q), W, n) \in Nat
  BY <1>1, CountIsNat
<1>9. Count(Tail(q), W, n) = Cardinality(P)
  BY <1>5 DEF Count
<1> QED BY <1>7, <1>8, <1>9, SMT
-----------------------------------------------------------------------------
(* The steps of the drain and of the codec, by what they do to the output.  *)

LEMMA CoreConstants ==
    /\ InputSlots \in Nat \ {0} /\ OutputBuffers \in Nat \ {0}
    /\ MaxFrames \in Nat /\ MaxChanges \in Nat
BY CodecAssumption

\* A time loses nothing on its way to the encoder thread.
LEMMA TimeHandled ==
    ASSUME NEW time \in Time0
    PROVE  Handled(time) = time
<1> DEFINE long == Ints * Ints
           h == long \div 2
<1>1. h \in Nat \ {0} /\ long = 2 * h
  BY LongHalf, Half
<1> HIDE DEF long
<1>2. LongRange = -h .. h - 1
  BY DEF LongRange, Signed, long
<1> HIDE DEF h
<1>3. MaxFrames \in Nat /\ MaxFrames <= h - 1 /\ time \in Nat /\ time <= MaxFrames
  BY <1>1, <1>2, CodecAssumption, SMT DEF Time0
<1>4. time \in LongRange
  BY <1>1, <1>2, <1>3, SMT
<1> QED BY <1>4, RoundTrip

LEMMA OutputHead ==
    ASSUME TypeOK, output # <<>>
    PROVE  /\ Len(output) \in Nat \ {0} /\ Head(output) = output[1] /\ output[1] \in Output
           /\ Tail(output) \in Seq(Output) /\ Len(Tail(output)) = Len(output) - 1
           /\ \A k \in 1..Len(output) - 1 : Tail(output)[k] = output[k + 1]
<1>1. output \in Seq(Output)
  BY DEF TypeOK
<1>2. Tail(output) \in Seq(Output) /\ Head(output) \in Output /\ Len(Tail(output)) = Len(output) - 1
      /\ \A k \in 1..Len(Tail(output)) : Tail(output)[k] = output[k + 1]
  BY <1>1, HeadTailProperties
<1>3. Len(output) \in Nat \ {0} /\ Head(output) = output[1]
  BY <1>1, EmptySeq
<1> QED BY <1>2, <1>3

LEMMA OutputPut ==
    ASSUME TypeOK, NEW o \in Output
    PROVE  /\ Len(output) \in Nat /\ Append(output, o) \in Seq(Output)
           /\ Len(Append(output, o)) = Len(output) + 1
           /\ \A k \in 1..Len(output) : Append(output, o)[k] = output[k]
           /\ Append(output, o)[Len(output) + 1] = o
BY AppendProperties, LenProperties DEF TypeOK

\* The buffers at hand are the codec's own whenever it returns one.
LEMMA BuffersAtHand ==
    ASSUME TypeOK, BuffersInv, output # <<>>, Head(output) \in Buffers
    PROVE  buffers = generation
<1>1. Len(output) \in Nat /\ output[1] \in Buffers
  BY OutputHead
<1>2. SUFFICES ASSUME buffers # generation PROVE FALSE
  OBVIOUS
<1>3. PICK k \in 1..Len(output) : /\ output[k].what = "BUFFERS"
                                  /\ \A l \in 1..k - 1 : output[l] \notin Buffers
  BY <1>2 DEF BuffersInv
<1>4. k # 1
  BY <1>1, <1>3 DEF Buffers
<1>5. 1 \in 1..k - 1
  BY <1>1, <1>4, SMT
<1> QED BY <1>1, <1>3, <1>5

\* The format is told once, and before the first frame comes.
LEMMA FormatAtHand ==
    ASSUME TypeOK, FormatInv, output # <<>>
    PROVE  /\ Head(output).what = "FORMAT" => ~mMuxerStarted
           /\ Head(output) \in DataFrames => mMuxerStarted
<1>1. Len(output) \in Nat \ {0} /\ Head(output) = output[1] /\ 1 \in 1..Len(output)
  BY OutputHead, SMT
<1>2. Head(output).what = "FORMAT" => ~mMuxerStarted
  BY <1>1 DEF FormatInv, IsFormat
<1>3. 1..1 - 1 = {}
  BY SMT
<1>4. Head(output) \in DataFrames => mMuxerStarted
  BY <1>1, <1>3 DEF FormatInv
<1> QED BY <1>2, <1>4

\* What drainEncoder does with a buffer, and with the format, when nothing is thrown.
TakesBuffer ==
    /\ Alive /\ at = "drain" /\ output # <<>> /\ Head(output) \in Buffers
    /\ written' = IF Head(output) \in DataFrames
                  THEN Append(written, Head(output).frame) ELSE written
    /\ ReleaseOutputBuffer

TakesFormat ==
    /\ Dequeues("FORMAT")
    /\ ~mMuxerStarted /\ mMuxerStarted' = TRUE
    /\ output' = Tail(output)
    /\ UNCHANGED <<at, endOfStream, buffers, written, exception, frameVars,
                   input, free, announced, generation>>

LEMMA NothingThrown ==
    ASSUME TypeOK, BuffersInv, FormatInv
    PROVE  /\ DrainFormat => TakesFormat
           /\ DrainConfig \/ DrainData => TakesBuffer
<1>1. DrainFormat => TakesFormat
  BY FormatAtHand DEF DrainFormat, TakesFormat, Dequeues
<1>2. ASSUME DrainConfig \/ DrainData
      PROVE  output # <<>> /\ Head(output) \in Buffers /\ Head(output) \in Output
  BY <1>2, OutputHead DEF DrainConfig, DrainData, Dequeues, Buffers
<1>3. ASSUME DrainConfig PROVE TakesBuffer
  <2>1. Head(output) \notin DataFrames /\ buffers = generation
    BY <1>2, <1>3, BuffersAtHand DEF DrainConfig, Dequeues, DataFrames
  <2> QED BY <1>2, <1>3, <2>1 DEF DrainConfig, Dequeues, TakesBuffer
<1>4. ASSUME DrainData PROVE TakesBuffer
  <2>1. Head(output) \in DataFrames <=> Head(output).frame # 0
    BY <1>2, <1>4 DEF DrainData, Dequeues, DataFrames
  <2>2. buffers = generation /\ (Head(output) \in DataFrames => mMuxerStarted)
    BY <1>2, <1>4, BuffersAtHand, FormatAtHand
  <2> QED BY <1>2, <1>4, <2>1, <2>2 DEF DrainData, Dequeues, TakesBuffer
<1> QED BY <1>1, <1>3, <1>4

\* What the codec puts out: the buffer with the next frame or the end of the stream,
\* and whether it takes the end along.
Encoded == Data(Head(input), Head(input) = 0)
EncodesOne ==
    /\ output' = Append(output, Encoded)
    /\ input' = Tail(input)
EncodesLast ==
    /\ Len(input) = 2 /\ input[2] = 0
    /\ output' = Append(output, Data(Head(input), TRUE))
    /\ input' = <<>>
EncodesFrom ==
    /\ Alive /\ at # "released" /\ input # <<>> /\ free > 0
    /\ announced = "config" \/ (Head(input) = 0 /\ announced = "nothing")
    /\ free' = free - 1
    /\ UNCHANGED <<threadVars, frameVars, announced, generation>>

LEMMA Encodes ==
    CodecEncode <=> EncodesFrom /\ (EncodesOne \/ EncodesLast)
BY DEF CodecEncode, EncodesFrom, EncodesOne, EncodesLast, Encoded

\* What the codec puts out is output, and its kinds are told apart.
LEMMA Kinds ==
    /\ \A what \in {"BUFFERS", "FORMAT", "CONFIG"} :
           /\ Status(what) \in Output /\ Status(what) \notin DataFrames
           /\ Status(what).what = what /\ Status(what).eos = FALSE
    /\ Status("CONFIG") \in Buffers
    /\ Status("BUFFERS") \notin Buffers /\ Status("FORMAT") \notin Buffers
    /\ \A frame \in Time0, eos \in BOOLEAN :
           /\ Data(frame, eos) \in Output /\ Data(frame, eos) \in Buffers
           /\ Data(frame, eos) \in DataFrames <=> frame # 0
           /\ Data(frame, eos).what = "DATA" /\ Data(frame, eos).frame = frame
           /\ Data(frame, eos).eos = eos
<1>1. 0 \in Time0
  BY CoreConstants, SMT DEF Time0
<1>2. \A what \in {"BUFFERS", "FORMAT", "CONFIG"} : Status(what) \in Output
  BY <1>1 DEF Status, Output
<1>3. \A frame \in Time0, eos \in BOOLEAN : Data(frame, eos) \in Output
  BY DEF Data, Output
<1>4. \A what : /\ Status(what).what = what /\ Status(what).eos = FALSE
                /\ Status(what).frame = 0
  BY DEF Status
<1>5. \A frame, eos : /\ Data(frame, eos).what = "DATA" /\ Data(frame, eos).frame = frame
                      /\ Data(frame, eos).eos = eos
  BY DEF Data
<1> HIDE DEF Status, Data, Output
<1> QED BY <1>2, <1>3, <1>4, <1>5 DEF Buffers, DataFrames

LEMMA InputHead ==
    ASSUME TypeOK, input # <<>>
    PROVE  /\ Len(input) \in Nat \ {0} /\ Head(input) = input[1] /\ input[1] \in Time0
           /\ Tail(input) \in Seq(Time0) /\ Len(Tail(input)) = Len(input) - 1
           /\ \A k \in 1..Len(input) - 1 : Tail(input)[k] = input[k + 1]
<1>1. input \in Seq(Time0)
  BY DEF TypeOK
<1>2. Tail(input) \in Seq(Time0) /\ Head(input) \in Time0 /\ Len(Tail(input)) = Len(input) - 1
      /\ \A k \in 1..Len(Tail(input)) : Tail(input)[k] = input[k + 1]
  BY <1>1, HeadTailProperties
<1>3. Len(input) \in Nat \ {0} /\ Head(input) = input[1]
  BY <1>1, EmptySeq
<1> QED BY <1>2, <1>3
-----------------------------------------------------------------------------
(* Every output buffer is somewhere.                                        *)

LEMMA FreePut ==
    ASSUME TypeOK, FreeInv, NEW o \in Output, output' = Append(output, o),
           free' = IF o \in Buffers THEN free - 1 ELSE free
    PROVE  FreeInv'
<1>1. /\ Count(output', Buffers, Len(output) + 1) =
             IF o \in Buffers THEN Count(output, Buffers, Len(output)) + 1
             ELSE Count(output, Buffers, Len(output))
      /\ Len(output') = Len(output) + 1 /\ Len(output) \in Nat
  BY CountAppend, OutputPut DEF TypeOK
<1>2. Count(output, Buffers, Len(output)) \in Nat /\ free \in Nat /\ OutputBuffers \in Nat
  BY <1>1, CountIsNat, CoreConstants, SMT DEF TypeOK
<1> QED BY <1>1, <1>2, SMT DEF FreeInv

LEMMA FreeTake ==
    ASSUME TypeOK, FreeInv, output # <<>>, output' = Tail(output),
           free' = IF Head(output) \in Buffers THEN free + 1 ELSE free
    PROVE  FreeInv'
<1>1. Len(output) \in Nat \ {0} /\ Len(output') = Len(output) - 1
  BY OutputHead
<1>2. Len(output) - 1 \in 0..Len(output) - 1 /\ (Len(output) - 1) + 1 = Len(output)
  BY <1>1, SMT
<1>3. /\ Count(output, Buffers, Len(output)) \in Nat
      /\ Count(output', Buffers, Len(output')) \in Nat
      /\ Count(output, Buffers, Len(output)) =
             IF Head(output) \in Buffers THEN Count(output', Buffers, Len(output')) + 1
             ELSE Count(output', Buffers, Len(output'))
  BY <1>1, <1>2, CountTail DEF TypeOK
<1>4. free \in Nat /\ OutputBuffers \in Nat
  BY CoreConstants, SMT DEF TypeOK
<1> QED BY <1>3, <1>4, SMT DEF FreeInv

LEMMA FreeStep ==
    ASSUME TypeOK, FreeInv, BuffersInv, FormatInv, Next
    PROVE  FreeInv'
<1>1. ASSUME UNCHANGED <<output, free>> PROVE FreeInv'
  BY <1>1 DEF FreeInv
<1>2. CASE BeginFrame \/ BeginStop \/ DrainTryAgain \/ Draw \/ SwapBuffers \/ Release
           \/ PostFrame \/ Ended
  BY <1>1, <1>2 DEF BeginFrame, BeginStop, DrainTryAgain, Draw, SwapBuffers, Release,
     PostFrame, Ended, Throw, codecVars, coreVars
<1>3. CASE DrainBuffers
  <2>1. output # <<>> /\ output' = Tail(output) /\ free' = free /\ Head(output) \notin Buffers
    BY <1>3 DEF DrainBuffers, Dequeues, Buffers
  <2> QED BY <2>1, FreeTake
<1>4. CASE TakesFormat
  <2>1. output # <<>> /\ output' = Tail(output) /\ free' = free /\ Head(output) \notin Buffers
    BY <1>4 DEF TakesFormat, Dequeues, Buffers
  <2> QED BY <2>1, FreeTake
<1>5. CASE TakesBuffer
  BY <1>5, FreeTake DEF TakesBuffer, ReleaseOutputBuffer
<1>6. CASE CodecFormat
  BY <1>6, FreePut, Kinds DEF CodecFormat
<1>7. CASE CodecConfig
  BY <1>7, FreePut, Kinds DEF CodecConfig
<1>8. CASE CodecEncode
  <2>1. PICK eos \in BOOLEAN : output' = Append(output, Data(Head(input), eos))
    BY <1>8 DEF CodecEncode
  <2>2. Head(input) \in Time0 /\ free' = free - 1
    BY <1>8, InputHead DEF CodecEncode
  <2> QED BY <2>1, <2>2, FreePut, Kinds
<1>9. CASE CodecChangeBuffers
  BY <1>9, FreePut, Kinds DEF CodecChangeBuffers
<1> QED BY <1>2, <1>3, <1>4, <1>5, <1>6, <1>7, <1>8, <1>9, NothingThrown
        DEF Next, EncoderThread, DrainEncoder, Codec

\* So a codec that holds all buffers has none on its way out.
LEMMA NoneOut ==
    ASSUME TypeOK, FreeInv, free = OutputBuffers
    PROVE  \A k \in 1..Len(output) : output[k] \notin Buffers
<1>1. Len(output) \in Nat /\ OutputBuffers \in Nat
  BY LenProperties, CoreConstants DEF TypeOK
<1>2. Count(output, Buffers, Len(output)) \in Nat
  BY <1>1, CountIsNat
<1>3. Count(output, Buffers, Len(output)) = 0
  BY <1>1, <1>2, SMT DEF FreeInv
<1> QED BY <1>1, <1>3, CountNone
-----------------------------------------------------------------------------
(* The buffers at hand.                                                     *)

\* What the codec puts out later does not matter to a drain that will be told.
LEMMA BuffersPut ==
    ASSUME TypeOK, BuffersInv, NEW o \in Output, output' = Append(output, o),
           UNCHANGED <<buffers, generation>>
    PROVE  BuffersInv'
<1>1. Len(output) \in Nat /\ Len(output') = Len(output) + 1
      /\ \A k \in 1..Len(output) : output'[k] = output[k]
  BY OutputPut
<1>2. SUFFICES ASSUME buffers # generation
               PROVE  \E k \in 1..Len(output') :
                          /\ output'[k].what = "BUFFERS"
                          /\ \A l \in 1..k - 1 : output'[l] \notin Buffers
  BY DEF BuffersInv
<1>3. PICK k \in 1..Len(output) : /\ output[k].what = "BUFFERS"
                                  /\ \A l \in 1..k - 1 : output[l] \notin Buffers
  BY <1>2 DEF BuffersInv
<1>4. k \in 1..Len(output') /\ \A l \in 1..k - 1 : l \in 1..Len(output)
  BY <1>1, SMT
<1> QED BY <1>1, <1>3, <1>4

\* One status less in front of it does not either.
LEMMA BuffersTake ==
    ASSUME TypeOK, BuffersInv, output # <<>>, Head(output).what # "BUFFERS",
           output' = Tail(output), UNCHANGED <<buffers, generation>>
    PROVE  BuffersInv'
<1>1. Len(output) \in Nat /\ Len(output') = Len(output) - 1 /\ Head(output) = output[1]
      /\ \A k \in 1..Len(output) - 1 : output'[k] = output[k + 1]
  BY OutputHead
<1>2. SUFFICES ASSUME buffers # generation
               PROVE  \E k \in 1..Len(output') :
                          /\ output'[k].what = "BUFFERS"
                          /\ \A l \in 1..k - 1 : output'[l] \notin Buffers
  BY DEF BuffersInv
<1>3. PICK k \in 1..Len(output) : /\ output[k].what = "BUFFERS"
                                  /\ \A l \in 1..k - 1 : output[l] \notin Buffers
  BY <1>2 DEF BuffersInv
<1>4. k # 1
  BY <1>1, <1>3
<1>5. k - 1 \in 1..Len(output') /\ k - 1 \in 1..Len(output) - 1 /\ (k - 1) + 1 = k
  BY <1>1, <1>4, SMT
<1>6. output'[k - 1].what = "BUFFERS"
  BY <1>1, <1>3, <1>5
<1>7. \A l \in 1..(k - 1) - 1 : l \in 1..Len(output) - 1 /\ l + 1 \in 1..k - 1
  BY <1>1, <1>5, SMT
<1>8. \A l \in 1..(k - 1) - 1 : output'[l] \notin Buffers
  BY <1>1, <1>3, <1>7
<1> QED BY <1>5, <1>6, <1>8

LEMMA BuffersStep ==
    ASSUME TypeOK, FreeInv, BuffersInv, FormatInv, Next
    PROVE  BuffersInv'
<1>1. ASSUME UNCHANGED <<output, generation, buffers>> PROVE BuffersInv'
  BY <1>1 DEF BuffersInv
<1>2. CASE DrainTryAgain \/ Draw \/ SwapBuffers \/ Release \/ PostFrame \/ Ended
  BY <1>1, <1>2 DEF DrainTryAgain, Draw, SwapBuffers, Release,
     PostFrame, Ended, Throw, codecVars, coreVars, threadVars
<1>3. CASE BeginFrame \/ BeginStop \/ DrainBuffers
  BY <1>3 DEF BeginFrame, BeginStop, DrainBuffers, BuffersInv, codecVars
<1>4. CASE TakesFormat
  BY <1>4, BuffersTake DEF TakesFormat, Dequeues
<1>5. CASE TakesBuffer
  <2>1. Head(output).what # "BUFFERS"
    BY <1>5 DEF TakesBuffer, Buffers
  <2> QED BY <1>5, <2>1, BuffersTake DEF TakesBuffer, ReleaseOutputBuffer
<1>6. CASE CodecFormat
  BY <1>6, BuffersPut, Kinds DEF CodecFormat, threadVars
<1>7. CASE CodecConfig
  BY <1>7, BuffersPut, Kinds DEF CodecConfig, threadVars
<1>8. CASE CodecEncode
  <2>1. PICK eos \in BOOLEAN : output' = Append(output, Data(Head(input), eos))
    BY <1>8 DEF CodecEncode
  <2>2. Head(input) \in Time0 /\ UNCHANGED <<buffers, generation>>
    BY <1>8, InputHead DEF CodecEncode, threadVars
  <2> QED BY <2>1, <2>2, BuffersPut, Kinds
<1>9. CASE CodecChangeBuffers
  <2>1. /\ Len(output) \in Nat /\ Len(output') = Len(output) + 1
        /\ \A k \in 1..Len(output) : output'[k] = output[k]
        /\ output'[Len(output) + 1] = Status("BUFFERS")
    BY <1>9, OutputPut, Kinds DEF CodecChangeBuffers
  <2>2. \A k \in 1..Len(output) : output[k] \notin Buffers
    BY <1>9, NoneOut DEF CodecChangeBuffers
  <2> DEFINE last == Len(output) + 1
  <2>3. last \in 1..Len(output') /\ last - 1 = Len(output)
    BY <2>1, SMT
  <2>4. output'[last].what = "BUFFERS" /\ \A l \in 1..last - 1 : output'[l] \notin Buffers
    BY <2>1, <2>2, <2>3, Kinds
  <2> QED BY <2>3, <2>4 DEF BuffersInv
<1> QED BY <1>2, <1>3, <1>4, <1>5, <1>6, <1>7, <1>8, <1>9, NothingThrown
        DEF Next, EncoderThread, DrainEncoder, Codec
-----------------------------------------------------------------------------
(* The format.                                                              *)

LEMMA FormatPut ==
    ASSUME TypeOK, FormatInv, NEW o \in Output, output' = Append(output, o),
           o.what # "FORMAT", o \in DataFrames => announced # "nothing",
           mMuxerStarted' = mMuxerStarted,
           announced' = "nothing" <=> announced = "nothing"
    PROVE  FormatInv'
<1> DEFINE last == Len(output) + 1
<1>1. /\ Len(output) \in Nat /\ Len(output') = last
      /\ \A k \in 1..Len(output) : output'[k] = output[k]
      /\ output'[last] = o
  BY OutputPut
<1>2. \A k : k \in 1..Len(output') <=> k \in 1..Len(output) \/ k = last
  BY <1>1, SMT
<1>3. last \notin 1..Len(output) /\ last \in 1..last
  BY <1>1, SMT
<1> HIDE DEF last
<1>4. \A k : IsFormat(k)' <=> IsFormat(k)
  BY <1>1, <1>2, <1>3 DEF IsFormat
<1>5. announced' = "nothing" =>
          /\ ~mMuxerStarted'
          /\ \A k \in 1..Len(output') : ~IsFormat(k)' /\ output'[k] \notin DataFrames
  BY <1>1, <1>2, <1>4 DEF FormatInv, IsFormat
<1>6. announced' # "nothing" /\ ~mMuxerStarted' => \E k \in 1..Len(output') : IsFormat(k)'
  BY <1>2, <1>4 DEF FormatInv
<1>7. mMuxerStarted' => \A k \in 1..Len(output') : ~IsFormat(k)'
  BY <1>4 DEF FormatInv, IsFormat
<1>8. \A k, l \in 1..Len(output') : IsFormat(k)' /\ IsFormat(l)' => k = l
  BY <1>4 DEF FormatInv, IsFormat
<1>9. ASSUME ~mMuxerStarted', NEW k \in 1..Len(output'), output'[k] \in DataFrames
      PROVE  \E l \in 1..k - 1 : IsFormat(l)'
  <2>1. CASE k \in 1..Len(output)
    BY <1>1, <1>4, <1>9, <2>1 DEF FormatInv
  <2>2. CASE k = last
    <3>1. PICK l \in 1..Len(output) : IsFormat(l)
      BY <1>1, <1>9, <2>2 DEF FormatInv
    <3>2. l \in 1..k - 1
      BY <1>1, <2>2, <3>1, SMT DEF last
    <3> QED BY <1>4, <3>1, <3>2
  <2> QED BY <1>2, <2>1, <2>2
<1> QED BY <1>5, <1>6, <1>7, <1>8, <1>9 DEF FormatInv

LEMMA FormatTake ==
    ASSUME TypeOK, FormatInv, output # <<>>, Head(output).what # "FORMAT",
           output' = Tail(output), UNCHANGED <<mMuxerStarted, announced>>
    PROVE  FormatInv'
<1>1. Len(output) \in Nat \ {0} /\ Len(output') = Len(output) - 1 /\ Head(output) = output[1]
      /\ \A k \in 1..Len(output) - 1 : output'[k] = output[k + 1]
  BY OutputHead
<1>2. \A k \in 1..Len(output') : k + 1 \in 1..Len(output) /\ output'[k] = output[k + 1]
                                 /\ k \in Nat
  BY <1>1, SMT
<1>3. \A k \in 1..Len(output) : k = 1 \/ (k - 1 \in 1..Len(output') /\ (k - 1) + 1 = k)
  BY <1>1, SMT
<1>4. ~IsFormat(1)
  BY <1>1 DEF IsFormat
<1>5. \A k \in 1..Len(output') : IsFormat(k)' <=> IsFormat(k + 1)
  BY <1>2 DEF IsFormat
<1>6. announced' = "nothing" =>
          /\ ~mMuxerStarted'
          /\ \A k \in 1..Len(output') : ~IsFormat(k)' /\ output'[k] \notin DataFrames
  BY <1>2, <1>5 DEF FormatInv
<1>7. ASSUME announced' # "nothing", ~mMuxerStarted'
      PROVE  \E k \in 1..Len(output') : IsFormat(k)'
  <2>1. PICK k \in 1..Len(output) : IsFormat(k)
    BY <1>7 DEF FormatInv
  <2>2. k - 1 \in 1..Len(output') /\ IsFormat((k - 1) + 1)
    BY <1>3, <1>4, <2>1
  <2> QED BY <1>5, <2>2
<1>8. mMuxerStarted' => \A k \in 1..Len(output') : ~IsFormat(k)'
  BY <1>2, <1>5 DEF FormatInv
<1>9. \A k, l \in 1..Len(output') : IsFormat(k)' /\ IsFormat(l)' => k = l
  <2> TAKE k, l \in 1..Len(output')
  <2> HAVE IsFormat(k)' /\ IsFormat(l)'
  <2>1. IsFormat(k + 1) /\ IsFormat(l + 1)
    BY <1>5
  <2>2. k + 1 = l + 1
    BY <1>2, <2>1 DEF FormatInv
  <2> QED BY <2>2, <1>2, SMT
<1>10. ASSUME ~mMuxerStarted', NEW k \in 1..Len(output'), output'[k] \in DataFrames
       PROVE  \E l \in 1..k - 1 : IsFormat(l)'
  <2>1. k \in Nat /\ k + 1 \in 1..Len(output) /\ output[k + 1] \in DataFrames
    BY <1>2, <1>10
  <2>2. PICK l \in 1..(k + 1) - 1 : IsFormat(l)
    BY <1>10, <2>1 DEF FormatInv
  <2>3. l # 1 /\ l \in 1..Len(output)
    BY <1>4, <2>2 DEF IsFormat
  <2>4. l - 1 \in 1..k - 1
    BY <2>1, <2>2, <2>3, SMT
  <2> QED BY <1>3, <1>5, <2>2, <2>3, <2>4
<1> QED BY <1>6, <1>7, <1>8, <1>9, <1>10 DEF FormatInv

LEMMA FormatStep ==
    ASSUME TypeOK, BuffersInv, FormatInv, Next
    PROVE  FormatInv'
<1>1. ASSUME UNCHANGED <<output, mMuxerStarted, announced>> PROVE FormatInv'
  BY <1>1 DEF FormatInv, IsFormat
<1>2. CASE BeginFrame \/ BeginStop \/ DrainTryAgain \/ Draw \/ SwapBuffers \/ Release
           \/ PostFrame \/ Ended
  BY <1>1, <1>2 DEF BeginFrame, BeginStop, DrainTryAgain, Draw, SwapBuffers, Release,
     PostFrame, Ended, Throw, codecVars, coreVars, threadVars
<1>3. CASE DrainBuffers
  BY <1>3, FormatTake DEF DrainBuffers, Dequeues
<1>4. CASE TakesFormat
  <2>1. /\ Len(output) \in Nat \ {0} /\ Len(output') = Len(output) - 1
        /\ Head(output) = output[1]
        /\ \A k \in 1..Len(output) - 1 : output'[k] = output[k + 1]
    BY <1>4, OutputHead DEF TakesFormat, Dequeues
  <2>2. 1 \in 1..Len(output)
    BY <2>1, SMT
  <2>3. IsFormat(1)
    BY <1>4, <2>1, <2>2 DEF IsFormat, TakesFormat, Dequeues
  <2>4. \A k \in 1..Len(output') :
            k + 1 \in 1..Len(output) /\ k + 1 # 1 /\ output'[k] = output[k + 1]
    BY <2>1, SMT
  <2>5. \A k \in 1..Len(output') : ~IsFormat(k)'
    BY <2>2, <2>3, <2>4 DEF IsFormat, FormatInv
  <2>6. announced' # "nothing" /\ mMuxerStarted'
    BY <1>4, <2>2, <2>3 DEF FormatInv, TakesFormat
  <2> QED BY <2>5, <2>6 DEF FormatInv
<1>5. CASE TakesBuffer
  <2>1. Head(output).what # "FORMAT"
    BY <1>5 DEF TakesBuffer, Buffers
  <2> QED BY <1>5, <2>1, FormatTake DEF TakesBuffer, ReleaseOutputBuffer
<1>6. CASE CodecFormat
  <2> DEFINE last == Len(output) + 1
  <2>1. /\ Len(output) \in Nat /\ Len(output') = last /\ output'[last] = Status("FORMAT")
        /\ \A k \in 1..Len(output) : output'[k] = output[k]
    BY <1>6, OutputPut, Kinds DEF CodecFormat
  <2>2. \A k : k \in 1..Len(output') <=> k \in 1..Len(output) \/ k = last
    BY <2>1, SMT
  <2>3. \A k \in 1..Len(output) : ~IsFormat(k) /\ output[k] \notin DataFrames
    BY <1>6 DEF FormatInv, CodecFormat
  <2>4. \A k : IsFormat(k)' <=> k = last
    BY <2>1, <2>2, <2>3, Kinds DEF IsFormat
  <2>5. \A k \in 1..Len(output') : output'[k] \notin DataFrames
    BY <2>1, <2>2, <2>3, Kinds
  <2>6. announced' # "nothing" /\ ~mMuxerStarted'
    BY <1>6 DEF FormatInv, CodecFormat, threadVars
  <2> HIDE DEF last
  <2> QED BY <2>2, <2>4, <2>5, <2>6 DEF FormatInv
<1>7. CASE CodecConfig
  <2>1. Status("CONFIG").what # "FORMAT" /\ Status("CONFIG") \notin DataFrames
    BY Kinds
  <2> QED BY <1>7, <2>1, FormatPut, Kinds DEF CodecConfig, threadVars
<1>8. CASE CodecEncode
  <2>1. PICK eos \in BOOLEAN : output' = Append(output, Data(Head(input), eos))
    BY <1>8 DEF CodecEncode
  <2> DEFINE o == Data(Head(input), eos)
  <2>2. Head(input) \in Time0 /\ UNCHANGED <<mMuxerStarted, announced>>
    BY <1>8, InputHead DEF CodecEncode, threadVars
  <2>3. o \in Output /\ o.what = "DATA" /\ (o \in DataFrames <=> Head(input) # 0)
    BY <2>2, Kinds
  <2>4. Head(input) # 0 => announced # "nothing"
    BY <1>8 DEF CodecEncode
  <2> HIDE DEF o
  <2> QED BY <2>1, <2>2, <2>3, <2>4, FormatPut DEF o
<1>9. CASE CodecChangeBuffers
  <2>1. Status("BUFFERS").what # "FORMAT" /\ Status("BUFFERS") \notin DataFrames
    BY Kinds
  <2> QED BY <1>9, <2>1, FormatPut, Kinds DEF CodecChangeBuffers, threadVars
<1> QED BY <1>2, <1>3, <1>4, <1>5, <1>6, <1>7, <1>8, <1>9, NothingThrown
        DEF Next, EncoderThread, DrainEncoder, Codec
-----------------------------------------------------------------------------
(* The end of the stream.                                                   *)

\* Before it is signalled there is no sign of it.
LEMMA NoEosYet ==
    ASSUME TypeOK, EosInv, ~endOfStream
    PROVE  /\ \A k \in 1..Len(input) : input[k] # 0
           /\ \A k \in 1..Len(output) : ~output[k].eos
           /\ at \notin {"release", "released"}
BY DEF EosInv

LEMMA EosPut ==
    ASSUME TypeOK, EosInv, NEW o \in Output, output' = Append(output, o),
           ~o.eos, o \notin DataFrames, UNCHANGED <<at, endOfStream, frames, input>>
    PROVE  EosInv'
<1> DEFINE last == Len(output) + 1
<1>1. /\ Len(output) \in Nat /\ Len(output') = last /\ output'[last] = o
      /\ \A k \in 1..Len(output) : output'[k] = output[k]
  BY OutputPut
<1>2. \A k : k \in 1..Len(output') <=> k \in 1..Len(output) \/ k = last
  BY <1>1, SMT
<1>3. ASSUME NEW k \in 1..Len(output'), output'[k].eos
      PROVE  /\ endOfStream' /\ input' = <<>>
             /\ \A l \in k + 1..Len(output') : output'[l] \notin DataFrames
  <2>1. k \in 1..Len(output) /\ output[k].eos
    BY <1>1, <1>2, <1>3
  <2>2. endOfStream /\ input = <<>> /\ \A l \in k + 1..Len(output) : output[l] \notin DataFrames
    BY <2>1 DEF EosInv
  <2>3. \A l \in k + 1..Len(output') : (l \in 1..Len(output) /\ l \in k + 1..Len(output)) \/ l = last
    BY <1>1, SMT
  <2> QED BY <1>1, <2>2, <2>3
<1>4. at' \in {"release", "released"} =>
          /\ input' = <<>>
          /\ \A k \in 1..Len(output') : output'[k] \notin DataFrames
  BY <1>1, <1>2 DEF EosInv
<1> QED BY <1>3, <1>4 DEF EosInv

\* A drain that goes on.
LEMMA EosTake ==
    ASSUME TypeOK, EosInv, output # <<>>, at = "drain", at' = "drain",
           output' = Tail(output), UNCHANGED <<endOfStream, frames, input>>
    PROVE  EosInv'
<1>1. Len(output) \in Nat \ {0} /\ Len(output') = Len(output) - 1
      /\ \A k \in 1..Len(output) - 1 : output'[k] = output[k + 1]
  BY OutputHead
<1>2. \A k \in 1..Len(output') : k + 1 \in 1..Len(output) /\ output'[k] = output[k + 1]
                                 /\ k \in Nat
  BY <1>1, SMT
<1>3. ASSUME NEW k \in 1..Len(output'), output'[k].eos
      PROVE  /\ endOfStream' /\ input' = <<>>
             /\ \A l \in k + 1..Len(output') : output'[l] \notin DataFrames
  <2>1. /\ endOfStream /\ input = <<>>
        /\ \A l \in (k + 1) + 1..Len(output) : output[l] \notin DataFrames
    BY <1>2, <1>3 DEF EosInv
  <2>2. \A l \in k + 1..Len(output') :
            l \in 1..Len(output') /\ l + 1 \in (k + 1) + 1..Len(output)
    BY <1>1, SMT
  <2> QED BY <1>2, <2>1, <2>2
<1> QED BY <1>3 DEF EosInv

LEMMA EosStep ==
    ASSUME TypeOK, BuffersInv, FormatInv, EosInv, Next,
           at = "swap" => frames # <<>> /\ Head(frames) \in Time0 \ {0}
    PROVE  EosInv'
<1>1. CASE BeginFrame
  <2>1. ~endOfStream
    BY <1>1 DEF BeginFrame, EosInv
  <2> QED BY <1>1, <2>1 DEF BeginFrame, EosInv, frameVars, codecVars
<1>2. CASE BeginStop
  <2>1. ~endOfStream
    BY <1>2 DEF BeginStop, EosInv
  <2>2. /\ Len(input) \in Nat /\ Len(input') = Len(input) + 1
        /\ \A k \in 1..Len(input) : input'[k] = input[k]
    BY <1>2, AppendProperties, LenProperties, CoreConstants DEF BeginStop, TypeOK, Time0
  <2>3. \A k \in 1..Len(input') : k \in 1..Len(input) \/ k = Len(input')
    BY <2>2, SMT
  <2>4. \A k \in 1..Len(input') : input'[k] = 0 => k = Len(input')
    BY <2>1, <2>2, <2>3, NoEosYet
  <2> QED BY <1>2, <2>1, <2>4, NoEosYet DEF BeginStop, EosInv, frameVars
<1>3. CASE DrainTryAgain
  BY <1>3 DEF DrainTryAgain, EosInv, AfterDrain, frameVars, codecVars
<1>4. CASE DrainBuffers
  BY <1>4, EosTake DEF DrainBuffers, Dequeues, frameVars
<1>5. CASE TakesFormat
  BY <1>5, EosTake DEF TakesFormat, Dequeues, frameVars
<1>6. CASE TakesBuffer
  <2>1. output # <<>> /\ at = "drain" /\ output' = Tail(output)
        /\ UNCHANGED <<endOfStream, frames, input>>
        /\ at' = IF Head(output).eos THEN AfterDrain ELSE "drain"
    BY <1>6 DEF TakesBuffer, ReleaseOutputBuffer, frameVars
  <2>2. CASE ~Head(output).eos
    BY <2>1, <2>2, EosTake
  <2>3. CASE Head(output).eos
    <3>1. Len(output) \in Nat \ {0} /\ Head(output) = output[1]
          /\ Len(output') = Len(output) - 1
          /\ \A k \in 1..Len(output) - 1 : output'[k] = output[k + 1]
      BY <2>1, OutputHead
    <3>2. 1 \in 1..Len(output)
      BY <3>1, SMT
    <3>3. /\ endOfStream /\ input = <<>>
          /\ \A l \in 1 + 1..Len(output) : output[l] \notin DataFrames
      BY <2>3, <3>1, <3>2 DEF EosInv
    <3>4. \A k \in 1..Len(output') : k + 1 \in 1 + 1..Len(output) /\ k \in 1..Len(output) - 1
      BY <3>1, SMT
    <3>5. \A k \in 1..Len(output') : output'[k] \notin DataFrames
      BY <3>1, <3>3, <3>4
    <3>6. \A k \in 1..Len(output') : \A l \in k + 1..Len(output') : l \in 1..Len(output')
      BY <3>1, SMT
    <3>7. at' = "release" /\ endOfStream' /\ frames' = <<>> /\ input' = <<>>
      BY <2>1, <2>3, <3>3 DEF AfterDrain, EosInv
    <3> QED BY <3>5, <3>6, <3>7, EmptySeq DEF EosInv
  <2> QED BY <2>2, <2>3
<1>7. CASE Draw
  BY <1>7 DEF Draw, EosInv, codecVars
<1>8. CASE SwapBuffers
  <2>1. ~endOfStream /\ at' = "idle" /\ UNCHANGED <<endOfStream, output>>
    BY <1>8 DEF SwapBuffers, EosInv
  <2>2. Head(frames) \in Time0 \ {0} /\ input' = Append(input, Head(frames))
    BY <1>8, TimeHandled DEF SwapBuffers
  <2>3. /\ Len(input) \in Nat /\ Len(input') = Len(input) + 1
        /\ \A k \in 1..Len(input) : input'[k] = input[k]
        /\ input'[Len(input) + 1] = Head(frames)
    BY <2>2, AppendProperties, LenProperties DEF TypeOK
  <2>4. \A k \in 1..Len(input') : k \in 1..Len(input) \/ k = Len(input) + 1
    BY <2>3, SMT
  <2>5. \A k \in 1..Len(input') : input'[k] # 0
    BY <2>1, <2>2, <2>3, <2>4, NoEosYet
  <2> QED BY <2>1, <2>5, NoEosYet DEF EosInv
<1>9. CASE Release
  BY <1>9 DEF Release, Throw, EosInv, frameVars, codecVars
<1>10. CASE PostFrame
  BY <1>10 DEF PostFrame, EosInv, threadVars, codecVars
<1>11. CASE CodecFormat
  BY <1>11, EosPut, Kinds DEF CodecFormat, threadVars, frameVars
<1>12. CASE CodecConfig
  BY <1>12, EosPut, Kinds DEF CodecConfig, threadVars, frameVars
<1>13. CASE CodecChangeBuffers
  BY <1>13, EosPut, Kinds DEF CodecChangeBuffers, threadVars, frameVars
<1>14. CASE CodecEncode
  <2>1. /\ input # <<>> /\ UNCHANGED <<at, endOfStream, frames>>
        /\ EncodesOne \/ EncodesLast
    BY <1>14, Encodes DEF EncodesFrom, threadVars, frameVars
  <2>2. /\ at \notin {"release", "released"}
        /\ \A k \in 1..Len(output) : ~output[k].eos
    BY <2>1 DEF EosInv
  <2>3. /\ Len(input) \in Nat \ {0} /\ Head(input) = input[1] /\ input[1] \in Time0
        /\ Len(Tail(input)) = Len(input) - 1
        /\ \A k \in 1..Len(input) - 1 : Tail(input)[k] = input[k + 1]
    BY <2>1, InputHead
  <2>4. \A k \in 1..Len(input') : input'[k] = 0 => k = Len(input') /\ endOfStream
    <3>1. CASE EncodesOne
      <4>1. \A k \in 1..Len(input') : k \in 1..Len(input) - 1 /\ k + 1 \in 1..Len(input)
        BY <2>3, <3>1, SMT DEF EncodesOne
      <4>2. \A k \in 1..Len(input') : input'[k] = 0 => k + 1 = Len(input) /\ endOfStream
        BY <2>3, <3>1, <4>1 DEF EncodesOne, EosInv
      <4>3. Len(input') = Len(input) - 1
        BY <2>3, <3>1 DEF EncodesOne
      <4>4. \A k \in 1..Len(input') : k + 1 = Len(input) => k = Len(input')
        BY <4>3, Len(input) \in Nat, SMT
      <4> QED BY <4>2, <4>4
    <3>2. CASE EncodesLast
      <4>1. 1..Len(input') = {}
        BY <3>2, EmptySeq, SMT DEF EncodesLast
      <4> QED BY <4>1
    <3> QED BY <2>1, <3>1, <3>2
  <2>5. PICK eos \in BOOLEAN : /\ output' = Append(output, Data(Head(input), eos))
                               /\ eos => endOfStream /\ input' = <<>>
    <3>1. CASE EncodesOne
      <4>1. ASSUME Head(input) = 0 PROVE endOfStream /\ input' = <<>>
        <5>1. 1 \in 1..Len(input) /\ input[1] = 0
          BY <2>3, <4>1, SMT
        <5>2. 1 = Len(input) /\ endOfStream
          BY <5>1 DEF EosInv
        <5>3. Tail(input) \in Seq(Time0) /\ Len(Tail(input)) = 0
          BY <2>1, <5>2, InputHead
        <5> QED BY <3>1, <5>2, <5>3, EmptySeq DEF EncodesOne
      <4> QED BY <3>1, <4>1 DEF EncodesOne, Encoded
    <3>2. CASE EncodesLast
      <4>1. 2 \in 1..Len(input) /\ input[2] = 0
        BY <3>2, SMT DEF EncodesLast
      <4>2. endOfStream
        BY <4>1 DEF EosInv
      <4> QED BY <3>2, <4>2 DEF EncodesLast
    <3> QED BY <2>1, <3>1, <3>2
  <2> DEFINE last == Len(output) + 1
             o == Data(Head(input), eos)
  <2>6. o \in Output /\ (o.eos <=> eos)
    BY <2>3, Kinds
  <2> HIDE DEF o
  <2>7. /\ Len(output) \in Nat /\ Len(output') = last /\ output'[last] = o
        /\ \A k \in 1..Len(output) : output'[k] = output[k]
    BY <2>5, <2>6, OutputPut DEF o
  <2>8. \A k : k \in 1..Len(output') <=> k \in 1..Len(output) \/ k = last
    BY <2>7, SMT
  <2>9. \A k \in 1..Len(output') : output'[k].eos => k = Len(output') /\ eos
    BY <2>2, <2>6, <2>7, <2>8
  <2>10. Len(output') + 1..Len(output') = {}
    BY <2>7, SMT
  <2> QED BY <2>1, <2>2, <2>4, <2>5, <2>9, <2>10 DEF EosInv
<1>15. CASE Ended
  BY <1>15 DEF Ended, coreVars, threadVars, frameVars, codecVars, EosInv
<1> QED BY <1>1, <1>2, <1>3, <1>4, <1>5, <1>6, <1>7, <1>8, <1>9, <1>10, <1>11, <1>12,
           <1>13, <1>14, <1>15, NothingThrown DEF Next, EncoderThread, DrainEncoder, Codec
-----------------------------------------------------------------------------
(* The images.                                                              *)

LEMMA Times ==
    ASSUME TypeOK
    PROVE  /\ latched \in Nat /\ drawn \in Nat
           /\ Len(frames) \in Nat /\ Len(submitted) \in Nat /\ Len(shown) \in Nat
           /\ \A k \in 1..Len(frames) : frames[k] \in Time0 /\ frames[k] \in Nat
           /\ \A k \in 1..Len(submitted) : submitted[k] \in Nat
           /\ \A k \in 1..Len(shown) : shown[k] \in Nat
<1>1. /\ frames \in Seq(Time0) /\ submitted \in Seq(Time0) /\ shown \in Seq(Time0)
      /\ latched \in Time0 /\ drawn \in Time0
  BY DEF TypeOK
<1>2. \A t \in Time0 : t \in Nat
  BY CoreConstants, SMT DEF Time0
<1>3. /\ \A k \in 1..Len(frames) : frames[k] \in Time0
      /\ \A k \in 1..Len(submitted) : submitted[k] \in Time0
      /\ \A k \in 1..Len(shown) : shown[k] \in Time0
  BY <1>1, ElementOfSeq
<1> QED BY <1>1, <1>2, <1>3, LenProperties

\* The frame in hand.
LEMMA FrameInHand ==
    ASSUME TypeOK, ImagesInv, frames # <<>>
    PROVE  /\ Head(frames) = frames[1] /\ 1 \in 1..Len(frames)
           /\ Head(frames) \in Time0 /\ Head(frames) \in Nat /\ Head(frames) # 0
           /\ Len(frames) \in Nat \ {0} /\ Len(Tail(frames)) = Len(frames) - 1
           /\ Tail(frames) \in Seq(Time0)
           /\ \A k \in 1..Len(frames) - 1 : Tail(frames)[k] = frames[k + 1]
<1>1. frames \in Seq(Time0)
  BY DEF TypeOK
<1>2. Tail(frames) \in Seq(Time0) /\ Len(Tail(frames)) = Len(frames) - 1
      /\ \A k \in 1..Len(Tail(frames)) : Tail(frames)[k] = frames[k + 1]
  BY <1>1, HeadTailProperties
<1>3. Len(frames) \in Nat \ {0} /\ Head(frames) = frames[1] /\ 1 \in 1..Len(frames)
  BY <1>1, EmptySeq
<1>4. frames[1] \in Time0 /\ frames[1] \in Nat /\ frames[1] # 0
  BY <1>3, Times DEF ImagesInv
<1> QED BY <1>2, <1>3, <1>4

LEMMA ImagesSame ==
    ASSUME ImagesInv, UNCHANGED frameVars, at' = "swap" => at = "swap",
           at' \in {"draw", "swap"} \/ (at' = "drain" /\ ~endOfStream') => frames # <<>>
    PROVE  ImagesInv'
<1>1. UNCHANGED <<latched, frames, drawn, submitted, shown, overtaken>>
  BY DEF frameVars
<1>2. at' = "swap" => drawn' <= latched' /\ Follows(drawn, frames[1])'
  BY <1>1 DEF ImagesInv, Follows
<1>3. \A k \in 1..Len(submitted') :
           /\ submitted'[k] # 0 /\ submitted'[k] <= latched' /\ shown'[k] <= latched'
           /\ \A l \in 1..Len(frames') : submitted'[k] <= frames'[l]
           /\ Follows(shown[k], submitted[k])'
           /\ at' = "swap" => shown'[k] <= drawn'
  BY <1>1 DEF ImagesInv, Follows
<1>4. \A k \in 1..Len(frames') : frames'[k] # 0 /\ Follows(latched, frames[k])'
  BY <1>1 DEF ImagesInv, Follows
<1>5. /\ latched' <= Len(submitted') + Len(frames')
      /\ Len(shown') = Len(submitted')
      /\ \A k, l \in 1..Len(frames') : k < l => frames'[k] <= frames'[l]
      /\ \A k \in 1..Len(submitted') - 1 :
             submitted'[k] <= submitted'[k + 1] /\ shown'[k] <= shown'[k + 1]
  BY <1>1 DEF ImagesInv
<1> QED BY <1>1, <1>2, <1>3, <1>4, <1>5 DEF ImagesInv

\* What follows is not older.
LEMMA FollowsIsLater ==
    ASSUME NEW image \in Nat, NEW time \in Nat, Follows(image, time)
    PROVE  time <= image
<1>1. image = time \/ image > time
  BY DEF Follows
<1> QED BY <1>1, SMT

LEMMA ImagesDraw ==
    ASSUME TypeOK, ImagesInv, Draw
    PROVE  ImagesInv'
<1>1. /\ at = "draw" /\ at' = "swap" /\ drawn' = latched
      /\ UNCHANGED <<latched, frames, submitted, shown, overtaken>>
  BY DEF Draw
<1>2. frames # <<>>
  BY <1>1 DEF ImagesInv
<1>3. Follows(drawn, frames[1])'
  BY <1>1, <1>2, FrameInHand DEF ImagesInv, Follows
<1>4. latched \in Nat /\ drawn' <= latched'
  BY <1>1, Times, SMT
<1>5. \A k \in 1..Len(submitted') :
           /\ submitted'[k] # 0 /\ submitted'[k] <= latched' /\ shown'[k] <= latched'
           /\ \A l \in 1..Len(frames') : submitted'[k] <= frames'[l]
           /\ Follows(shown[k], submitted[k])'
           /\ at' = "swap" => shown'[k] <= drawn'
  BY <1>1 DEF ImagesInv, Follows
<1>6. \A k \in 1..Len(frames') : frames'[k] # 0 /\ Follows(latched, frames[k])'
  BY <1>1 DEF ImagesInv, Follows
<1>7. /\ latched' <= Len(submitted') + Len(frames')
      /\ Len(shown') = Len(submitted')
      /\ \A k, l \in 1..Len(frames') : k < l => frames'[k] <= frames'[l]
      /\ \A k \in 1..Len(submitted') - 1 :
             submitted'[k] <= submitted'[k + 1] /\ shown'[k] <= shown'[k + 1]
  BY <1>1 DEF ImagesInv
<1> QED BY <1>1, <1>2, <1>3, <1>4, <1>5, <1>6, <1>7 DEF ImagesInv

LEMMA ImagesSwap ==
    ASSUME TypeOK, ImagesInv, SwapBuffers
    PROVE  ImagesInv'
<1> DEFINE n == Len(submitted)
<1>1. /\ at = "swap" /\ at' = "idle" /\ frames' = Tail(frames)
      /\ submitted' = Append(submitted, Head(frames)) /\ shown' = Append(shown, drawn)
      /\ UNCHANGED <<latched, drawn, overtaken>>
  BY DEF SwapBuffers
<1>2. /\ Head(frames) = frames[1] /\ 1 \in 1..Len(frames)
      /\ Head(frames) \in Time0 /\ Head(frames) \in Nat /\ Head(frames) # 0
      /\ Len(frames) \in Nat \ {0} /\ Len(frames') = Len(frames) - 1
      /\ \A k \in 1..Len(frames) - 1 : frames'[k] = frames[k + 1]
  BY <1>1, FrameInHand DEF ImagesInv
<1>3. /\ n \in Nat /\ Len(submitted') = n + 1 /\ submitted'[n + 1] = frames[1]
      /\ \A k \in 1..n : submitted'[k] = submitted[k]
  BY <1>1, <1>2, AppendProperties, LenProperties DEF TypeOK
<1>4. /\ Len(shown') = n + 1 /\ shown'[n + 1] = drawn
      /\ \A k \in 1..n : shown'[k] = shown[k]
  <2>1. Len(shown) = n
    BY DEF ImagesInv
  <2>2. shown \in Seq(Time0) /\ drawn \in Time0
    BY DEF TypeOK
  <2> QED BY <1>1, <2>1, <2>2, AppendProperties
<1>5. /\ latched \in Nat /\ drawn \in Nat
      /\ \A k \in 1..Len(frames) : frames[k] \in Nat
      /\ \A k \in 1..n : submitted[k] \in Nat
  BY Times
<1> HIDE DEF n
<1>6. \A k : k \in 1..n + 1 <=> k \in 1..n \/ k = n + 1
  BY <1>3, SMT
<1>7. \A k \in 1..Len(frames') : k \in 1..Len(frames) - 1 /\ k + 1 \in 1..Len(frames)
                                 /\ 1 < k + 1
  BY <1>2, SMT
<1>8. frames[1] <= latched /\ drawn <= latched /\ Follows(drawn, frames[1])
  <2>1. Follows(latched, frames[1]) /\ drawn <= latched /\ Follows(drawn, frames[1])
    BY <1>1, <1>2 DEF ImagesInv
  <2> QED BY <1>2, <1>5, <2>1, FollowsIsLater
<1>9. \A k \in 1..Len(frames') : frames'[k] # 0 /\ Follows(latched, frames[k])'
  BY <1>1, <1>2, <1>7 DEF ImagesInv, Follows
<1>10. \A k \in 1..n + 1 :
           /\ submitted'[k] # 0 /\ submitted'[k] <= latched' /\ shown'[k] <= latched'
           /\ \A l \in 1..Len(frames') : submitted'[k] <= frames'[l]
           /\ Follows(shown[k], submitted[k])'
  <2>1. ASSUME NEW k \in 1..n
        PROVE  /\ submitted'[k] # 0 /\ submitted'[k] <= latched' /\ shown'[k] <= latched'
               /\ \A l \in 1..Len(frames') : submitted'[k] <= frames'[l]
               /\ Follows(shown[k], submitted[k])'
    BY <1>1, <1>2, <1>3, <1>4, <1>7 DEF ImagesInv, Follows, n
  <2>2. ASSUME NEW k, k = n + 1
        PROVE  /\ submitted'[k] # 0 /\ submitted'[k] <= latched' /\ shown'[k] <= latched'
               /\ \A l \in 1..Len(frames') : submitted'[k] <= frames'[l]
               /\ Follows(shown[k], submitted[k])'
    <3>1. submitted'[k] = frames[1] /\ shown'[k] = drawn
      BY <1>3, <1>4, <2>2
    <3>2. Follows(shown[k], submitted[k])'
      BY <1>1, <1>8, <3>1 DEF Follows
    <3>3. ASSUME NEW l \in 1..Len(frames') PROVE frames[1] <= frames'[l]
      <4>1. l + 1 \in 1..Len(frames) /\ 1 < l + 1 /\ frames'[l] = frames[l + 1]
        BY <1>2, <1>7
      <4> QED BY <1>2, <4>1 DEF ImagesInv
    <3> QED BY <1>1, <1>2, <1>8, <3>1, <3>2, <3>3
  <2> QED BY <1>6, <2>1, <2>2
<1>11. \A k \in 1..n : submitted'[k] <= submitted'[k + 1] /\ shown'[k] <= shown'[k + 1]
  <2> TAKE k \in 1..n
  <2>1. CASE k = n
    <3>1. n \in 1..n /\ submitted[n] <= frames[1] /\ shown[n] <= drawn
      BY <1>1, <1>2, <2>1 DEF ImagesInv, n
    <3> QED BY <1>3, <1>4, <2>1, <3>1
  <2>2. CASE k # n
    <3>1. k \in 1..n - 1 /\ k + 1 \in 1..n
      BY <1>3, <2>2, SMT
    <3>2. submitted[k] <= submitted[k + 1] /\ shown[k] <= shown[k + 1]
      BY <3>1 DEF ImagesInv, n
    <3> QED BY <1>3, <1>4, <3>1, <3>2
  <2> QED BY <2>1, <2>2
<1>12. latched' <= Len(submitted') + Len(frames')
  <2>1. latched <= n + Len(frames)
    BY DEF ImagesInv, n
  <2> QED BY <1>1, <1>2, <1>3, <1>5, <2>1, SMT
<1>13. \A k, l \in 1..Len(frames') : k < l => frames'[k] <= frames'[l]
  <2> TAKE k, l \in 1..Len(frames')
  <2> HAVE k < l
  <2>1. k + 1 < l + 1
    BY <1>2, SMT
  <2>2. frames[k + 1] <= frames[l + 1]
    BY <1>7, <2>1 DEF ImagesInv
  <2> QED BY <1>2, <1>7, <2>2
<1>14. Len(submitted') - 1 = n
  BY <1>3, SMT
<1> QED BY <1>1, <1>3, <1>4, <1>9, <1>10, <1>11, <1>12, <1>13, <1>14 DEF ImagesInv

LEMMA ImagesPost ==
    ASSUME TypeOK, ImagesInv, PostFrame
    PROVE  ImagesInv'
<1>1. /\ latched' \in {latched, latched + 1} \ {0} /\ frames' = Append(frames, latched')
      /\ overtaken' = (overtaken \/ (latched' # latched /\ frames # <<>>))
      /\ UNCHANGED <<at, endOfStream, drawn, submitted, shown>>
      /\ Len(submitted) + Len(frames) < MaxFrames
  BY DEF PostFrame, threadVars
<1>2. /\ latched \in Nat /\ drawn \in Nat
      /\ Len(frames) \in Nat /\ Len(submitted) \in Nat /\ Len(shown) = Len(submitted)
      /\ \A k \in 1..Len(frames) : frames[k] \in Nat
      /\ \A k \in 1..Len(submitted) : submitted[k] \in Nat
      /\ \A k \in 1..Len(submitted) : shown[k] \in Nat
  BY Times DEF ImagesInv
<1>3. latched' \in Nat /\ latched' # 0 /\ latched <= latched' /\ latched' <= latched + 1
      /\ (latched' # latched => latched < latched')
  BY <1>1, <1>2, SMT
<1>4. latched' <= Len(submitted) + Len(frames) + 1 /\ latched' \in Time0
  BY <1>1, <1>2, <1>3, CoreConstants, SMT DEF ImagesInv, Time0
<1> DEFINE n == Len(frames) + 1
<1>5. /\ Len(frames') = n /\ frames'[n] = latched'
      /\ \A k \in 1..Len(frames) : frames'[k] = frames[k]
  BY <1>1, <1>4, AppendProperties DEF TypeOK
<1>6. \A k : k \in 1..n <=> k \in 1..Len(frames) \/ k = n
  BY <1>2, SMT
<1>7. \A k \in 1..Len(frames) : k \in Nat /\ k < n /\ n \in Nat
  BY <1>2, SMT
<1> HIDE DEF n
<1>8. \A i, t : i = t \/ (overtaken /\ i > t) => i = t \/ (overtaken' /\ i > t)
  BY <1>1
<1>9. \A k \in 1..Len(frames) : Follows(latched, frames[k]) /\ frames[k] # 0
  BY DEF ImagesInv
<1>10. \A k \in 1..Len(frames) : frames[k] <= latched /\ frames[k] <= latched'
  <2>1. \A k \in 1..Len(frames) : frames[k] <= latched
    BY <1>2, <1>9, FollowsIsLater
  <2> QED BY <1>2, <1>3, <2>1, SMT
<1>11. \A k \in 1..Len(frames) : latched' = frames[k] \/ (overtaken' /\ latched' > frames[k])
  <2> TAKE k \in 1..Len(frames)
  <2>1. CASE latched' = latched
    BY <1>8, <1>9, <2>1 DEF Follows
  <2>2. CASE latched' # latched
    <3>1. frames # <<>>
      <4> SUFFICES ASSUME frames = <<>> PROVE FALSE
        OBVIOUS
      <4>1. Len(frames) = 0
        BY EmptySeq
      <4> QED BY <4>1, SMT
    <3>2. overtaken'
      BY <1>1, <2>2, <3>1
    <3>3. latched' > frames[k]
      BY <1>2, <1>3, <1>10, <2>2, SMT
    <3> QED BY <3>2, <3>3
  <2> QED BY <2>1, <2>2
<1>12. \A k \in 1..n : frames'[k] # 0 /\ Follows(latched, frames[k])'
  <2> TAKE k \in 1..n
  <2>1. CASE k \in 1..Len(frames)
    BY <1>5, <1>9, <1>11, <2>1 DEF Follows
  <2>2. CASE k = n
    BY <1>3, <1>5, <2>2 DEF Follows
  <2> QED BY <1>6, <2>1, <2>2
<1>13. \A k, l \in 1..n : k < l => frames'[k] <= frames'[l]
  <2> TAKE k, l \in 1..n
  <2> HAVE k < l
  <2>1. k \in 1..Len(frames)
    BY <1>2, SMT DEF n
  <2>2. CASE l \in 1..Len(frames)
    BY <1>5, <2>1, <2>2 DEF ImagesInv
  <2>3. CASE l = n
    BY <1>5, <1>10, <2>1, <2>3
  <2> QED BY <1>6, <2>2, <2>3
<1>14. \A k \in 1..Len(submitted) :
           /\ submitted[k] # 0 /\ submitted[k] <= latched' /\ shown[k] <= latched'
           /\ \A l \in 1..n : submitted[k] <= frames'[l]
           /\ shown[k] = submitted[k] \/ (overtaken' /\ shown[k] > submitted[k])
           /\ at = "swap" => shown[k] <= drawn
  <2> TAKE k \in 1..Len(submitted)
  <2>1. /\ submitted[k] # 0 /\ submitted[k] <= latched /\ shown[k] <= latched
        /\ \A l \in 1..Len(frames) : submitted[k] <= frames[l]
        /\ Follows(shown[k], submitted[k])
        /\ at = "swap" => shown[k] <= drawn
    BY DEF ImagesInv
  <2>2. submitted[k] <= latched' /\ shown[k] <= latched'
    BY <1>2, <1>3, <2>1, SMT
  <2>3. \A l \in 1..n : submitted[k] <= frames'[l]
    BY <1>5, <1>6, <2>1, <2>2
  <2>4. shown[k] = submitted[k] \/ (overtaken' /\ shown[k] > submitted[k])
    BY <1>8, <2>1 DEF Follows
  <2> QED BY <2>1, <2>2, <2>3, <2>4
<1>15. ASSUME at = "swap"
       PROVE  drawn <= latched' /\ (drawn = frames'[1] \/ (overtaken' /\ drawn > frames'[1]))
  <2>1. frames # <<>> /\ drawn <= latched /\ Follows(drawn, frames[1])
    BY <1>15 DEF ImagesInv
  <2>2. 1 \in 1..Len(frames) /\ frames'[1] = frames[1]
    BY <1>5, <2>1, FrameInHand
  <2>3. drawn <= latched'
    BY <1>2, <1>3, <2>1, SMT
  <2>4. drawn = frames[1] \/ (overtaken' /\ drawn > frames[1])
    BY <1>8, <2>1 DEF Follows
  <2> QED BY <2>2, <2>3, <2>4
<1>16. frames' # <<>>
  <2>1. Len(frames') # 0
    BY <1>2, <1>5, SMT DEF n
  <2> QED BY <2>1, EmptySeq
<1>17. latched' <= Len(submitted') + Len(frames')
  BY <1>1, <1>2, <1>3, <1>4, <1>5, SMT DEF n
<1>18. \A k \in 1..Len(submitted) - 1 :
           submitted[k] <= submitted[k + 1] /\ shown[k] <= shown[k + 1]
  BY DEF ImagesInv
<1> QED BY <1>1, <1>2, <1>5, <1>12, <1>13, <1>14, <1>15, <1>16, <1>17, <1>18
        DEF ImagesInv, Follows

LEMMA ImagesStep ==
    ASSUME TypeOK, BuffersInv, FormatInv, EosInv, ImagesInv, Next
    PROVE  ImagesInv'
<1>1. CASE BeginFrame \/ BeginStop \/ DrainTryAgain \/ DrainBuffers \/ Ended
  BY <1>1, ImagesSame DEF BeginFrame, BeginStop, DrainTryAgain, DrainBuffers, Dequeues,
     AfterDrain, Ended, coreVars, threadVars, ImagesInv
<1>2. CASE TakesFormat
  BY <1>2, ImagesSame DEF TakesFormat, Dequeues, ImagesInv
<1>3. CASE TakesBuffer
  BY <1>3, ImagesSame DEF TakesBuffer, ReleaseOutputBuffer, AfterDrain, ImagesInv
<1>4. CASE Release
  BY <1>4, ImagesSame DEF Release, Throw, ImagesInv
<1>5. CASE CodecFormat \/ CodecConfig \/ CodecEncode \/ CodecChangeBuffers
  BY <1>5, ImagesSame DEF CodecFormat, CodecConfig, CodecEncode, CodecChangeBuffers,
     threadVars, ImagesInv
<1> QED BY <1>1, <1>2, <1>3, <1>4, <1>5, ImagesDraw, ImagesSwap, ImagesPost, NothingThrown
        DEF Next, EncoderThread, DrainEncoder, Codec
-----------------------------------------------------------------------------
(* The types.                                                               *)

LEMMA TypeStep ==
    ASSUME TypeOK, FreeInv, BuffersInv, FormatInv, EosInv, ImagesInv, Next
    PROVE  TypeOK'
<1>1. output' \in Seq(Output) /\ (UNCHANGED free \/ free' \in Int)
  <2>1. CASE UNCHANGED <<output, free>>
    BY <2>1 DEF TypeOK
  <2>2. CASE output # <<>> /\ output' = Tail(output) /\ (UNCHANGED free \/ free' = free + 1)
    BY <2>2, OutputHead, CoreConstants, SMT DEF TypeOK
  <2>3. ASSUME NEW o \in Output, output' = Append(output, o), UNCHANGED free \/ free' = free - 1
        PROVE  output' \in Seq(Output) /\ (UNCHANGED free \/ free' \in Int)
    BY <2>3, OutputPut, CoreConstants, SMT DEF TypeOK
  <2>4. CASE BeginFrame \/ BeginStop \/ DrainTryAgain \/ Draw \/ SwapBuffers \/ Release
             \/ PostFrame \/ Ended
    BY <2>1, <2>4 DEF BeginFrame, BeginStop, DrainTryAgain, Draw, SwapBuffers, Release,
       PostFrame, Ended, Throw, codecVars, coreVars
  <2>5. CASE DrainBuffers
    BY <2>2, <2>5 DEF DrainBuffers, Dequeues
  <2>6. CASE TakesFormat \/ TakesBuffer
    BY <2>2, <2>6 DEF TakesFormat, TakesBuffer, Dequeues, ReleaseOutputBuffer
  <2>7. CASE CodecFormat \/ CodecConfig \/ CodecChangeBuffers
    BY <2>3, <2>7, Kinds DEF CodecFormat, CodecConfig, CodecChangeBuffers
  <2>8. CASE CodecEncode
    <3>1. PICK eos \in BOOLEAN : output' = Append(output, Data(Head(input), eos))
      BY <2>8 DEF CodecEncode
    <3>2. Head(input) \in Time0 /\ free' = free - 1
      BY <2>8, InputHead DEF CodecEncode
    <3> QED BY <2>3, <3>1, <3>2, Kinds
  <2> QED BY <2>4, <2>5, <2>6, <2>7, <2>8, NothingThrown
          DEF Next, EncoderThread, DrainEncoder, Codec
<1>2. free' \in 0..OutputBuffers
  <2>1. FreeInv'
    BY FreeStep
  <2>2. Len(output') \in Nat
    BY <1>1, LenProperties
  <2>3. Count(output', Buffers, Len(output')) \in Nat /\ OutputBuffers \in Nat
    BY <2>2, CountIsNat, CoreConstants
  <2>4. free' \in Int /\ free' >= 0
    <3>1. free \in Nat
      BY CoreConstants, SMT DEF TypeOK
    <3>2. UNCHANGED free \/ free' = free + 1 \/ (free > 0 /\ free' = free - 1)
      BY NothingThrown DEF Next, EncoderThread, DrainEncoder, Codec, BeginFrame, BeginStop,
         DrainTryAgain, DrainBuffers, TakesFormat, TakesBuffer, ReleaseOutputBuffer, Draw,
         SwapBuffers, Release, Throw, PostFrame, CodecFormat, CodecConfig, CodecEncode,
         CodecChangeBuffers, Ended, codecVars, coreVars
    <3> QED BY <3>1, <3>2, SMT
  <2> QED BY <2>1, <2>3, <2>4, SMT DEF FreeInv
<1>3. generation' \in 0..MaxChanges /\ buffers' \in 0..MaxChanges
  <2>1. generation \in 0..MaxChanges /\ buffers \in 0..MaxChanges
    BY DEF TypeOK
  <2>2. generation' = generation \/ (generation < MaxChanges /\ generation' = generation + 1)
    BY NothingThrown DEF Next, EncoderThread, DrainEncoder, Codec, BeginFrame, BeginStop,
       DrainTryAgain, DrainBuffers, TakesFormat, TakesBuffer, ReleaseOutputBuffer, Draw,
       SwapBuffers, Release, Throw, PostFrame, CodecFormat, CodecConfig, CodecEncode,
       CodecChangeBuffers, Ended, codecVars, coreVars
  <2>3. buffers' = buffers \/ buffers' = generation
    BY NothingThrown DEF Next, EncoderThread, DrainEncoder, Codec, BeginFrame, BeginStop,
       DrainTryAgain, DrainBuffers, TakesFormat, TakesBuffer, ReleaseOutputBuffer, Draw,
       SwapBuffers, Release, Throw, PostFrame, CodecFormat, CodecConfig, CodecEncode,
       CodecChangeBuffers, Ended, threadVars, coreVars
  <2>4. generation' \in 0..MaxChanges
    BY <2>1, <2>2, CoreConstants, SMT
  <2> QED BY <2>1, <2>3, <2>4
<1>4. /\ at' \in {"idle", "drain", "draw", "swap", "release", "released"}
      /\ endOfStream' \in BOOLEAN /\ mMuxerStarted' \in BOOLEAN /\ overtaken' \in BOOLEAN
      /\ announced' \in {"nothing", "format", "config"} /\ exception' \in Exceptions
  BY NothingThrown DEF Next, EncoderThread, DrainEncoder, Codec, BeginFrame, BeginStop,
     DrainTryAgain, DrainBuffers, TakesFormat, TakesBuffer, ReleaseOutputBuffer, Draw,
     SwapBuffers, Release, Throw, PostFrame, CodecFormat, CodecConfig, CodecEncode,
     CodecChangeBuffers, Ended, threadVars, frameVars, codecVars, coreVars, AfterDrain,
     TypeOK, Exceptions
<1>5. latched' \in Time0 /\ frames' \in Seq(Time0)
  <2>1. CASE UNCHANGED <<latched, frames>>
    BY <2>1 DEF TypeOK
  <2>2. CASE SwapBuffers
    BY <2>2, FrameInHand DEF SwapBuffers, ImagesInv, TypeOK
  <2>3. CASE PostFrame
    <3>1. /\ latched \in Nat /\ Len(frames) \in Nat /\ Len(submitted) \in Nat
          /\ latched <= Len(submitted) + Len(frames)
      BY Times DEF ImagesInv
    <3>2. latched' \in {latched, latched + 1} /\ Len(submitted) + Len(frames) < MaxFrames
          /\ frames' = Append(frames, latched')
      BY <2>3 DEF PostFrame
    <3>3. latched' \in Time0
      BY <3>1, <3>2, CoreConstants, SMT DEF Time0
    <3> QED BY <3>2, <3>3, AppendProperties DEF TypeOK
  <2> QED BY <2>1, <2>2, <2>3, NothingThrown
          DEF Next, EncoderThread, DrainEncoder, Codec, BeginFrame, BeginStop,
              DrainTryAgain, DrainBuffers, TakesFormat, TakesBuffer, ReleaseOutputBuffer, Draw,
              Release, Throw, CodecFormat, CodecConfig, CodecEncode,
              CodecChangeBuffers, Ended, frameVars, coreVars
<1>6. drawn' \in Time0 /\ submitted' \in Seq(Time0) /\ shown' \in Seq(Time0)
  <2>1. CASE UNCHANGED <<submitted, shown>> /\ (UNCHANGED drawn \/ drawn' = latched)
    BY <2>1 DEF TypeOK
  <2>2. CASE SwapBuffers
    <3>1. Head(frames) \in Time0
      BY <2>2, FrameInHand DEF SwapBuffers, ImagesInv
    <3> QED BY <2>2, <3>1, AppendProperties DEF SwapBuffers, TypeOK
  <2> QED BY <2>1, <2>2, NothingThrown
          DEF Next, EncoderThread, DrainEncoder, Codec, BeginFrame, BeginStop,
              DrainTryAgain, DrainBuffers, TakesFormat, TakesBuffer, ReleaseOutputBuffer, Draw,
              Release, Throw, PostFrame, CodecFormat, CodecConfig, CodecEncode,
              CodecChangeBuffers, Ended, frameVars, coreVars
<1>7. input' \in Seq(Time0)
  <2>1. CASE UNCHANGED input
    BY <2>1 DEF TypeOK
  <2>2. CASE BeginStop
    BY <2>2, AppendProperties, CoreConstants DEF BeginStop, TypeOK, Time0
  <2>3. CASE SwapBuffers
    <3>1. Head(frames) \in Time0
      BY <2>3, FrameInHand DEF SwapBuffers, ImagesInv
    <3>2. input' = Append(input, Head(frames))
      BY <2>3, <3>1, TimeHandled DEF SwapBuffers
    <3> QED BY <3>1, <3>2, AppendProperties DEF TypeOK
  <2>4. CASE CodecEncode
    <3>1. input' = Tail(input) \/ input' = <<>>
      BY <2>4 DEF CodecEncode
    <3> QED BY <2>4, <3>1, InputHead, EmptySeq DEF CodecEncode
  <2> QED BY <2>1, <2>2, <2>3, <2>4, NothingThrown
          DEF Next, EncoderThread, DrainEncoder, Codec, BeginFrame,
              DrainTryAgain, DrainBuffers, TakesFormat, TakesBuffer, ReleaseOutputBuffer, Draw,
              Release, Throw, PostFrame, CodecFormat, CodecConfig,
              CodecChangeBuffers, Ended, codecVars, coreVars
<1>8. written' \in Seq(Time0)
  <2>1. CASE UNCHANGED written
    BY <2>1 DEF TypeOK
  <2>2. CASE TakesBuffer
    <3>1. Head(output).frame \in Time0
      BY <2>2, OutputHead DEF TakesBuffer, Output
    <3> QED BY <2>2, <3>1, AppendProperties DEF TakesBuffer, TypeOK
  <2> QED BY <2>1, <2>2, NothingThrown
          DEF Next, EncoderThread, DrainEncoder, Codec, BeginFrame, BeginStop,
              DrainTryAgain, DrainBuffers, TakesFormat, Draw, SwapBuffers,
              Release, Throw, PostFrame, CodecFormat, CodecConfig, CodecEncode,
              CodecChangeBuffers, Ended, threadVars, coreVars
<1> QED BY <1>1, <1>2, <1>3, <1>4, <1>5, <1>6, <1>7, <1>8 DEF TypeOK
-----------------------------------------------------------------------------
(* The frames.                                                              *)

\* A place that counts.
LEMMA CountAt ==
    ASSUME NEW q, NEW W, NEW n \in Nat, NEW k \in 1..n, q[k] \in W
    PROVE  /\ Count(q, W, k) \in 1..Count(q, W, n)
           /\ Count(q, W, k) \in Nat /\ Count(q, W, n) \in Nat
<1>1. k - 1 \in Nat /\ (k - 1) + 1 = k /\ k \in 0..n
  BY SMT
<1>2. Count(q, W, k - 1) \in Nat /\ Count(q, W, (k - 1) + 1) = Count(q, W, k - 1) + 1
  BY <1>1, CountIsNat, CountNext
<1>3. Count(q, W, k) = Count(q, W, k - 1) + 1
  BY <1>1, <1>2
<1>4. Count(q, W, k) \in Nat /\ Count(q, W, n) \in Nat /\ Count(q, W, k) <= Count(q, W, n)
  BY <1>1, CountMonotone
<1> QED BY <1>2, <1>3, <1>4, SMT

\* The frames are what is in front of the end of the stream.
LEMMA InputFramesAre ==
    ASSUME TypeOK, EosInv
    PROVE  /\ InputFrames \in 0..Len(input) /\ Len(input) \in Nat
           /\ input # <<>> => Len(input) # 0
           /\ \A k \in 1..Len(input) : input[k] \in Nat /\ (input[k] # 0 <=> k <= InputFrames)
           /\ ~endOfStream => InputFrames = Len(input)
<1>1. input \in Seq(Time0) /\ Len(input) \in Nat
  BY LenProperties DEF TypeOK
<1>2. \A k \in 1..Len(input) : input[k] \in Nat
  BY <1>1, ElementOfSeq, CoreConstants, SMT DEF Time0
<1>3. input # <<>> => Len(input) \in Nat \ {0} /\ Len(input) \in 1..Len(input)
  BY <1>1, EmptySeq
<1>4. \A k \in 1..Len(input) : input[k] = 0 => k = Len(input) /\ endOfStream
  BY DEF EosInv
<1>5. CASE input # <<>> /\ input[Len(input)] = 0
  <2>1. InputFrames = Len(input) - 1 /\ endOfStream
    BY <1>3, <1>4, <1>5 DEF InputFrames
  <2>2. \A k \in 1..Len(input) : k <= Len(input) - 1 <=> k # Len(input)
    BY <1>1, SMT
  <2>3. Len(input) - 1 \in 0..Len(input)
    BY <1>3, <1>5, SMT
  <2> QED BY <1>1, <1>2, <1>3, <1>4, <1>5, <2>1, <2>2, <2>3
<1>6. CASE ~(input # <<>> /\ input[Len(input)] = 0)
  <2>1. InputFrames = Len(input)
    BY <1>6 DEF InputFrames
  <2>2. \A k \in 1..Len(input) : k <= Len(input) /\ input # <<>>
    BY <1>1, EmptySeq, SMT
  <2>3. \A k \in 1..Len(input) : input[k] # 0
    BY <1>4, <1>6, <2>2
  <2>4. Len(input) \in 0..Len(input)
    BY <1>1, SMT
  <2> QED BY <1>1, <1>2, <1>3, <2>1, <2>2, <2>3, <2>4
<1> QED BY <1>5, <1>6

\* The frames out of the codec and not yet in the file.
Out == Count(output, DataFrames, Len(output))

LEMMA FramesAre ==
    ASSUME TypeOK, FramesInv, EosInv
    PROVE  /\ Len(written) \in Nat /\ Out \in Nat /\ InputFrames \in Nat
           /\ Len(output) \in Nat /\ Len(submitted) \in Nat
           /\ Len(submitted) = Len(written) + Out + InputFrames
           /\ \A k \in 1..Len(written) : written[k] = submitted[k]
           /\ \A k \in 1..Len(output) : output[k] \in DataFrames =>
                  /\ Count(output, DataFrames, k) \in 1..Out
                  /\ output[k].frame = submitted[Len(written) + Count(output, DataFrames, k)]
           /\ \A k \in 1..InputFrames : input[k] = submitted[Len(written) + Out + k]
<1>1. Len(written) \in Nat /\ Len(output) \in Nat /\ Len(submitted) \in Nat
  BY LenProperties DEF TypeOK
<1>2. Out \in Nat /\ InputFrames \in Nat
  BY <1>1, CountIsNat, InputFramesAre, SMT DEF Out
<1>3. \A k \in 1..Len(output) : output[k] \in DataFrames =>
          Count(output, DataFrames, k) \in 1..Out
  BY <1>1, CountAt DEF Out
<1> QED BY <1>1, <1>2, <1>3 DEF FramesInv, Out

\* The codec puts out a frame that was in front, or something else.
LEMMA FramesPut ==
    ASSUME TypeOK, FramesInv, EosInv, NEW o \in Output, output' = Append(output, o),
           UNCHANGED <<written, submitted>>, InputFrames' \in Nat,
           \/ /\ o \notin DataFrames /\ InputFrames' = InputFrames
              /\ \A k \in 1..InputFrames : input'[k] = input[k]
           \/ /\ o \in DataFrames /\ InputFrames = InputFrames' + 1
              /\ o.frame = input[1]
              /\ \A k \in 1..InputFrames' : input'[k] = input[k + 1]
    PROVE  FramesInv'
<1> DEFINE n == Len(output)
           w == Len(written)
           i == InputFrames
           j == InputFrames'
           c == Count(output, DataFrames, n)
<1>1. /\ n \in Nat /\ Len(output') = n + 1 /\ output'[n + 1] = o
      /\ \A k \in 1..n : output'[k] = output[k]
  BY OutputPut
<1>2. /\ \A k \in 0..n : Count(output', DataFrames, k) = Count(output, DataFrames, k)
      /\ Count(output', DataFrames, n + 1) = IF o \in DataFrames THEN c + 1 ELSE c
  BY CountAppend DEF TypeOK
<1>3. /\ w \in Nat /\ c \in Nat /\ i \in Nat /\ j \in Nat /\ Len(submitted) = w + c + i
      /\ \A k \in 1..w : written[k] = submitted[k]
      /\ \A k \in 1..n : output[k] \in DataFrames =>
             output[k].frame = submitted[w + Count(output, DataFrames, k)]
      /\ \A k \in 1..i : input[k] = submitted[w + c + k]
  BY FramesAre DEF Out
<1>4. \A k \in 1..n + 1 : k \in 1..n \/ k = n + 1
  BY <1>1, SMT
<1>5. \A k \in 1..n : k \in 0..n
  BY <1>1, SMT
<1> DEFINE d == Count(output', DataFrames, n + 1)
<1>6. /\ Len(submitted) = w + d + j
      /\ o \in DataFrames => o.frame = submitted[w + d]
      /\ \A k \in 1..j : input'[k] = submitted[w + d + k]
  <2>1. CASE o \notin DataFrames
    BY <1>2, <1>3, <2>1
  <2>2. CASE o \in DataFrames
    <3>1. d = c + 1 /\ i = j + 1 /\ o.frame = input[1] /\ \A k \in 1..j : input'[k] = input[k + 1]
      BY <1>2, <2>2
    <3> HIDE DEF d, i, j, c, w
    <3>2. 1 \in 1..i /\ \A k \in 1..j : k + 1 \in 1..i
      BY <1>3, <3>1, SMT
    <3>3. o.frame = submitted[w + c + 1] /\ w + c + 1 = w + d
      BY <1>3, <3>1, <3>2, SMT
    <3>4. \A k \in 1..j : w + c + (k + 1) = w + d + k
      BY <1>3, <3>1, SMT
    <3>5. \A k \in 1..j : input'[k] = submitted[w + d + k]
      BY <1>3, <3>1, <3>2, <3>4
    <3>6. Len(submitted) = w + d + j
      BY <1>3, <3>1, SMT
    <3> QED BY <3>3, <3>5, <3>6
  <2> QED BY <2>1, <2>2
<1>7. \A k \in 1..n + 1 : output'[k] \in DataFrames =>
          output'[k].frame = submitted[w + Count(output', DataFrames, k)]
  BY <1>1, <1>2, <1>3, <1>4, <1>5, <1>6
<1> QED BY <1>1, <1>3, <1>6, <1>7 DEF FramesInv

\* The drain writes the frame in front, or takes something else.
LEMMA FramesTake ==
    ASSUME TypeOK, FramesInv, EosInv, output # <<>>, output' = Tail(output),
           UNCHANGED <<submitted, input>>,
           written' = IF Head(output) \in DataFrames
                      THEN Append(written, Head(output).frame) ELSE written
    PROVE  FramesInv'
<1> DEFINE n == Len(output)
           w == Len(written)
           i == InputFrames
           c == Count(output, DataFrames, n)
           h == IF Head(output) \in DataFrames THEN 1 ELSE 0
<1>1. /\ n \in Nat \ {0} /\ Len(output') = n - 1 /\ Head(output) = output[1]
      /\ \A k \in 1..n - 1 : output'[k] = output[k + 1]
      /\ output[1] \in Output
  BY OutputHead
<1>2. \A k \in 0..n - 1 : /\ Count(output', DataFrames, k) \in Nat
                          /\ Count(output, DataFrames, k + 1) = Count(output', DataFrames, k) + h
  <2> TAKE k \in 0..n - 1
  <2>1. /\ Count(output, DataFrames, k + 1) \in Nat /\ Count(output', DataFrames, k) \in Nat
        /\ Count(output, DataFrames, k + 1) =
               IF Head(output) \in DataFrames THEN Count(output', DataFrames, k) + 1
               ELSE Count(output', DataFrames, k)
    BY CountTail DEF TypeOK
  <2> QED BY <2>1
<1>3. /\ w \in Nat /\ c \in Nat /\ i \in Nat /\ Len(submitted) = w + c + i
      /\ \A k \in 1..w : written[k] = submitted[k]
      /\ \A k \in 1..n : output[k] \in DataFrames =>
             /\ Count(output, DataFrames, k) \in Nat
             /\ output[k].frame = submitted[w + Count(output, DataFrames, k)]
      /\ \A k \in 1..i : input[k] = submitted[w + c + k]
  <2>1. \A m : \A k \in 1..m : k \in Nat
    BY SMT
  <2> QED BY <2>1, FramesAre DEF Out
<1>4. 0 \in 0..n - 1 /\ n - 1 \in 0..n - 1 /\ (n - 1) + 1 = n /\ 1 \in 1..n /\ 0 + 1 = 1
      /\ \A k \in 1..n - 1 : k \in 0..n - 1 /\ k + 1 \in 1..n
  BY <1>1, SMT
<1>5. c = Count(output', DataFrames, n - 1) + h /\ Count(output', DataFrames, n - 1) \in Nat
  BY <1>2, <1>4
<1>6. Count(output, DataFrames, 1) = h
  <2>1. 1..0 = {}
    BY SMT
  <2>2. Count(output', DataFrames, 0) = 0
    BY <2>1, CountNone
  <2>3. Count(output, DataFrames, 0 + 1) = Count(output', DataFrames, 0) + h
    BY <1>2, <1>4
  <2> QED BY <1>4, <2>2, <2>3, SMT
<1>7. InputFrames' = i
  BY DEF InputFrames
<1>8. /\ Len(written') = w + h
      /\ \A k \in 1..w + h : written'[k] = submitted[k]
  <2>1. CASE Head(output) \in DataFrames
    <3>1. Head(output).frame = submitted[w + 1] /\ Head(output).frame \in Time0
      BY <1>1, <1>3, <1>4, <1>6, <2>1 DEF Output
    <3>2. /\ Len(written') = w + 1 /\ written'[w + 1] = submitted[w + 1]
          /\ \A k \in 1..w : written'[k] = submitted[k]
      BY <1>3, <2>1, <3>1, AppendProperties DEF TypeOK
    <3>3. \A k \in 1..w + 1 : k \in 1..w \/ k = w + 1
      BY <1>3, SMT
    <3> QED BY <2>1, <3>2, <3>3
  <2>2. CASE Head(output) \notin DataFrames
    BY <1>3, <2>2
  <2> QED BY <2>1, <2>2
<1> DEFINE d == Count(output', DataFrames, n - 1)
<1>9. h \in Nat
  OBVIOUS
<1> HIDE DEF h, c, d, w, i
<1>10. Len(submitted) = (w + h) + d + i
  BY <1>3, <1>5, <1>9, SMT DEF d
<1>11. \A k \in 1..i : input[k] = submitted[(w + h) + d + k]
  <2>1. \A k \in 1..i : w + c + k = (w + h) + d + k
    BY <1>3, <1>5, <1>9, SMT DEF d
  <2> QED BY <1>3, <2>1
<1>12. \A k \in 1..n - 1 : output'[k] \in DataFrames =>
           output'[k].frame = submitted[(w + h) + Count(output', DataFrames, k)]
  <2> TAKE k \in 1..n - 1
  <2> HAVE output'[k] \in DataFrames
  <2>1. output'[k] = output[k + 1] /\ k + 1 \in 1..n /\ k \in 0..n - 1
    BY <1>1, <1>4
  <2>2. /\ Count(output', DataFrames, k) \in Nat
        /\ Count(output, DataFrames, k + 1) = Count(output', DataFrames, k) + h
    BY <1>2, <2>1
  <2>3. output[k + 1].frame = submitted[w + Count(output, DataFrames, k + 1)]
    BY <1>3, <2>1
  <2>4. w + Count(output, DataFrames, k + 1) = (w + h) + Count(output', DataFrames, k)
    BY <1>3, <1>9, <2>2, SMT
  <2> QED BY <2>1, <2>3, <2>4
<1>13. /\ Len(submitted') = Len(written') + Count(output', DataFrames, Len(output')) + InputFrames'
       /\ \A k \in 1..Len(written') : written'[k] = submitted'[k]
       /\ \A k \in 1..Len(output') : output'[k] \in DataFrames =>
              output'[k].frame = submitted'[Len(written') + Count(output', DataFrames, k)]
       /\ \A k \in 1..InputFrames' :
              input'[k] = submitted'[Len(written') + Count(output', DataFrames, Len(output')) + k]
  BY <1>1, <1>7, <1>8, <1>10, <1>11, <1>12 DEF d
<1> QED BY <1>13 DEF FramesInv

LEMMA FramesSwap ==
    ASSUME TypeOK, FramesInv, EosInv, ImagesInv, SwapBuffers
    PROVE  FramesInv'
<1> DEFINE n == Len(output)
           w == Len(written)
           i == Len(input)
           c == Count(output, DataFrames, n)
           s == Len(submitted)
           time == Head(frames)
<1>1. time \in Time0 /\ time # 0 /\ ~endOfStream
  BY FrameInHand DEF SwapBuffers, ImagesInv, EosInv
<1>2. /\ submitted' = Append(submitted, time) /\ input' = Append(input, time)
      /\ UNCHANGED <<written, output>>
  BY <1>1, TimeHandled DEF SwapBuffers
<1>3. InputFrames = i
  BY <1>1, InputFramesAre
<1>4. /\ w \in Nat /\ c \in Nat /\ i \in Nat /\ s \in Nat /\ s = w + c + i
      /\ \A k \in 1..w : written[k] = submitted[k]
      /\ \A k \in 1..n : output[k] \in DataFrames =>
             /\ Count(output, DataFrames, k) \in 1..c
             /\ output[k].frame = submitted[w + Count(output, DataFrames, k)]
      /\ \A k \in 1..i : input[k] = submitted[w + c + k]
  BY <1>3, FramesAre DEF Out
<1>5. /\ Len(submitted') = s + 1 /\ submitted'[s + 1] = time
      /\ \A k \in 1..s : submitted'[k] = submitted[k]
      /\ Len(input') = i + 1 /\ input'[i + 1] = time
      /\ \A k \in 1..i : input'[k] = input[k]
  BY <1>1, <1>2, AppendProperties DEF TypeOK
<1>6. InputFrames' = i + 1
  BY <1>1, <1>5 DEF InputFrames
<1> HIDE DEF w, i, c, s, time
<1>7. /\ \A k \in 1..w : k \in 1..s
      /\ \A k \in 1..c : w + k \in 1..s
      /\ \A k \in 1..i : w + c + k \in 1..s
      /\ \A k \in 1..i + 1 : k \in 1..i \/ k = i + 1
      /\ w + c + (i + 1) = s + 1
  BY <1>4, SMT
<1>8. \A k \in 1..w : written[k] = submitted'[k]
  BY <1>4, <1>5, <1>7
<1>9. \A k \in 1..n : output[k] \in DataFrames =>
          output[k].frame = submitted'[w + Count(output, DataFrames, k)]
  BY <1>4, <1>5, <1>7
<1>10. \A k \in 1..i + 1 : input'[k] = submitted'[w + c + k]
  BY <1>4, <1>5, <1>7
<1>11. /\ Len(submitted') = Len(written') + Count(output', DataFrames, Len(output')) + InputFrames'
       /\ \A k \in 1..Len(written') : written'[k] = submitted'[k]
       /\ \A k \in 1..Len(output') : output'[k] \in DataFrames =>
              output'[k].frame = submitted'[Len(written') + Count(output', DataFrames, k)]
       /\ \A k \in 1..InputFrames' :
              input'[k] = submitted'[Len(written') + Count(output', DataFrames, Len(output')) + k]
  BY <1>2, <1>5, <1>6, <1>7, <1>8, <1>9, <1>10 DEF w, c
<1> QED BY <1>11 DEF FramesInv

LEMMA FramesEncode ==
    ASSUME TypeOK, FramesInv, EosInv, CodecEncode
    PROVE  FramesInv'
<1> DEFINE n == Len(input)
<1>1. /\ input # <<>> /\ UNCHANGED <<written, submitted>>
      /\ EncodesOne \/ EncodesLast
  BY Encodes DEF EncodesFrom, threadVars, frameVars
<1>2. /\ n \in Nat \ {0} /\ Head(input) = input[1] /\ input[1] \in Time0
      /\ Len(Tail(input)) = n - 1
      /\ \A k \in 1..n - 1 : Tail(input)[k] = input[k + 1]
      /\ Tail(input) \in Seq(Time0)
  BY <1>1, InputHead
<1>3. \A k \in 1..n : input[k] = 0 => k = n
  BY DEF EosInv
<1>4. InputFrames = IF input[n] = 0 THEN n - 1 ELSE n
  BY <1>1 DEF InputFrames
<1>5. 1 \in 1..n
  BY <1>2, SMT
<1>6. CASE EncodesOne
  <2>1. input' = Tail(input) /\ output' = Append(output, Encoded)
    BY <1>6 DEF EncodesOne
  <2>2. Encoded \in Output /\ Encoded.frame = input[1]
        /\ (Encoded \in DataFrames <=> input[1] # 0)
    BY <1>2, Kinds DEF Encoded
  <2>3. CASE n = 1
    <3>1. Len(input') = 0
      BY <1>2, <2>1, <2>3
    <3>2. input' = <<>> /\ InputFrames' = 0
      BY <1>2, <2>1, <3>1, EmptySeq DEF InputFrames
    <3>3. InputFrames = IF input[1] = 0 THEN 0 ELSE 1
      BY <1>4, <2>3
    <3>4. 1..0 = {}
      BY SMT
    <3> HIDE DEF n
    <3>5. CASE input[1] = 0
      BY <1>1, <2>1, <2>2, <3>2, <3>3, <3>4, <3>5, FramesPut
    <3>6. CASE input[1] # 0
      BY <1>1, <2>1, <2>2, <3>2, <3>3, <3>4, <3>6, FramesPut
    <3> QED BY <3>5, <3>6
  <2>4. CASE n # 1
    <3>1. n - 1 \in 1..n - 1 /\ n - 1 # 0 /\ (n - 1) + 1 = n
      BY <1>2, <2>4, SMT
    <3>2. Len(input') = n - 1 /\ input' # <<>> /\ input'[n - 1] = input[n]
      BY <1>2, <2>1, <3>1, EmptySeq
    <3>3. InputFrames' = IF input[n] = 0 THEN (n - 1) - 1 ELSE n - 1
      BY <3>2 DEF InputFrames
    <3> HIDE DEF n
    <3>4. InputFrames' \in 0..n - 1 /\ InputFrames = InputFrames' + 1
      <4>1. n \in Nat /\ n >= 2
        BY <1>2, <2>4, SMT
      <4>2. CASE input[n] = 0
        BY <1>4, <3>3, <4>1, <4>2, SMT
      <4>3. CASE input[n] # 0
        BY <1>4, <3>3, <4>1, <4>3, SMT
      <4> QED BY <4>2, <4>3
    <3>5. input[1] # 0
      BY <1>3, <1>5, <2>4
    <3>6. \A k \in 1..InputFrames' : input'[k] = input[k + 1]
      <4> DEFINE j == InputFrames'
      <4>1. j \in 0..n - 1
        BY <3>4
      <4> HIDE DEF j
      <4>2. \A k \in 1..j : k \in 1..n - 1
        BY <1>2, <4>1, SMT
      <4> QED BY <1>2, <2>1, <4>2 DEF j
    <3>7. InputFrames' \in Nat
      BY <1>2, <3>4, SMT
    <3> QED BY <1>1, <2>1, <2>2, <3>4, <3>5, <3>6, <3>7, FramesPut
  <2> QED BY <2>3, <2>4
<1>7. CASE EncodesLast
  <2> DEFINE o == Data(Head(input), TRUE)
  <2>1. n = 2 /\ input[2] = 0 /\ input' = <<>> /\ output' = Append(output, o)
    BY <1>7 DEF EncodesLast
  <2>2. input[1] # 0
    BY <1>3, <1>5, <2>1
  <2>3. o \in Output /\ o.frame = input[1] /\ o \in DataFrames
    BY <1>2, <2>2, Kinds
  <2>4. InputFrames = 1
    BY <1>4, <2>1
  <2>5. InputFrames' = 0
    BY <2>1, EmptySeq DEF InputFrames
  <2>6. 1..0 = {} /\ 0 \in Nat /\ 1 = 0 + 1
    BY SMT
  <2> HIDE DEF o
  <2> QED BY <1>1, <2>1, <2>3, <2>4, <2>5, <2>6, FramesPut
<1> QED BY <1>1, <1>6, <1>7

LEMMA FramesStep ==
    ASSUME TypeOK, BuffersInv, FormatInv, EosInv, FramesInv, ImagesInv, Next
    PROVE  FramesInv'
<1>1. InputFrames \in Nat
  BY FramesAre
<1>2. ASSUME UNCHANGED <<written, submitted, input, output>> PROVE FramesInv'
  BY <1>2 DEF FramesInv, InputFrames
<1>3. CASE BeginFrame \/ DrainTryAgain \/ Draw \/ Release \/ PostFrame \/ Ended
  BY <1>2, <1>3 DEF BeginFrame, DrainTryAgain, Draw, Release, Throw, PostFrame, Ended,
     coreVars, threadVars, frameVars, codecVars
<1>4. CASE BeginStop
  <2>1. input' = Append(input, 0) /\ UNCHANGED <<written, submitted, output>> /\ ~endOfStream
    BY <1>4 DEF BeginStop, frameVars, EosInv
  <2>2. InputFrames = Len(input) /\ Len(input) \in Nat
    BY <2>1, InputFramesAre
  <2>3. 0 \in Time0
    BY CoreConstants, SMT DEF Time0
  <2>4. /\ Len(input') = Len(input) + 1 /\ input'[Len(input) + 1] = 0 /\ input' # <<>>
        /\ \A k \in 1..Len(input) : input'[k] = input[k]
    BY <2>1, <2>3, AppendProperties DEF TypeOK
  <2>5. InputFrames' = Len(input)
    BY <2>2, <2>4 DEF InputFrames
  <2> QED BY <2>1, <2>2, <2>4, <2>5 DEF FramesInv
<1>5. CASE DrainBuffers
  <2>1. Head(output) \notin DataFrames
    BY <1>5 DEF DrainBuffers, Dequeues, DataFrames
  <2> QED BY <1>5, <2>1, FramesTake DEF DrainBuffers, Dequeues, frameVars
<1>6. CASE TakesFormat
  <2>1. Head(output) \notin DataFrames
    BY <1>6 DEF TakesFormat, Dequeues, DataFrames
  <2> QED BY <1>6, <2>1, FramesTake DEF TakesFormat, Dequeues, frameVars
<1>7. CASE TakesBuffer
  BY <1>7, FramesTake DEF TakesBuffer, ReleaseOutputBuffer, frameVars
<1>8. CASE SwapBuffers
  BY <1>8, FramesSwap
<1>9. ASSUME NEW what \in {"BUFFERS", "FORMAT", "CONFIG"},
             output' = Append(output, Status(what)), UNCHANGED <<written, submitted, input>>
      PROVE  FramesInv'
  <2>1. InputFrames' = InputFrames
    BY <1>9 DEF InputFrames
  <2> QED BY <1>1, <1>9, <2>1, FramesPut, Kinds
<1>10. CASE CodecFormat \/ CodecConfig \/ CodecChangeBuffers
  BY <1>9, <1>10 DEF CodecFormat, CodecConfig, CodecChangeBuffers, threadVars, frameVars
<1>11. CASE CodecEncode
  BY <1>11, FramesEncode
<1> QED BY <1>3, <1>4, <1>5, <1>6, <1>7, <1>8, <1>10, <1>11, NothingThrown
        DEF Next, EncoderThread, DrainEncoder, Codec
-----------------------------------------------------------------------------
(* The theorems.                                                            *)

LEMMA InitInv == Init => Inv
<1> SUFFICES ASSUME Init PROVE Inv
  OBVIOUS
<1>1. /\ input = <<>> /\ output = <<>> /\ frames = <<>> /\ submitted = <<>> /\ shown = <<>>
      /\ written = <<>> /\ free = OutputBuffers /\ latched = 0 /\ drawn = 0
      /\ at = "idle" /\ exception = "none" /\ endOfStream = FALSE /\ mMuxerStarted = FALSE
      /\ announced = "nothing" /\ buffers = 0 /\ generation = 0 /\ overtaken = FALSE
  BY DEF Init
<1>2. \A S : <<>> \in Seq(S)
  BY EmptySeq
<1>3. Len(<<>>) = 0
  BY EmptySeq
<1>4. 1..0 = {} /\ 1..0 - 1 = {}
  BY SMT
<1>5. 0 \in Time0 /\ OutputBuffers \in 0..OutputBuffers /\ 0 \in 0..MaxChanges
  BY CoreConstants, SMT DEF Time0
<1>6. TypeOK
  BY <1>1, <1>2, <1>5 DEF TypeOK, Exceptions
<1>7. \A W : Count(output, W, Len(output)) = 0
  BY <1>1, <1>3, <1>4, CountNone
<1>8. FreeInv
  BY <1>1, <1>7, CoreConstants DEF FreeInv
<1>9. FramesInv
  <2>1. InputFrames = 0 /\ Len(submitted) = 0 /\ Len(written) = 0 /\ Len(output) = 0
    BY <1>1, <1>3 DEF InputFrames
  <2> QED BY <1>4, <1>7, <2>1 DEF FramesInv
<1>10. BuffersInv /\ FormatInv
  BY <1>1, <1>3, <1>4 DEF BuffersInv, FormatInv, IsFormat
<1>11. EosInv
  BY <1>1, <1>3, <1>4 DEF EosInv
<1>12. ImagesInv
  BY <1>1, <1>3, <1>4 DEF ImagesInv
<1> QED BY <1>1, <1>6, <1>8, <1>9, <1>10, <1>11, <1>12 DEF Inv

\* How it ends: a file with a frame in it, or no data.
LEMMA EndStep ==
    ASSUME Inv, Next
    PROVE  /\ exception' \in {"none", "NoData"}
           /\ at' = "released" => written' # <<>>
           /\ exception' = "NoData" => written' = <<>> /\ at' = "release"
<1>1. CASE Release
  BY <1>1 DEF Inv, Release, Throw, Alive
<1>2. CASE PostFrame \/ Ended \/ CodecFormat \/ CodecConfig \/ CodecEncode \/ CodecChangeBuffers
  BY <1>2 DEF Inv, PostFrame, Ended, CodecFormat, CodecConfig, CodecEncode,
     CodecChangeBuffers, coreVars, threadVars
<1>3. CASE BeginFrame \/ BeginStop \/ DrainTryAgain \/ DrainBuffers \/ TakesFormat \/ TakesBuffer
           \/ Draw \/ SwapBuffers
  <2>1. exception' = "none" /\ at' # "released"
    BY <1>3 DEF Alive, Dequeues, BeginFrame, BeginStop, DrainTryAgain, DrainBuffers, TakesFormat,
       TakesBuffer, ReleaseOutputBuffer, Draw, SwapBuffers, AfterDrain
  <2> QED BY <2>1
<1> QED BY <1>1, <1>2, <1>3, NothingThrown DEF Inv, Next, EncoderThread, DrainEncoder, Codec

LEMMA InvHolds == Spec => []Inv
<1>1. Inv /\ [Next]_coreVars => Inv'
  <2> SUFFICES ASSUME Inv, [Next]_coreVars PROVE Inv'
    OBVIOUS
  <2>1. CASE Next
    <3>1. TypeOK /\ FreeInv /\ BuffersInv /\ FormatInv /\ EosInv /\ FramesInv /\ ImagesInv
      BY DEF Inv
    <3>2. at = "swap" => frames # <<>> /\ Head(frames) \in Time0 \ {0}
      BY <3>1, FrameInHand DEF ImagesInv
    <3>3. TypeOK' /\ FreeInv' /\ BuffersInv' /\ FormatInv'
      BY <2>1, <3>1, TypeStep, FreeStep, BuffersStep, FormatStep
    <3>4. EosInv' /\ FramesInv' /\ ImagesInv'
      BY <2>1, <3>1, <3>2, EosStep, FramesStep, ImagesStep
    <3> QED BY <2>1, <3>3, <3>4, EndStep DEF Inv
  <2>2. CASE UNCHANGED coreVars
    <3>1. UNCHANGED <<threadVars, codecVars, frameVars>>
      BY <2>2 DEF coreVars
    <3>2. TypeOK' /\ FreeInv' /\ BuffersInv' /\ FormatInv'
      BY <3>1 DEF threadVars, frameVars, codecVars, Inv, TypeOK, FreeInv, BuffersInv,
         FormatInv, IsFormat
    <3>3. EosInv' /\ FramesInv'
      BY <3>1 DEF threadVars, frameVars, codecVars, Inv, EosInv, FramesInv, InputFrames
    <3>4. ImagesInv'
      BY <3>1, ImagesSame DEF threadVars, Inv, ImagesInv
    <3> QED BY <3>1, <3>2, <3>3, <3>4 DEF threadVars, Inv
  <2> QED BY <2>1, <2>2
<1> QED BY <1>1, InitInv, PTL DEF Spec

\* The types of the recording: no queue of the codec overflows, and no time is made up.
THEOREM Typing == Spec => []TypeOK
<1>1. Inv => TypeOK
  BY DEF Inv
<1> QED BY <1>1, InvHolds, PTL

\* The exceptions of drainEncoder are never thrown, whatever the codec does and when.
THEOREM DrainsThrowNothing == Spec => []DrainNeverThrows
<1>1. Inv => DrainNeverThrows
  BY DEF Inv, DrainNeverThrows
<1> QED BY <1>1, InvHolds, PTL

\* A frame shows the image of its time, or a later one if the encoder thread fell
\* behind; neither the times nor the images of a movie go back.
THEOREM ImagesFollowTheTimes == Spec => []ImagesMatchTimes
<1>1. Inv => ImagesMatchTimes
  <2> SUFFICES ASSUME Inv PROVE ImagesMatchTimes
    OBVIOUS
  <2>1. ImagesInv /\ Len(shown) = Len(submitted) /\ DOMAIN shown = 1..Len(shown)
    BY LenProperties DEF Inv, TypeOK, ImagesInv
  <2> QED BY <2>1 DEF ImagesInv, Follows, ImagesMatchTimes
<1> QED BY <1>1, InvHolds, PTL

\* When it is released the file holds what was submitted: nothing is left on the way.
LEMMA NothingLeft ==
    ASSUME Inv, at = "release"
    PROVE  written = submitted
<1>1. TypeOK /\ EosInv /\ FramesInv /\ input = <<>>
      /\ \A k \in 1..Len(output) : output[k] \notin DataFrames
  BY DEF Inv, EosInv
<1>2. /\ Len(written) \in Nat /\ Out \in Nat /\ InputFrames \in Nat
      /\ Len(output) \in Nat /\ Len(submitted) \in Nat
      /\ Len(submitted) = Len(written) + Out + InputFrames
      /\ \A k \in 1..Len(written) : written[k] = submitted[k]
  BY <1>1, FramesAre
<1>3. Out = 0
  BY <1>1, <1>2, CountNone DEF Out
<1>4. InputFrames = 0
  BY <1>1, EmptySeq DEF InputFrames
<1>5. Len(written) = Len(submitted)
  BY <1>2, <1>3, <1>4, SMT
<1>6. written \in Seq(Time0) /\ submitted \in Seq(Time0)
  BY <1>1 DEF TypeOK
<1> QED BY <1>2, <1>5, <1>6, SeqEqual

\* The recording keeps its promise: every step is one of Recording's or changes
\* nothing that it speaks of.
THEOREM KeepsPromise == Spec => PromiseKept
<1>1. Init => Promise!RecordingInit
  BY DEF Init, Promise!RecordingInit
<1>2. Inv /\ [Next]_coreVars
          => [Promise!Submit \/ Promise!Save \/ Promise!Fail]_Promise!recordingVars
  <2> DEFINE file == IF at = "released" THEN written ELSE <<>>
             state == IF at = "released" THEN "saved"
                      ELSE IF exception = "NoData" THEN "failed" ELSE "recording"
  <2> SUFFICES ASSUME Inv, [Next]_coreVars
               PROVE  \/ Promise!Submit \/ Promise!Save \/ Promise!Fail
                      \/ UNCHANGED <<submitted, file, state>>
    BY DEF Promise!recordingVars
  <2>1. ASSUME UNCHANGED <<at, submitted, written, exception>>
        PROVE  UNCHANGED <<submitted, file, state>>
    BY <2>1
  <2>2. CASE BeginFrame \/ BeginStop \/ DrainTryAgain \/ DrainBuffers \/ TakesFormat
             \/ TakesBuffer \/ Draw
    <3>1. /\ at # "released" /\ at' # "released" /\ UNCHANGED <<submitted, exception>>
      BY <2>2 DEF BeginFrame, BeginStop, DrainTryAgain, DrainBuffers, Dequeues, TakesFormat,
         TakesBuffer, ReleaseOutputBuffer, AfterDrain, Draw, frameVars
    <3> QED BY <3>1
  <2>3. CASE PostFrame \/ Ended \/ CodecFormat \/ CodecConfig \/ CodecEncode
             \/ CodecChangeBuffers \/ UNCHANGED coreVars
    BY <2>1, <2>3 DEF PostFrame, Ended, CodecFormat, CodecConfig, CodecEncode,
       CodecChangeBuffers, coreVars, threadVars, frameVars
  <2>4. CASE SwapBuffers
    <3>1. Head(frames) \in Time0
      BY <2>4, FrameInHand DEF SwapBuffers, Inv, ImagesInv
    <3>2. state = "recording" /\ UNCHANGED <<file, state>>
          /\ submitted' = Append(submitted, Head(frames))
      BY <2>4 DEF SwapBuffers, Alive
    <3> QED BY <3>1, <3>2 DEF Promise!Submit
  <2>5. CASE Release
    <3>1. state = "recording" /\ UNCHANGED submitted /\ at = "release"
      BY <2>5 DEF Release, Throw, Alive, frameVars
    <3>2. written = submitted
      BY <3>1, NothingLeft
    <3>3. CASE written = <<>>
      <4>1. exception' = "NoData" /\ at' = "release"
        BY <2>5, <3>1, <3>3 DEF Release, Throw
      <4> QED BY <3>1, <3>2, <3>3, <4>1 DEF Promise!Fail
    <3>4. CASE written # <<>>
      <4>1. at' = "released" /\ written' = written
        BY <2>5, <3>4 DEF Release
      <4> QED BY <3>1, <3>2, <3>4, <4>1 DEF Promise!Save
    <3> QED BY <3>3, <3>4
  <2> QED BY <2>2, <2>3, <2>4, <2>5, NothingThrown
          DEF Inv, Next, EncoderThread, DrainEncoder, Codec
<1> QED BY <1>1, <1>2, InvHolds, PTL DEF Spec, PromiseKept, Promise!RecordingSpec
=============================================================================
