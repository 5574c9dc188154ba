--------------------------- MODULE FrameTimestamp ---------------------------
(***************************************************************************)
(* A frame's timestamp on its way to the encoder thread.  frameAvailable    *)
(* splits the long of SurfaceTexture into the two int arguments of a        *)
(* message, and handleMessage puts it together again.                        *)
(***************************************************************************)
EXTENDS Integers

CONSTANT
    Ints        \* the number of values of an int: 2^32 in the code

ASSUME TimestampAssumption == Ints \in Nat \ {0} /\ Ints % 2 = 0

Signed(values) == -(values \div 2) .. values \div 2 - 1
IntRange == Signed(Ints)
LongRange == Signed(Ints * Ints)

\* The value of x in a signed type with so many values.
Wrapped(x, values) ==
    LET low == x % values IN IF low < values \div 2 THEN low ELSE low - values
ToInt(x) == Wrapped(x, Ints)
ToLong(x) == Wrapped(x, Ints * Ints)

\* (int) (timestamp >> 32) and (int) timestamp
Arg1(timestamp) == ToInt(timestamp \div Ints)
Arg2(timestamp) == ToInt(timestamp)

\* Mutation: the low half is not masked, and its sign comes along.
JoinedUnmasked(arg1, arg2) == ToLong(arg1 * Ints + arg2)

\* (((long) arg1) << 32) | (((long) arg2) & 0xffffffffL)
Joined(arg1, arg2) == ToLong(arg1 * Ints + (arg2 % Ints))

\* A frame's timestamp when handleFrameAvailable gets it.
Handled(timestamp) == Joined(Arg1(timestamp), Arg2(timestamp))
=============================================================================
