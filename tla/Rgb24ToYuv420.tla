---------------------------- MODULE Rgb24ToYuv420 ----------------------------
(***************************************************************************)
(* RGB24ToYUV420 of media/tools.cpp, which AVSource::createYuvData uses for *)
(* its two planes of colour: a loop over the pixels with three pointers     *)
(* into the output.  The pointers are offsets into YuvBuffer, and a written *)
(* byte remembers the pixel it was computed from.                            *)
(***************************************************************************)
EXTENDS Integers

CONSTANTS
    Sizes,      \* widths and heights that are converted
    Levels      \* values of r, g and b

ASSUME ConversionAssumption == Sizes \subseteq Nat \ {0} /\ Levels \subseteq 0..255

VARIABLES
    nWidth, nHeight,    \* the picture
    colour,             \* <<r, g, b>> of its pixels, <<>> for a null RgbBuffer
    i, j,               \* the loop: column and row
    bufY, bufU, bufV,   \* where the next byte of each plane goes
    written             \* what has been written, by offset

picture == <<nWidth, nHeight, colour>>
vars == <<nWidth, nHeight, colour, i, j, bufY, bufU, bufV, written>>

NoPicture == <<>>
Area == nWidth * nHeight

\* mYuvSize of AVSource
BufferSize == (Area * 3) \div 2
-----------------------------------------------------------------------------
(* The colours.  >> 8 rounds down, and every result is an unsigned char.     *)

UChar(x) == x % 256
Luma(c) == UChar(UChar((66 * c[1] + 129 * c[2] + 25 * c[3] + 128) \div 256) + 16)
Cb(c) == UChar(UChar((-38 * c[1] - 74 * c[2] + 112 * c[3] + 128) \div 256) + 128)
Cr(c) == UChar(UChar((112 * c[1] - 94 * c[2] - 18 * c[3] + 128) \div 256) + 128)
-----------------------------------------------------------------------------
(* The loop.                                                                 *)

\* Rows are read from the last one up.
Pixel == <<i, nHeight - 1 - j>>
Byte(value) == [value |-> value, from |-> Pixel]

\* Mutation: planar output, the second plane after a quarter of the first.
InitPlanar ==
    /\ nWidth \in Sizes
    /\ nHeight \in Sizes
    /\ colour \in {NoPicture} \cup (Levels \X Levels \X Levels)
    /\ i = 0
    /\ j = 0
    /\ bufY = 0
    /\ bufU = Area
    /\ bufV = Area + Area \div 4
    /\ written = [o \in {} |-> 0]

Init ==
    /\ nWidth \in Sizes
    /\ nHeight \in Sizes
    /\ colour \in {NoPicture} \cup (Levels \X Levels \X Levels)
    /\ i = 0
    /\ j = 0
    /\ bufY = 0
    /\ bufU = Area
    /\ bufV = Area + 1
    /\ written = [o \in {} |-> 0]

Put(bytes) ==
    written' = [o \in DOMAIN written \cup DOMAIN bytes |->
                  IF o \in DOMAIN bytes THEN bytes[o] ELSE written[o]]

\* Mutation: a column too many in each row.
AdvanceTooFar ==
    IF i < nWidth THEN i' = i + 1 /\ UNCHANGED j ELSE i' = 0 /\ j' = j + 1

Advance ==
    IF i + 1 < nWidth THEN i' = i + 1 /\ UNCHANGED j ELSE i' = 0 /\ j' = j + 1

InLoop ==
    /\ colour # NoPicture
    /\ j < nHeight
    /\ bufY' = bufY + 1
    /\ Advance
    /\ UNCHANGED picture

\* Mutation: the sample is taken in every column.
ConvertRedOften ==
    /\ InLoop
    /\ j % 2 = 0
    /\ Put([o \in {bufY, bufU} |-> IF o = bufY THEN Byte(Luma(colour)) ELSE Byte(Cr(colour))])
    /\ bufU' = bufU + 2
    /\ UNCHANGED bufV

\* An even column of an even row: the red difference, u of the code.
ConvertRed ==
    /\ InLoop
    /\ j % 2 = 0 /\ i % 2 = 0
    /\ Put([o \in {bufY, bufU} |-> IF o = bufY THEN Byte(Luma(colour)) ELSE Byte(Cr(colour))])
    /\ bufU' = bufU + 2
    /\ UNCHANGED bufV

\* An even column of an odd row: the blue difference, v of the code.
ConvertBlue ==
    /\ InLoop
    /\ j % 2 # 0 /\ i % 2 = 0
    /\ Put([o \in {bufY, bufV} |-> IF o = bufY THEN Byte(Luma(colour)) ELSE Byte(Cb(colour))])
    /\ bufV' = bufV + 2
    /\ UNCHANGED bufU

\* An odd column.
ConvertLuma ==
    /\ InLoop
    /\ i % 2 # 0
    /\ Put([o \in {bufY} |-> Byte(Luma(colour))])
    /\ UNCHANGED <<bufU, bufV>>

Returned == (colour = NoPicture \/ j >= nHeight) /\ UNCHANGED vars

Next == ConvertRed \/ ConvertBlue \/ ConvertLuma \/ Returned

Spec == Init /\ [][Next]_vars
-----------------------------------------------------------------------------
(* Properties, for a picture of even sides, as the code's is.                *)

TypeOK ==
    /\ nWidth \in Sizes /\ nHeight \in Sizes
    /\ colour \in {NoPicture} \cup (Levels \X Levels \X Levels)
    /\ i \in 0..nWidth - 1
    /\ j \in 0..nHeight
    /\ bufY \in Nat /\ bufU \in Nat /\ bufV \in Nat

EvenSides == nWidth % 2 = 0 /\ nHeight % 2 = 0

\* The loop's pointers never leave a buffer of width * height * 3 / 2 bytes, the
\* mYuvSize that AVSource allocates.
WritesInBounds == EvenSides => DOMAIN written \subseteq 0..BufferSize - 1

\* The luma rows in order, upside down, then for each block of two by two pixels
\* its red difference and its blue difference: the NV21 of the function's comment.
\* The values are BT.601's, without unsigned char.
Nv21(o) ==
    LET r == colour[1]  g == colour[2]  b == colour[3]
        k == (o - Area) \div 2
        column == 2 * (k % (nWidth \div 2))
        row == 2 * (k \div (nWidth \div 2))
    IN  IF o < Area
        THEN [value |-> 16 + (66 * r + 129 * g + 25 * b + 128) \div 256,
              from |-> <<o % nWidth, nHeight - 1 - o \div nWidth>>]
        ELSE IF (o - Area) % 2 = 0
        THEN [value |-> 128 + (112 * r - 94 * g - 18 * b + 128) \div 256,
              from |-> <<column, nHeight - 1 - row>>]
        ELSE [value |-> 128 + (-38 * r - 74 * g + 112 * b + 128) \div 256,
              from |-> <<column, nHeight - 2 - row>>]

\* Every byte of the buffer is written, and with the right sample of the right pixel.
PictureComplete ==
    EvenSides /\ j = nHeight => written = [o \in 0..BufferSize - 1 |-> Nv21(o)]
=============================================================================
