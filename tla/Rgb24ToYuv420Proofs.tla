------------------------- MODULE Rgb24ToYuv420Proofs -------------------------
(***************************************************************************)
(* The conversion's arithmetic never wraps, its pointers stay inside the    *)
(* buffer, and together they write all of it, each byte with the sample of  *)
(* its pixel, for every picture of even sides.                              *)
(***************************************************************************)
EXTENDS Rgb24ToYuv420, TLAPS

\* The luma of every colour is what it is without unsigned char.
LEMMA LumaFits ==
    ASSUME NEW r \in 0..255, NEW g \in 0..255, NEW b \in 0..255
    PROVE  /\ Luma(<<r, g, b>>) = 16 + (66 * r + 129 * g + 25 * b + 128) \div 256
           /\ Luma(<<r, g, b>>) \in 16..235
<1> DEFINE x == 66 * r + 129 * g + 25 * b + 128
           q == x \div 256
<1>1. x \in Int /\ 0 <= x /\ x <= 56228
  BY SMT
<1> HIDE DEF x
<1>2. q \in Int /\ 0 <= q /\ q <= 219
  BY <1>1, SMT
<1>3. UChar(UChar(q) + 16) = 16 + q /\ 16 + q \in 16..235
  BY <1>2, SMT DEF UChar
<1> QED BY <1>3 DEF Luma, x

LEMMA CbFits ==
    ASSUME NEW r \in 0..255, NEW g \in 0..255, NEW b \in 0..255
    PROVE  /\ Cb(<<r, g, b>>) = 128 + (-38 * r - 74 * g + 112 * b + 128) \div 256
           /\ Cb(<<r, g, b>>) \in 16..240
<1> DEFINE x == -38 * r - 74 * g + 112 * b + 128
           q == x \div 256
<1>1. x \in Int /\ -28432 <= x /\ x <= 28688
  BY SMT
<1> HIDE DEF x
<1>2. q \in Int /\ -112 <= q /\ q <= 112
  BY <1>1, SMT
<1>3. UChar(UChar(q) + 128) = 128 + q /\ 128 + q \in 16..240
  BY <1>2, SMT DEF UChar
<1> QED BY <1>3 DEF Cb, x

LEMMA CrFits ==
    ASSUME NEW r \in 0..255, NEW g \in 0..255, NEW b \in 0..255
    PROVE  /\ Cr(<<r, g, b>>) = 128 + (112 * r - 94 * g - 18 * b + 128) \div 256
           /\ Cr(<<r, g, b>>) \in 16..240
<1> DEFINE x == 112 * r - 94 * g - 18 * b + 128
           q == x \div 256
<1>1. x \in Int /\ -28432 <= x /\ x <= 28688
  BY SMT
<1> HIDE DEF x
<1>2. q \in Int /\ -112 <= q /\ q <= 112
  BY <1>1, SMT
<1>3. UChar(UChar(q) + 128) = 128 + q /\ 128 + q \in 16..240
  BY <1>2, SMT DEF UChar
<1> QED BY <1>3 DEF Cr, x

\* No colour needs the clamps of the code, which could not help: unsigned char has
\* wrapped by then.
THEOREM ColoursNeverWrap ==
    \A r, g, b \in 0..255 :
        /\ Luma(<<r, g, b>>) = 16 + (66 * r + 129 * g + 25 * b + 128) \div 256
        /\ Cb(<<r, g, b>>) = 128 + (-38 * r - 74 * g + 112 * b + 128) \div 256
        /\ Cr(<<r, g, b>>) = 128 + (112 * r - 94 * g - 18 * b + 128) \div 256
        /\ Luma(<<r, g, b>>) \in 16..235
        /\ Cb(<<r, g, b>>) \in 16..240
        /\ Cr(<<r, g, b>>) \in 16..240
<1> TAKE r, g, b \in 0..255
<1>1. Luma(<<r, g, b>>) = 16 + (66 * r + 129 * g + 25 * b + 128) \div 256
      /\ Luma(<<r, g, b>>) \in 16..235
  BY LumaFits
<1>2. Cb(<<r, g, b>>) = 128 + (-38 * r - 74 * g + 112 * b + 128) \div 256
      /\ Cb(<<r, g, b>>) \in 16..240
  BY CbFits
<1>3. Cr(<<r, g, b>>) = 128 + (112 * r - 94 * g - 18 * b + 128) \div 256
      /\ Cr(<<r, g, b>>) \in 16..240
  BY CrFits
<1> QED BY <1>1, <1>2, <1>3
-----------------------------------------------------------------------------
(* Where the pointers are: the samples of the rows and columns behind.       *)

HalfWidth == nWidth \div 2
HalfHeight == nHeight \div 2
Blocks == HalfWidth * HalfHeight

\* Samples taken in this row so far, by a row of the parity that takes them.
Samples(takes) == IF takes THEN (i + 1) \div 2 ELSE 0

Pointers ==
    /\ bufY = nWidth * j + i
    /\ bufU = Area + 2 * (HalfWidth * ((j + 1) \div 2) + Samples(j % 2 = 0))
    /\ bufV = Area + 1 + 2 * (HalfWidth * (j \div 2) + Samples(j % 2 # 0))

Inv == TypeOK /\ WritesInBounds /\ (EvenSides => Pointers)

\* Positions in a table of rows and columns.
LEMMA InTable ==
    ASSUME NEW width \in Nat, NEW height \in Nat,
           NEW row \in 0..height - 1, NEW column \in 0..width - 1
    PROVE  width * row + column \in Nat /\ width * row + column < width * height
<1>1. width * row + column < width * (row + 1)
  BY SMT
<1>2. width * (row + 1) <= width * height
  BY SMT
<1> QED BY <1>1, <1>2, SMT

\* The buffer of a picture of even sides, in blocks.
LEMMA Sides ==
    ASSUME TypeOK, EvenSides
    PROVE  /\ HalfWidth \in Nat /\ nWidth = 2 * HalfWidth
           /\ HalfHeight \in Nat /\ nHeight = 2 * HalfHeight
           /\ Blocks \in Nat /\ Area = 4 * Blocks /\ BufferSize = 6 * Blocks
<1>1. nWidth \in Nat \ {0} /\ nHeight \in Nat \ {0}
  BY ConversionAssumption DEF TypeOK
<1>2. HalfWidth \in Nat /\ nWidth = 2 * HalfWidth
  BY <1>1, SMT DEF EvenSides, HalfWidth
<1>3. HalfHeight \in Nat /\ nHeight = 2 * HalfHeight
  BY <1>1, SMT DEF EvenSides, HalfHeight
<1>4. Blocks \in Nat /\ Area = 4 * Blocks
  BY <1>2, <1>3, SMT DEF Area, Blocks
<1>5. BufferSize = 6 * Blocks
  BY <1>4, SMT DEF BufferSize
<1> QED BY <1>2, <1>3, <1>4, <1>5

\* In the loop, each pointer that is written through is inside the buffer.
LEMMA PointersInside ==
    ASSUME TypeOK, EvenSides, Pointers, j < nHeight
    PROVE  /\ bufY \in 0..BufferSize - 1
           /\ j % 2 = 0 /\ i % 2 = 0 => bufU \in 0..BufferSize - 1
           /\ j % 2 # 0 /\ i % 2 = 0 => bufV \in 0..BufferSize - 1
<1>1. /\ HalfWidth \in Nat /\ nWidth = 2 * HalfWidth
      /\ HalfHeight \in Nat /\ nHeight = 2 * HalfHeight
      /\ Blocks \in Nat /\ Area = 4 * Blocks /\ BufferSize = 6 * Blocks
  BY Sides
<1>2. i \in 0..nWidth - 1 /\ j \in 0..nHeight - 1 /\ nWidth \in Nat /\ nHeight \in Nat
  BY <1>1, SMT DEF TypeOK
<1>3. bufY \in 0..BufferSize - 1
  <2>1. nWidth * j + i \in Nat /\ nWidth * j + i < nWidth * nHeight
    BY <1>2, InTable
  <2>2. bufY \in Nat /\ bufY < Area
    BY <2>1 DEF Pointers, Area
  <2> QED BY <1>1, <2>2, SMT
<1>4. ASSUME j % 2 = 0, i % 2 = 0
      PROVE  bufU \in 0..BufferSize - 1
  <2> DEFINE row == (j + 1) \div 2
             column == (i + 1) \div 2
  <2>1. row \in 0..HalfHeight - 1 /\ column \in 0..HalfWidth - 1
    BY <1>1, <1>2, <1>4, SMT
  <2>2. HalfWidth * row + column \in Nat /\ HalfWidth * row + column < Blocks
    BY <1>1, <2>1, InTable DEF Blocks
  <2>3. bufU = Area + 2 * (HalfWidth * row + column)
    BY <1>4 DEF Pointers, Samples
  <2> QED BY <1>1, <2>2, <2>3, SMT
<1>5. ASSUME j % 2 # 0, i % 2 = 0
      PROVE  bufV \in 0..BufferSize - 1
  <2> DEFINE row == j \div 2
             column == (i + 1) \div 2
  <2>1. row \in 0..HalfHeight - 1 /\ column \in 0..HalfWidth - 1
    BY <1>1, <1>2, <1>5, SMT
  <2>2. HalfWidth * row + column \in Nat /\ HalfWidth * row + column < Blocks
    BY <1>1, <2>1, InTable DEF Blocks
  <2>3. bufV = Area + 1 + 2 * (HalfWidth * row + column)
    BY <1>5 DEF Pointers, Samples
  <2> QED BY <1>1, <2>2, <2>3, SMT
<1> QED BY <1>3, <1>4, <1>5

\* The picture does not change.
LEMMA SameSides ==
    ASSUME UNCHANGED picture
    PROVE  /\ EvenSides' = EvenSides /\ Area' = Area /\ BufferSize' = BufferSize
           /\ HalfWidth' = HalfWidth
BY DEF picture, EvenSides, Area, BufferSize, HalfWidth

\* One step of the loop keeps the invariant.
LEMMA PixelInv ==
    ASSUME Inv, ConvertRed \/ ConvertBlue \/ ConvertLuma
    PROVE  Inv'
<1>1. /\ TypeOK /\ WritesInBounds /\ (EvenSides => Pointers)
      /\ InLoop /\ j < nHeight /\ UNCHANGED picture /\ Advance
  BY DEF Inv, ConvertRed, ConvertBlue, ConvertLuma, InLoop
<1>2. /\ nWidth \in Nat \ {0} /\ nHeight \in Nat \ {0}
      /\ i \in 0..nWidth - 1 /\ j \in 0..nHeight - 1
      /\ bufY \in Nat /\ bufU \in Nat /\ bufV \in Nat
  BY <1>1, ConversionAssumption, SMT DEF TypeOK
<1>3. i' \in 0..nWidth - 1 /\ j' \in 0..nHeight
  BY <1>1, <1>2, SMT DEF Advance
<1>4. bufY' \in Nat /\ bufU' \in Nat /\ bufV' \in Nat
  BY <1>2, SMT DEF ConvertRed, ConvertBlue, ConvertLuma, InLoop
<1>5. TypeOK'
  BY <1>1, <1>3, <1>4 DEF TypeOK, picture
<1>6. WritesInBounds'
  <2> SUFFICES ASSUME EvenSides
               PROVE  DOMAIN written' \subseteq 0..BufferSize - 1
    BY <1>1, SameSides DEF WritesInBounds
  <2>1. /\ bufY \in 0..BufferSize - 1
        /\ j % 2 = 0 /\ i % 2 = 0 => bufU \in 0..BufferSize - 1
        /\ j % 2 # 0 /\ i % 2 = 0 => bufV \in 0..BufferSize - 1
    BY <1>1, PointersInside
  <2>2. DOMAIN written \subseteq 0..BufferSize - 1
    BY <1>1 DEF WritesInBounds
  <2>3. CASE ConvertRed
    <3>1. DOMAIN written' = DOMAIN written \cup {bufY, bufU}
      BY <2>3, Zenon DEF ConvertRed, Put
    <3> QED BY <2>1, <2>2, <2>3, <3>1, Zenon DEF ConvertRed
  <2>4. CASE ConvertBlue
    <3>1. DOMAIN written' = DOMAIN written \cup {bufY, bufV}
      BY <2>4, Zenon DEF ConvertBlue, Put
    <3> QED BY <2>1, <2>2, <2>4, <3>1, Zenon DEF ConvertBlue
  <2>5. CASE ConvertLuma
    <3>1. DOMAIN written' = DOMAIN written \cup {bufY}
      BY <2>5, Zenon DEF ConvertLuma, Put
    <3> QED BY <2>1, <2>2, <3>1, Zenon
  <2> QED BY <2>3, <2>4, <2>5
<1>7. ASSUME EvenSides
      PROVE  Pointers'
  <2> DEFINE w == HalfWidth
  <2>1. w \in Nat /\ nWidth = 2 * w
    BY <1>1, <1>7, Sides
  <2>2. /\ bufY = nWidth * j + i
        /\ bufU = Area + 2 * (w * ((j + 1) \div 2) + Samples(j % 2 = 0))
        /\ bufV = Area + 1 + 2 * (w * (j \div 2) + Samples(j % 2 # 0))
    BY <1>1, <1>7 DEF Pointers
  <2>3. Area' = Area /\ w' = w /\ nWidth' = nWidth /\ bufY' = bufY + 1 /\ Area \in Nat
    BY <1>1, <1>2, SameSides, SMT DEF InLoop, picture, Area
  <2>4. SUFFICES /\ bufY' = nWidth * j' + i'
                 /\ bufU' = Area + 2 * (w * ((j' + 1) \div 2) + Samples(j % 2 = 0)')
                 /\ bufV' = Area + 1 + 2 * (w * (j' \div 2) + Samples(j % 2 # 0)')
    BY <2>3 DEF Pointers
  <2> HIDE DEF w
  <2>5. CASE i + 1 < nWidth
    <3>1. i' = i + 1 /\ j' = j
      BY <1>1, <2>5 DEF Advance
    <3>2. CASE ConvertRed
      BY <1>2, <2>1, <2>2, <2>3, <3>1, <3>2, SMT DEF ConvertRed, Samples
    <3>3. CASE ConvertBlue
      BY <1>2, <2>1, <2>2, <2>3, <3>1, <3>3, SMT DEF ConvertBlue, Samples
    <3>4. CASE ConvertLuma
      BY <1>2, <2>1, <2>2, <2>3, <3>1, <3>4, SMT DEF ConvertLuma, Samples
    <3> QED BY <3>2, <3>3, <3>4
  <2>6. CASE ~(i + 1 < nWidth)
    <3>1. i' = 0 /\ j' = j + 1 /\ i + 1 = nWidth
      BY <1>1, <1>2, <2>6, SMT DEF Advance
    <3>2. i % 2 # 0 /\ (i + 1) \div 2 = w
      BY <1>2, <2>1, <3>1, SMT
    <3>3. bufU' = bufU /\ bufV' = bufV
      BY <3>2 DEF ConvertRed, ConvertBlue, ConvertLuma
    <3>4. bufY' = nWidth * j' + i'
      BY <1>2, <2>2, <2>3, <3>1, SMT
    <3>5. Samples(j % 2 = 0)' = 0 /\ Samples(j % 2 # 0)' = 0
      BY <3>1, SMT DEF Samples
    <3>6. CASE j % 2 = 0
      <4>1. (j + 1) \div 2 = j \div 2 /\ (j' + 1) \div 2 = j \div 2 + 1 /\ j' \div 2 = j \div 2
            /\ j \div 2 \in Nat
        BY <1>2, <3>1, <3>6, SMT
      <4>2. w * (j \div 2 + 1) = w * (j \div 2) + w
        BY <2>1, <4>1, SMT
      <4>3. Samples(j % 2 = 0) = w /\ Samples(j % 2 # 0) = 0
        BY <3>2, <3>6 DEF Samples
      <4>4. bufU = Area + 2 * (w * (j \div 2) + w) /\ bufV = Area + 1 + 2 * (w * (j \div 2) + 0)
        BY <2>2, <4>1, <4>3
      <4> QED BY <3>3, <3>4, <3>5, <4>1, <4>2, <4>4, <2>1, <2>3, SMT
    <3>7. CASE j % 2 # 0
      <4>1. (j + 1) \div 2 = j \div 2 + 1 /\ (j' + 1) \div 2 = j \div 2 + 1 /\ j' \div 2 = j \div 2 + 1
            /\ j \div 2 \in Nat
        BY <1>2, <3>1, <3>7, SMT
      <4>2. w * (j \div 2 + 1) = w * (j \div 2) + w
        BY <2>1, <4>1, SMT
      <4>3. Samples(j % 2 = 0) = 0 /\ Samples(j % 2 # 0) = w
        BY <3>2, <3>7 DEF Samples
      <4>4. bufU = Area + 2 * (w * (j \div 2 + 1) + 0) /\ bufV = Area + 1 + 2 * (w * (j \div 2) + w)
        BY <2>2, <4>1, <4>3
      <4> QED BY <3>3, <3>4, <3>5, <4>1, <4>2, <4>4, <2>1, <2>3, SMT
    <3> QED BY <3>6, <3>7
  <2> QED BY <2>5, <2>6
<1> QED BY <1>5, <1>6, <1>7, <1>1, SameSides DEF Inv

LEMMA InitInv == Init => Inv
<1> SUFFICES ASSUME Init PROVE Inv
  OBVIOUS
<1>1. nWidth \in Nat \ {0} /\ nHeight \in Nat \ {0}
  BY ConversionAssumption DEF Init
<1>2. Area \in Nat
  BY <1>1, SMT DEF Area
<1>3. TypeOK
  BY <1>1, <1>2, SMT DEF Init, TypeOK
<1>4. WritesInBounds
  BY DEF Init, WritesInBounds
<1>5. ASSUME EvenSides
      PROVE  Pointers
  <2>1. HalfWidth \in Nat
    BY <1>3, <1>5, Sides
  <2>2. i = 0 /\ j = 0 /\ bufY = 0 /\ bufU = Area /\ bufV = Area + 1
    BY DEF Init
  <2>3. HalfWidth * 0 = 0 /\ nWidth * 0 = 0
    BY <1>1, <2>1, SMT
  <2>4. (j + 1) \div 2 = 0 /\ j \div 2 = 0 /\ (i + 1) \div 2 = 0
    BY <2>2, SMT
  <2>5. Samples(j % 2 = 0) = 0 /\ Samples(j % 2 # 0) = 0
    BY <2>4 DEF Samples
  <2> QED BY <1>2, <2>2, <2>3, <2>4, <2>5, SMT DEF Pointers
<1> QED BY <1>3, <1>4, <1>5 DEF Inv

LEMMA InvHolds == Spec => []Inv
<1>1. Inv /\ [Next]_vars => Inv'
  <2> SUFFICES ASSUME Inv, [Next]_vars PROVE Inv'
    OBVIOUS
  <2>1. CASE ConvertRed \/ ConvertBlue \/ ConvertLuma
    BY <2>1, PixelInv
  <2>2. CASE UNCHANGED vars
    BY <2>2 DEF vars, Inv, TypeOK, WritesInBounds, EvenSides, Pointers, Samples, Area,
                BufferSize, HalfWidth
  <2> QED BY <2>1, <2>2 DEF Next, Returned
<1> QED BY InitInv, <1>1, PTL DEF Spec

\* The pointers stay inside the buffer for every even width and height.
THEOREM InBounds == Spec => []WritesInBounds
<1>1. Inv => WritesInBounds
  BY DEF Inv
<1> QED BY InvHolds, <1>1, PTL
-----------------------------------------------------------------------------
(* What is written: the offsets behind each pointer, each with its sample.   *)

Done ==
    {o \in Nat : \/ o < bufY
                 \/ Area <= o /\ o < bufU /\ (o - Area) % 2 = 0
                 \/ Area <= o /\ o < bufV /\ (o - Area) % 2 = 1}

WrittenInv ==
    /\ Inv
    /\ j = nHeight => i = 0
    /\ EvenSides => written = [o \in Done |-> Nv21(o)]

\* Where a position in a table of rows and columns is.
LEMMA RowAndColumn ==
    ASSUME NEW w \in Nat \ {0}, NEW row \in Nat, NEW column \in 0..w - 1
    PROVE  (w * row + column) \div w = row /\ (w * row + column) % w = column
<1> DEFINE a == w * row + column
           q == a \div w
           r == a % w
<1>1. a \in Nat
  BY SMT
<1>2. q \in Nat /\ r \in 0..w - 1 /\ a = w * q + r
  <2> HIDE DEF a
  <2> QED BY <1>1, SMT
<1> HIDE DEF q, r
<1>3. q = row
  <2>1. ~(q < row)
    <3> SUFFICES ASSUME q + 1 <= row PROVE FALSE
      BY <1>2, SMT
    <3>1. w * (q + 1) <= w * row
      BY <1>2, SMT
    <3>2. w * (q + 1) = w * q + w /\ w * q \in Nat /\ w * row \in Nat
      BY <1>2, SMT
    <3> QED BY <1>2, <3>1, <3>2, SMT
  <2>2. ~(row < q)
    <3> SUFFICES ASSUME row + 1 <= q PROVE FALSE
      BY <1>2, SMT
    <3>1. w * (row + 1) <= w * q
      BY <1>2, SMT
    <3>2. w * (row + 1) = w * row + w /\ w * q \in Nat /\ w * row \in Nat
      BY <1>2, SMT
    <3> QED BY <1>2, <3>1, <3>2, SMT
  <2> QED BY <1>2, <2>1, <2>2, SMT
<1>4. r = column
  <2>1. w * row \in Nat
    BY SMT
  <2> QED BY <1>2, <1>3, <2>1, SMT
<1> QED BY <1>3, <1>4 DEF q, r

\* The colours of a picture are as NV21 has them.
LEMMA ColourFits ==
    ASSUME TypeOK, colour # NoPicture
    PROVE  LET r == colour[1]  g == colour[2]  b == colour[3]
           IN  /\ Luma(colour) = 16 + (66 * r + 129 * g + 25 * b + 128) \div 256
               /\ Cb(colour) = 128 + (-38 * r - 74 * g + 112 * b + 128) \div 256
               /\ Cr(colour) = 128 + (112 * r - 94 * g - 18 * b + 128) \div 256
<1>1. colour \in Levels \X Levels \X Levels
  BY DEF TypeOK
<1>2. PICK r \in Levels, g \in Levels, b \in Levels : colour = <<r, g, b>>
  BY <1>1
<1>3. r \in 0..255 /\ g \in 0..255 /\ b \in 0..255
  BY ConversionAssumption
<1>4. /\ Luma(<<r, g, b>>) = 16 + (66 * r + 129 * g + 25 * b + 128) \div 256
      /\ Luma(<<r, g, b>>) \in 16..235
  BY <1>3, LumaFits
<1>5. /\ Cb(<<r, g, b>>) = 128 + (-38 * r - 74 * g + 112 * b + 128) \div 256
      /\ Cb(<<r, g, b>>) \in 16..240
  BY <1>3, CbFits
<1>6. /\ Cr(<<r, g, b>>) = 128 + (112 * r - 94 * g - 18 * b + 128) \div 256
      /\ Cr(<<r, g, b>>) \in 16..240
  BY <1>3, CrFits
<1>7. colour[1] = r /\ colour[2] = g /\ colour[3] = b
  BY <1>2
<1> QED BY <1>2, <1>4, <1>5, <1>6, <1>7, Zenon

\* The loop's sample for each pointer is the one NV21 wants there.
LEMMA SamplesFit ==
    ASSUME TypeOK, EvenSides, Pointers, colour # NoPicture, j < nHeight
    PROVE  /\ Byte(Luma(colour)) = Nv21(bufY)
           /\ j % 2 = 0 /\ i % 2 = 0 => Byte(Cr(colour)) = Nv21(bufU)
           /\ j % 2 # 0 /\ i % 2 = 0 => Byte(Cb(colour)) = Nv21(bufV)
<1> DEFINE w == nWidth \div 2
<1>1. /\ w \in Nat \ {0} /\ nWidth = 2 * w /\ w = HalfWidth /\ Area \in Nat
      /\ i \in 0..nWidth - 1 /\ j \in 0..nHeight - 1 /\ nHeight \in Nat /\ nWidth \in Nat \ {0}
  <2>1. /\ HalfWidth \in Nat /\ nWidth = 2 * HalfWidth /\ Area = 4 * Blocks /\ Blocks \in Nat
    BY Sides
  <2>2. nWidth \in Nat \ {0} /\ nHeight \in Nat \ {0}
    BY ConversionAssumption DEF TypeOK
  <2> QED BY <2>1, <2>2, SMT DEF TypeOK, HalfWidth
<1> HIDE DEF w
<1>2. Byte(Luma(colour)) = Nv21(bufY)
  <2>1. bufY = nWidth * j + i /\ bufY < Area
    BY <1>1, InTable DEF Pointers, Area
  <2>2. bufY \div nWidth = j /\ bufY % nWidth = i
    BY <1>1, <2>1, RowAndColumn
  <2> QED BY <2>1, <2>2, ColourFits DEF Nv21, Byte, Pixel
<1>3. ASSUME j % 2 = 0, i % 2 = 0
      PROVE  Byte(Cr(colour)) = Nv21(bufU)
  <2> DEFINE row == (j + 1) \div 2
             column == (i + 1) \div 2
             k == w * row + column
  <2>1. row \in Nat /\ column \in 0..w - 1 /\ 2 * row = j /\ 2 * column = i
    BY <1>1, <1>3, SMT
  <2> HIDE DEF row, column
  <2>2. k \div w = row /\ k % w = column /\ k \in Nat
    BY <1>1, <2>1, RowAndColumn
  <2>3. bufU = Area + 2 * k
    BY <1>1, <1>3 DEF Pointers, Samples, row, column
  <2> HIDE DEF k
  <2>4. ~(bufU < Area) /\ (bufU - Area) % 2 = 0 /\ (bufU - Area) \div 2 = k
    BY <1>1, <2>2, <2>3, SMT
  <2> QED BY <2>1, <2>2, <2>4, ColourFits DEF Nv21, Byte, Pixel, w
<1>4. ASSUME j % 2 # 0, i % 2 = 0
      PROVE  Byte(Cb(colour)) = Nv21(bufV)
  <2> DEFINE row == j \div 2
             column == (i + 1) \div 2
             k == w * row + column
  <2>1. row \in Nat /\ column \in 0..w - 1 /\ nHeight - 2 - 2 * row = nHeight - 1 - j /\ 2 * column = i
    BY <1>1, <1>4, SMT
  <2> HIDE DEF row, column
  <2>2. k \div w = row /\ k % w = column /\ k \in Nat
    BY <1>1, <2>1, RowAndColumn
  <2>3. bufV = Area + 1 + 2 * k
    BY <1>1, <1>4 DEF Pointers, Samples, row, column
  <2> HIDE DEF k
  <2>4. ~(bufV < Area) /\ (bufV - Area) % 2 # 0 /\ (bufV - Area) \div 2 = k
    BY <1>1, <2>2, <2>3, SMT
  <2> QED BY <2>1, <2>2, <2>4, ColourFits DEF Nv21, Byte, Pixel, w
<1> QED BY <1>2, <1>3, <1>4

\* What a step adds to Done, by the pointers it moves.
LEMMA DoneGrows ==
    ASSUME TypeOK, EvenSides, Pointers, ConvertRed \/ ConvertBlue \/ ConvertLuma
    PROVE  /\ ConvertRed => Done' = Done \cup {bufY, bufU}
           /\ ConvertBlue => Done' = Done \cup {bufY, bufV}
           /\ ConvertLuma => Done' = Done \cup {bufY}
<1>1. /\ bufY \in Nat /\ Area \in Nat /\ bufY' = bufY + 1 /\ Area' = Area
  <2>1. Area = 4 * Blocks /\ Blocks \in Nat
    BY Sides
  <2>2. UNCHANGED picture /\ bufY' = bufY + 1
    BY DEF ConvertRed, ConvertBlue, ConvertLuma, InLoop
  <2>3. Area' = Area
    BY <2>2, SameSides
  <2>4. bufY \in Nat
    BY DEF TypeOK
  <2> QED BY <2>1, <2>2, <2>3, <2>4, SMT
<1>2. PICK u \in Nat : bufU = Area + 2 * u
  <2> DEFINE u == HalfWidth * ((j + 1) \div 2) + Samples(j % 2 = 0)
  <2>1. HalfWidth \in Nat /\ (j + 1) \div 2 \in Nat /\ (i + 1) \div 2 \in Nat
    BY Sides, ConversionAssumption, SMT DEF TypeOK
  <2>2. Samples(j % 2 = 0) \in Nat /\ HalfWidth * ((j + 1) \div 2) \in Nat
    BY <2>1, SMT DEF Samples
  <2>3. u \in Nat
    BY <2>2, SMT
  <2> QED BY <2>3 DEF Pointers
<1>3. PICK v \in Nat : bufV = Area + 1 + 2 * v
  <2> DEFINE v == HalfWidth * (j \div 2) + Samples(j % 2 # 0)
  <2>1. HalfWidth \in Nat /\ j \div 2 \in Nat /\ (i + 1) \div 2 \in Nat
    BY Sides, ConversionAssumption, SMT DEF TypeOK
  <2>2. Samples(j % 2 # 0) \in Nat /\ HalfWidth * (j \div 2) \in Nat
    BY <2>1, SMT DEF Samples
  <2>3. v \in Nat
    BY <2>2, SMT
  <2> QED BY <2>3 DEF Pointers
<1>4. ASSUME NEW o \in Nat, Area <= o
      PROVE  /\ o < bufU + 2 /\ (o - Area) % 2 = 0 <=> o = bufU \/ (o < bufU /\ (o - Area) % 2 = 0)
             /\ o < bufV + 2 /\ (o - Area) % 2 = 1 <=> o = bufV \/ (o < bufV /\ (o - Area) % 2 = 1)
  BY <1>1, <1>2, <1>3, <1>4, SMT
<1>5. /\ bufU \in Nat /\ bufV \in Nat /\ Area <= bufU /\ Area <= bufV
  BY <1>1, <1>2, <1>3, SMT
<1>6. ASSUME NEW o \in Nat
      PROVE  o < bufY' <=> o = bufY \/ o < bufY
  BY <1>1, SMT
<1>7. CASE ConvertRed
  <2>1. bufU' = bufU + 2 /\ bufV' = bufV /\ ~ConvertBlue /\ ~ConvertLuma
    BY <1>7 DEF ConvertRed, ConvertBlue, ConvertLuma
  <2> QED BY <1>1, <1>4, <1>5, <1>6, <2>1 DEF Done
<1>8. CASE ConvertBlue
  <2>1. bufV' = bufV + 2 /\ bufU' = bufU /\ ~ConvertRed /\ ~ConvertLuma
    BY <1>8 DEF ConvertRed, ConvertBlue, ConvertLuma
  <2> QED BY <1>1, <1>4, <1>5, <1>6, <2>1 DEF Done
<1>9. CASE ConvertLuma
  <2>1. bufU' = bufU /\ bufV' = bufV /\ ~ConvertRed /\ ~ConvertBlue
    BY <1>9 DEF ConvertRed, ConvertBlue, ConvertLuma
  <2> QED BY <1>1, <1>6, <2>1 DEF Done
<1> QED BY <1>7, <1>8, <1>9

\* The bytes of a step join what is written.
LEMMA BytesPut ==
    ASSUME NEW S, NEW bytes, bytes = [o \in S |-> Nv21(o)], written = [o \in Done |-> Nv21(o)],
           UNCHANGED picture, Put(bytes), Done' = Done \cup S
    PROVE  written' = [o \in Done' |-> Nv21(o)']
<1>1. DOMAIN bytes = S /\ DOMAIN written = Done
  OBVIOUS
<1>2. ASSUME NEW o
      PROVE  Nv21(o)' = Nv21(o)
  BY DEF picture, Nv21, Area
<1>3. written' = [o \in Done' |-> IF o \in S THEN bytes[o] ELSE written[o]]
  BY <1>1 DEF Put
<1>4. ASSUME NEW o \in Done'
      PROVE  (IF o \in S THEN bytes[o] ELSE written[o]) = Nv21(o)'
  BY <1>2
<1> QED BY <1>3, <1>4

\* One step of the loop.
LEMMA PixelWritten ==
    ASSUME WrittenInv, ConvertRed \/ ConvertBlue \/ ConvertLuma
    PROVE  WrittenInv'
<1>1. /\ TypeOK /\ InLoop /\ j < nHeight /\ colour # NoPicture /\ UNCHANGED picture
  BY DEF WrittenInv, Inv, ConvertRed, ConvertBlue, ConvertLuma, InLoop
<1>2. Inv'
  BY PixelInv DEF WrittenInv
<1>3. j' = nHeight' => i' = 0
  <2>1. nHeight' = nHeight /\ nHeight \in Nat /\ j \in Nat
    BY <1>1, ConversionAssumption, SMT DEF picture, TypeOK
  <2> QED BY <1>1, <2>1, SMT DEF InLoop, Advance
<1>4. ASSUME EvenSides
      PROVE  written' = [o \in Done' |-> Nv21(o)']
  <2>1. Pointers /\ written = [o \in Done |-> Nv21(o)]
    BY <1>4 DEF WrittenInv, Inv
  <2>2. /\ Byte(Luma(colour)) = Nv21(bufY)
        /\ j % 2 = 0 /\ i % 2 = 0 => Byte(Cr(colour)) = Nv21(bufU)
        /\ j % 2 # 0 /\ i % 2 = 0 => Byte(Cb(colour)) = Nv21(bufV)
    BY <1>1, <1>4, <2>1, SamplesFit
  <2>3. /\ ConvertRed => Done' = Done \cup {bufY, bufU}
        /\ ConvertBlue => Done' = Done \cup {bufY, bufV}
        /\ ConvertLuma => Done' = Done \cup {bufY}
    BY <1>1, <1>4, <2>1, DoneGrows
  <2>4. CASE ConvertRed
    <3> DEFINE bytes == [o \in {bufY, bufU} |-> IF o = bufY THEN Byte(Luma(colour)) ELSE Byte(Cr(colour))]
    <3>1. Put(bytes) /\ j % 2 = 0 /\ i % 2 = 0
      BY <2>4 DEF ConvertRed
    <3>2. bytes = [o \in {bufY, bufU} |-> Nv21(o)]
      BY <2>2, <3>1
    <3> HIDE DEF bytes
    <3> QED BY <1>1, <2>1, <2>3, <2>4, <3>1, <3>2, BytesPut
  <2>5. CASE ConvertBlue
    <3> DEFINE bytes == [o \in {bufY, bufV} |-> IF o = bufY THEN Byte(Luma(colour)) ELSE Byte(Cb(colour))]
    <3>1. Put(bytes) /\ j % 2 # 0 /\ i % 2 = 0
      BY <2>5 DEF ConvertBlue
    <3>2. bytes = [o \in {bufY, bufV} |-> Nv21(o)]
      BY <2>2, <3>1
    <3> HIDE DEF bytes
    <3> QED BY <1>1, <2>1, <2>3, <2>5, <3>1, <3>2, BytesPut
  <2>6. CASE ConvertLuma
    <3> DEFINE bytes == [o \in {bufY} |-> Byte(Luma(colour))]
    <3>1. Put(bytes)
      BY <2>6 DEF ConvertLuma
    <3>2. bytes = [o \in {bufY} |-> Nv21(o)]
      BY <2>2
    <3> HIDE DEF bytes
    <3> QED BY <1>1, <2>1, <2>3, <2>6, <3>1, <3>2, BytesPut
  <2> QED BY <2>4, <2>5, <2>6
<1> QED BY <1>1, <1>2, <1>3, <1>4, SameSides DEF WrittenInv

\* At the end the pointers have gone over the whole buffer.
LEMMA AllDone ==
    ASSUME TypeOK, EvenSides, Pointers, j = nHeight, i = 0
    PROVE  Done = 0..BufferSize - 1
<1>1. /\ HalfWidth \in Nat /\ nWidth = 2 * HalfWidth
      /\ HalfHeight \in Nat /\ nHeight = 2 * HalfHeight
      /\ Blocks \in Nat /\ Area = 4 * Blocks /\ BufferSize = 6 * Blocks
  BY Sides
<1>2. bufY = Area
  BY <1>1, SMT DEF Pointers, Area
<1>3. (j + 1) \div 2 = HalfHeight /\ j \div 2 = HalfHeight /\ (i + 1) \div 2 = 0
  BY <1>1, SMT
<1>4. Samples(j % 2 = 0) = 0 /\ Samples(j % 2 # 0) = 0
  BY <1>3 DEF Samples
<1>5. bufU = Area + 2 * Blocks /\ bufV = Area + 1 + 2 * Blocks
  BY <1>1, <1>3, <1>4 DEF Pointers, Blocks
<1>6. ASSUME NEW o \in Nat
      PROVE  o < BufferSize <=> \/ o < bufY
                                \/ Area <= o /\ o < bufU /\ (o - Area) % 2 = 0
                                \/ Area <= o /\ o < bufV /\ (o - Area) % 2 = 1
  BY <1>1, <1>2, <1>5, SMT
<1>7. 0..BufferSize - 1 = {o \in Nat : o < BufferSize}
  BY <1>1, SMT
<1> QED BY <1>6, <1>7 DEF Done

LEMMA WrittenInit == Init => WrittenInv
<1> SUFFICES ASSUME Init PROVE WrittenInv
  OBVIOUS
<1>1. Inv /\ TypeOK
  BY InitInv DEF Inv
<1>2. j = nHeight => i = 0
  BY DEF Init
<1>3. Area \in Nat
  BY <1>1, ConversionAssumption, SMT DEF Area, TypeOK
<1>4. Done = {}
  BY <1>3, SMT DEF Init, Done
<1>5. written = [o \in Done |-> Nv21(o)]
  BY <1>4 DEF Init
<1> QED BY <1>1, <1>2, <1>5 DEF WrittenInv

LEMMA WrittenSame == WrittenInv /\ UNCHANGED vars => WrittenInv'
BY DEF vars, WrittenInv, Inv, TypeOK, WritesInBounds, EvenSides, Pointers, Samples, Area,
       BufferSize, HalfWidth, Done, Nv21

LEMMA WrittenHolds == Spec => []WrittenInv
<1>1. WrittenInv /\ [Next]_vars => WrittenInv'
  BY PixelWritten, WrittenSame DEF Next, Returned
<1> QED BY WrittenInit, <1>1, PTL DEF Spec

LEMMA WrittenIsComplete == WrittenInv => WritesInBounds /\ PictureComplete
BY AllDone DEF WrittenInv, Inv, PictureComplete

\* When the loop ends, every byte of a picture of even sides is there, with the sample
\* that NV21 has in its place.
THEOREM PictureIsComplete == Spec => []PictureComplete
BY WrittenIsComplete, WrittenHolds, PTL
=============================================================================
