---------------------------- MODULE FramingProofs ----------------------------
(* Each side takes from its stream exactly the frames that were sent, for    *)
(* any payloads, any way the stream is cut, and any end it comes to.         *)
EXTENDS Framing, SequenceTheorems, TLAPS

Bytes == Seq(Byte)

\* The numbers ">I" and ">H" can pack
Packed(n) == n \in Nat /\ n \div 65536 < 65536
Small(n) == n \in Nat /\ n < 65536

-----------------------------------------------------------------------------
(* Sequences of bytes.  The operators are named so that a proof can use what *)
(* is known of them, and the provers need not look into sequences.           *)

s ++ t == s \o t
Size(s) == Len(s)
One(x) == <<x>>
Front(s, k) == SubSeq(s, 1, k)
Rest(s, k) == SubSeq(s, k + 1, Len(s))

LEMMA EmptyBytes ==
  /\ <<>> \in Bytes /\ Size(<<>>) = 0
  /\ \A s \in Bytes : Size(s) \in Nat /\ s ++ <<>> = s /\ <<>> ++ s = s /\ (Size(s) = 0 => s = <<>>)
  BY EmptySeq, ConcatEmptySeq, LenProperties DEF Bytes, ++, Size

LEMMA OneByte == \A x \in Byte : One(x) \in Bytes /\ Size(One(x)) = 1
  BY DEF Bytes, One, Size

LEMMA OneIs == \A x, y : One(x) = One(y) => x = y
  BY DEF One

LEMMA Joins == \A s, t \in Bytes : s ++ t \in Bytes /\ Size(s ++ t) = Size(s) + Size(t)
  BY ConcatProperties DEF Bytes, ++, Size

LEMMA Assoc == \A s, t, u \in Bytes : (s ++ t) ++ u = s ++ (t ++ u)
  BY ConcatAssociative DEF Bytes, ++

LEMMA Cut ==
  ASSUME NEW s \in Bytes, NEW k \in 0 .. Size(s)
  PROVE  /\ Front(s, k) \in Bytes /\ Rest(s, k) \in Bytes
         /\ Size(Front(s, k)) = k /\ Size(Rest(s, k)) = Size(s) - k
         /\ s = Front(s, k) ++ Rest(s, k)
<1>0. Len(s) \in Nat /\ k \in 0 .. Len(s)
  BY LenProperties DEF Bytes, Size
<1>1. /\ \A i \in 1 .. k : s[i] \in Byte
      /\ \A i \in k + 1 .. Len(s) : s[i] \in Byte
  BY <1>0, ElementOfSeq DEF Bytes
<1>2. Front(s, k) \in Bytes /\ Rest(s, k) \in Bytes
  BY <1>0, <1>1, SubSeqProperties DEF Bytes, Front, Rest
<1>3. Len(SubSeq(s, 1, k)) = k /\ Len(SubSeq(s, k + 1, Len(s))) = Len(s) - k
  BY <1>0, <1>1, SubSeqProperties
<1>4. SubSeq(s, 1, k) \o SubSeq(s, k + 1, Len(s)) = SubSeq(s, 1, Len(s))
  <2>1. 1 \in 1 .. Len(s) + 1 /\ k \in 1 - 1 .. Len(s) /\ Len(s) \in k .. Len(s)
    BY <1>0
  <2> QED BY <2>1, ConcatAdjacentSubSeq DEF Bytes
<1>5. SubSeq(s, 1, Len(s)) = s
  BY SubSeqFull DEF Bytes
<1>6. s = Front(s, k) ++ Rest(s, k)
  BY <1>4, <1>5, Zenon DEF Front, Rest, ++
<1>7. Size(Front(s, k)) = k /\ Size(Rest(s, k)) = Size(s) - k
  BY <1>3, Zenon DEF Front, Rest, Size
<1> QED BY <1>2, <1>6, <1>7

LEMMA CutBack ==
  ASSUME NEW s \in Bytes, NEW t \in Bytes
  PROVE  Front(s ++ t, Size(s)) = s /\ Rest(s ++ t, Size(s)) = t
<1>0. s \in Seq(Byte) /\ t \in Seq(Byte) /\ Len(s \o t) = Len(s) + Len(t)
  BY ConcatProperties DEF Bytes
<1>1. SubSeq(s \o t, 1, Len(s)) = s
  <2>1. CASE s = <<>>
    BY <2>1, SubSeqEmpty
  <2>2. CASE s # <<>>
    BY <1>0, <2>2, SubSeqOfConcat1, SubSeqFull, EmptySeq
  <2> QED BY <2>1, <2>2
<1>2. SubSeq(s \o t, Len(s) + 1, Len(s) + Len(t)) = t
  <2>1. CASE t = <<>>
    BY <1>0, <2>1, SubSeqEmpty
  <2>2. CASE t # <<>>
    <3>1. Len(t) \in Nat \ {0} /\ Len(s) \in Nat
      BY <1>0, <2>2, EmptySeq
    <3> QED BY <1>0, <3>1, SubSeqOfConcat2, SubSeqFull
  <2> QED BY <2>1, <2>2
<1>3. SubSeq(s \o t, Len(s) + 1, Len(s \o t)) = t
  BY <1>0, <1>2, Zenon
<1> QED BY <1>1, <1>3, Zenon DEF Front, Rest, Size, ++

\* Where two joined sequences are equal and their first parts as long, the
\* parts are equal.
LEMMA SameParts ==
  ASSUME NEW s \in Bytes, NEW t \in Bytes, NEW x \in Bytes, NEW y \in Bytes,
         s ++ x = t ++ y, Size(s) = Size(t)
  PROVE  s = t /\ x = y
<1>1. Front(s ++ x, Size(s)) = s /\ Rest(s ++ x, Size(s)) = x
  BY CutBack
<1>2. Front(t ++ y, Size(t)) = t /\ Rest(t ++ y, Size(t)) = y
  BY CutBack
<1> QED BY <1>1, <1>2

-----------------------------------------------------------------------------
(* The codec of lengths                                                     *)

LEMMA ByteIs == \A x : x \in Byte <=> x \in Nat /\ x < 256
  BY SMT DEF Byte

LEMMA Pair ==
  ASSUME NEW x \in Byte, NEW y \in Byte
  PROVE  <<x, y>> \in Bytes /\ Size(<<x, y>>) = 2
  BY DEF Bytes, Size

\* struct unpacks the number that was packed.
LEMMA ShortExact ==
  ASSUME NEW n, Small(n)
  PROVE  /\ Short(n) \in Bytes /\ Size(Short(n)) = 2
         /\ OfShort(Short(n)) = n
<1>1. /\ (n \div 256) % 256 = n \div 256
      /\ n \div 256 \in Byte /\ n % 256 \in Byte
      /\ 256 * (n \div 256) + (n % 256) = n
  BY ByteIs DEF Small
<1>2. Short(n) = <<n \div 256, n % 256>>
  BY <1>1 DEF Short
<1>3. OfShort(Short(n)) = 256 * (n \div 256) + (n % 256)
  BY <1>2 DEF OfShort
<1> QED BY <1>1, <1>2, <1>3, Pair

LEMMA ShortBack ==
  ASSUME NEW b \in Bytes, Size(b) = 2
  PROVE  Small(OfShort(b)) /\ Short(OfShort(b)) = b
<1>1. b[1] \in Byte /\ b[2] \in Byte /\ b = <<b[1], b[2]>>
  BY DEF Bytes, Size
<1>2. OfShort(b) = 256 * b[1] + b[2]
  BY DEF OfShort
<1>3. /\ OfShort(b) \in Nat /\ OfShort(b) < 65536
      /\ OfShort(b) \div 256 = b[1] /\ b[1] % 256 = b[1]
      /\ OfShort(b) % 256 = b[2]
  BY <1>1, <1>2, ByteIs
<1> QED
  BY <1>1, <1>3 DEF Short, Small

LEMMA OfLongIs ==
  ASSUME NEW b, Size(b) = 4
  PROVE  OfLong(b) = 65536 * OfShort(Front(b, 2)) + OfShort(Rest(b, 2))
<1>1. OfShort(SubSeq(b, 1, 2)) = OfShort(Front(b, 2))
  BY DEF Front
<1>2. OfShort(SubSeq(b, 3, 4)) = OfShort(Rest(b, 2))
  BY DEF Rest, Size
<1> QED BY <1>1, <1>2 DEF OfLong

LEMMA LongIs ==
  ASSUME NEW n
  PROVE  Long(n) = Short(n \div 65536) ++ Short(n % 65536)
  BY DEF Long, ++

LEMMA LongExact ==
  ASSUME NEW n, Packed(n)
  PROVE  /\ Long(n) \in Bytes /\ Size(Long(n)) = 4
         /\ OfLong(Long(n)) = n
<1> DEFINE h == n \div 65536
           l == n % 65536
<1>1. /\ n \in Nat /\ Small(h) /\ Small(l) /\ n = 65536 * h + l
  BY DEF Packed, Small
<1>2. Long(n) = Short(h) ++ Short(l)
  BY LongIs
<1> HIDE DEF h, l
<1>3. /\ Short(h) \in Bytes /\ Size(Short(h)) = 2 /\ OfShort(Short(h)) = h
      /\ Short(l) \in Bytes /\ Size(Short(l)) = 2 /\ OfShort(Short(l)) = l
  BY <1>1, ShortExact
<1>4. /\ Long(n) \in Bytes /\ Size(Long(n)) = 4
      /\ Front(Long(n), 2) = Short(h) /\ Rest(Long(n), 2) = Short(l)
  BY <1>2, <1>3, Joins, CutBack
<1>5. OfLong(Long(n)) = 65536 * h + l
  BY <1>3, <1>4, OfLongIs
<1> QED
  BY <1>1, <1>4, <1>5

\* What was unpacked is what would be packed again.
LEMMA LongBack ==
  ASSUME NEW b \in Bytes, Size(b) = 4
  PROVE  Packed(OfLong(b)) /\ Long(OfLong(b)) = b
<1> DEFINE x == Front(b, 2)
           y == Rest(b, 2)
<1>1. x \in Bytes /\ Size(x) = 2 /\ y \in Bytes /\ Size(y) = 2 /\ b = x ++ y
  <2>1. 2 \in 0 .. Size(b)
    OBVIOUS
  <2> QED BY <2>1, Cut
<1>2. OfLong(b) = 65536 * OfShort(x) + OfShort(y)
  BY OfLongIs
<1> HIDE DEF x, y
<1>3. /\ Small(OfShort(x)) /\ Short(OfShort(x)) = x
      /\ Small(OfShort(y)) /\ Short(OfShort(y)) = y
  BY <1>1, ShortBack
<1>4. OfLong(b) \in Nat /\ OfLong(b) \div 65536 = OfShort(x) /\ OfLong(b) % 65536 = OfShort(y)
  BY <1>2, <1>3 DEF Small
<1>5. Packed(OfLong(b))
  BY <1>3, <1>4 DEF Packed, Small
<1>6. Long(OfLong(b)) = Short(OfLong(b) \div 65536) ++ Short(OfLong(b) % 65536)
  BY LongIs
<1>7. Long(OfLong(b)) = x ++ y
  BY <1>3, <1>4, <1>6
<1> QED
  BY <1>1, <1>5, <1>7

-----------------------------------------------------------------------------
(* Parts of a sequence                                                      *)

Part(s, i, j) == SubSeq(s, i, j)

LEMMA Parts ==
  ASSUME NEW s \in Bytes, NEW i \in 0 .. Size(s), NEW j \in i .. Size(s)
  PROVE  /\ Part(s, i + 1, j) \in Bytes /\ Size(Part(s, i + 1, j)) = j - i
         /\ Front(s, i) \in Bytes /\ Front(s, j) \in Bytes
         /\ Front(s, j) = Front(s, i) ++ Part(s, i + 1, j)
<1>0. Size(s) \in Nat /\ Len(s) \in Nat /\ i \in 0 .. Len(s) /\ j \in i .. Len(s)
  BY EmptyBytes DEF Size
<1>1. \A k \in i + 1 .. j : s[k] \in Byte
  BY <1>0, ElementOfSeq DEF Bytes
<1>2. Part(s, i + 1, j) \in Bytes
  BY <1>0, <1>1, SubSeqProperties DEF Bytes, Part
<1>3. Len(SubSeq(s, i + 1, j)) = j - i
  BY <1>0, <1>1, SubSeqProperties
<1>4. SubSeq(s, 1, i) \o SubSeq(s, i + 1, j) = SubSeq(s, 1, j)
  <2>1. 1 \in 1 .. Len(s) + 1 /\ i \in 1 - 1 .. Len(s) /\ j \in i .. Len(s)
    BY <1>0
  <2> QED BY <2>1, ConcatAdjacentSubSeq DEF Bytes
<1>5. Front(s, j) = Front(s, i) ++ Part(s, i + 1, j)
  BY <1>4, Zenon DEF Front, Part, ++
<1>6. Size(Part(s, i + 1, j)) = j - i
  BY <1>3, Zenon DEF Part, Size
<1>7. j \in 0 .. Size(s)
  BY <1>0
<1> QED BY <1>2, <1>5, <1>6, <1>7, Cut

LEMMA OnePart ==
  ASSUME NEW s \in Bytes, NEW i \in Nat, i < Size(s)
  PROVE  /\ s[i + 1] \in Byte
         /\ Front(s, i) \in Bytes /\ Size(Front(s, i)) = i
         /\ Rest(s, i + 1) \in Bytes
         /\ s = Front(s, i) ++ (One(s[i + 1]) ++ Rest(s, i + 1))
<1>0. Size(s) \in Nat /\ i \in 0 .. Size(s) /\ i + 1 \in 0 .. Size(s) /\ i + 1 \in i .. Size(s)
  BY EmptyBytes
<1>1. s[i + 1] \in Byte
  BY <1>0, ElementOfSeq DEF Bytes, Size
<1>2. Part(s, i + 1, i + 1) = One(s[i + 1])
  <2>1. \A k \in i + 1 .. i + 1 : s[k] \in Byte
    BY <1>1
  <2>2. SubSeq(s, i + 1, i + 1) \in Seq(Byte)
    BY <1>0, <2>1, SubSeqProperties
  <2>3. Len(SubSeq(s, i + 1, i + 1)) = 1
    BY <1>0, <2>1, SubSeqProperties
  <2>4. SubSeq(s, i + 1, i + 1)[1] = s[i + 1]
    BY <1>0, <2>1, SubSeqProperties
  <2> DEFINE q == SubSeq(s, i + 1, i + 1)
  <2> HIDE DEF q
  <2>5. q \in Seq(Byte) /\ Len(q) = 1 /\ q[1] = s[i + 1]
    BY <2>2, <2>3, <2>4, Zenon DEF q
  <2>6. q = <<s[i + 1]>>
    BY <2>5
  <2> QED BY <2>6, Zenon DEF q, Part, One
<1>3. Front(s, i + 1) = Front(s, i) ++ One(s[i + 1])
  BY <1>0, <1>2, Parts
<1>4. /\ Front(s, i) \in Bytes /\ Size(Front(s, i)) = i
      /\ Rest(s, i + 1) \in Bytes
      /\ s = Front(s, i + 1) ++ Rest(s, i + 1)
  BY <1>0, Cut
<1>5. s = (Front(s, i) ++ One(s[i + 1])) ++ Rest(s, i + 1)
  BY <1>3, <1>4
<1> QED BY <1>1, <1>4, <1>5, Assoc, OneByte

-----------------------------------------------------------------------------
(* What is put on a stream                                                  *)

Fits(fmt, f) ==
  IF fmt = "framed" THEN Packed(Size(f))
  ELSE IF fmt = "ascii" THEN ~TooLong(Size(f)) ELSE Size(f) = FixedLength

Coded(fmt, f) ==
  IF fmt = "framed" THEN Framed(f) ELSE IF fmt = "ascii" THEN Prefixed(f) ELSE f

Says(fmt, side, f) ==
  IF fmt # "framed" THEN Data(f)
  ELSE IF side = "server" THEN DecodeRequest(f) ELSE DecodeResponse(f)

Bad(fmt, side, g) ==
  /\ side = "server"
  /\ \/ fmt = "framed" /\ BadFrame(g)
     \/ fmt = "ascii" /\ BadPrefix(g)

\* The bytes say item to the side that reads them, or are no frame to it.
Carries(fmt, side, b, item) ==
  \/ \E f \in Bytes : Fits(fmt, f) /\ b = Coded(fmt, f) /\ item = Says(fmt, side, f)
  \/ b \in Bytes /\ Bad(fmt, side, b) /\ item = NoFrame

LIT == LEN_PREFIX_LITERAL

LEMMA Marks ==
  /\ START_BYTE \in Byte /\ One(START_BYTE) \in Bytes /\ Size(One(START_BYTE)) = 1
  /\ END_BYTE \in Byte /\ One(END_BYTE) \in Bytes /\ Size(One(END_BYTE)) = 1
  /\ Quote \in Byte /\ One(Quote) \in Bytes /\ Size(One(Quote)) = 1
  /\ LIT \in Bytes /\ Size(LIT) = 4
<1>1. START_BYTE \in Byte /\ END_BYTE \in Byte /\ Quote \in Byte
  BY ByteIs DEF START_BYTE, END_BYTE, Quote
<1>2. 108 \in Byte /\ 101 \in Byte /\ 110 \in Byte /\ 34 \in Byte
  BY ByteIs
<1>3. LIT \in Bytes /\ Size(LIT) = 4
  BY <1>2 DEF LIT, LEN_PREFIX_LITERAL, Bytes, Size
<1> QED BY <1>1, <1>3, OneByte

LEMMA FramedIs ==
  ASSUME NEW f \in Bytes, Packed(Size(f))
  PROVE  /\ Framed(f) \in Bytes /\ Size(Framed(f)) = 6 + Size(f)
         /\ Framed(f) = One(START_BYTE) ++ (Long(Size(f)) ++ (f ++ One(END_BYTE)))
<1>1. Framed(f) = ((One(START_BYTE) ++ Long(Size(f))) ++ f) ++ One(END_BYTE)
  BY Zenon DEF Framed, ++, One, Size
<1>2. Long(Size(f)) \in Bytes /\ Size(Long(Size(f))) = 4
  BY LongExact
<1>3. One(START_BYTE) ++ Long(Size(f)) \in Bytes /\ Size(One(START_BYTE) ++ Long(Size(f))) = 5
  BY <1>2, Marks, Joins
<1>4. /\ (One(START_BYTE) ++ Long(Size(f))) ++ f \in Bytes
      /\ Size((One(START_BYTE) ++ Long(Size(f))) ++ f) = 5 + Size(f)
  BY <1>3, Joins
<1>5. /\ Framed(f) \in Bytes /\ Size(Framed(f)) = 6 + Size(f)
      /\ f ++ One(END_BYTE) \in Bytes
  <2>1. Size(f) \in Nat
    BY EmptyBytes
  <2>2. /\ Framed(f) \in Bytes /\ f ++ One(END_BYTE) \in Bytes
        /\ Size(Framed(f)) = (5 + Size(f)) + 1
    BY <1>1, <1>4, Marks, Joins
  <2> QED BY <2>1, <2>2
<1>6. Framed(f) = (One(START_BYTE) ++ Long(Size(f))) ++ (f ++ One(END_BYTE))
  BY <1>1, <1>3, Marks, Assoc
<1>7. Framed(f) = One(START_BYTE) ++ (Long(Size(f)) ++ (f ++ One(END_BYTE)))
  BY <1>2, <1>5, <1>6, Marks, Assoc
<1> QED BY <1>5, <1>7

AllDigits(d) == \A i \in 1 .. Size(d) : d[i] \in Digits

Digit(n, unit) == (n \div unit) % 10

\* A number below 100000 is the sum of its digits.
LEMMA Tens ==
  ASSUME NEW n \in Nat, n <= 65536
  PROVE  /\ \A unit \in {1, 10, 100, 1000, 10000} : Digit(n, unit) \in 0 .. 9
         /\ n = Digit(n, 1) + 10 * Digit(n, 10) + 100 * Digit(n, 100)
                + 1000 * Digit(n, 1000) + 10000 * Digit(n, 10000)
<1>1. /\ n \div 10 \in Nat /\ n \div 100 \in Nat /\ n \div 1000 \in Nat /\ n \div 10000 \in Nat /\ n \div 10000 <= 6
      /\ n \div 1 = n
  OBVIOUS
<1>2. /\ Digit(n, 1) = n % 10 /\ Digit(n, 1) \in 0 .. 9 /\ Digit(n, 10) \in 0 .. 9
      /\ Digit(n, 100) \in 0 .. 9 /\ Digit(n, 1000) \in 0 .. 9
      /\ Digit(n, 10000) = n \div 10000
  BY <1>1 DEF Digit
<1>3. n = 10 * (n \div 10) + Digit(n, 1)
  BY <1>2
<1>4. n \div 10 = 10 * (n \div 100) + Digit(n, 10)
  BY DEF Digit
<1>5. n \div 100 = 10 * (n \div 1000) + Digit(n, 100)
  BY DEF Digit
<1>6. n \div 1000 = 10 * (n \div 10000) + Digit(n, 1000)
  BY DEF Digit
<1>7. n = Digit(n, 1) + 10 * Digit(n, 10) + 100 * Digit(n, 100)
            + 1000 * Digit(n, 1000) + 10000 * Digit(n, 10000)
  <2> DEFINE p == n \div 10
             q == n \div 100
             r == n \div 1000
             a == Digit(n, 10000)
             b == Digit(n, 1000)
             c == Digit(n, 100)
             d == Digit(n, 10)
             e == Digit(n, 1)
  <2>1. /\ a \in Nat /\ b \in Nat /\ c \in Nat /\ d \in Nat /\ e \in Nat
        /\ n = 10 * p + e /\ p = 10 * q + d /\ q = 10 * r + c /\ r = 10 * a + b
    BY <1>1, <1>2, <1>3, <1>4, <1>5, <1>6
  <2> HIDE DEF p, q, r, a, b, c, d, e
  <2>2. n = e + 10 * d + 100 * c + 1000 * b + 10000 * a
    BY <2>1
  <2> QED BY <2>2 DEF a, b, c, d, e
<1>8. Digit(n, 10000) \in 0 .. 9
  BY <1>1, <1>2
<1> QED BY <1>2, <1>7, <1>8

\* The digits of a number, without leading zeros, make the number.
LEMMA DecimalIs ==
  ASSUME NEW n \in Nat, ~TooLong(n)
  PROVE  /\ Decimal(n) \in Bytes /\ Size(Decimal(n)) \in 1 .. 5
         /\ AllDigits(Decimal(n)) /\ LengthOf(Decimal(n)) = n
<1>0. n <= 65536
  BY DEF TooLong, MAX_FRAME_SIZE
<1> DEFINE a == Digit(n, 10000)
           b == Digit(n, 1000)
           c == Digit(n, 100)
           d == Digit(n, 10)
           e == Digit(n, 1)
           t == Decimal(n)
<1>1. a \in 0 .. 9 /\ b \in 0 .. 9 /\ c \in 0 .. 9 /\ d \in 0 .. 9 /\ e \in 0 .. 9
  BY <1>0, Tens
<1>2. n = e + 10 * d + 100 * c + 1000 * b + 10000 * a
  BY <1>0, Tens
<1>3. t = IF n < 10 THEN <<48 + e>>
          ELSE IF n < 100 THEN <<48 + d, 48 + e>>
          ELSE IF n < 1000 THEN <<48 + c, 48 + d, 48 + e>>
          ELSE IF n < 10000 THEN <<48 + b, 48 + c, 48 + d, 48 + e>>
          ELSE <<48 + a, 48 + b, 48 + c, 48 + d, 48 + e>>
  BY DEF Decimal, Digit
<1> HIDE DEF a, b, c, d, e, t
<1>4. \A u \in 0 .. 9 : 48 + u \in Byte /\ 48 + u \in Digits
  BY ByteIs DEF Digits
<1> DEFINE Goal == t \in Bytes /\ Size(t) \in 1 .. 5 /\ AllDigits(t) /\ LengthOf(t) = n
<1>5. ASSUME n < 10 PROVE Goal
  <2>1. t = <<48 + e>>
    BY <1>3, <1>5
  <2>2. t \in Bytes /\ Size(t) = 1 /\ AllDigits(t)
    BY <1>1, <1>4, <2>1 DEF Bytes, Size, AllDigits
  <2>3. LengthOf(t) = n
    BY <1>1, <1>5, <1>2, <2>1 DEF LengthOf
  <2> QED BY <2>2, <2>3
<1>6. ASSUME 10 <= n /\ n < 100 PROVE Goal
  <2>1. t = <<48 + d, 48 + e>>
    BY <1>3, <1>6
  <2>2. t \in Bytes /\ Size(t) = 2 /\ AllDigits(t)
    BY <1>1, <1>4, <2>1 DEF Bytes, Size, AllDigits
  <2>3. LengthOf(t) = n
    <3>1. LengthOf(t) = e + 10 * d
      BY <1>1, <2>1 DEF LengthOf
    <3> QED BY <1>1, <1>6, <1>2, <3>1
  <2> QED BY <2>2, <2>3
<1>7. ASSUME 100 <= n /\ n < 1000 PROVE Goal
  <2>1. t = <<48 + c, 48 + d, 48 + e>>
    BY <1>3, <1>7
  <2>2. t \in Bytes /\ Size(t) = 3 /\ AllDigits(t)
    BY <1>1, <1>4, <2>1 DEF Bytes, Size, AllDigits
  <2>3. LengthOf(t) = n
    <3>1. LengthOf(t) = e + 10 * d + 100 * c
      BY <1>1, <2>1 DEF LengthOf
    <3> QED BY <1>1, <1>7, <1>2, <3>1
  <2> QED BY <2>2, <2>3
<1>8. ASSUME 1000 <= n /\ n < 10000 PROVE Goal
  <2>1. t = <<48 + b, 48 + c, 48 + d, 48 + e>>
    BY <1>3, <1>8
  <2>2. t \in Bytes /\ Size(t) = 4 /\ AllDigits(t)
    <3>1. Size(t) = 4 /\ t[1] = 48 + b /\ t[2] = 48 + c /\ t[3] = 48 + d /\ t[4] = 48 + e
      BY <2>1 DEF Size
    <3>2. AllDigits(t)
      BY <1>1, <1>4, <3>1 DEF AllDigits
    <3>3. t \in Bytes
      BY <1>1, <1>4, <2>1 DEF Bytes
    <3> QED BY <3>1, <3>2, <3>3
  <2>3. LengthOf(t) = n
    <3>1. LengthOf(t) = e + 10 * d + 100 * c + 1000 * b
      BY <1>1, <2>1 DEF LengthOf
    <3> QED BY <1>1, <1>8, <1>2, <3>1
  <2> QED BY <2>2, <2>3
<1>9. ASSUME 10000 <= n PROVE Goal
  <2>1. t = <<48 + a, 48 + b, 48 + c, 48 + d, 48 + e>>
    BY <1>3, <1>9
  <2>2. t \in Bytes /\ Size(t) = 5 /\ AllDigits(t)
    <3>1. Size(t) = 5 /\ t[1] = 48 + a /\ t[2] = 48 + b /\ t[3] = 48 + c /\ t[4] = 48 + d /\ t[5] = 48 + e
      BY <2>1 DEF Size
    <3>2. AllDigits(t)
      BY <1>1, <1>4, <3>1 DEF AllDigits
    <3>3. t \in Bytes
      BY <1>1, <1>4, <2>1 DEF Bytes
    <3> QED BY <3>1, <3>2, <3>3
  <2>3. LengthOf(t) = n
    <3>1. LengthOf(t) = e + 10 * d + 100 * c + 1000 * b + 10000 * a
      BY <1>1, <2>1 DEF LengthOf
    <3> QED BY <1>1, <1>9, <1>2, <3>1
  <2> QED BY <2>2, <2>3
<1> QED BY <1>5, <1>6, <1>7, <1>8, <1>9 DEF t

LEMMA PrefixedIs ==
  ASSUME NEW f \in Bytes, ~TooLong(Size(f))
  PROVE  /\ Prefixed(f) \in Bytes /\ 5 < Size(Prefixed(f))
         /\ Prefixed(f) = LIT ++ (Decimal(Size(f)) ++ (One(Quote) ++ f))
<1> DEFINE D == Decimal(Size(f))
<1>0. Size(f) \in Nat /\ D \in Bytes /\ Size(D) \in 1 .. 5
  BY EmptyBytes, DecimalIs
<1>1. Prefixed(f) = ((LIT ++ D) ++ One(Quote)) ++ f
  BY Zenon DEF Prefixed, LIT, ++, Size, One
<1> HIDE DEF D
<1>2. LIT ++ D \in Bytes /\ One(Quote) ++ f \in Bytes /\ Size(One(Quote) ++ f) = 1 + Size(f)
  BY <1>0, Marks, Joins
<1>3. Prefixed(f) = (LIT ++ D) ++ (One(Quote) ++ f)
  BY <1>1, <1>2, Marks, Assoc
<1>4. Prefixed(f) = LIT ++ (D ++ (One(Quote) ++ f))
  BY <1>0, <1>2, <1>3, Marks, Assoc
<1>5. /\ D ++ (One(Quote) ++ f) \in Bytes
      /\ Size(D ++ (One(Quote) ++ f)) = Size(D) + Size(One(Quote) ++ f)
  BY <1>0, <1>2, Joins
<1>6. /\ Prefixed(f) \in Bytes
      /\ Size(Prefixed(f)) = 4 + Size(D ++ (One(Quote) ++ f))
  BY <1>4, <1>5, Marks, Joins
<1>7. 5 < Size(Prefixed(f))
  BY <1>0, <1>2, <1>5, <1>6
<1> QED BY <1>4, <1>6, <1>7 DEF D

-----------------------------------------------------------------------------
(* Bytes that are no frame                                                  *)

LEMMA BadFrameIs ==
  ASSUME NEW g \in Bytes, BadFrame(g)
  PROVE  \/ \E x \in Byte, r \in Bytes : x # START_BYTE /\ g = One(x) ++ r
         \/ \E a, l, r \in Bytes :
              Size(a) = 1 /\ Size(l) = 4 /\ TooLong(OfLong(l)) /\ g = a ++ (l ++ r)
         \/ \E a, l, f, r \in Bytes, y \in Byte :
              /\ Size(a) = 1 /\ Size(l) = 4 /\ Size(f) = OfLong(l) /\ y # END_BYTE
              /\ g = a ++ (l ++ (f ++ (One(y) ++ r)))
<1>0. Size(g) \in Nat /\ Len(g) = Size(g)
  BY EmptyBytes DEF Size
<1>1. CASE Len(g) >= 1 /\ g[1] # START_BYTE
  <2>1. /\ g[0 + 1] \in Byte /\ Rest(g, 0 + 1) \in Bytes /\ Front(g, 0) \in Bytes
        /\ Size(Front(g, 0)) = 0
        /\ g = Front(g, 0) ++ (One(g[0 + 1]) ++ Rest(g, 0 + 1))
    BY <1>0, <1>1, OnePart
  <2>2. g = One(g[1]) ++ Rest(g, 1) /\ g[1] \in Byte /\ Rest(g, 1) \in Bytes
    <3>1. 0 + 1 = 1 /\ Front(g, 0) = <<>>
      BY <2>1, EmptyBytes
    <3>2. One(g[1]) ++ Rest(g, 1) \in Bytes
      BY <2>1, <3>1, OneByte, Joins
    <3> QED BY <2>1, <3>1, <3>2, EmptyBytes
  <2> QED BY <1>1, <2>2
<1>2. ASSUME Size(g) >= 5, NEW n, n = OfLong(Part(g, 2, 5)),
             TooLong(n) \/ (Size(g) >= 6 + n /\ g[6 + n] # END_BYTE)
      PROVE  \/ \E a, l, r \in Bytes :
                  Size(a) = 1 /\ Size(l) = 4 /\ TooLong(OfLong(l)) /\ g = a ++ (l ++ r)
             \/ \E a, l, f, r \in Bytes, y \in Byte :
                  /\ Size(a) = 1 /\ Size(l) = 4 /\ Size(f) = OfLong(l) /\ y # END_BYTE
                  /\ g = a ++ (l ++ (f ++ (One(y) ++ r)))
  <2> DEFINE a == Front(g, 1)
             l == Part(g, 2, 5)
  <2>0. 1 \in 0 .. Size(g) /\ 5 \in 0 .. Size(g) /\ 5 \in 1 .. Size(g)
    BY <1>0, <1>2
  <2>1. /\ a \in Bytes /\ Size(a) = 1 /\ l \in Bytes /\ Size(l) = 4
        /\ Front(g, 5) = a ++ l /\ Front(g, 5) \in Bytes /\ Size(Front(g, 5)) = 5
    <3>1. /\ Part(g, 1 + 1, 5) \in Bytes /\ Size(Part(g, 1 + 1, 5)) = 5 - 1
          /\ Front(g, 5) = Front(g, 1) ++ Part(g, 1 + 1, 5)
      BY <2>0, Parts
    <3>2. 1 + 1 = 2 /\ 5 - 1 = 4
      OBVIOUS
    <3> QED BY <2>0, <3>1, <3>2, Cut
  <2>2. n = OfLong(l) /\ n \in Nat
    BY <1>2, <2>1, LongBack DEF Packed
  <2> HIDE DEF a, l
  <2>3. CASE TooLong(n)
    <3>1. Rest(g, 5) \in Bytes /\ g = (a ++ l) ++ Rest(g, 5)
      BY <2>0, <2>1, Cut
    <3>2. g = a ++ (l ++ Rest(g, 5))
      BY <2>1, <3>1, Assoc
    <3> QED BY <2>1, <2>2, <2>3, <3>1, <3>2
  <2>4. CASE Size(g) >= 6 + n /\ g[6 + n] # END_BYTE
    <3> DEFINE f == Part(g, 6, 5 + n)
               y == g[6 + n]
               r == Rest(g, 6 + n)
    <3>1. 5 \in 0 .. Size(g) /\ 5 + n \in 5 .. Size(g) /\ 5 + n \in Nat /\ 5 + n < Size(g)
      BY <1>0, <2>0, <2>2, <2>4
    <3>2. f \in Bytes /\ Size(f) = n /\ Front(g, 5 + n) = Front(g, 5) ++ f
      <4>1. /\ Part(g, 5 + 1, 5 + n) \in Bytes /\ Size(Part(g, 5 + 1, 5 + n)) = (5 + n) - 5
            /\ Front(g, 5 + n) = Front(g, 5) ++ Part(g, 5 + 1, 5 + n)
        BY <3>1, Parts
      <4>2. 5 + 1 = 6 /\ (5 + n) - 5 = n
        BY <2>2
      <4> QED BY <4>1, <4>2
    <3>3. y \in Byte /\ r \in Bytes /\ g = Front(g, 5 + n) ++ (One(y) ++ r)
      <4>1. /\ g[(5 + n) + 1] \in Byte /\ Rest(g, (5 + n) + 1) \in Bytes
            /\ g = Front(g, 5 + n) ++ (One(g[(5 + n) + 1]) ++ Rest(g, (5 + n) + 1))
        BY <3>1, OnePart
      <4>2. (5 + n) + 1 = 6 + n
        BY <2>2
      <4> QED BY <4>1, <4>2
    <3>4. y # END_BYTE
      BY <2>4
    <3> HIDE DEF f, y, r
    <3>5. One(y) ++ r \in Bytes /\ One(y) \in Bytes
      BY <3>3, OneByte, Joins
    <3>6. f ++ (One(y) ++ r) \in Bytes
      BY <3>2, <3>5, Joins
    <3>7. g = ((a ++ l) ++ f) ++ (One(y) ++ r)
      BY <2>1, <3>2, <3>3
    <3>8. a ++ l \in Bytes
      BY <2>1, Joins
    <3>9. g = (a ++ l) ++ (f ++ (One(y) ++ r))
      BY <3>2, <3>5, <3>7, <3>8, Assoc
    <3>10. g = a ++ (l ++ (f ++ (One(y) ++ r)))
      BY <2>1, <3>6, <3>9, Assoc
    <3> QED BY <2>1, <2>2, <3>2, <3>3, <3>4, <3>10
  <2> QED BY <1>2, <2>3, <2>4
<1>3. CASE Len(g) >= 5 /\ LET n == OfLong(SubSeq(g, 2, 5))
                          IN TooLong(n) \/ (Len(g) >= 6 + n /\ g[6 + n] # END_BYTE)
  BY <1>0, <1>2, <1>3 DEF Part
<1> QED BY <1>1, <1>3 DEF BadFrame

LEMMA BadPrefixIs ==
  ASSUME NEW g \in Bytes, BadPrefix(g)
  PROVE  \/ \E l, r \in Bytes : Size(l) = 4 /\ l # LIT /\ g = l ++ r
         \/ \E l, d, r \in Bytes, x \in Byte :
              /\ Size(l) = 4 /\ Size(d) <= MAX_LENGTH_DIGITS /\ AllDigits(d)
              /\ g = l ++ (d ++ (One(x) ++ r))
              /\ IF x = Quote THEN Size(d) = 0 \/ TooLong(LengthOf(d))
                 ELSE Size(d) = MAX_LENGTH_DIGITS \/ x \notin Digits
<1>0. Size(g) \in Nat /\ Len(g) = Size(g)
  BY EmptyBytes DEF Size
<1>1. CASE Len(g) >= 4 /\ SubSeq(g, 1, 4) # LEN_PREFIX_LITERAL
  <2>1. 4 \in 0 .. Size(g)
    BY <1>0, <1>1
  <2>2. Front(g, 4) # LIT
    BY <1>1, Zenon DEF Front, LIT
  <2> QED BY <2>1, <2>2, Cut
<1>2. ASSUME NEW n \in 0 .. MAX_LENGTH_DIGITS, Size(g) >= 5 + n,
             NEW text, text = Part(g, 5, 4 + n),
             \A i \in 1 .. n : text[i] \in Digits,
             IF g[5 + n] = Quote THEN n = 0 \/ TooLong(LengthOf(text))
             ELSE n = MAX_LENGTH_DIGITS \/ g[5 + n] \notin Digits
      PROVE  \E l, d, r \in Bytes, x \in Byte :
              /\ Size(l) = 4 /\ Size(d) <= MAX_LENGTH_DIGITS /\ AllDigits(d)
              /\ g = l ++ (d ++ (One(x) ++ r))
              /\ IF x = Quote THEN Size(d) = 0 \/ TooLong(LengthOf(d))
                 ELSE Size(d) = MAX_LENGTH_DIGITS \/ x \notin Digits
  <2>0. n \in Nat /\ n <= MAX_LENGTH_DIGITS
    BY DEF MAX_LENGTH_DIGITS
  <2> DEFINE l == Front(g, 4)
             x == g[5 + n]
             r == Rest(g, 5 + n)
  <2>1. /\ 4 \in 0 .. Size(g) /\ 4 + n \in 4 .. Size(g) /\ 4 + n \in Nat /\ 4 + n < Size(g)
        /\ (4 + n) - 4 = n /\ (4 + n) + 1 = 5 + n /\ 4 + 1 = 5
    BY <1>0, <1>2, <2>0
  <2>2. /\ text \in Bytes /\ Size(text) = n /\ l \in Bytes /\ Size(l) = 4
        /\ Front(g, 4 + n) = l ++ text
    <3>1. /\ Part(g, 4 + 1, 4 + n) \in Bytes /\ Size(Part(g, 4 + 1, 4 + n)) = (4 + n) - 4
          /\ Front(g, 4 + n) = Front(g, 4) ++ Part(g, 4 + 1, 4 + n)
      BY <2>1, Parts
    <3> QED BY <1>2, <2>1, <3>1, Cut
  <2>3. x \in Byte /\ r \in Bytes /\ g = Front(g, 4 + n) ++ (One(x) ++ r)
    <3>1. /\ g[(4 + n) + 1] \in Byte /\ Rest(g, (4 + n) + 1) \in Bytes
          /\ g = Front(g, 4 + n) ++ (One(g[(4 + n) + 1]) ++ Rest(g, (4 + n) + 1))
      BY <2>1, OnePart
    <3> QED BY <2>1, <3>1
  <2>4. IF x = Quote THEN n = 0 \/ TooLong(LengthOf(text))
        ELSE n = MAX_LENGTH_DIGITS \/ x \notin Digits
    BY <1>2
  <2> HIDE DEF l, x, r
  <2>5. One(x) ++ r \in Bytes
    BY <2>3, OneByte, Joins
  <2>6. g = l ++ (text ++ (One(x) ++ r))
    BY <2>2, <2>3, <2>5, Assoc
  <2>7. AllDigits(text)
    BY <1>2, <2>2 DEF AllDigits
  <2> QED BY <2>0, <2>2, <2>3, <2>4, <2>6, <2>7
<1>3. CASE \E n \in 0 .. MAX_LENGTH_DIGITS :
             LET text == SubSeq(g, 5, 4 + n)
             IN /\ Len(g) >= 5 + n
                /\ \A i \in 1 .. n : text[i] \in Digits
                /\ IF g[5 + n] = Quote THEN n = 0 \/ TooLong(LengthOf(text))
                   ELSE n = MAX_LENGTH_DIGITS \/ g[5 + n] \notin Digits
  <2>1. PICK n \in 0 .. MAX_LENGTH_DIGITS :
          /\ Len(g) >= 5 + n
          /\ \A i \in 1 .. n : Part(g, 5, 4 + n)[i] \in Digits
          /\ IF g[5 + n] = Quote THEN n = 0 \/ TooLong(LengthOf(Part(g, 5, 4 + n)))
             ELSE n = MAX_LENGTH_DIGITS \/ g[5 + n] \notin Digits
    BY <1>3, Zenon DEF Part
  <2> QED BY <1>0, <1>2, <2>1
<1> QED BY <1>1, <1>3 DEF BadPrefix

\* A text of digits ends where the next byte is none.
LEMMA DigitsEnd ==
  ASSUME NEW d \in Bytes, NEW k \in Bytes, NEW r \in Bytes, NEW w \in Bytes,
         NEW x \in Byte, NEW y \in Byte, AllDigits(d), AllDigits(k), y \notin Digits,
         x \notin Digits \/ Size(k) <= Size(d),
         d ++ (One(x) ++ r) = k ++ (One(y) ++ w)
  PROVE  d = k /\ x = y /\ r = w
<1>0. Size(d) \in Nat /\ Size(k) \in Nat
  BY EmptyBytes
<1>1. /\ One(x) \in Bytes /\ Size(One(x)) = 1 /\ One(x) ++ r \in Bytes
      /\ One(y) \in Bytes /\ Size(One(y)) = 1 /\ One(y) ++ w \in Bytes
  BY OneByte, Joins
<1>2. CASE Size(d) = Size(k)
  <2>1. d = k /\ One(x) ++ r = One(y) ++ w
    BY <1>1, <1>2, SameParts
  <2>2. One(x) = One(y) /\ r = w
    BY <1>1, <2>1, SameParts
  <2> QED BY <2>1, <2>2, OneIs
<1>3. ASSUME NEW a \in Bytes, NEW b \in Bytes, NEW u \in Bytes, NEW v \in Bytes,
             NEW p \in Byte, AllDigits(b), Size(a) < Size(b), p \notin Digits,
             a ++ (One(p) ++ u) = b ++ v
      PROVE  FALSE
  <2>0. Size(a) \in Nat /\ Size(b) \in Nat /\ One(p) \in Bytes /\ Size(One(p)) = 1
    BY EmptyBytes, OneByte
  <2> DEFINE f == Front(b, Size(a))
             q == b[Size(a) + 1]
             z == Rest(b, Size(a) + 1)
  <2>1. q \in Byte /\ f \in Bytes /\ Size(f) = Size(a) /\ z \in Bytes /\ b = f ++ (One(q) ++ z)
    BY <1>3, <2>0, OnePart
  <2>2. q \in Digits
    BY <1>3, <2>0 DEF AllDigits
  <2> HIDE DEF f, q, z
  <2>3. One(q) \in Bytes /\ Size(One(q)) = 1 /\ One(q) ++ z \in Bytes
    BY <2>1, OneByte, Joins
  <2>4. z ++ v \in Bytes /\ One(q) ++ (z ++ v) \in Bytes /\ One(p) ++ u \in Bytes
    BY <2>0, <2>1, <2>3, Joins
  <2>5. b ++ v = f ++ ((One(q) ++ z) ++ v)
    BY <2>1, <2>3, Assoc
  <2>6. (One(q) ++ z) ++ v = One(q) ++ (z ++ v)
    BY <2>1, <2>3, Assoc
  <2>7. a ++ (One(p) ++ u) = f ++ (One(q) ++ (z ++ v))
    BY <1>3, <2>5, <2>6
  <2>8. One(p) ++ u = One(q) ++ (z ++ v)
    BY <2>1, <2>4, <2>7, SameParts
  <2>9. One(p) = One(q)
    BY <2>0, <2>1, <2>3, <2>4, <2>8, SameParts
  <2> QED BY <1>3, <2>2, <2>9, OneIs
<1>4. CASE Size(k) < Size(d)
  BY <1>1, <1>3, <1>4
<1>5. CASE Size(d) < Size(k)
  BY <1>0, <1>1, <1>3, <1>5
<1> QED BY <1>0, <1>2, <1>4, <1>5

LEMMA MarkIs == Quote \notin Digits /\ START_BYTE # END_BYTE
  BY DEF Quote, Digits, START_BYTE, END_BYTE

\* After len" and digits, a quote: what was sent is a write with that length.
LEMMA PrefixRead ==
  ASSUME NEW b, NEW item, Carries("ascii", "server", b, item), NEW t \in Bytes,
         NEW d \in Bytes, AllDigits(d), NEW v \in Bytes,
         0 < Size(d), Size(d) <= MAX_LENGTH_DIGITS, ~TooLong(LengthOf(d)),
         LIT ++ (d ++ (One(Quote) ++ v)) = b ++ t
  PROVE  \E f \in Bytes :
           /\ ~TooLong(Size(f)) /\ b = Prefixed(f) /\ item = Data(f)
           /\ d = Decimal(Size(f)) /\ LengthOf(d) = Size(f) /\ v = f ++ t
<1>0. /\ One(Quote) ++ v \in Bytes /\ d ++ (One(Quote) ++ v) \in Bytes
  BY Marks, Joins
<1>1. ASSUME NEW f \in Bytes, ~TooLong(Size(f)), b = Prefixed(f), item = Data(f)
      PROVE  d = Decimal(Size(f)) /\ LengthOf(d) = Size(f) /\ v = f ++ t
  <2> DEFINE o == Decimal(Size(f))
  <2>1. /\ Size(f) \in Nat /\ o \in Bytes /\ AllDigits(o) /\ LengthOf(o) = Size(f)
        /\ b = LIT ++ (o ++ (One(Quote) ++ f))
    BY <1>1, EmptyBytes, DecimalIs, PrefixedIs
  <2> HIDE DEF o
  <2>2. /\ One(Quote) ++ f \in Bytes /\ o ++ (One(Quote) ++ f) \in Bytes /\ f ++ t \in Bytes
        /\ One(Quote) ++ (f ++ t) \in Bytes
        /\ o ++ (One(Quote) ++ (f ++ t)) \in Bytes
    BY <2>1, Marks, Joins
  <2>3. b ++ t = LIT ++ ((o ++ (One(Quote) ++ f)) ++ t)
    BY <2>1, <2>2, Marks, Assoc
  <2>4. (o ++ (One(Quote) ++ f)) ++ t = o ++ ((One(Quote) ++ f) ++ t)
    BY <2>1, <2>2, Assoc
  <2>5. (One(Quote) ++ f) ++ t = One(Quote) ++ (f ++ t)
    BY Marks, Assoc
  <2>6. LIT ++ (d ++ (One(Quote) ++ v)) = LIT ++ (o ++ (One(Quote) ++ (f ++ t)))
    BY <2>3, <2>4, <2>5
  <2>7. d ++ (One(Quote) ++ v) = o ++ (One(Quote) ++ (f ++ t))
    BY <1>0, <2>2, <2>6, Marks, SameParts
  <2>8. d = o /\ v = f ++ t
    <3>1. Quote \in Byte /\ Quote \notin Digits
      BY Marks, MarkIs
    <3> QED BY <2>1, <2>2, <2>7, <3>1, DigitsEnd
  <2> QED BY <2>1, <2>8 DEF o
<1>2. ~(b \in Bytes /\ BadPrefix(b))
  <2> SUFFICES ASSUME b \in Bytes, BadPrefix(b) PROVE FALSE
    OBVIOUS
  <2>1. ASSUME NEW l \in Bytes, NEW r \in Bytes, Size(l) = 4, l # LIT, b = l ++ r PROVE FALSE
    <3>1. b ++ t = l ++ (r ++ t) /\ r ++ t \in Bytes
      BY <2>1, Assoc, Joins
    <3>2. LIT = l
      BY <1>0, <2>1, <3>1, Marks, SameParts
    <3> QED BY <2>1, <3>2
  <2>2. ASSUME NEW l \in Bytes, NEW e \in Bytes, NEW r \in Bytes, NEW x \in Byte,
               Size(l) = 4, Size(e) <= MAX_LENGTH_DIGITS, AllDigits(e),
               b = l ++ (e ++ (One(x) ++ r)),
               IF x = Quote THEN Size(e) = 0 \/ TooLong(LengthOf(e))
               ELSE Size(e) = MAX_LENGTH_DIGITS \/ x \notin Digits
        PROVE  FALSE
    <3>1. One(x) \in Bytes /\ One(x) ++ r \in Bytes /\ e ++ (One(x) ++ r) \in Bytes
          /\ r ++ t \in Bytes /\ One(x) ++ (r ++ t) \in Bytes /\ e ++ (One(x) ++ (r ++ t)) \in Bytes
      BY OneByte, Joins
    <3>2. b ++ t = l ++ ((e ++ (One(x) ++ r)) ++ t)
      BY <2>2, <3>1, Assoc
    <3>3. (e ++ (One(x) ++ r)) ++ t = e ++ ((One(x) ++ r) ++ t)
      BY <3>1, Assoc
    <3>4. (One(x) ++ r) ++ t = One(x) ++ (r ++ t)
      BY <3>1, Assoc
    <3>5. l ++ (e ++ (One(x) ++ (r ++ t))) = LIT ++ (d ++ (One(Quote) ++ v))
      BY <3>2, <3>3, <3>4
    <3>6. e ++ (One(x) ++ (r ++ t)) = d ++ (One(Quote) ++ v)
      <4> DEFINE p == e ++ (One(x) ++ (r ++ t))
                 q == d ++ (One(Quote) ++ v)
      <4>1. /\ p \in Bytes /\ q \in Bytes /\ LIT \in Bytes /\ Size(l) = Size(LIT)
            /\ l ++ p = LIT ++ q
        BY <1>0, <2>2, <3>1, <3>5, Marks
      <4> HIDE DEF p, q
      <4>2. p = q
        BY <4>1, SameParts
      <4> QED BY <4>2 DEF p, q
    <3>7. x \notin Digits \/ Size(d) <= Size(e)
      BY <2>2, MarkIs
    <3>8. e = d /\ x = Quote
      <4>1. Quote \in Byte /\ Quote \notin Digits
        BY Marks, MarkIs
      <4>2. AllDigits(e)
        BY <2>2
      <4>3. r ++ t \in Bytes
        BY <3>1
      <4> QED BY <3>6, <3>7, <4>1, <4>2, <4>3, DigitsEnd
    <3>9. Size(d) = 0 \/ TooLong(LengthOf(d))
      BY <2>2, <3>8
    <3> QED BY <3>9
  <2> QED BY <2>1, <2>2, BadPrefixIs
<1> QED BY <1>1, <1>2 DEF Carries, Fits, Coded, Says, Bad

\* A frame that was read from the head of a stream is what was put there.
LEMMA FrameRead ==
  ASSUME NEW fmt \in {"framed", "ascii", "fixed"}, NEW side \in Sides,
         fmt = "ascii" => side = "server",
         NEW b, NEW item, Carries(fmt, side, b, item), NEW t \in Bytes,
         NEW f \in Bytes, Fits(fmt, f), NEW v \in Bytes,
         fmt = "framed" /\ side = "server" => ~TooLong(Size(f)),
         Coded(fmt, f) ++ v = b ++ t
  PROVE  item = Says(fmt, side, f) /\ v = t
<1>1. CASE fmt = "ascii"
  <2>0. ~TooLong(Size(f)) /\ Size(f) \in Nat /\ Coded(fmt, f) = Prefixed(f)
    BY <1>1, EmptyBytes DEF Fits, Coded
  <2> DEFINE d == Decimal(Size(f))
  <2>1. /\ d \in Bytes /\ Size(d) \in 1 .. 5 /\ AllDigits(d) /\ LengthOf(d) = Size(f)
        /\ Prefixed(f) \in Bytes /\ Prefixed(f) = LIT ++ (d ++ (One(Quote) ++ f))
    BY <2>0, DecimalIs, PrefixedIs
  <2> HIDE DEF d
  <2>2. /\ One(Quote) ++ f \in Bytes /\ d ++ (One(Quote) ++ f) \in Bytes
        /\ f ++ v \in Bytes /\ One(Quote) ++ (f ++ v) \in Bytes
    BY <2>1, Marks, Joins
  <2>3. Prefixed(f) ++ v = LIT ++ ((d ++ (One(Quote) ++ f)) ++ v)
    BY <2>1, <2>2, Marks, Assoc
  <2>4. (d ++ (One(Quote) ++ f)) ++ v = d ++ ((One(Quote) ++ f) ++ v)
    BY <2>1, <2>2, Assoc
  <2>5. (One(Quote) ++ f) ++ v = One(Quote) ++ (f ++ v)
    BY Marks, Assoc
  <2>6. LIT ++ (d ++ (One(Quote) ++ (f ++ v))) = b ++ t
    BY <2>0, <2>3, <2>4, <2>5
  <2>7. 0 < Size(d) /\ Size(d) <= MAX_LENGTH_DIGITS /\ ~TooLong(LengthOf(d))
    BY <2>0, <2>1 DEF MAX_LENGTH_DIGITS, TooLong, MAX_FRAME_SIZE
  <2>8. PICK h \in Bytes :
          /\ item = Data(h) /\ LengthOf(d) = Size(h) /\ f ++ v = h ++ t
    <3>1. Carries("ascii", "server", b, item)
      BY <1>1
    <3> DEFINE u == f ++ v
    <3>2. /\ d \in Bytes /\ AllDigits(d) /\ u \in Bytes /\ 0 < Size(d)
          /\ LIT ++ (d ++ (One(Quote) ++ u)) = b ++ t
      BY <2>1, <2>2, <2>6, <2>7
    <3> HIDE DEF u
    <3>3. \E h \in Bytes :
            /\ ~TooLong(Size(h)) /\ b = Prefixed(h) /\ item = Data(h)
            /\ d = Decimal(Size(h)) /\ LengthOf(d) = Size(h) /\ u = h ++ t
      BY <2>7, <3>1, <3>2, PrefixRead
    <3> QED BY <3>3 DEF u
  <2>9. f = h /\ v = t
    <3>1. f ++ v = h ++ t /\ Size(f) = Size(h)
      BY <2>1, <2>8
    <3> QED BY <3>1, SameParts
  <2> QED BY <1>1, <2>8, <2>9 DEF Says
<1>2. CASE fmt = "fixed"
  <2>1. PICK h \in Bytes : Size(h) = FixedLength /\ b = h /\ item = Data(h)
    BY <1>2 DEF Carries, Fits, Coded, Says, Bad
  <2>2. Size(f) = FixedLength /\ f ++ v = h ++ t
    BY <1>2, <2>1 DEF Fits, Coded
  <2>3. f = h /\ v = t
    BY <2>1, <2>2, SameParts
  <2> QED BY <1>2, <2>1, <2>3 DEF Says
<1>3. CASE fmt = "framed"
  <2> DEFINE S == One(START_BYTE)
             E == One(END_BYTE)
             n == Long(Size(f))
  <2>0. Packed(Size(f)) /\ Coded(fmt, f) = Framed(f)
    BY <1>3 DEF Fits, Coded
  <2>1. /\ n \in Bytes /\ Size(n) = 4 /\ OfLong(n) = Size(f)
        /\ S \in Bytes /\ Size(S) = 1 /\ E \in Bytes /\ Size(E) = 1
        /\ S # E
    BY <2>0, LongExact, Marks, MarkIs, OneIs
  <2> HIDE DEF S, E, n
  <2>2. ASSUME NEW h \in Bytes, NEW m \in Bytes, NEW z \in Bytes, m = Long(Size(h)), Packed(Size(h))
        PROVE  Framed(h) \in Bytes /\ Framed(h) ++ z = S ++ (m ++ (h ++ (E ++ z)))
    <3>1. Framed(h) \in Bytes /\ Framed(h) = S ++ (m ++ (h ++ E))
      BY <2>2, FramedIs DEF S, E
    <3>2. /\ h ++ E \in Bytes /\ m ++ (h ++ E) \in Bytes
      BY <2>1, Joins
    <3>3. Framed(h) ++ z = S ++ ((m ++ (h ++ E)) ++ z)
      BY <2>1, <3>1, <3>2, Assoc
    <3>4. (m ++ (h ++ E)) ++ z = m ++ ((h ++ E) ++ z)
      BY <3>2, Assoc
    <3>5. (h ++ E) ++ z = h ++ (E ++ z)
      BY <2>1, Assoc
    <3> QED BY <3>1, <3>3, <3>4, <3>5
  <2>3. /\ E ++ v \in Bytes /\ f ++ (E ++ v) \in Bytes /\ n ++ (f ++ (E ++ v)) \in Bytes
        /\ S ++ (n ++ (f ++ (E ++ v))) = b ++ t
    <3>1. Framed(f) ++ v = S ++ (n ++ (f ++ (E ++ v)))
      BY <2>0, <2>1, <2>2 DEF n
    <3> QED BY <2>0, <2>1, <3>1, Joins
  <2>4. ASSUME NEW h \in Bytes, Packed(Size(h)), b = Framed(h), item = Says(fmt, side, h)
        PROVE  item = Says(fmt, side, f) /\ v = t
    <3> DEFINE m == Long(Size(h))
    <3>1. m \in Bytes /\ Size(m) = 4 /\ OfLong(m) = Size(h)
      BY <2>4, LongExact
    <3>2. b ++ t = S ++ (m ++ (h ++ (E ++ t)))
      BY <2>2, <2>4, <3>1
    <3> HIDE DEF m
    <3>3. E ++ t \in Bytes /\ h ++ (E ++ t) \in Bytes /\ m ++ (h ++ (E ++ t)) \in Bytes
      BY <2>1, <3>1, Joins
    <3>4. n ++ (f ++ (E ++ v)) = m ++ (h ++ (E ++ t))
      BY <2>1, <2>3, <3>2, <3>3, SameParts
    <3>5. n = m /\ f ++ (E ++ v) = h ++ (E ++ t)
      BY <2>1, <2>3, <3>1, <3>3, <3>4, SameParts
    <3>6. f = h /\ E ++ v = E ++ t
      <4>1. Size(f) = Size(h)
        BY <2>1, <3>1, <3>5
      <4> QED BY <2>3, <3>3, <3>5, <4>1, SameParts
    <3>7. v = t
      BY <2>1, <3>6, SameParts
    <3> QED BY <2>4, <3>6, <3>7
  <2>5. ~(side = "server" /\ b \in Bytes /\ BadFrame(b))
    <3> SUFFICES ASSUME side = "server", b \in Bytes, BadFrame(b) PROVE FALSE
      OBVIOUS
    <3>1. ASSUME NEW x \in Byte, NEW r \in Bytes, x # START_BYTE, b = One(x) ++ r PROVE FALSE
      <4>1. One(x) \in Bytes /\ Size(One(x)) = 1 /\ r ++ t \in Bytes
        BY OneByte, Joins
      <4>2. S ++ (n ++ (f ++ (E ++ v))) = One(x) ++ (r ++ t)
        BY <2>3, <3>1, <4>1, Assoc
      <4>3. S = One(x)
        BY <2>1, <2>3, <4>1, <4>2, SameParts
      <4> QED BY <3>1, <4>3, OneIs DEF S
    <3>2. ASSUME NEW a \in Bytes, NEW l \in Bytes, NEW u \in Bytes,
                 Size(a) = 1, Size(l) = 4, b = a ++ (l ++ u)
          PROVE  n = l /\ f ++ (E ++ v) = u ++ t
      <4>1. l ++ u \in Bytes /\ u ++ t \in Bytes /\ l ++ (u ++ t) \in Bytes
        BY Joins
      <4>2. b ++ t = a ++ ((l ++ u) ++ t)
        BY <3>2, <4>1, Assoc
      <4>3. (l ++ u) ++ t = l ++ (u ++ t)
        BY Assoc
      <4>4. S ++ (n ++ (f ++ (E ++ v))) = a ++ (l ++ (u ++ t))
        BY <2>3, <4>2, <4>3
      <4>5. n ++ (f ++ (E ++ v)) = l ++ (u ++ t)
        BY <2>1, <2>3, <3>2, <4>1, <4>4, SameParts
      <4> QED BY <2>1, <2>3, <3>2, <4>1, <4>5, SameParts
    <3>3. ASSUME NEW a \in Bytes, NEW l \in Bytes, NEW r \in Bytes,
                 Size(a) = 1, Size(l) = 4, TooLong(OfLong(l)), b = a ++ (l ++ r)
          PROVE  FALSE
      <4>1. n = l
        BY <3>2, <3>3
      <4> QED BY <1>3, <2>1, <3>3, <4>1
    <3>4. ASSUME NEW a \in Bytes, NEW l \in Bytes, NEW g \in Bytes, NEW r \in Bytes, NEW y \in Byte,
                 Size(a) = 1, Size(l) = 4, Size(g) = OfLong(l), y # END_BYTE,
                 b = a ++ (l ++ (g ++ (One(y) ++ r)))
          PROVE  FALSE
      <4>1. /\ One(y) \in Bytes /\ Size(One(y)) = 1 /\ One(y) ++ r \in Bytes
            /\ g ++ (One(y) ++ r) \in Bytes /\ r ++ t \in Bytes
            /\ One(y) ++ (r ++ t) \in Bytes
        BY OneByte, Joins
      <4>2. n = l /\ f ++ (E ++ v) = (g ++ (One(y) ++ r)) ++ t
        BY <3>2, <3>4, <4>1
      <4>3. (g ++ (One(y) ++ r)) ++ t = g ++ ((One(y) ++ r) ++ t)
        BY <4>1, Assoc
      <4>4. (One(y) ++ r) ++ t = One(y) ++ (r ++ t)
        BY <4>1, Assoc
      <4>5. f ++ (E ++ v) = g ++ (One(y) ++ (r ++ t))
        BY <4>2, <4>3, <4>4
      <4>6. Size(f) = Size(g)
        BY <2>1, <3>4, <4>2
      <4>7. E ++ v = One(y) ++ (r ++ t)
        BY <2>3, <4>1, <4>5, <4>6, SameParts
      <4>8. E = One(y)
        BY <2>1, <4>1, <4>7, SameParts
      <4> QED BY <3>4, <4>8, OneIs DEF E
    <3> QED BY <3>1, <3>3, <3>4, BadFrameIs
  <2> QED BY <1>3, <2>4, <2>5 DEF Carries, Fits, Coded, Bad
<1> QED BY <1>1, <1>2, <1>3

-----------------------------------------------------------------------------
(* The codec of requests and responses                                      *)

LEMMA AtFront ==
  ASSUME NEW s \in Bytes, NEW t \in Bytes, NEW i \in Nat, 1 <= i, i <= Size(s)
  PROVE  (s ++ t)[i] = s[i]
<1>1. s \in Seq(Byte) /\ t \in Seq(Byte) /\ i \in 1 .. Len(s)
  BY DEF Bytes, Size
<1>2. Len(s) \in Nat /\ Len(t) \in Nat /\ i \in 1 .. Len(s) + Len(t) /\ i <= Len(s)
  BY <1>1, LenProperties
<1>3. (s \o t)[i] = IF i <= Len(s) THEN s[i] ELSE t[i - Len(s)]
  BY <1>1, <1>2, ConcatProperties
<1>4. (s \o t)[i] = s[i]
  BY <1>2, <1>3
<1> QED BY <1>4, Zenon DEF ++

LEMMA LastAdded ==
  ASSUME NEW s \in Bytes, NEW t \in Bytes, Size(t) = 1
  PROVE  (s ++ t)[Size(s) + 1] = t[1]
<1>1. s \in Seq(Byte) /\ t \in Seq(Byte) /\ Len(t) = 1
  BY Zenon DEF Bytes, Size
<1>2. Len(s) \in Nat
  BY <1>1, LenProperties
<1>3. Len(s) + 1 \in 1 .. Len(s) + Len(t) /\ ~(Len(s) + 1 <= Len(s)) /\ (Len(s) + 1) - Len(s) = 1
  BY <1>1, <1>2
<1>4. (s \o t)[Len(s) + 1] =
        IF Len(s) + 1 <= Len(s) THEN s[Len(s) + 1] ELSE t[(Len(s) + 1) - Len(s)]
  BY <1>1, <1>3, ConcatProperties
<1>5. (s \o t)[Len(s) + 1] = t[1]
  BY <1>3, <1>4
<1> QED BY <1>5, Zenon DEF ++, Size

\* A header, a length and the data after it are found where they were put.
LEMMA Sections ==
  ASSUME NEW h \in Bytes, NEW l \in Bytes, NEW d \in Bytes, Size(l) = 2,
         NEW f, f = (h ++ l) ++ d
  PROVE  /\ f \in Bytes /\ Size(f) = Size(h) + 2 + Size(d)
         /\ Part(f, Size(h) + 1, Size(h) + 2) = l
         /\ Rest(f, Size(h) + 2) = d
         /\ \A i \in Nat : 1 <= i /\ i <= Size(h) => f[i] = h[i]
<1>0. /\ Size(h) \in Nat /\ Size(d) \in Nat /\ h ++ l \in Bytes /\ Size(h ++ l) = Size(h) + 2
  BY EmptyBytes, Joins
<1>1. f \in Bytes /\ Size(f) = Size(h) + 2 + Size(d)
  BY <1>0, Joins
<1>2. Rest(f, Size(h) + 2) = d /\ Front(f, Size(h) + 2) = h ++ l
  BY <1>0, CutBack
<1>3. f = h ++ (l ++ d) /\ l ++ d \in Bytes
  BY Assoc, Joins
<1>4. Front(f, Size(h)) = h
  BY <1>3, CutBack
<1>5. Part(f, Size(h) + 1, Size(h) + 2) = l
  <2>1. Size(h) \in 0 .. Size(f) /\ Size(h) + 2 \in Size(h) .. Size(f)
    BY <1>0, <1>1
  <2> DEFINE q == Part(f, Size(h) + 1, Size(h) + 2)
  <2>2. q \in Bytes /\ h ++ l = h ++ q
    BY <1>1, <1>2, <1>4, <2>1, Parts
  <2> HIDE DEF q
  <2>3. l = q
    BY <2>2, SameParts
  <2> QED BY <2>3 DEF q
<1>6. \A i \in Nat : 1 <= i /\ i <= Size(h) => f[i] = h[i]
  BY <1>3, AtFront
<1> QED BY <1>1, <1>2, <1>5, <1>6

\* decode_request() undoes encode_request().
LEMMA RequestExact ==
  ASSUME NEW r \in Requests
  PROVE  LET f == EncodeRequest(r)
         IN f \in Bytes /\ Packed(Size(f)) /\ DecodeRequest(f) = r
<1> DEFINE f == EncodeRequest(r)
           h == <<r.command, 0, 0, 0>>
           l == Short(r.length)
           p == IF r.command \in {WRITE_OUTPUT, SET_HOST_STATE} THEN r.data ELSE <<>>
<1>0. /\ r \in [command : Byte, length : Nat, data : Bytes] /\ Small(r.length)
      /\ Size(r.data) = IF r.command = WRITE_OUTPUT THEN r.length
                        ELSE IF r.command = SET_HOST_STATE THEN 1 ELSE 0
  BY RequestAssumption DEF Bytes, Size, Small
<1>1. /\ h \in Bytes /\ Size(h) = 4 /\ h[1] = r.command
  <2>1. 0 \in Byte /\ r.command \in Byte
    BY <1>0, ByteIs
  <2> QED BY <2>1 DEF Bytes, Size
<1>2. l \in Bytes /\ Size(l) = 2 /\ OfShort(l) = r.length
  BY <1>0, ShortExact
<1>3. p \in Bytes /\ p = r.data /\ Size(p) \in Nat /\ Small(Size(p))
  BY <1>0, EmptyBytes DEF Small, WRITE_OUTPUT, SET_HOST_STATE
<1>4. f = (h ++ l) ++ p
  BY Zenon DEF EncodeRequest, ++
<1> HIDE DEF f, h, l, p
<1>5. /\ f \in Bytes /\ Size(f) = 6 + Size(p)
      /\ Part(f, 5, 6) = l /\ Rest(f, 6) = p /\ f[1] = r.command
  <2>1. /\ f \in Bytes /\ Size(f) = 4 + 2 + Size(p)
        /\ Part(f, 4 + 1, 4 + 2) = l /\ Rest(f, 4 + 2) = p
        /\ f[1] = h[1]
    BY <1>1, <1>2, <1>3, <1>4, Sections
  <2>2. 4 + 1 = 5 /\ 4 + 2 = 6
    OBVIOUS
  <2> QED BY <1>1, <2>1, <2>2
<1>6. Header(f).length = r.length
  BY <1>2, <1>5, Zenon DEF Header, Part
<1>7. Len(f) = 6 + Size(p) /\ Len(f) >= 6 /\ Len(f) - 6 = Size(p) /\ Len(f) \in Nat
  BY <1>3, <1>5 DEF Size
<1>8. WellFormed(f)
  BY <1>0, <1>3, <1>5, <1>6, <1>7 DEF WellFormed, WRITE_OUTPUT, SET_HOST_STATE
<1>9. (IF f[1] \in {WRITE_OUTPUT, SET_HOST_STATE} THEN SubSeq(f, 7, Len(f)) ELSE <<>>) = r.data
  <2>1. CASE r.command \in {WRITE_OUTPUT, SET_HOST_STATE}
    <3>1. SubSeq(f, 6 + 1, Len(f)) = p
      BY <1>5, Zenon DEF Rest
    <3>2. 6 + 1 = 7
      OBVIOUS
    <3>3. SubSeq(f, 7, Len(f)) = p
      BY <3>1, <3>2, Zenon
    <3>4. f[1] \in {WRITE_OUTPUT, SET_HOST_STATE}
      BY <1>5, <2>1, Zenon
    <3>5. p = r.data
      BY <1>3
    <3> QED BY <3>3, <3>4, <3>5, Zenon
  <2>2. CASE r.command \notin {WRITE_OUTPUT, SET_HOST_STATE}
    BY <1>0, <1>3, <1>5, <2>2, EmptyBytes
  <2> QED BY <2>1, <2>2
<1>10. DecodeRequest(f) = [command |-> r.command, length |-> r.length, data |-> r.data]
  BY <1>5, <1>6, <1>8, <1>9, Zenon DEF DecodeRequest
<1>11. r = [command |-> r.command, length |-> r.length, data |-> r.data]
  BY <1>0
<1>12. Packed(Size(f))
  BY <1>3, <1>5 DEF Packed, Small
<1> QED BY <1>5, <1>10, <1>11, <1>12 DEF f

Answers == {a \in [status : {0, 1, 2}, command : Byte, data : Bytes] : Small(Size(a.data))}

\* decode_response() undoes encode().
LEMMA ResponseExact ==
  ASSUME NEW a \in Answers
  PROVE  LET f == EncodeResponse(a)
         IN f \in Bytes /\ Packed(Size(f)) /\ DecodeResponse(f) = a
<1> DEFINE f == EncodeResponse(a)
           h == <<a.status, a.command>>
           l == Short(Size(a.data))
<1>0. /\ a \in [status : {0, 1, 2}, command : Byte, data : Bytes]
      /\ Size(a.data) \in Nat /\ Small(Size(a.data))
  BY EmptyBytes DEF Answers
<1>1. /\ h \in Bytes /\ Size(h) = 2 /\ h[1] = a.status /\ h[2] = a.command
  <2>1. a.status \in Byte /\ a.command \in Byte
    BY <1>0, ByteIs
  <2> QED BY <2>1 DEF Bytes, Size
<1>2. l \in Bytes /\ Size(l) = 2 /\ OfShort(l) = Size(a.data)
  BY <1>0, ShortExact
<1>3. f = (h ++ l) ++ a.data
  BY Zenon DEF EncodeResponse, ++, Size
<1> HIDE DEF f, h, l
<1>4. /\ f \in Bytes /\ Size(f) = 4 + Size(a.data)
      /\ Part(f, 3, 4) = l /\ Rest(f, 4) = a.data /\ f[1] = a.status /\ f[2] = a.command
  <2>1. /\ f \in Bytes /\ Size(f) = 2 + 2 + Size(a.data)
        /\ Part(f, 2 + 1, 2 + 2) = l /\ Rest(f, 2 + 2) = a.data
        /\ f[1] = h[1] /\ f[2] = h[2]
    BY <1>0, <1>1, <1>2, <1>3, Sections
  <2>2. 2 + 1 = 3 /\ 2 + 2 = 4
    OBVIOUS
  <2> QED BY <1>1, <2>1, <2>2
<1>5. OfShort(SubSeq(f, 3, 4)) = Size(a.data)
  BY <1>2, <1>4, Zenon DEF Part
<1>6. SubSeq(f, 5, 4 + OfShort(SubSeq(f, 3, 4))) = a.data
  <2>1. 4 + OfShort(SubSeq(f, 3, 4)) = Len(f)
    BY <1>4, <1>5 DEF Size
  <2>2. SubSeq(f, 4 + 1, Len(f)) = a.data
    BY <1>4, Zenon DEF Rest
  <2>3. 4 + 1 = 5
    OBVIOUS
  <2> QED BY <2>1, <2>2, <2>3, Zenon
<1>7. DecodeResponse(f) = [status |-> a.status, command |-> a.command, data |-> a.data]
  BY <1>4, <1>6, Zenon DEF DecodeResponse, Response
<1>8. a = [status |-> a.status, command |-> a.command, data |-> a.data]
  BY <1>0
<1>9. Packed(Size(f))
  BY <1>0, <1>4 DEF Packed, Small
<1> QED BY <1>4, <1>7, <1>8, <1>9 DEF f

Fill(n) == [i \in 1 .. n |-> END_BYTE]

LEMMA Filled == \A n \in Nat : Fill(n) \in Bytes /\ Size(Fill(n)) = n
<1> SUFFICES ASSUME NEW n \in Nat PROVE Fill(n) \in Bytes /\ Size(Fill(n)) = n
  OBVIOUS
<1>1. [i \in 1 .. n |-> END_BYTE] \in Seq(Byte)
  BY Marks
<1>2. Len([i \in 1 .. n |-> END_BYTE]) = n
  OBVIOUS
<1> QED BY <1>1, <1>2, Zenon DEF Fill, Bytes, Size

LEMMA AnAnswer ==
  ASSUME NEW s \in {0, 1, 2}, NEW c \in Byte, NEW d \in Bytes, Small(Size(d))
  PROVE  [status |-> s, command |-> c, data |-> d] \in Answers
  BY DEF Answers

\* Whatever the frame, the answer to it can be encoded.
LEMMA ExecuteType ==
  ASSUME NEW f \in Bytes
  PROVE  Execute(DecodeRequest(f)) \in Answers
<1> DEFINE r == DecodeRequest(f)
<1>0. Size(f) \in Nat /\ Len(f) = Size(f)
  BY EmptyBytes DEF Size
<1>1. CASE ~WellFormed(f)
  <2>1. r = [status |-> 1, command |-> IF f = <<>> THEN 255 ELSE f[1]]
    BY <1>1 DEF DecodeRequest, Refused
  <2>2. r.command \in Byte
    <3>1. CASE f = <<>>
      BY <2>1, <3>1, ByteIs
    <3>2. CASE f # <<>>
      <4>1. 0 < Size(f)
        BY <1>0, <3>2, EmptyBytes
      <4>2. f[0 + 1] \in Byte
        BY <4>1, OnePart
      <4> QED BY <2>1, <3>2, <4>2
    <3> QED BY <3>1, <3>2
  <2>3. Execute(r) = [status |-> 1, command |-> r.command, data |-> <<>>]
    BY <2>1 DEF Execute, Response
  <2>4. Small(Size(<<>>))
    BY EmptyBytes DEF Small
  <2> QED BY <2>2, <2>3, <2>4, EmptyBytes, AnAnswer
<1>2. CASE WellFormed(f)
  <2> DEFINE d == IF f[1] \in {WRITE_OUTPUT, SET_HOST_STATE} THEN SubSeq(f, 7, Len(f)) ELSE <<>>
  <2>1. r = [command |-> f[1], length |-> Header(f).length, data |-> d]
    BY <1>2 DEF DecodeRequest
  <2>2. f[1] \in Byte
    <3>1. 0 < Size(f)
      BY <1>0, <1>2 DEF WellFormed
    <3>2. f[0 + 1] \in Byte
      BY <3>1, OnePart
    <3> QED BY <3>2
  <2>3. Small(Header(f).length)
    <3>1. 4 \in 0 .. Size(f) /\ 6 \in 4 .. Size(f) /\ 4 + 1 = 5 /\ 6 - 4 = 2
      BY <1>0, <1>2 DEF WellFormed
    <3>2. Part(f, 5, 6) \in Bytes /\ Size(Part(f, 5, 6)) = 2
      BY <3>1, Parts
    <3>3. Header(f).length = OfShort(Part(f, 5, 6))
      BY DEF Header, Part
    <3> QED BY <3>2, <3>3, ShortBack
  <2>4. r.command \in Byte /\ r.length \in Nat /\ Small(r.length) /\ "status" \notin DOMAIN r
    BY <2>1, <2>2, <2>3 DEF Small
  <2> HIDE DEF r
  <2> DEFINE e == Fill(r.length)
  <2>5. e \in Bytes /\ Small(Size(e)) /\ Small(Size(<<>>))
    BY <2>4, Filled, EmptyBytes DEF Small
  <2>6. \/ Execute(r) = [status |-> 2, command |-> r.command, data |-> <<>>]
        \/ Execute(r) = [status |-> 0, command |-> r.command, data |-> <<>>]
        \/ Execute(r) = [status |-> 0, command |-> r.command, data |-> e]
    <3>1. CASE r.command \notin Commands
      BY <2>4, <3>1, Zenon DEF Execute, Response
    <3>2. CASE r.command \in Commands /\ r.command = READ_INPUT
      BY <2>4, <3>2, Zenon DEF Execute, Response, Fill
    <3>3. CASE r.command \in Commands /\ r.command # READ_INPUT
      BY <2>4, <3>3, Zenon DEF Execute, Response
    <3> QED BY <3>1, <3>2, <3>3
  <2> HIDE DEF r, e
  <2>7. Execute(r) \in Answers
    BY <2>4, <2>5, <2>6, EmptyBytes, AnAnswer
  <2> QED BY <2>7 DEF r
<1> QED BY <1>1, <1>2

-----------------------------------------------------------------------------
(* A stream and what was put on it                                          *)

Formats == {"framed", "ascii", "fixed"}

Items ==
  {NoFrame} \cup {Data(f) : f \in Bytes}
  \cup {DecodeRequest(f) : f \in Bytes} \cup {DecodeResponse(f) : f \in Bytes}

\* The stream still holds u, which begins with item n + 1.  tail[i] is what
\* follows item i; if not whole, a part of the end is lost.
Flow(fmt, side, items, n, u, whole) ==
  \E tail \in [0 .. Len(items) -> Bytes], rest \in Bytes :
    /\ tail[Len(items)] = <<>>
    /\ \A i \in n + 1 .. Len(items) :
         \E b \in Bytes : Carries(fmt, side, b, items[i]) /\ tail[i - 1] = b ++ tail[i]
    /\ tail[n] = u ++ rest
    /\ whole => rest = <<>>

LEMMA CarriesItem ==
  ASSUME NEW fmt, NEW side, NEW b, NEW item, Carries(fmt, side, b, item)
  PROVE  item \in Items
<1>1. ASSUME NEW f \in Bytes PROVE Says(fmt, side, f) \in Items
  BY DEF Says, Items
<1> QED BY <1>1 DEF Carries, Items

\* No frame says that it is none.
LEMMA SaysFrame ==
  ASSUME NEW fmt, NEW side, NEW f
  PROVE  Says(fmt, side, f) # NoFrame
<1>1. "bytes" \in DOMAIN NoFrame
  BY DEF NoFrame
<1>2. "bytes" \notin DOMAIN Data(f)
  BY DEF Data
<1>3. "bytes" \notin DOMAIN DecodeResponse(f)
  BY DEF DecodeResponse, Response
<1>4. "bytes" \notin DOMAIN DecodeRequest(f)
  <2>1. CASE WellFormed(f)
    <3> DEFINE d == IF f[1] \in {WRITE_OUTPUT, SET_HOST_STATE} THEN SubSeq(f, 7, Len(f)) ELSE <<>>
               c == f[1]
               l == Header(f).length
    <3>1. DecodeRequest(f) = [command |-> c, length |-> l, data |-> d]
      BY <2>1, Zenon DEF DecodeRequest
    <3> HIDE DEF c, d, l
    <3> QED BY <3>1
  <2>2. CASE ~WellFormed(f)
    <3> DEFINE c == IF f = <<>> THEN 255 ELSE f[1]
    <3>1. DecodeRequest(f) = [status |-> 1, command |-> c]
      BY <2>2, Zenon DEF DecodeRequest, Refused
    <3> HIDE DEF c
    <3> QED BY <3>1
  <2> QED BY <2>1, <2>2
<1> QED BY <1>1, <1>2, <1>3, <1>4, Zenon DEF Says

LEMMA FlowStart ==
  ASSUME NEW fmt, NEW side
  PROVE  Flow(fmt, side, <<>>, 0, <<>>, TRUE)
<1> DEFINE tail == [i \in 0 .. 0 |-> <<>>]
<1>1. tail \in [0 .. Len(<<>>) -> Bytes] /\ tail[0] = <<>> /\ Len(<<>>) = 0
  BY EmptyBytes
<1>2. \A i \in 0 + 1 .. Len(<<>>) : FALSE
  OBVIOUS
<1>3. <<>> \in Bytes /\ <<>> = <<>> ++ <<>>
  BY EmptyBytes
<1> QED BY <1>1, <1>2, <1>3, Zenon DEF Flow

\* What is sent next follows what is there.
LEMMA FlowAppend ==
  ASSUME NEW fmt, NEW side, NEW items \in Seq(Items), NEW n \in 0 .. Len(items),
         NEW u \in Bytes, Flow(fmt, side, items, n, u, TRUE),
         NEW b \in Bytes, NEW item \in Items, Carries(fmt, side, b, item)
  PROVE  Flow(fmt, side, Append(items, item), n, u ++ b, TRUE)
<1> DEFINE m == Len(items)
           more == Append(items, item)
<1>0. /\ m \in Nat /\ Len(more) = m + 1 /\ n \in 0 .. m
      /\ \A i \in 1 .. m : more[i] = items[i]
      /\ more[m + 1] = item
  BY AppendProperties, LenProperties
<1>1. PICK tail \in [0 .. m -> Bytes], rest \in Bytes :
        /\ tail[m] = <<>>
        /\ \A i \in n + 1 .. m :
             \E c \in Bytes : Carries(fmt, side, c, items[i]) /\ tail[i - 1] = c ++ tail[i]
        /\ tail[n] = u ++ rest
        /\ rest = <<>>
  BY DEF Flow
<1> HIDE DEF m, more
<1> DEFINE next == [i \in 0 .. m + 1 |-> IF i = m + 1 THEN <<>> ELSE tail[i] ++ b]
<1>2. /\ next \in [0 .. m + 1 -> Bytes]
      /\ next[m + 1] = <<>>
      /\ \A i \in 0 .. m : next[i] = tail[i] ++ b
  <2>1. \A i \in 0 .. m : tail[i] \in Bytes /\ tail[i] ++ b \in Bytes
    BY Joins
  <2>2. \A i \in 0 .. m + 1 : i = m + 1 \/ i \in 0 .. m
    BY <1>0
  <2>3. m + 1 \in 0 .. m + 1 /\ \A i \in 0 .. m : i # m + 1 /\ i \in 0 .. m + 1
    BY <1>0
  <2> QED BY <2>1, <2>2, <2>3, EmptyBytes
<1> HIDE DEF next
<1>3. ASSUME NEW i \in n + 1 .. m + 1
      PROVE  \E c \in Bytes : Carries(fmt, side, c, more[i]) /\ next[i - 1] = c ++ next[i]
  <2>0. m \in Nat
    BY <1>0
  <2>1. CASE i = m + 1
    <3>1. m \in 0 .. m /\ i - 1 = m
      BY <2>0, <2>1
    <3>2. next[i - 1] = b ++ next[i]
      BY <1>1, <1>2, <2>1, <3>1, EmptyBytes
    <3> QED BY <1>0, <2>1, <3>2
  <2>2. CASE i # m + 1
    <3>1. i \in n + 1 .. m /\ i \in 1 .. m /\ i \in 0 .. m /\ i - 1 \in 0 .. m
      BY <1>0, <2>2
    <3>2. PICK c \in Bytes : Carries(fmt, side, c, items[i]) /\ tail[i - 1] = c ++ tail[i]
      BY <1>1, <3>1
    <3>3. tail[i] \in Bytes
      BY <3>1
    <3>4. next[i - 1] = c ++ next[i]
      BY <1>2, <3>1, <3>2, <3>3, Assoc
    <3> QED BY <1>0, <3>1, <3>2, <3>4
  <2> QED BY <2>1, <2>2
<1>4. next[n] = (u ++ b) ++ <<>>
  <2>1. next[n] = u ++ b
    BY <1>0, <1>1, <1>2, EmptyBytes
  <2>2. u ++ b \in Bytes
    BY Joins
  <2> QED BY <2>1, <2>2, EmptyBytes
<1>5. <<>> \in Bytes
  BY EmptyBytes
<1> QED BY <1>0, <1>2, <1>3, <1>4, <1>5 DEF Flow, more

\* What is lost at the end leaves the beginning.
LEMMA FlowCut ==
  ASSUME NEW fmt, NEW side, NEW items, NEW n, NEW u \in Bytes, NEW v \in Bytes, NEW whole,
         Flow(fmt, side, items, n, u ++ v, whole)
  PROVE  Flow(fmt, side, items, n, u, FALSE)
<1>1. PICK tail \in [0 .. Len(items) -> Bytes], rest \in Bytes :
        /\ tail[Len(items)] = <<>>
        /\ \A i \in n + 1 .. Len(items) :
             \E b \in Bytes : Carries(fmt, side, b, items[i]) /\ tail[i - 1] = b ++ tail[i]
        /\ tail[n] = (u ++ v) ++ rest
  BY Zenon DEF Flow
<1>2. v ++ rest \in Bytes /\ tail[n] = u ++ (v ++ rest)
  BY <1>1, Joins, Assoc
<1> QED BY <1>1, <1>2, Zenon DEF Flow

\* Item n + 1 is what u begins with, or a part of it is.
Heads(fmt, side, items, n, u, whole) ==
  \E b, t, rest \in Bytes :
    /\ Carries(fmt, side, b, items[n + 1])
    /\ u ++ rest = b ++ t
    /\ \A v \in Bytes : v ++ rest = t => Flow(fmt, side, items, n + 1, v, whole)

\* Where there are bytes left there is an item that they are the beginning of.
LEMMA FlowHead ==
  ASSUME NEW fmt, NEW side, NEW items \in Seq(Items), NEW n \in 0 .. Len(items),
         NEW u \in Bytes, NEW whole, Flow(fmt, side, items, n, u, whole), 0 < Size(u)
  PROVE  n + 1 \in 1 .. Len(items) /\ Heads(fmt, side, items, n, u, whole)
<1>0. Len(items) \in Nat /\ n \in Nat /\ n <= Len(items)
  BY LenProperties
<1>1. PICK tail \in [0 .. Len(items) -> Bytes], rest \in Bytes :
        /\ tail[Len(items)] = <<>>
        /\ \A i \in n + 1 .. Len(items) :
             \E b \in Bytes : Carries(fmt, side, b, items[i]) /\ tail[i - 1] = b ++ tail[i]
        /\ tail[n] = u ++ rest
        /\ whole => rest = <<>>
  BY Zenon DEF Flow
<1>2. n # Len(items)
  <2> SUFFICES ASSUME n = Len(items) PROVE FALSE
    OBVIOUS
  <2>1. Size(u) + Size(rest) = 0 /\ Size(u) \in Nat /\ Size(rest) \in Nat
    BY <1>1, Joins, EmptyBytes
  <2> QED BY <2>1
<1>3. /\ n + 1 \in 1 .. Len(items) /\ n + 1 \in n + 1 .. Len(items)
      /\ n + 1 \in 0 .. Len(items) /\ (n + 1) - 1 = n
  BY <1>0, <1>2
<1>4. PICK b \in Bytes : Carries(fmt, side, b, items[n + 1]) /\ tail[n] = b ++ tail[n + 1]
  BY <1>1, <1>3
<1>5. tail[n + 1] \in Bytes
  BY <1>1, <1>3
<1>6. ASSUME NEW v \in Bytes, v ++ rest = tail[n + 1]
      PROVE  Flow(fmt, side, items, n + 1, v, whole)
  <2>1. \A i \in (n + 1) + 1 .. Len(items) : i \in n + 1 .. Len(items)
    BY <1>0
  <2>2. \A i \in (n + 1) + 1 .. Len(items) :
          \E c \in Bytes : Carries(fmt, side, c, items[i]) /\ tail[i - 1] = c ++ tail[i]
    BY <1>1, <2>1, Zenon
  <2> QED BY <1>1, <1>6, <2>2, Zenon DEF Flow
<1>7. u ++ rest = b ++ tail[n + 1]
  BY <1>1, <1>4
<1>8. Heads(fmt, side, items, n, u, whole)
  BY <1>4, <1>5, <1>6, <1>7, Zenon DEF Heads
<1> QED BY <1>3, <1>8

\* A frame that is taken from the stream is the next item.
LEMMA FlowTake ==
  ASSUME NEW fmt \in Formats, NEW side \in Sides, fmt = "ascii" => side = "server",
         NEW items \in Seq(Items), NEW n \in 0 .. Len(items), NEW whole,
         NEW f \in Bytes, Fits(fmt, f), fmt = "framed" /\ side = "server" => ~TooLong(Size(f)),
         NEW v \in Bytes, Flow(fmt, side, items, n, Coded(fmt, f) ++ v, whole)
  PROVE  /\ n + 1 \in 1 .. Len(items)
         /\ items[n + 1] = Says(fmt, side, f)
         /\ Flow(fmt, side, items, n + 1, v, whole)
<1> DEFINE c == Coded(fmt, f)
<1>1. c \in Bytes /\ 0 < Size(c)
  <2>1. Size(f) \in Nat
    BY EmptyBytes
  <2>2. CASE fmt = "framed"
    BY <2>1, <2>2, FramedIs DEF Fits, Coded
  <2>3. CASE fmt = "ascii"
    BY <2>1, <2>3, EmptyBytes, PrefixedIs DEF Fits, Coded
  <2>4. CASE fmt = "fixed"
    BY <2>4 DEF Fits, Coded, FixedLength
  <2> QED BY <2>2, <2>3, <2>4 DEF Formats
<1> HIDE DEF c
<1>2. Flow(fmt, side, items, n, c ++ v, whole)
  BY DEF c
<1>3. c ++ v \in Bytes /\ 0 < Size(c ++ v)
  <2>1. c ++ v \in Bytes /\ Size(c ++ v) = Size(c) + Size(v)
    BY <1>1, Joins
  <2>2. Size(c) \in Nat /\ Size(v) \in Nat
    BY <1>1, EmptyBytes
  <2> QED BY <1>1, <2>1, <2>2
<1>4. n + 1 \in 1 .. Len(items) /\ Heads(fmt, side, items, n, c ++ v, whole)
  BY <1>2, <1>3, FlowHead
<1>5. PICK b \in Bytes, t \in Bytes, rest \in Bytes :
        /\ Carries(fmt, side, b, items[n + 1])
        /\ (c ++ v) ++ rest = b ++ t
        /\ \A w \in Bytes : w ++ rest = t => Flow(fmt, side, items, n + 1, w, whole)
  BY <1>4, Zenon DEF Heads
<1>6. v ++ rest \in Bytes /\ c ++ (v ++ rest) = b ++ t
  BY <1>1, <1>5, Joins, Assoc
<1>7. items[n + 1] = Says(fmt, side, f) /\ v ++ rest = t
  BY <1>5, <1>6, FrameRead DEF Formats, c
<1> QED BY <1>4, <1>5, <1>7

\* A length that is read from the stream, quotes and all, is that of a write.
LEMMA FlowPrefix ==
  ASSUME NEW items \in Seq(Items), NEW n \in 0 .. Len(items), NEW whole,
         NEW d \in Bytes, AllDigits(d), 0 < Size(d), Size(d) <= MAX_LENGTH_DIGITS,
         ~TooLong(LengthOf(d)), NEW v \in Bytes,
         Flow("ascii", "server", items, n, LIT ++ (d ++ (One(Quote) ++ v)), whole)
  PROVE  LengthOf(d) \in Nat /\ ~TooLong(LengthOf(d)) /\ d = Decimal(LengthOf(d))
<1> DEFINE u == LIT ++ (d ++ (One(Quote) ++ v))
<1>1. /\ One(Quote) ++ v \in Bytes /\ d ++ (One(Quote) ++ v) \in Bytes
      /\ u \in Bytes /\ 0 < Size(u)
  <2>1. One(Quote) ++ v \in Bytes /\ d ++ (One(Quote) ++ v) \in Bytes
    BY Marks, Joins
  <2>2. u \in Bytes /\ Size(u) = 4 + Size(d ++ (One(Quote) ++ v))
    BY <2>1, Marks, Joins
  <2> QED BY <2>1, <2>2, EmptyBytes
<1> HIDE DEF u
<1>2. Heads("ascii", "server", items, n, u, whole)
  <2>1. Flow("ascii", "server", items, n, u, whole)
    BY DEF u
  <2> QED BY <1>1, <2>1, FlowHead
<1>3. PICK b \in Bytes, t \in Bytes, rest \in Bytes :
        Carries("ascii", "server", b, items[n + 1]) /\ u ++ rest = b ++ t
  BY <1>2, Zenon DEF Heads
<1>4. v ++ rest \in Bytes /\ LIT ++ (d ++ (One(Quote) ++ (v ++ rest))) = b ++ t
  <2>1. u ++ rest = LIT ++ ((d ++ (One(Quote) ++ v)) ++ rest)
    BY <1>1, Marks, Assoc DEF u
  <2>2. (d ++ (One(Quote) ++ v)) ++ rest = d ++ ((One(Quote) ++ v) ++ rest)
    BY <1>1, Assoc
  <2>3. (One(Quote) ++ v) ++ rest = One(Quote) ++ (v ++ rest)
    BY Marks, Assoc
  <2> QED BY <1>3, <2>1, <2>2, <2>3, Joins
<1>5. PICK f \in Bytes : ~TooLong(Size(f)) /\ d = Decimal(Size(f)) /\ LengthOf(d) = Size(f)
  BY <1>3, <1>4, PrefixRead
<1> QED BY <1>5, EmptyBytes

-----------------------------------------------------------------------------
(* Where a reader is                                                        *)

Stages == {"start", "length", "frame", "end", "whole", "literal", "digit", "data", "broken"}
Readers == [stage : Stages, need : Nat, buffer : Bytes, kept : Bytes]

\* The reader has taken p, the beginning of a frame, from the stream, before
\* what is in its buffer.
FramedPlace(side, r, p) ==
  \/ r.stage = "start" /\ r.need = 1 /\ p = <<>>
  \/ r.stage = "length" /\ r.need = 4 /\ p = One(START_BYTE)
  \/ /\ r.stage = "frame" /\ Packed(r.need) /\ (side = "server" => ~TooLong(r.need))
     /\ p = One(START_BYTE) ++ Long(r.need)
  \/ /\ r.stage = "end" /\ r.need = 1
     /\ Packed(Size(r.kept)) /\ (side = "server" => ~TooLong(Size(r.kept)))
     /\ p = One(START_BYTE) ++ (Long(Size(r.kept)) ++ r.kept)
  \/ r.stage = "whole" /\ side = "server" /\ p = <<>>

AsciiPlace(r, p) ==
  \/ r.stage = "literal" /\ r.need = 4 /\ p = <<>>
  \/ /\ r.stage = "digit" /\ r.need = 1
     /\ AllDigits(r.kept) /\ Size(r.kept) <= MAX_LENGTH_DIGITS
     /\ p = LIT ++ r.kept
  \/ r.stage = "data" /\ ~TooLong(r.need) /\ p = LIT ++ (Decimal(r.need) ++ One(Quote))

Place(fmt, side, r, p) ==
  \/ fmt = "framed" /\ FramedPlace(side, r, p)
  \/ fmt = "ascii" /\ AsciiPlace(r, p)
  \/ fmt = "fixed" /\ r.stage = "data" /\ r.need = FixedLength /\ p = <<>>

\* What comes of a reader once it has q of a frame.
Outcome(fmt, side, next, q) ==
  \/ next = Broken
  \/ /\ next \in Readers /\ next.buffer = <<>> /\ next.stage \notin {"broken", "whole"}
     /\ Place(fmt, side, next, q)
  \/ \E f \in Bytes :
       /\ next = Whole(f) /\ Fits(fmt, f) /\ q = Coded(fmt, f)
       /\ fmt = "framed" /\ side = "server" => ~TooLong(Size(f))

LEMMA AtReader ==
  ASSUME NEW stage \in Stages, NEW need \in Nat, NEW kept \in Bytes, NEW r, r = At(stage, need, kept)
  PROVE  /\ r \in Readers
         /\ r.stage = stage /\ r.need = need /\ r.buffer = <<>> /\ r.kept = kept
BY EmptyBytes DEF At, Readers

LEMMA FormatIs ==
  ASSUME mode \in Formats, NEW side \in Sides
  PROVE  /\ Format(side) \in Formats
         /\ Format(side) = "ascii" => side = "server"
         /\ mode = "framed" <=> Format(side) = "framed"
BY DEF Format, Formats, Sides

\* A reader begins at the beginning of a frame.
LEMMA StartPlace ==
  ASSUME mode \in Formats, NEW side \in Sides
  PROVE  /\ Start(side) \in Readers /\ Start(side).buffer = <<>>
         /\ Start(side).stage \notin {"broken", "whole"}
         /\ Place(Format(side), side, Start(side), <<>>)
<1>1. CASE Format(side) = "framed"
  <2>1. Start(side) = At("start", 1, <<>>)
    BY <1>1 DEF Start
  <2> QED BY <1>1, <2>1, AtReader, EmptyBytes DEF Stages, Place, FramedPlace
<1>2. CASE Format(side) = "ascii"
  <2>1. Start(side) = At("literal", 4, <<>>)
    BY <1>2, Marks DEF Start, LIT, Size
  <2> QED BY <1>2, <2>1, AtReader, EmptyBytes DEF Stages, Place, AsciiPlace
<1>3. CASE Format(side) = "fixed"
  <2>1. Start(side) = At("data", FixedLength, <<>>) /\ FixedLength \in Nat
    BY <1>3 DEF Start, FixedLength
  <2> QED BY <1>3, <2>1, AtReader, EmptyBytes DEF Stages, Place
<1> QED BY <1>1, <1>2, <1>3, FormatIs DEF Formats

LEMMA AloneByte ==
  ASSUME NEW b \in Bytes, Size(b) = 1
  PROVE  b[1] \in Byte /\ b = One(b[1])
<1>1. b \in Seq(Byte) /\ Len(b) = 1
  BY Zenon DEF Bytes, Size
<1>2. b = <<b[1]>> /\ b[1] \in Byte
  BY <1>1
<1> QED BY <1>2, Zenon DEF One

\* [START][4-byte length][frame][END] is read byte for byte as it is written.
LEMMA FramedStep ==
  ASSUME NEW side \in Sides, NEW r \in Readers, NEW p \in Bytes, FramedPlace(side, r, p),
         r.stage # "whole", NEW bytes \in Bytes, Size(bytes) = r.need
  PROVE  Outcome("framed", side, AfterFramed(side, r, bytes), p ++ bytes)
<1> DEFINE next == AfterFramed(side, r, bytes)
           S == One(START_BYTE)
<1>0. S \in Bytes
  BY Marks
<1>1. CASE r.stage = "start"
  <2>1. p = <<>> /\ next = IF bytes = S THEN At("length", 4, <<>>) ELSE Broken
    BY <1>1 DEF FramedPlace, AfterFramed, One
  <2>2. CASE bytes = S
    <3>1. p ++ bytes = S
      BY <2>1, <2>2, EmptyBytes
    <3>2. FramedPlace(side, At("length", 4, <<>>), S)
      BY AtReader, EmptyBytes DEF Stages, FramedPlace
    <3>3. /\ At("length", 4, <<>>) \in Readers /\ At("length", 4, <<>>).buffer = <<>>
          /\ At("length", 4, <<>>).stage \notin {"broken", "whole"}
      BY AtReader, EmptyBytes DEF Stages
    <3> HIDE DEF S
    <3> QED BY <2>1, <2>2, <3>1, <3>2, <3>3 DEF Outcome, Place
  <2>3. CASE bytes # S
    BY <2>1, <2>3 DEF Outcome
  <2> QED BY <2>2, <2>3
<1>2. CASE r.stage = "length"
  <2> DEFINE n == OfLong(bytes)
             a == At("frame", n, <<>>)
  <2>1. /\ p = S /\ Size(bytes) = 4
        /\ next = IF side = "server" /\ TooLong(n) THEN Broken ELSE a
    BY <1>2 DEF FramedPlace, AfterFramed
  <2>2. Packed(n) /\ n \in Nat /\ bytes = Long(n)
    BY <2>1, LongBack DEF Packed
  <2> HIDE DEF n
  <2>3. /\ a \in Readers /\ a.buffer = <<>> /\ a.stage = "frame" /\ a.need = n
    BY <2>2, AtReader, EmptyBytes DEF Stages
  <2> HIDE DEF a, next
  <2>4. CASE side = "server" /\ TooLong(n)
    BY <2>1, <2>4 DEF Outcome, next
  <2>5. CASE ~(side = "server" /\ TooLong(n))
    <3>1. FramedPlace(side, a, p ++ bytes)
      BY <2>1, <2>2, <2>3, <2>5 DEF FramedPlace
    <3>2. next = a
      BY <2>1, <2>5
    <3>3. Outcome("framed", side, next, p ++ bytes)
      BY <2>3, <3>1, <3>2 DEF Outcome, Place
    <3> QED BY <3>3 DEF next
  <2> QED BY <2>4, <2>5
<1>3. CASE r.stage = "frame"
  <2> DEFINE a == At("end", 1, bytes)
             n == Long(r.need)
  <2>1. /\ Packed(r.need) /\ (side = "server" => ~TooLong(r.need))
        /\ p = S ++ n /\ next = a
    BY <1>3 DEF FramedPlace, AfterFramed
  <2>2. n \in Bytes /\ n = Long(Size(bytes))
    BY <2>1, LongExact
  <2>3. a \in Readers /\ a.buffer = <<>> /\ a.stage = "end" /\ a.need = 1 /\ a.kept = bytes
    BY AtReader DEF Stages
  <2> HIDE DEF a, n, next
  <2>4. p ++ bytes = S ++ (n ++ bytes)
    BY <1>0, <2>1, <2>2, Assoc
  <2>5. FramedPlace(side, a, p ++ bytes)
    BY <2>1, <2>2, <2>3, <2>4 DEF FramedPlace
  <2>6. Outcome("framed", side, next, p ++ bytes)
    BY <2>1, <2>3, <2>5 DEF Outcome, Place
  <2> QED BY <2>6 DEF next
<1>4. CASE r.stage = "end"
  <2> DEFINE f == r.kept
             n == Long(Size(f))
             E == One(END_BYTE)
  <2>0. f \in Bytes
    BY DEF Readers
  <2>1. /\ Packed(Size(f)) /\ (side = "server" => ~TooLong(Size(f)))
        /\ p = S ++ (n ++ f)
        /\ next = IF bytes = E THEN Whole(f) ELSE Broken
    BY <1>4 DEF FramedPlace, AfterFramed, One
  <2>2. n \in Bytes
    BY <2>1, LongExact
  <2> HIDE DEF next
  <2>3. CASE bytes = E
    <3>1. /\ n ++ f \in Bytes /\ E \in Bytes
      BY <2>0, <2>2, Marks, Joins
    <3>2. p ++ bytes = S ++ ((n ++ f) ++ E)
      BY <1>0, <2>1, <2>3, <3>1, Assoc
    <3>3. (n ++ f) ++ E = n ++ (f ++ E)
      BY <2>0, <2>2, <3>1, Assoc
    <3>4. p ++ bytes = Framed(f)
      BY <2>0, <2>1, <3>2, <3>3, FramedIs
    <3>5. next = Whole(f)
      BY <2>1, <2>3
    <3>6. Fits("framed", f) /\ Coded("framed", f) = Framed(f)
      BY <2>1 DEF Fits, Coded
    <3>7. \E g \in Bytes :
            /\ next = Whole(g) /\ Fits("framed", g) /\ p ++ bytes = Coded("framed", g)
            /\ "framed" = "framed" /\ side = "server" => ~TooLong(Size(g))
      BY <2>0, <2>1, <3>4, <3>5, <3>6, Zenon
    <3> QED BY <3>7, Zenon DEF Outcome, next
  <2>4. CASE bytes # E
    <3>1. next = Broken
      BY <2>1, <2>4
    <3> QED BY <3>1, Zenon DEF Outcome, next
  <2> QED BY <2>3, <2>4
<1> QED BY <1>1, <1>2, <1>3, <1>4 DEF FramedPlace

\* len"N" and N bytes are read byte for byte as they are written, as long as
\* a length in quotes is that of a write.
LEMMA AsciiStep ==
  ASSUME NEW r \in Readers, NEW p \in Bytes, AsciiPlace(r, p),
         NEW bytes \in Bytes, Size(bytes) = r.need,
         r.stage = "digit" /\ bytes = One(Quote) /\ r.kept # <<>> /\ ~TooLong(LengthOf(r.kept))
           => /\ LengthOf(r.kept) \in Nat /\ ~TooLong(LengthOf(r.kept))
              /\ r.kept = Decimal(LengthOf(r.kept))
  PROVE  Outcome("ascii", "server", AfterAscii(r, bytes), p ++ bytes)
<1> DEFINE next == AfterAscii(r, bytes)
<1>0. /\ r.kept \in Bytes /\ LIT \in Bytes /\ One(Quote) \in Bytes
      /\ Size(r.kept) \in Nat
  BY Marks, EmptyBytes DEF Readers
<1>1. CASE r.stage = "literal"
  <2> DEFINE a == At("digit", 1, <<>>)
  <2>1. p = <<>> /\ next = IF bytes = LIT THEN a ELSE Broken
    BY <1>1 DEF AsciiPlace, AfterAscii, LIT
  <2>2. a \in Readers /\ a.buffer = <<>> /\ a.stage = "digit" /\ a.need = 1 /\ a.kept = <<>>
    <3>1. ASSUME NEW k \in Bytes, NEW q, q = At("digit", 1, k)
          PROVE  q \in Readers /\ q.buffer = <<>> /\ q.stage = "digit" /\ q.need = 1 /\ q.kept = k
      BY <3>1, AtReader DEF Stages
    <3> QED BY <3>1, EmptyBytes
  <2> HIDE DEF a, next
  <2>3. CASE bytes = LIT
    <3>1. p ++ bytes = LIT ++ <<>>
      BY <1>0, <2>1, <2>3, EmptyBytes
    <3>2. AllDigits(<<>>) /\ Size(<<>>) <= MAX_LENGTH_DIGITS
      BY EmptyBytes DEF AllDigits, MAX_LENGTH_DIGITS
    <3>3. AsciiPlace(a, p ++ bytes)
      BY <2>2, <3>1, <3>2 DEF AsciiPlace
    <3>4. next = a
      BY <2>1, <2>3
    <3> QED BY <2>2, <3>3, <3>4 DEF Outcome, Place, next
  <2>4. CASE bytes # LIT
    BY <2>1, <2>4 DEF Outcome, next
  <2> QED BY <2>3, <2>4
<1>2. CASE r.stage = "digit" /\ bytes = One(Quote)
  <2> DEFINE n == LengthOf(r.kept)
             a == At("data", n, <<>>)
  <2>1. /\ p = LIT ++ r.kept
        /\ next = IF r.kept = <<>> \/ TooLong(n) THEN Broken ELSE a
    BY <1>2 DEF AsciiPlace, AfterAscii, One
  <2>2. CASE r.kept = <<>> \/ TooLong(n)
    BY <2>1, <2>2 DEF Outcome
  <2>3. CASE ~(r.kept = <<>> \/ TooLong(n))
    <3>1. n \in Nat /\ ~TooLong(n) /\ r.kept = Decimal(n)
      BY <1>2, <2>3
    <3> HIDE DEF n
    <3>2. a \in Readers /\ a.buffer = <<>> /\ a.stage = "data" /\ a.need = n
      BY <3>1, AtReader, EmptyBytes DEF Stages
    <3> HIDE DEF a, next
    <3>3. p ++ bytes = LIT ++ (Decimal(n) ++ One(Quote))
      BY <1>0, <1>2, <2>1, <3>1, Assoc
    <3>4. AsciiPlace(a, p ++ bytes)
      BY <3>1, <3>2, <3>3 DEF AsciiPlace
    <3>5. next = a
      BY <2>1, <2>3
    <3> QED BY <3>2, <3>4, <3>5 DEF Outcome, Place, next
  <2> QED BY <2>2, <2>3
<1>3. CASE r.stage = "digit" /\ bytes # One(Quote)
  <2> DEFINE k == r.kept ++ bytes
             a == At("digit", 1, k)
             x == bytes[1]
  <2>1. /\ p = LIT ++ r.kept /\ Size(bytes) = 1
        /\ AllDigits(r.kept) /\ Size(r.kept) <= MAX_LENGTH_DIGITS
    BY <1>3 DEF AsciiPlace
  <2>2. next = IF x \notin Digits \/ Size(r.kept) = MAX_LENGTH_DIGITS THEN Broken ELSE a
    BY <1>3 DEF AfterAscii, One, ++, Size
  <2> HIDE DEF x
  <2>3. CASE x \notin Digits \/ Size(r.kept) = MAX_LENGTH_DIGITS
    BY <2>2, <2>3 DEF Outcome
  <2>4. CASE ~(x \notin Digits \/ Size(r.kept) = MAX_LENGTH_DIGITS)
    <3>1. k \in Bytes /\ Size(k) = Size(r.kept) + 1
      BY <1>0, <2>1, Joins
    <3>2. Size(k) <= MAX_LENGTH_DIGITS
      BY <1>0, <2>1, <2>4, <3>1 DEF MAX_LENGTH_DIGITS
    <3>3. AllDigits(k)
      <4>1. \A i \in 1 .. Size(r.kept) : k[i] = r.kept[i]
        BY <1>0, AtFront
      <4>2. k[Size(r.kept) + 1] = x
        BY <1>0, <2>1, LastAdded DEF x
      <4>3. \A i \in 1 .. Size(r.kept) : k[i] \in Digits
        BY <2>1, <4>1 DEF AllDigits
      <4>4. \A i \in 1 .. Size(k) : i \in 1 .. Size(r.kept) \/ i = Size(r.kept) + 1
        BY <1>0, <3>1
      <4> HIDE DEF k
      <4> QED BY <2>4, <4>2, <4>3, <4>4 DEF AllDigits
    <3>4. p ++ bytes = LIT ++ k
      BY <1>0, <2>1, Assoc
    <3> HIDE DEF k
    <3>5. a \in Readers /\ a.buffer = <<>> /\ a.stage = "digit" /\ a.need = 1 /\ a.kept = k
      BY <3>1, AtReader DEF Stages
    <3> HIDE DEF a, next
    <3>6. AsciiPlace(a, p ++ bytes)
      BY <3>2, <3>3, <3>4, <3>5 DEF AsciiPlace
    <3>7. next = a
      BY <2>2, <2>4
    <3> QED BY <3>5, <3>6, <3>7 DEF Outcome, Place, next
  <2> QED BY <2>3, <2>4
<1>4. CASE r.stage = "data"
  <2> DEFINE n == r.need
             D == Decimal(n)
  <2>1. p = LIT ++ (D ++ One(Quote)) /\ ~TooLong(n) /\ n \in Nat /\ next = Whole(bytes)
    BY <1>4 DEF AsciiPlace, AfterAscii, Readers
  <2>2. D \in Bytes /\ D = Decimal(Size(bytes)) /\ ~TooLong(Size(bytes))
    BY <2>1, DecimalIs
  <2> HIDE DEF n, D, next
  <2>3. D ++ One(Quote) \in Bytes
    BY <1>0, <2>2, Joins
  <2>4. p ++ bytes = LIT ++ ((D ++ One(Quote)) ++ bytes)
    BY <1>0, <2>1, <2>3, Assoc
  <2>5. (D ++ One(Quote)) ++ bytes = D ++ (One(Quote) ++ bytes)
    BY <1>0, <2>2, Assoc
  <2>6. p ++ bytes = Prefixed(bytes)
    BY <2>2, <2>4, <2>5, PrefixedIs
  <2>7. Fits("ascii", bytes) /\ Coded("ascii", bytes) = Prefixed(bytes)
    BY <2>2 DEF Fits, Coded
  <2>8. \E g \in Bytes :
          /\ next = Whole(g) /\ Fits("ascii", g) /\ p ++ bytes = Coded("ascii", g)
          /\ "ascii" = "framed" /\ "server" = "server" => ~TooLong(Size(g))
    BY <2>1, <2>6, <2>7
  <2> QED BY <2>8, Zenon DEF Outcome, next
<1> QED BY <1>1, <1>2, <1>3, <1>4 DEF AsciiPlace

-----------------------------------------------------------------------------
(* A reader and the stream that is before it                                *)

\* The reader is in step: what it has of a frame, with the bytes that are on
\* their way (w), begins with item n + 1.
Located(fmt, side, r, w, items, n, whole) ==
  \/ r.stage = "broken"
  \/ \E p \in Bytes :
       /\ Place(fmt, side, r, p)
       /\ Flow(fmt, side, items, n, p ++ (r.buffer ++ w), whole)

LEMMA LocatedAppend ==
  ASSUME NEW fmt, NEW side, NEW r \in Readers, NEW w \in Bytes,
         NEW items \in Seq(Items), NEW n \in 0 .. Len(items),
         Located(fmt, side, r, w, items, n, TRUE),
         NEW b \in Bytes, NEW item \in Items, Carries(fmt, side, b, item)
  PROVE  Located(fmt, side, r, w ++ b, Append(items, item), n, TRUE)
<1>1. SUFFICES ASSUME NEW p \in Bytes, Place(fmt, side, r, p),
                      Flow(fmt, side, items, n, p ++ (r.buffer ++ w), TRUE)
               PROVE  Flow(fmt, side, Append(items, item), n, p ++ (r.buffer ++ (w ++ b)), TRUE)
  BY DEF Located
<1>2. /\ r.buffer \in Bytes /\ r.buffer ++ w \in Bytes /\ p ++ (r.buffer ++ w) \in Bytes
  BY Joins DEF Readers
<1>3. Flow(fmt, side, Append(items, item), n, (p ++ (r.buffer ++ w)) ++ b, TRUE)
  BY <1>1, <1>2, FlowAppend
<1>4. (p ++ (r.buffer ++ w)) ++ b = p ++ ((r.buffer ++ w) ++ b)
  BY <1>2, Assoc
<1>5. (r.buffer ++ w) ++ b = r.buffer ++ (w ++ b)
  BY <1>2, Assoc
<1> QED BY <1>3, <1>4, <1>5

LEMMA LocatedCut ==
  ASSUME NEW fmt, NEW side, NEW r \in Readers, NEW w \in Bytes,
         NEW items, NEW n, NEW whole,
         Located(fmt, side, r, w, items, n, whole),
         NEW k \in 0 .. Size(w)
  PROVE  Front(w, k) \in Bytes /\ Located(fmt, side, r, Front(w, k), items, n, FALSE)
<1> DEFINE a == Front(w, k)
           z == Rest(w, k)
<1>0. a \in Bytes /\ z \in Bytes /\ w = a ++ z
  BY Cut
<1> HIDE DEF a, z
<1>1. ASSUME NEW p \in Bytes, Flow(fmt, side, items, n, p ++ (r.buffer ++ w), whole)
      PROVE  Flow(fmt, side, items, n, p ++ (r.buffer ++ a), FALSE)
  <2>1. r.buffer \in Bytes /\ r.buffer ++ a \in Bytes /\ p ++ (r.buffer ++ a) \in Bytes
    BY <1>0, Joins DEF Readers
  <2>2. r.buffer ++ w = (r.buffer ++ a) ++ z
    BY <1>0, <2>1, Assoc
  <2>3. p ++ ((r.buffer ++ a) ++ z) = (p ++ (r.buffer ++ a)) ++ z
    BY <1>0, <2>1, Assoc
  <2>4. Flow(fmt, side, items, n, (p ++ (r.buffer ++ a)) ++ z, whole)
    BY <1>1, <2>2, <2>3
  <2> QED BY <1>0, <2>1, <2>4, FlowCut
<1>2. Located(fmt, side, r, a, items, n, FALSE)
  BY <1>1 DEF Located
<1> QED BY <1>0, <1>2 DEF a

\* A piece is taken that does not complete what the reader asks for.
LEMMA LocatedPiece ==
  ASSUME NEW fmt, NEW side, NEW r \in Readers, NEW a \in Bytes, NEW z \in Bytes,
         NEW items, NEW n, NEW whole,
         Located(fmt, side, r, a ++ z, items, n, whole)
  PROVE  LET next == [r EXCEPT !.buffer = r.buffer ++ a]
         IN next \in Readers /\ Located(fmt, side, next, z, items, n, whole)
<1> DEFINE next == [r EXCEPT !.buffer = r.buffer ++ a]
<1>1. r.buffer \in Bytes /\ r.buffer ++ a \in Bytes
  BY Joins DEF Readers
<1>2. /\ next \in Readers /\ next.stage = r.stage /\ next.need = r.need /\ next.kept = r.kept
      /\ next.buffer = r.buffer ++ a
  BY <1>1 DEF Readers
<1>3. (r.buffer ++ a) ++ z = r.buffer ++ (a ++ z)
  BY <1>1, Assoc
<1> HIDE DEF next
<1>4. \A p : Place(fmt, side, r, p) => Place(fmt, side, next, p)
  BY <1>2 DEF Place, FramedPlace, AsciiPlace
<1>5. Located(fmt, side, next, z, items, n, whole)
  BY <1>2, <1>3, <1>4 DEF Located
<1> QED BY <1>2, <1>5 DEF next

\* A piece is taken that completes it.
LEMMA LocatedNext ==
  ASSUME mode \in Formats, NEW side \in Sides, NEW r \in Readers,
         r.stage \notin {"broken", "whole"},
         NEW a \in Bytes, NEW z \in Bytes, Size(r.buffer ++ a) = r.need,
         NEW items \in Seq(Items), NEW n \in 0 .. Len(items), NEW whole,
         Located(Format(side), side, r, a ++ z, items, n, whole)
  PROVE  LET next == After(side, r, r.buffer ++ a)
         IN /\ next \in Readers
            /\ next.stage # "whole" => Located(Format(side), side, next, z, items, n, whole)
            /\ next.stage = "whole" =>
                 /\ next = Whole(next.kept) /\ next.kept \in Bytes
                 /\ n + 1 \in 1 .. Len(items)
                 /\ items[n + 1] = Says(Format(side), side, next.kept)
                 /\ Flow(Format(side), side, items, n + 1, z, whole)
<1> DEFINE fmt == Format(side)
           bytes == r.buffer ++ a
           next == After(side, r, bytes)
<1>1. fmt \in Formats /\ (fmt = "ascii" => side = "server")
  BY FormatIs
<1>2. PICK p \in Bytes : /\ Place(fmt, side, r, p)
                         /\ Flow(fmt, side, items, n, p ++ (r.buffer ++ (a ++ z)), whole)
  BY DEF Located
<1>3. /\ r.buffer \in Bytes /\ bytes \in Bytes /\ p ++ bytes \in Bytes
      /\ Flow(fmt, side, items, n, p ++ (bytes ++ z), whole)
      /\ Flow(fmt, side, items, n, (p ++ bytes) ++ z, whole)
  <2>1. r.buffer \in Bytes /\ bytes \in Bytes /\ p ++ bytes \in Bytes
    BY Joins DEF Readers
  <2>2. r.buffer ++ (a ++ z) = bytes ++ z /\ p ++ (bytes ++ z) = (p ++ bytes) ++ z
    BY <2>1, Assoc
  <2> QED BY <1>2, <2>1, <2>2
<1>4. Size(bytes) = r.need
  OBVIOUS
<1>5. Outcome(fmt, side, next, p ++ bytes)
  <2>1. CASE fmt = "framed"
    <3>1. next = AfterFramed(side, r, bytes)
      BY <2>1 DEF After
    <3>2. FramedPlace(side, r, p)
      BY <1>2, <2>1 DEF Place
    <3> HIDE DEF fmt, bytes, next
    <3> QED BY <1>3, <1>4, <2>1, <3>1, <3>2, FramedStep
  <2>2. CASE fmt = "ascii"
    <3>1. next = AfterAscii(r, bytes)
      BY <2>2 DEF After
    <3>2. AsciiPlace(r, p) /\ side = "server"
      BY <1>1, <1>2, <2>2 DEF Place
    <3> HIDE DEF fmt, bytes, next
    <3>3. ASSUME r.stage = "digit", bytes = One(Quote), r.kept # <<>>, ~TooLong(LengthOf(r.kept))
          PROVE  /\ LengthOf(r.kept) \in Nat /\ ~TooLong(LengthOf(r.kept))
                 /\ r.kept = Decimal(LengthOf(r.kept))
      <4>1. /\ r.kept \in Bytes /\ p = LIT ++ r.kept /\ AllDigits(r.kept)
            /\ Size(r.kept) <= MAX_LENGTH_DIGITS
        BY <3>2, <3>3 DEF AsciiPlace, Readers
      <4>2. 0 < Size(r.kept)
        BY <3>3, <4>1, EmptyBytes
      <4>3. p ++ (bytes ++ z) = LIT ++ (r.kept ++ (One(Quote) ++ z))
        <5>1. One(Quote) \in Bytes /\ LIT \in Bytes /\ One(Quote) ++ z \in Bytes
          BY Marks, Joins
        <5>2. r.kept ++ (One(Quote) ++ z) \in Bytes
          BY <4>1, <5>1, Joins
        <5>3. p ++ (bytes ++ z) = (LIT ++ r.kept) ++ (One(Quote) ++ z)
          BY <3>3, <4>1
        <5> QED BY <4>1, <5>1, <5>3, Assoc
      <4>4. Flow("ascii", "server", items, n, LIT ++ (r.kept ++ (One(Quote) ++ z)), whole)
        BY <1>3, <2>2, <3>2, <4>3
      <4> QED BY <3>3, <4>1, <4>2, <4>4, FlowPrefix
    <3>4. Outcome("ascii", "server", AfterAscii(r, bytes), p ++ bytes)
      BY <1>3, <1>4, <3>2, <3>3, AsciiStep
    <3> QED BY <2>2, <3>1, <3>2, <3>4
  <2>3. CASE fmt = "fixed"
    <3>1. next = Whole(bytes)
      BY <2>3 DEF After
    <3>2. p = <<>> /\ r.need = FixedLength
      BY <1>2, <2>3 DEF Place
    <3>3. p ++ bytes = bytes /\ Fits(fmt, bytes) /\ Coded(fmt, bytes) = bytes
      BY <1>3, <1>4, <2>3, <3>2, EmptyBytes DEF Fits, Coded
    <3> HIDE DEF fmt, bytes, next
    <3> QED BY <1>3, <2>3, <3>1, <3>3 DEF Outcome
  <2> QED BY <1>1, <2>1, <2>2, <2>3 DEF Formats
<1> HIDE DEF fmt, bytes, next
<1> DEFINE Goal == /\ next \in Readers
                   /\ next.stage # "whole" => Located(fmt, side, next, z, items, n, whole)
                   /\ next.stage = "whole" =>
                        /\ next = Whole(next.kept) /\ next.kept \in Bytes
                        /\ n + 1 \in 1 .. Len(items)
                        /\ items[n + 1] = Says(fmt, side, next.kept)
                        /\ Flow(fmt, side, items, n + 1, z, whole)
<1>6. ASSUME next = Broken
      PROVE  Goal
  <2>1. next \in Readers /\ next.stage = "broken"
    <3>1. "broken" \in Stages /\ 0 \in Nat /\ <<>> \in Bytes
      BY EmptyBytes DEF Stages
    <3> QED BY <1>6, <3>1, AtReader DEF Broken
  <2> QED BY <2>1 DEF Located
<1>7. ASSUME next \in Readers, next.buffer = <<>>, next.stage \notin {"broken", "whole"},
             Place(fmt, side, next, p ++ bytes)
      PROVE  Goal
  <2>1. (p ++ bytes) ++ z = (p ++ bytes) ++ (next.buffer ++ z)
    BY <1>7, EmptyBytes
  <2>2. Located(fmt, side, next, z, items, n, whole)
    BY <1>3, <1>7, <2>1 DEF Located
  <2> QED BY <1>7, <2>2
<1>8. ASSUME NEW f \in Bytes, next = Whole(f), Fits(fmt, f), p ++ bytes = Coded(fmt, f),
             fmt = "framed" /\ side = "server" => ~TooLong(Size(f))
      PROVE  Goal
  <2>1. next \in Readers /\ next.stage = "whole" /\ next.kept = f
    <3>1. "whole" \in Stages /\ 0 \in Nat
      BY DEF Stages
    <3> QED BY <1>8, <3>1, AtReader DEF Whole
  <2>2. Flow(fmt, side, items, n, Coded(fmt, f) ++ z, whole)
    BY <1>3, <1>8
  <2>3. /\ n + 1 \in 1 .. Len(items)
        /\ items[n + 1] = Says(fmt, side, f)
        /\ Flow(fmt, side, items, n + 1, z, whole)
    BY <1>1, <1>8, <2>2, FlowTake
  <2> QED BY <1>8, <2>1, <2>3
<1>9. Goal
  BY <1>5, <1>6, <1>7, <1>8 DEF Outcome
<1> QED BY <1>9 DEF fmt, bytes, next

-----------------------------------------------------------------------------
(* The inductive invariant                                                  *)

Peer(side) == IF side = "server" THEN "client" ELSE "server"

\* The frames a side took are those the first items it was sent say.
Took(fmt, side, frames, items) ==
  /\ Len(frames) <= Len(items)
  /\ \A i \in 1 .. Len(frames) : items[i] = Says(fmt, side, frames[i])

\* A side took what it was sent, and while it reads it is in step with the rest.
InStep(fmt, side, r, w, items, frames, reads, whole) ==
  /\ Took(fmt, side, frames, items)
  /\ reads => Located(fmt, side, r, w, items, Len(frames), whole)

\* The server has answered the frames it took, but for one it still has.
Replied(r, frames, answers) ==
  /\ \A i \in 1 .. Len(answers) : answers[i] = Execute(DecodeRequest(frames[i]))
  /\ r.stage = "whole" =>
       Len(frames) = Len(answers) + 1 /\ r = Whole(frames[Len(answers) + 1])
  /\ r.stage # "whole" => Len(frames) = Len(answers)

Types ==
  /\ mode \in Formats
  /\ wire \in [Sides -> Bytes]
  /\ reader \in [Sides -> Readers]
  /\ sent \in [Sides -> Seq(Items)]
  /\ got \in [Sides -> Seq(Bytes)]
  /\ open \in [Sides -> BOOLEAN]

SidesInStep ==
  \A s \in Sides :
    InStep(Format(s), s, reader[s], wire[s], sent[s], got[s], open[s], open[Peer(s)])

FramesReplied ==
  mode = "framed" => Replied(reader["server"], got["server"], sent["client"])

IInv == Types /\ SidesInStep /\ FramesReplied

LEMMA PeerIs ==
  ASSUME NEW side \in Sides
  PROVE  /\ Peer(side) \in Sides /\ Peer(side) # side /\ Peer(Peer(side)) = side
         /\ \A s \in Sides : s = side \/ s = Peer(side)
         /\ (CHOOSE s \in Sides : s # side) = Peer(side)
<1>1. /\ Peer(side) \in Sides /\ Peer(side) # side /\ Peer(Peer(side)) = side
      /\ \A s \in Sides : s = side \/ s = Peer(side)
  BY DEF Peer, Sides
<1> QED BY <1>1

LEMMA SizesIn ==
  ASSUME NEW r \in Readers, NEW n \in Nat, NEW k \in Sizes(r, n)
  PROVE  k \in 0 .. n
<1>1. r.need \in Nat /\ r.buffer \in Bytes /\ Len(r.buffer) \in Nat
  BY EmptyBytes DEF Readers, Size
<1> QED BY <1>1 DEF Sizes

LEMMA Initially == Init => IInv
<1> SUFFICES ASSUME Init PROVE IInv
  OBVIOUS
<1>1. mode \in Formats
  BY DEF Init, Formats
<1>2. Types
  <2>1. \A s \in Sides : Start(s) \in Readers
    BY <1>1, StartPlace
  <2>2. <<>> \in Seq(Items) /\ <<>> \in Seq(Bytes)
    BY EmptySeq
  <2> QED BY <1>1, <2>1, <2>2, EmptyBytes DEF Init, Types
<1>3. SidesInStep
  <2> SUFFICES ASSUME NEW s \in Sides
               PROVE  InStep(Format(s), s, Start(s), <<>>, <<>>, <<>>, TRUE, TRUE)
    BY PeerIs DEF Init, SidesInStep
  <2>1. Took(Format(s), s, <<>>, <<>>)
    BY DEF Took
  <2>2. Start(s).buffer = <<>> /\ Place(Format(s), s, Start(s), <<>>)
    BY <1>1, StartPlace
  <2>3. <<>> ++ (<<>> ++ <<>>) = <<>> /\ <<>> \in Bytes
    BY EmptyBytes
  <2>4. Flow(Format(s), s, <<>>, 0, <<>> ++ (Start(s).buffer ++ <<>>), TRUE)
    BY <2>2, <2>3, FlowStart
  <2>5. Located(Format(s), s, Start(s), <<>>, <<>>, 0, TRUE)
    BY <2>2, <2>3, <2>4, Zenon DEF Located
  <2>6. Len(<<>>) = 0
    BY EmptySeq
  <2> QED BY <2>1, <2>5, <2>6, Zenon DEF InStep
<1>4. FramesReplied
  <2>1. "server" \in Sides /\ "client" \in Sides
    BY DEF Sides
  <2>2. Start("server").stage # "whole"
    BY <1>1, <2>1, StartPlace
  <2>3. reader["server"] = Start("server") /\ got["server"] = <<>> /\ sent["client"] = <<>>
    BY <2>1 DEF Init
  <2> QED BY <2>2, <2>3, EmptySeq DEF FramesReplied, Replied
<1> QED BY <1>2, <1>3, <1>4 DEF IInv

\* A side takes a piece of what is on its way to it.
LEMMA ReceiveKeeps ==
  ASSUME IInv, NEW side \in Sides, Receive(side)
  PROVE  IInv'
<1> DEFINE r == reader[side]
           w == wire[side]
           fmt == Format(side)
           n == Len(got[side])
           items == sent[side]
           whole == open[Peer(side)]
<1>1. /\ mode \in Formats /\ r \in Readers /\ w \in Bytes /\ items \in Seq(Items)
      /\ got[side] \in Seq(Bytes) /\ n \in 0 .. Len(items) /\ n \in Nat
      /\ open[side] /\ r.stage \notin {"broken", "whole"}
      /\ Took(fmt, side, got[side], items)
      /\ Located(fmt, side, r, w, items, n, whole)
      /\ mode' = mode /\ sent' = sent /\ open' = open
  <2>1. /\ open[side] /\ r.stage \notin {"broken", "whole"}
        /\ mode' = mode /\ sent' = sent /\ open' = open
    BY DEF Receive, Reading
  <2>2. /\ mode \in Formats /\ r \in Readers /\ w \in Bytes /\ items \in Seq(Items)
        /\ got[side] \in Seq(Bytes)
    BY DEF IInv, Types
  <2>3. /\ Took(fmt, side, got[side], items)
        /\ Located(fmt, side, r, w, items, n, whole)
    BY <2>1 DEF IInv, SidesInStep, InStep
  <2>4. n \in Nat /\ Len(items) \in Nat
    BY <2>2, LenProperties
  <2>5. n <= Len(items)
    BY <2>3 DEF Took
  <2> QED BY <2>1, <2>2, <2>3, <2>4, <2>5
<1>2. PICK k \in Sizes(r, Size(w)) :
        /\ wire' = [wire EXCEPT ![side] = Rest(w, k)]
        /\ IF Size(r.buffer ++ Front(w, k)) # r.need
           THEN /\ reader' = [reader EXCEPT ![side].buffer = r.buffer ++ Front(w, k)]
                /\ UNCHANGED got
           ELSE IF After(side, r, r.buffer ++ Front(w, k)).stage = "whole"
           THEN /\ got' = [got EXCEPT ![side] =
                           Append(got[side], After(side, r, r.buffer ++ Front(w, k)).kept)]
                /\ reader' = [reader EXCEPT ![side] =
                     IF side = "server" /\ mode = "framed"
                     THEN After(side, r, r.buffer ++ Front(w, k)) ELSE Start(side)]
           ELSE /\ reader' = [reader EXCEPT ![side] = After(side, r, r.buffer ++ Front(w, k))]
                /\ UNCHANGED got
  BY Zenon DEF Receive, Complete, Front, Rest, Size, ++
<1> DEFINE a == Front(w, k)
           z == Rest(w, k)
           bytes == r.buffer ++ a
           next == After(side, r, bytes)
<1>3. a \in Bytes /\ z \in Bytes /\ w = a ++ z
  <2>1. k \in 0 .. Size(w)
    BY <1>1, SizesIn, EmptyBytes
  <2> QED BY <1>1, <2>1, Cut
<1>4. wire' = [wire EXCEPT ![side] = z]
  BY <1>2
<1>5. \/ /\ Size(bytes) # r.need
         /\ reader' = [reader EXCEPT ![side].buffer = bytes]
         /\ got' = got
      \/ /\ Size(bytes) = r.need /\ next.stage # "whole"
         /\ reader' = [reader EXCEPT ![side] = next]
         /\ got' = got
      \/ /\ Size(bytes) = r.need /\ next.stage = "whole"
         /\ reader' = [reader EXCEPT ![side] =
                         IF side = "server" /\ mode = "framed" THEN next ELSE Start(side)]
         /\ got' = [got EXCEPT ![side] = Append(got[side], next.kept)]
  BY <1>2
<1> HIDE DEF a, z, bytes, next, fmt, n, items, whole
\* What is to be shown of the side itself.
<1>6. ASSUME NEW q \in Readers, NEW frames \in Seq(Bytes),
             reader' = [reader EXCEPT ![side] = q],
             got' = [got EXCEPT ![side] = frames],
             Took(fmt, side, frames, items),
             Located(fmt, side, q, z, items, Len(frames), whole),
             mode = "framed" /\ side = "server" => Replied(q, frames, sent["client"])
      PROVE  IInv'
  <2>0. "server" \in Sides /\ "client" \in Sides
    BY DEF Sides
  <2>1. Types'
    BY <1>1, <1>3, <1>4, <1>6 DEF IInv, Types
  <2>2. /\ reader'[side] = q /\ got'[side] = frames /\ wire'[side] = z
        /\ \A s \in Sides : s # side =>
             reader'[s] = reader[s] /\ got'[s] = got[s] /\ wire'[s] = wire[s]
    BY <1>4, <1>6 DEF IInv, Types
  <2>3. \A s \in Sides : Format(s)' = Format(s)
    BY <1>1 DEF Format
  <2>4. SidesInStep'
    <3> SUFFICES ASSUME NEW s \in Sides
                 PROVE  InStep(Format(s), s, reader'[s], wire'[s], sent[s], got'[s],
                               open[s], open[Peer(s)])
      BY <1>1, <2>3 DEF SidesInStep
    <3>1. CASE s = side
      <4>1. InStep(fmt, side, q, z, items, frames, open[side], whole)
        BY <1>6 DEF InStep
      <4> QED BY <2>2, <3>1, <4>1 DEF fmt, items, whole
    <3>2. CASE s # side
      <4>1. InStep(Format(s), s, reader[s], wire[s], sent[s], got[s], open[s], open[Peer(s)])
        BY DEF IInv, SidesInStep
      <4> QED BY <2>2, <3>2, <4>1
    <3> QED BY <3>1, <3>2
  <2>5. FramesReplied'
    <3> SUFFICES ASSUME mode = "framed"
                 PROVE  Replied(reader'["server"], got'["server"], sent["client"])
      BY <1>1 DEF FramesReplied
    <3>1. CASE side = "server"
      BY <1>6, <2>2, <3>1
    <3>2. CASE side # "server"
      BY <2>0, <2>2, <3>2 DEF IInv, FramesReplied
    <3> QED BY <3>1, <3>2
  <2> QED BY <2>1, <2>4, <2>5 DEF IInv
<1>7. mode = "framed" /\ side = "server" =>
        /\ Replied(r, got[side], sent["client"])
        /\ n = Len(sent["client"])
        /\ \A i \in 1 .. n : sent["client"][i] = Execute(DecodeRequest(got[side][i]))
  BY <1>1 DEF IInv, FramesReplied, Replied, n
<1>8. got \in [Sides -> Seq(Bytes)] /\ reader \in [Sides -> Readers]
  BY DEF IInv, Types
<1>9. Located(fmt, side, r, a ++ z, items, n, whole)
  BY <1>1, <1>3
<1>10. CASE /\ Size(bytes) # r.need
            /\ reader' = [reader EXCEPT ![side].buffer = bytes]
            /\ got' = got
  <2> DEFINE q == [r EXCEPT !.buffer = bytes]
  <2>1. q \in Readers /\ Located(fmt, side, q, z, items, n, whole) /\ q.stage = r.stage
    <3>1. [r EXCEPT !.buffer = r.buffer ++ a] \in Readers
      BY <1>1, <1>3, <1>9, LocatedPiece
    <3>2. Located(fmt, side, [r EXCEPT !.buffer = r.buffer ++ a], z, items, n, whole)
      BY <1>1, <1>3, <1>9, LocatedPiece
    <3>3. q.stage = r.stage
      BY <1>1 DEF Readers
    <3> QED BY <3>1, <3>2, <3>3 DEF bytes
  <2>2. reader' = [reader EXCEPT ![side] = q] /\ got' = [got EXCEPT ![side] = got[side]]
    BY <1>8, <1>10
  <2> HIDE DEF q
  <2>3. mode = "framed" /\ side = "server" => Replied(q, got[side], sent["client"])
    BY <1>1, <1>7, <2>1 DEF Replied
  <2>4. Located(fmt, side, q, z, items, Len(got[side]), whole)
    BY <2>1 DEF n
  <2> QED BY <1>1, <1>6, <2>1, <2>2, <2>3, <2>4
<1>11. CASE Size(bytes) = r.need
  <2>1. /\ next \in Readers
        /\ next.stage # "whole" => Located(fmt, side, next, z, items, n, whole)
        /\ next.stage = "whole" =>
             /\ next = Whole(next.kept) /\ next.kept \in Bytes
             /\ n + 1 \in 1 .. Len(items)
             /\ items[n + 1] = Says(fmt, side, next.kept)
             /\ Flow(fmt, side, items, n + 1, z, whole)
    BY <1>1, <1>3, <1>9, <1>11, LocatedNext DEF next, bytes, fmt
  <2>2. CASE /\ next.stage # "whole"
             /\ reader' = [reader EXCEPT ![side] = next]
             /\ got' = got
    <3>1. got' = [got EXCEPT ![side] = got[side]]
      BY <1>8, <2>2
    <3>2. mode = "framed" /\ side = "server" => Replied(next, got[side], sent["client"])
      BY <1>1, <1>7, <2>2 DEF Replied
    <3>3. Located(fmt, side, next, z, items, Len(got[side]), whole)
      BY <2>1, <2>2 DEF n
    <3> QED BY <1>1, <1>6, <2>1, <2>2, <3>1, <3>2, <3>3
  <2>3. CASE /\ next.stage = "whole"
             /\ reader' = [reader EXCEPT ![side] =
                             IF side = "server" /\ mode = "framed" THEN next ELSE Start(side)]
             /\ got' = [got EXCEPT ![side] = Append(got[side], next.kept)]
    <3> DEFINE f == next.kept
               frames == Append(got[side], f)
               q == IF side = "server" /\ mode = "framed" THEN next ELSE Start(side)
    <3>1. /\ f \in Bytes /\ frames \in Seq(Bytes) /\ Len(frames) = n + 1
          /\ frames[n + 1] = f /\ \A i \in 1 .. n : frames[i] = got[side][i]
      BY <1>1, <2>1, <2>3, AppendProperties DEF n
    <3> HIDE DEF frames
    <3>2. Took(fmt, side, frames, items)
      <4>1. \A i \in 1 .. n : items[i] = Says(fmt, side, got[side][i])
        BY <1>1 DEF Took, n
      <4>2. \A i \in 1 .. n + 1 : i \in 1 .. n \/ i = n + 1
        BY <1>1
      <4>3. n + 1 <= Len(items)
        BY <2>1, <2>3
      <4> QED BY <2>1, <2>3, <3>1, <4>1, <4>2, <4>3 DEF Took
    <3>3. q \in Readers /\ q.buffer = <<>> /\ Place(fmt, side, q, <<>>)
      <4>1. CASE side = "server" /\ mode = "framed"
        <5>1. q = next /\ q.buffer = <<>> /\ q.stage = "whole"
          BY <2>1, <2>3, <4>1 DEF Whole, At
        <5>2. fmt = "framed"
          BY <1>1, <4>1, FormatIs DEF fmt
        <5> QED BY <2>1, <4>1, <5>1, <5>2 DEF Place, FramedPlace
      <4>2. CASE ~(side = "server" /\ mode = "framed")
        BY <1>1, <4>2, StartPlace DEF fmt
      <4> QED BY <4>1, <4>2
    <3>4. mode = "framed" /\ side = "server" => Replied(q, frames, sent["client"])
      BY <1>7, <2>1, <2>3, <3>1 DEF Replied
    <3>5. q \in Readers /\ q.buffer = <<>> /\ reader' = [reader EXCEPT ![side] = q]
          /\ got' = [got EXCEPT ![side] = frames]
      BY <2>3, <3>3 DEF frames
    <3> HIDE DEF q
    <3>6. Located(fmt, side, q, z, items, Len(frames), whole)
      <4>1. z = <<>> ++ (q.buffer ++ z) /\ <<>> \in Bytes
        BY <1>3, <3>3, EmptyBytes
      <4> QED BY <2>1, <2>3, <3>1, <3>3, <4>1 DEF Located
    <3> QED BY <1>6, <3>1, <3>2, <3>4, <3>5, <3>6
  <2> QED BY <1>5, <1>11, <2>2, <2>3
<1> QED BY <1>5, <1>10, <1>11

\* A side ends, and a part of what was on its way to the other is lost.
LEMMA EndKeeps ==
  ASSUME IInv, NEW side \in Sides, NEW k \in 0 .. Size(wire[Peer(side)]),
         open' = [open EXCEPT ![side] = FALSE],
         wire' \in [Sides -> Bytes], wire'[Peer(side)] = Front(wire[Peer(side)], k),
         mode' = mode, reader' = reader, sent' = sent, got' = got
  PROVE  IInv'
<1>1. Types'
  BY DEF IInv, Types
<1>2. SidesInStep'
  <2> SUFFICES ASSUME NEW s \in Sides
               PROVE  InStep(Format(s), s, reader[s], wire'[s], sent[s], got[s],
                             open'[s], open'[Peer(s)])
    BY DEF SidesInStep, Format
  <2>1. InStep(Format(s), s, reader[s], wire[s], sent[s], got[s], open[s], open[Peer(s)])
    BY DEF IInv, SidesInStep
  <2>2. open'[side] = FALSE /\ \A t \in Sides : t # side => open'[t] = open[t]
    BY DEF IInv, Types
  <2>3. CASE s = side
    BY <2>1, <2>2, <2>3 DEF InStep
  <2>4. CASE s # side
    <3>1. s = Peer(side) /\ Peer(s) = side
      BY <2>4, PeerIs
    <3>2. /\ open'[Peer(s)] = FALSE /\ open'[s] = open[s]
          /\ wire'[s] = Front(wire[s], k) /\ k \in 0 .. Size(wire[s])
      BY <2>2, <2>4, <3>1
    <3>3. reader[s] \in Readers /\ wire[s] \in Bytes
      BY DEF IInv, Types
    <3>4. ASSUME open[s]
          PROVE  Located(Format(s), s, reader[s], Front(wire[s], k), sent[s], Len(got[s]), FALSE)
      <4>1. Located(Format(s), s, reader[s], wire[s], sent[s], Len(got[s]), open[Peer(s)])
        BY <2>1, <3>4 DEF InStep
      <4> QED BY <3>2, <3>3, <4>1, LocatedCut
    <3> QED BY <2>1, <3>2, <3>4 DEF InStep
  <2> QED BY <2>3, <2>4
<1>3. FramesReplied'
  BY DEF IInv, FramesReplied
<1> QED BY <1>1, <1>2, <1>3 DEF IInv

LEMMA ClosesKeeps ==
  ASSUME IInv, NEW side \in Sides, Closes(side)
  PROVE  IInv'
<1> DEFINE other == Peer(side)
<1>1. other \in Sides /\ other # side /\ (CHOOSE s \in Sides : s # side) = other
  BY PeerIs
<1>2. /\ open' = [open EXCEPT ![side] = FALSE]
      /\ mode' = mode /\ reader' = reader /\ sent' = sent /\ got' = got
      /\ \E k \in IF wire[side] = <<>> THEN {Size(wire[other])} ELSE 0 .. Size(wire[other]) :
           wire' = [wire EXCEPT ![side] = <<>>, ![other] = Front(wire[other], k)]
  BY <1>1, Zenon DEF Closes, Front, Size
<1> HIDE DEF other
<1>3. wire \in [Sides -> Bytes] /\ Size(wire[other]) \in Nat
  BY <1>1, EmptyBytes DEF IInv, Types
<1>4. PICK k \in 0 .. Size(wire[other]) :
        wire' = [wire EXCEPT ![side] = <<>>, ![other] = Front(wire[other], k)]
  <2>1. Size(wire[other]) \in 0 .. Size(wire[other])
    BY <1>3
  <2>2. CASE wire[side] = <<>>
    BY <1>2, <2>1, <2>2, Zenon
  <2>3. CASE wire[side] # <<>>
    BY <1>2, <2>3, Zenon
  <2> QED BY <2>2, <2>3
<1>5. Front(wire[other], k) \in Bytes
  BY <1>1, <1>3, Cut
<1>6. wire' \in [Sides -> Bytes] /\ wire'[other] = Front(wire[other], k)
  BY <1>1, <1>3, <1>4, <1>5, EmptyBytes
<1> QED BY <1>2, <1>6, EndKeeps DEF other

LEMMA LeaveKeeps ==
  ASSUME IInv, Leave
  PROVE  IInv'
<1>1. "client" \in Sides /\ "server" \in Sides /\ Peer("client") = "server"
  BY DEF Sides, Peer
<1>2. /\ open' = [open EXCEPT !["client"] = FALSE]
      /\ mode' = mode /\ reader' = reader /\ sent' = sent /\ got' = got
      /\ \E k \in 0 .. Size(wire["server"]) :
           wire' = [wire EXCEPT !["server"] = Front(wire["server"], k), !["client"] = <<>>]
  BY Zenon DEF Leave, Front, Size
<1>3. wire \in [Sides -> Bytes]
  BY DEF IInv, Types
<1>4. PICK k \in 0 .. Size(wire["server"]) :
        wire' = [wire EXCEPT !["server"] = Front(wire["server"], k), !["client"] = <<>>]
  BY <1>2
<1>5. Front(wire["server"], k) \in Bytes
  BY <1>1, <1>3, Cut
<1>6. wire' \in [Sides -> Bytes] /\ wire'["server"] = Front(wire["server"], k)
  BY <1>1, <1>3, <1>4, <1>5, EmptyBytes
<1> QED BY <1>1, <1>2, <1>6, EndKeeps

\* What a side is sent follows what is on its way to it.
LEMMA SendKeeps ==
  ASSUME IInv, NEW side \in Sides, NEW b \in Bytes, NEW item, Send(side, b, item),
         Carries(Format(side), side, b, item), open[Peer(side)],
         mode' = mode, got' = got, open' = open
  PROVE  /\ wire' \in [Sides -> Bytes] /\ sent' \in [Sides -> Seq(Items)]
         /\ sent'[side] = Append(sent[side], item)
         /\ InStep(Format(side), side, reader[side], wire'[side], sent'[side], got[side],
                   open[side], open[Peer(side)])
         /\ \A s \in Sides : s # side => wire'[s] = wire[s] /\ sent'[s] = sent[s]
<1> DEFINE w == wire[side]
           items == sent[side]
           n == Len(got[side])
           r == reader[side]
           fmt == Format(side)
<1>1. item \in Items
  BY CarriesItem
<1>2. /\ wire \in [Sides -> Bytes] /\ sent \in [Sides -> Seq(Items)]
      /\ w \in Bytes /\ items \in Seq(Items) /\ r \in Readers
      /\ got[side] \in Seq(Bytes) /\ open[Peer(side)] = TRUE
  BY PeerIs DEF IInv, Types
<1>3. InStep(fmt, side, r, w, items, got[side], open[side], TRUE)
  BY <1>2 DEF IInv, SidesInStep
<1>4. /\ wire' = [wire EXCEPT ![side] = IF open[side] THEN w ++ b ELSE w]
      /\ sent' = [sent EXCEPT ![side] = Append(items, item)]
  BY Zenon DEF Send, ++
<1>5. w ++ b \in Bytes /\ Append(items, item) \in Seq(Items)
  BY <1>1, <1>2, Joins, AppendProperties
<1>6. /\ wire' \in [Sides -> Bytes] /\ sent' \in [Sides -> Seq(Items)]
      /\ sent'[side] = Append(items, item)
      /\ open[side] => wire'[side] = w ++ b
      /\ \A s \in Sides : s # side => wire'[s] = wire[s] /\ sent'[s] = sent[s]
  BY <1>2, <1>4, <1>5
<1>7. Took(fmt, side, got[side], items) /\ n \in 0 .. Len(items)
  <2>1. n \in Nat /\ Len(items) \in Nat
    BY <1>2, LenProperties
  <2> QED BY <1>3, <2>1 DEF InStep, Took
<1>8. Took(fmt, side, got[side], Append(items, item))
  <2>1. /\ Len(items) \in Nat /\ Len(Append(items, item)) = Len(items) + 1
        /\ \A i \in 1 .. Len(items) : Append(items, item)[i] = items[i]
    BY <1>1, <1>2, AppendProperties, LenProperties
  <2>2. n <= Len(items) + 1 /\ \A i \in 1 .. n : i \in 1 .. Len(items)
    BY <1>7, <2>1
  <2> QED BY <1>7, <2>1, <2>2 DEF Took
<1> HIDE DEF w, items, r, fmt
<1>9. ASSUME open[side]
      PROVE  Located(fmt, side, r, w ++ b, Append(items, item), n, TRUE)
  <2>1. Located(fmt, side, r, w, items, n, TRUE)
    BY <1>3, <1>9 DEF InStep
  <2>2. Carries(fmt, side, b, item)
    BY DEF fmt
  <2> HIDE DEF n
  <2> QED BY <1>1, <1>2, <1>7, <2>1, <2>2, LocatedAppend
<1>10. InStep(fmt, side, r, wire'[side], sent'[side], got[side], open[side], TRUE)
  BY <1>6, <1>8, <1>9 DEF InStep
<1> QED BY <1>2, <1>6, <1>10 DEF w, items, r, fmt

LEMMA ClientSendsKeeps ==
  ASSUME IInv, ClientSends
  PROVE  IInv'
<1>0. "server" \in Sides /\ "client" \in Sides /\ Peer("server") = "client"
  BY DEF Sides, Peer
<1>1. /\ mode \in Formats /\ Format("server") = mode /\ open["client"]
      /\ mode' = mode /\ reader' = reader /\ got' = got /\ open' = open
  BY DEF ClientSends, IInv, Types, Format, Formats
<1> DEFINE Goal == \E b \in Bytes : \E item : Send("server", b, item) /\ Carries(mode, "server", b, item)
<1>2. Goal
  <2>1. ASSUME mode = "framed", NEW r \in Requests,
               Send("server", Framed(EncodeRequest(r)), r)
        PROVE  Goal
    <3> DEFINE f == EncodeRequest(r)
    <3>1. f \in Bytes /\ Packed(Size(f)) /\ DecodeRequest(f) = r
      BY RequestExact
    <3>2. Framed(f) \in Bytes
      BY <3>1, FramedIs
    <3>3. Send("server", Framed(f), r)
      BY <2>1
    <3> HIDE DEF f
    <3>4. Carries(mode, "server", Framed(f), r)
      BY <2>1, <3>1 DEF Carries, Fits, Coded, Says
    <3> QED BY <3>2, <3>3, <3>4
  <2>2. ASSUME mode = "framed", NEW f \in Malformed, Send("server", Framed(f), Refused(f))
        PROVE  Goal
    <3>1. f \in Bytes /\ Size(f) \in Nat /\ Packed(Size(f)) /\ ~WellFormed(f)
      BY MalformedAssumption, EmptyBytes DEF Bytes, Size, Packed
    <3>2. Framed(f) \in Bytes /\ DecodeRequest(f) = Refused(f)
      BY <3>1, FramedIs DEF DecodeRequest
    <3>3. Carries(mode, "server", Framed(f), Refused(f))
      BY <2>2, <3>1, <3>2 DEF Carries, Fits, Coded, Says
    <3> QED BY <2>2, <3>2, <3>3
  <2>3. ASSUME mode = "framed", NEW g \in Garbage, Send("server", g, NoFrame)
        PROVE  Goal
    <3>1. g \in Bytes /\ BadFrame(g)
      BY GarbageAssumption DEF Bytes
    <3>2. Bad(mode, "server", g)
      BY <2>3, <3>1, Zenon DEF Bad
    <3>3. Carries(mode, "server", g, NoFrame)
      BY <3>1, <3>2, Zenon DEF Carries
    <3> QED BY <2>3, <3>1, <3>3
  <2>4. ASSUME mode = "ascii", NEW w \in Writes, Send("server", Prefixed(w), Data(w))
        PROVE  Goal
    <3>1. w \in Bytes /\ ~TooLong(Size(w))
      BY WriteAssumption DEF Bytes, Size
    <3>2. Prefixed(w) \in Bytes
      BY <3>1, PrefixedIs
    <3>3. Carries(mode, "server", Prefixed(w), Data(w))
      BY <2>4, <3>1 DEF Carries, Fits, Coded, Says
    <3> QED BY <2>4, <3>2, <3>3
  <2>5. ASSUME mode = "ascii", NEW g \in AsciiGarbage, Send("server", g, NoFrame)
        PROVE  Goal
    <3>1. g \in Bytes /\ BadPrefix(g)
      BY GarbageAssumption DEF Bytes
    <3> QED BY <2>5, <3>1 DEF Carries, Bad
  <2>6. ASSUME mode = "fixed", NEW d \in Blocks, Send("server", d, Data(d))
        PROVE  Goal
    <3>1. d \in Bytes /\ Size(d) = FixedLength
      BY BlockAssumption DEF Bytes, Size
    <3> QED BY <2>6, <3>1 DEF Carries, Fits, Coded, Says
  <2> QED BY <2>1, <2>2, <2>3, <2>4, <2>5, <2>6 DEF ClientSends
<1> HIDE DEF Goal
<1>3. PICK b \in Bytes : \E item : Send("server", b, item) /\ Carries(mode, "server", b, item)
  BY <1>2 DEF Goal
<1>4. PICK item : Send("server", b, item) /\ Carries(mode, "server", b, item)
  BY <1>3
<1>5. /\ wire' \in [Sides -> Bytes] /\ sent' \in [Sides -> Seq(Items)]
      /\ InStep(mode, "server", reader["server"], wire'["server"], sent'["server"],
                got["server"], open["server"], open["client"])
      /\ \A s \in Sides : s # "server" => wire'[s] = wire[s] /\ sent'[s] = sent[s]
  BY <1>0, <1>1, <1>4, SendKeeps
<1>6. Types'
  BY <1>1, <1>5 DEF IInv, Types
<1>7. SidesInStep'
  <2> SUFFICES ASSUME NEW s \in Sides
               PROVE  InStep(Format(s), s, reader[s], wire'[s], sent'[s], got[s],
                             open[s], open[Peer(s)])
    BY <1>1 DEF SidesInStep, Format
  <2>1. CASE s = "server"
    BY <1>0, <1>1, <1>5, <2>1
  <2>2. CASE s # "server"
    <3>1. InStep(Format(s), s, reader[s], wire[s], sent[s], got[s], open[s], open[Peer(s)])
      BY DEF IInv, SidesInStep
    <3> QED BY <1>5, <2>2, <3>1
  <2> QED BY <2>1, <2>2
<1>8. FramesReplied'
  <2>1. sent'["client"] = sent["client"]
    BY <1>0, <1>5
  <2> QED BY <1>1, <2>1 DEF IInv, FramesReplied
<1> QED BY <1>6, <1>7, <1>8 DEF IInv

LEMMA PushKeeps ==
  ASSUME IInv, Push
  PROVE  IInv'
<1>0. "server" \in Sides /\ "client" \in Sides /\ Peer("client") = "server"
  BY DEF Sides, Peer
<1>1. /\ mode \in Formats /\ mode # "framed" /\ Format("client") = "fixed" /\ open["server"]
      /\ mode' = mode /\ reader' = reader /\ got' = got /\ open' = open
  BY DEF Push, IInv, Types, Format, Formats
<1>2. PICK b \in Blocks : Send("client", b, Data(b))
  BY DEF Push
<1>3. b \in Bytes /\ Carries("fixed", "client", b, Data(b))
  <2>1. b \in Bytes /\ Size(b) = FixedLength
    BY BlockAssumption DEF Bytes, Size
  <2> QED BY <2>1 DEF Carries, Fits, Coded, Says
<1>4. /\ wire' \in [Sides -> Bytes] /\ sent' \in [Sides -> Seq(Items)]
      /\ InStep("fixed", "client", reader["client"], wire'["client"], sent'["client"],
                got["client"], open["client"], open["server"])
      /\ \A s \in Sides : s # "client" => wire'[s] = wire[s] /\ sent'[s] = sent[s]
  BY <1>0, <1>1, <1>2, <1>3, SendKeeps
<1>5. Types'
  BY <1>1, <1>4 DEF IInv, Types
<1>6. SidesInStep'
  <2> SUFFICES ASSUME NEW s \in Sides
               PROVE  InStep(Format(s), s, reader[s], wire'[s], sent'[s], got[s],
                             open[s], open[Peer(s)])
    BY <1>1 DEF SidesInStep, Format
  <2>1. CASE s = "client"
    BY <1>0, <1>1, <1>4, <2>1
  <2>2. CASE s # "client"
    <3>1. InStep(Format(s), s, reader[s], wire[s], sent[s], got[s], open[s], open[Peer(s)])
      BY DEF IInv, SidesInStep
    <3> QED BY <1>4, <2>2, <3>1
  <2> QED BY <2>1, <2>2
<1>7. FramesReplied'
  BY <1>1 DEF FramesReplied
<1> QED BY <1>5, <1>6, <1>7 DEF IInv

LEMMA AnswerKeeps ==
  ASSUME IInv, Answer
  PROVE  IInv'
<1> DEFINE r == reader["server"]
           frames == got["server"]
           answers == sent["client"]
           m == Len(answers)
           a == Execute(DecodeRequest(r.kept))
           next == Start("server")
<1>0. "server" \in Sides /\ "client" \in Sides /\ Peer("client") = "server" /\ Peer("server") = "client"
  BY DEF Sides, Peer
<1>1. /\ open["server"] /\ r.stage = "whole"
      /\ Send("client", Framed(EncodeResponse(a)), a)
      /\ reader' = [reader EXCEPT !["server"] = next]
      /\ mode' = mode /\ got' = got /\ open' = open
  BY DEF Answer
<1>2. /\ mode \in Formats /\ reader \in [Sides -> Readers] /\ r \in Readers
      /\ r.kept \in Bytes /\ answers \in Seq(Items) /\ m \in Nat
      /\ wire["server"] \in Bytes
  BY <1>0, LenProperties DEF IInv, Types, Readers
<1>3. Located(Format("server"), "server", r, wire["server"], sent["server"], Len(frames), open["client"])
  BY <1>0, <1>1 DEF IInv, SidesInStep, InStep
<1>4. PICK p \in Bytes :
        /\ Place(Format("server"), "server", r, p)
        /\ Flow(Format("server"), "server", sent["server"], Len(frames),
                p ++ (r.buffer ++ wire["server"]), open["client"])
  BY <1>1, <1>3 DEF Located
<1>5. Format("server") = "framed" /\ p = <<>>
  BY <1>1, <1>4 DEF Place, FramedPlace, AsciiPlace
<1>6. mode = "framed" /\ Format("client") = "framed"
  BY <1>0, <1>2, <1>5, FormatIs DEF Format
<1>7. /\ Len(frames) = m + 1 /\ r = Whole(frames[m + 1])
      /\ \A i \in 1 .. m : answers[i] = Execute(DecodeRequest(frames[i]))
  BY <1>1, <1>6 DEF IInv, FramesReplied, Replied
<1>8. r.buffer = <<>> /\ r.kept = frames[m + 1]
  BY <1>7 DEF Whole, At
<1>9. /\ next \in Readers /\ next.buffer = <<>> /\ next.stage # "whole"
      /\ Place("framed", "server", next, <<>>)
  BY <1>0, <1>2, <1>5, StartPlace
<1> HIDE DEF next, a, m
\* The answer is a frame that says what it answers.
<1>10. /\ Framed(EncodeResponse(a)) \in Bytes
       /\ Carries("framed", "client", Framed(EncodeResponse(a)), a)
  <2> DEFINE f == EncodeResponse(a)
  <2>1. f \in Bytes /\ Packed(Size(f)) /\ DecodeResponse(f) = a
    BY <1>2, ExecuteType, ResponseExact DEF a
  <2> HIDE DEF f
  <2>2. Framed(f) \in Bytes /\ Carries("framed", "client", Framed(f), a)
    BY <2>1, FramedIs DEF Carries, Fits, Coded, Says
  <2> QED BY <2>2 DEF f
<1>11. /\ wire' \in [Sides -> Bytes] /\ sent' \in [Sides -> Seq(Items)]
       /\ sent'["client"] = Append(answers, a)
       /\ InStep("framed", "client", reader["client"], wire'["client"], sent'["client"],
                 got["client"], open["client"], open["server"])
       /\ \A s \in Sides : s # "client" => wire'[s] = wire[s] /\ sent'[s] = sent[s]
  BY <1>0, <1>1, <1>6, <1>10, SendKeeps
<1>12. /\ reader' \in [Sides -> Readers] /\ reader'["server"] = next
       /\ reader'["client"] = reader["client"]
  BY <1>0, <1>1, <1>2, <1>9
<1>13. Types'
  BY <1>1, <1>11, <1>12 DEF IInv, Types
<1>14. InStep("framed", "server", next, wire["server"], sent["server"], frames,
              open["server"], open["client"])
  <2>1. Took("framed", "server", frames, sent["server"])
    BY <1>0, <1>5 DEF IInv, SidesInStep, InStep
  <2>2. Located("framed", "server", next, wire["server"], sent["server"], Len(frames), open["client"])
    BY <1>4, <1>5, <1>8, <1>9 DEF Located
  <2> QED BY <2>1, <2>2 DEF InStep
<1>15. SidesInStep'
  <2> SUFFICES ASSUME NEW s \in Sides
               PROVE  InStep(Format(s), s, reader'[s], wire'[s], sent'[s], got[s],
                             open[s], open[Peer(s)])
    BY <1>1 DEF SidesInStep, Format
  <2>1. CASE s = "client"
    BY <1>0, <1>6, <1>11, <1>12, <2>1
  <2>2. CASE s = "server"
    BY <1>0, <1>5, <1>11, <1>12, <1>14, <2>2
  <2> QED BY <2>1, <2>2 DEF Sides
<1>16. FramesReplied'
  <2>1. /\ Len(Append(answers, a)) = m + 1 /\ Append(answers, a)[m + 1] = a
        /\ \A i \in 1 .. m : Append(answers, a)[i] = answers[i]
    <3>1. a \in Items
      BY <1>10, CarriesItem
    <3> QED BY <1>2, <3>1, AppendProperties DEF m
  <2>2. a = Execute(DecodeRequest(frames[m + 1]))
    BY <1>8 DEF a
  <2>3. \A i \in 1 .. m + 1 : i \in 1 .. m \/ i = m + 1
    BY <1>2
  <2>4. Replied(next, frames, Append(answers, a))
    BY <1>7, <1>9, <2>1, <2>2, <2>3 DEF Replied
  <2> QED BY <1>1, <1>11, <1>12, <2>4 DEF FramesReplied
<1> QED BY <1>13, <1>15, <1>16 DEF IInv

LEMMA Inductive == IInv /\ [Next]_vars => IInv'
<1> SUFFICES ASSUME IInv, [Next]_vars PROVE IInv'
  OBVIOUS
<1>1. ASSUME NEW s \in Sides, Side(s) PROVE IInv'
  BY <1>1, ReceiveKeeps, ClosesKeeps DEF Side, Close
<1>2. CASE ClientSends
  BY <1>2, ClientSendsKeeps
<1>3. CASE Answer
  BY <1>3, AnswerKeeps
<1>4. CASE AnswerFails
  <2>1. "server" \in Sides /\ Closes("server")
    BY <1>4 DEF AnswerFails, Sides
  <2> QED BY <2>1, ClosesKeeps
<1>5. CASE Push
  BY <1>5, PushKeeps
<1>6. CASE Leave
  BY <1>6, LeaveKeeps
<1>7. CASE UNCHANGED vars
  BY <1>7 DEF vars, IInv, Types, SidesInStep, FramesReplied, Format
<1> QED BY <1>1, <1>2, <1>3, <1>4, <1>5, <1>6, <1>7 DEF Next

\* Every reader is in step with its stream, in every state.
THEOREM ReadersInStep == Spec => []IInv
<1> QED BY Initially, Inductive, PTL DEF Spec

-----------------------------------------------------------------------------
(* What it is for                                                           *)

LEMMA InStepExact == IInv => FramesExact
<1> SUFFICES ASSUME IInv, NEW s \in Sides, NEW i \in DOMAIN got[s]
             PROVE  Understood(s, got[s][i]) = sent[s][i] /\ sent[s][i] # NoFrame
  BY DEF FramesExact
<1>1. mode \in Formats /\ got[s] \in Seq(Bytes) /\ i \in 1 .. Len(got[s])
  BY DEF IInv, Types
<1>2. sent[s][i] = Says(Format(s), s, got[s][i])
  BY <1>1 DEF IInv, SidesInStep, InStep, Took
<1>3. Understood(s, got[s][i]) = Says(Format(s), s, got[s][i])
  BY <1>1, FormatIs DEF Understood, Says
<1> QED BY <1>2, <1>3, SaysFrame

\* For every payload, however the streams are cut and wherever they end: each
\* side takes exactly the frames that were sent to it, in order.
THEOREM FramesAreExact == Spec => []FramesExact
<1> QED BY ReadersInStep, InStepExact, PTL

LEMMA InStepMatch == IInv => AnswersMatch
<1> SUFFICES ASSUME IInv, mode = "framed", NEW i \in DOMAIN got["client"]
             PROVE  DecodeResponse(got["client"][i]) = Execute(sent["server"][i])
  BY DEF AnswersMatch
<1>0. "server" \in Sides /\ "client" \in Sides
  BY DEF Sides
<1>1. /\ got["client"] \in Seq(Bytes) /\ i \in 1 .. Len(got["client"]) /\ i \in Nat
      /\ Len(got["client"]) \in Nat /\ Len(got["server"]) \in Nat
      /\ Len(sent["client"]) \in Nat
  BY <1>0, LenProperties DEF IInv, Types
<1>2. Format("server") = "framed" /\ Format("client") = "framed"
  BY DEF Format
<1>3. /\ Took("framed", "client", got["client"], sent["client"])
      /\ Took("framed", "server", got["server"], sent["server"])
  BY <1>0, <1>2 DEF IInv, SidesInStep, InStep
<1>4. i \in 1 .. Len(sent["client"])
  BY <1>1, <1>3 DEF Took
<1>5. /\ sent["client"][i] = Execute(DecodeRequest(got["server"][i]))
      /\ Len(sent["client"]) <= Len(got["server"])
  BY <1>1, <1>4 DEF IInv, FramesReplied, Replied
<1>6. i \in 1 .. Len(got["server"])
  BY <1>1, <1>4, <1>5
<1>7. sent["client"][i] = DecodeResponse(got["client"][i])
  BY <1>1, <1>3 DEF Took, Says
<1>8. sent["server"][i] = DecodeRequest(got["server"][i])
  BY <1>3, <1>6 DEF Took, Says
<1> QED BY <1>5, <1>7, <1>8

\* The i-th response a client reads is the answer to its i-th request.
THEOREM AnswersAreMatched == Spec => []AnswersMatch
<1> QED BY ReadersInStep, InStepMatch, PTL
=============================================================================
