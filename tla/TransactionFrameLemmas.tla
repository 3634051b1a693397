------------------------ MODULE TransactionFrameLemmas ------------------------
(*****************************************************************************)
(* Lemmas about bytes, compressed u16s, sums of counts, and the places and   *)
(* types of the parts of a frame, for any sizes, any width of u16 and usize, *)
(* and buffers of any length.                                                *)
(*****************************************************************************)
EXTENDS TransactionFrameInvariant, TLAPS

\* A leaf that names no prover is given to Zenon.
USE ZenonT(30)

\* The widths and sizes are positive, and bytes start at zero.
LEMMA Sizes ==
  /\ MSB \in Nat /\ MSB >= 1 /\ U16Max \in Nat /\ U16Max >= 1 /\ UsizeMax \in Nat
  /\ SignatureSize \in Nat /\ SignatureSize >= 1 /\ KeySize \in Nat /\ KeySize >= 1
  /\ HashSize \in Nat /\ HashSize >= 1 /\ WordSize \in Nat /\ WordSize >= 1
  /\ PacketSize \in Nat /\ MaxLen \in Nat /\ U16Max < UsizeMax /\ MaxLen < UsizeMax
BY FrameAssumption, SMTT(30)

-----------------------------------------------------------------------------
(* bytes.rs.                                                               *)

\* check_remaining is exact as long as the offset is not past the end.
LEMMA RemainingIs ==
  ASSUME len \in 0 .. MaxLen, NEW o \in 0 .. len, NEW n \in Nat
  PROVE  Remaining(o, n) <=> o + n <= len
<1>1. len - o \in 0 .. UsizeMax /\ UsizeMax \in Nat /\ len \in Nat
  BY Sizes, SMTT(30)
<1>2. (len - o) % (UsizeMax + 1) = len - o
  BY <1>1, SMTT(30)
<1> QED
  BY <1>1, <1>2, SMTT(30) DEF Remaining

\* `as u16` keeps what fits.
LEMMA AsU16Is ==
  ASSUME NEW n \in Nat, n <= U16Max
  PROVE  AsU16(n) = n
BY Sizes, SMTT(30) DEF AsU16

\* What `as u16` makes of an offset is a number.
LEMMA AsU16Nat ==
  ASSUME NEW n \in Nat
  PROVE  AsU16(n) \in Nat
BY Sizes, SMTT(30) DEF AsU16

\* Looking at more bytes does not change those looked at before.
Grown(m, n) == DOMAIN m \subseteq DOMAIN n /\ \A p \in DOMAIN m : n[p] = m[p]

\* All bytes of n that m does not know are in S.
NewIn(m, n, S) == \A p \in DOMAIN n : p \in DOMAIN m \/ p \in S

\* A known byte stays known.
LEMMA StaysKnown ==
  ASSUME NEW m, NEW n, Grown(m, n), NEW p, NEW b, Known(m, p, b)
  PROVE  Known(n, p, b)
BY DEF Grown, Known

\* A known byte is read again.
LEMMA ReadAgain ==
  ASSUME NEW o, NEW b, Known(bytes, base + o, b)
  PROVE  ByteAt(o) = {b}
BY DEF Known, ByteAt

\* What is read is a byte.
LEMMA ReadByte ==
  ASSUME IsBytes(bytes), NEW o, NEW b \in ByteAt(o)
  PROVE  b \in Byte
BY DEF ByteAt, IsBytes

\* Looking at the bytes from o on.
LEMMA SeenBytes ==
  ASSUME IsBytes(bytes), base \in Nat, NEW o \in Nat, NEW vs \in Seq(Nat),
         \A i \in 1 .. Len(vs) : vs[i] \in ByteAt(o + i - 1)
  PROVE  /\ IsBytes(Seen(o, vs)) /\ Grown(bytes, Seen(o, vs))
         /\ NewIn(bytes, Seen(o, vs), base + o .. base + o + Len(vs) - 1)
         /\ \A i \in 1 .. Len(vs) : Known(Seen(o, vs), base + o + i - 1, vs[i])
<1> DEFINE D == base + o .. base + o + Len(vs) - 1
           g == [i \in D |-> vs[i - base - o + 1]]
           m == Seen(o, vs)
<1>1. Len(vs) \in Nat
  BY SMTT(30)
<1>2. \A p \in D : /\ p - base - o + 1 \in 1 .. Len(vs)
                   /\ base + (o + (p - base - o + 1) - 1) = p
  BY <1>1, SMTT(30)
<1>3. /\ DOMAIN m = D \cup DOMAIN bytes
      /\ \A p \in DOMAIN m : m[p] = IF p \in D THEN vs[p - base - o + 1] ELSE bytes[p]
  BY DEF Seen, Merge
<1> HIDE DEF m
<1>4. \A p \in D : /\ vs[p - base - o + 1] \in Byte
                   /\ p \in DOMAIN bytes => vs[p - base - o + 1] = bytes[p]
  <2> SUFFICES ASSUME NEW p \in D
               PROVE  /\ vs[p - base - o + 1] \in Byte
                      /\ p \in DOMAIN bytes => vs[p - base - o + 1] = bytes[p]
    OBVIOUS
  <2> DEFINE k == p - base - o + 1
  <2>1. k \in 1 .. Len(vs) /\ base + (o + k - 1) = p
    BY <1>2
  <2>2. vs[k] \in ByteAt(o + k - 1)
    BY <2>1
  <2> HIDE DEF k
  <2>3. vs[k] \in Byte
    BY <2>2, ReadByte
  <2>4. p \in DOMAIN bytes => vs[k] = bytes[p]
    BY <2>1, <2>2 DEF ByteAt
  <2> QED
    BY <2>3, <2>4 DEF k
<1>5. IsBytes(m)
  BY <1>3, <1>4, Zenon DEF IsBytes
<1>6. Grown(bytes, m)
  BY <1>3, <1>4, Zenon DEF Grown
<1>7. NewIn(bytes, m, D)
  BY <1>3 DEF NewIn
<1>8. \A i \in 1 .. Len(vs) : Known(m, base + o + i - 1, vs[i])
  <2> SUFFICES ASSUME NEW i \in 1 .. Len(vs) PROVE Known(m, base + o + i - 1, vs[i])
    OBVIOUS
  <2>1. base + o + i - 1 \in D /\ (base + o + i - 1) - base - o + 1 = i
    BY <1>1, SMTT(30)
  <2> QED
    BY <1>3, <2>1, Zenon DEF Known
<1> QED
  BY <1>5, <1>6, <1>7, <1>8 DEF m

\* Looking at one byte.
LEMMA SeenByte ==
  ASSUME IsBytes(bytes), base \in Nat, NEW o \in Nat, NEW b \in ByteAt(o)
  PROVE  /\ IsBytes(Seen(o, <<b>>)) /\ Grown(bytes, Seen(o, <<b>>))
         /\ Known(Seen(o, <<b>>), base + o, b)
<1>1. b \in Byte /\ b \in Nat
  BY ReadByte, Sizes, SMTT(30) DEF Byte
<1>2. <<b>> \in Seq(Nat) /\ Len(<<b>>) = 1 /\ <<b>>[1] = b
  BY <1>1, SMTT(30)
<1>3. \A i \in 1 .. Len(<<b>>) : <<b>>[i] \in ByteAt(o + i - 1)
  <2>1. o + 1 - 1 = o
    BY SMTT(30)
  <2> QED
    BY <1>2, <2>1, SMTT(30)
<1>4. base + o + 1 - 1 = base + o /\ 1 \in 1 .. Len(<<b>>)
  BY <1>2, SMTT(30)
<1> QED
  BY <1>2, <1>3, <1>4, SeenBytes, Zenon

\* Bytes seen in two places: those of the second stay unless the first has
\* looked at them too.
LEMMA MergedBytes ==
  ASSUME NEW m, NEW a, NEW b, IsBytes(a), IsBytes(b), Grown(m, a), Grown(m, b)
  PROVE  /\ IsBytes(Merge(a, b)) /\ Grown(m, Merge(a, b)) /\ Grown(a, Merge(a, b))
         /\ \A p, v : Known(b, p, v) /\ (p \in DOMAIN a => p \in DOMAIN m)
                         => Known(Merge(a, b), p, v)
<1> DEFINE n == Merge(a, b)
<1>1. /\ DOMAIN n = DOMAIN a \cup DOMAIN b
      /\ \A p \in DOMAIN n : n[p] = IF p \in DOMAIN a THEN a[p] ELSE b[p]
  BY DEF Merge
<1> HIDE DEF n
<1>2. IsBytes(n)
  BY <1>1 DEF IsBytes
<1>3. Grown(m, n) /\ Grown(a, n)
  BY <1>1 DEF Grown
<1>4. ASSUME NEW p, NEW v, Known(b, p, v), p \in DOMAIN a => p \in DOMAIN m
      PROVE  Known(n, p, v)
  BY <1>1, <1>4 DEF Known, Grown
<1> QED
  BY <1>2, <1>3, <1>4 DEF n

\* Its width is that of its value.
LEMMA DecodedWidth ==
  ASSUME NEW m, NEW p, NEW v, NEW w, Decoded(m, p, v, w)
  PROVE  v \in Nat /\ w \in 1 .. 2 /\ w = Width(v)
<1>1. CASE w = 1 /\ v \in 0 .. MSB - 1
  BY <1>1, Sizes, SMTT(30) DEF Width
<1>2. ASSUME NEW b1 \in MSB .. 2 * MSB - 1, NEW b2 \in 1 .. MSB - 1,
             w = 2, v = b1 - MSB + MSB * b2
      PROVE  v \in Nat /\ w \in 1 .. 2 /\ w = Width(v)
  <2>1. MSB * b2 \in Nat /\ MSB * b2 >= MSB /\ b1 \in Nat /\ b1 >= MSB /\ MSB \in Nat
    <3>1. MSB \in Nat /\ b2 \in Nat /\ b2 >= 1 /\ b1 \in Nat /\ b1 >= MSB
      BY Sizes, SMTT(30)
    <3>2. MSB * b2 \in Nat /\ MSB * b2 >= MSB * 1
      BY <3>1, SMTT(30)
    <3> QED
      BY <3>1, <3>2, SMTT(30)
  <2>2. v \in Nat /\ ~(v < MSB)
    BY <1>2, <2>1, SMTT(30)
  <2> QED
    BY <1>2, <2>2, SMTT(30) DEF Width
<1> QED
  BY <1>1, <1>2 DEF Decoded

\* It stays known as long as both of its bytes do.
LEMMA DecodedKept ==
  ASSUME NEW m, NEW n, NEW p, NEW v, NEW w, Decoded(m, p, v, w),
         \A b : Known(m, p, b) => Known(n, p, b),
         \A b : Known(m, p + 1, b) => Known(n, p + 1, b)
  PROVE  Decoded(n, p, v, w)
BY DEF Decoded

\* What Decode can return.
LEMMA DecodeIs ==
  ASSUME NEW n \in Nat, NEW b1 \in Byte, NEW b2 \in Byte
  PROVE  \/ /\ Decode(n, b1, b2) = Malformed
            /\ n = 0 \/ (b1 >= MSB /\ (n = 1 \/ b2 = 0 \/ b2 >= MSB))
         \/ /\ n > 0 /\ b1 < MSB /\ Decode(n, b1, b2) = [value |-> b1, width |-> 1]
         \/ /\ n > 1 /\ b1 >= MSB /\ b2 \in 1 .. MSB - 1
            /\ Decode(n, b1, b2) = [value |-> b1 - MSB + MSB * b2, width |-> 2]
<1> b1 \in Nat /\ b2 \in Nat /\ MSB \in Nat
  BY Sizes, SMTT(30) DEF Byte
<1>1. CASE n = 0
  BY <1>1, SMTT(30) DEF Decode
<1>2. CASE n > 0 /\ b1 < MSB
  BY <1>2, SMTT(30) DEF Decode
<1>3. CASE n > 0 /\ b1 >= MSB /\ (n = 1 \/ b2 = 0 \/ b2 >= MSB)
  BY <1>3, SMTT(30) DEF Decode
<1>4. CASE n > 1 /\ b1 >= MSB /\ b2 # 0 /\ b2 < MSB
  BY <1>4, SMTT(30) DEF Decode
<1> QED
  BY <1>1, <1>2, <1>3, <1>4, SMTT(30)

\* The state in which bytes are read.
Reading == IsBytes(bytes) /\ base \in Nat /\ len \in 0 .. MaxLen

\* A counted array that is accepted lies within the slice, and its count is
\* known from then on.
LEMMA CountedOk ==
  ASSUME Reading, NEW o \in 0 .. len, NEW size \in Nat,
         NEW n \in CountedArray(o, size), n.ok
  PROVE  /\ n.count \in Nat /\ n.width \in 1 .. 2
         /\ n.at = o + n.width /\ n.at \in Nat /\ n.at <= len /\ n.at + size * n.count <= len
         /\ Decoded(n.seen, base + o, n.count, n.width)
         /\ IsBytes(n.seen) /\ Grown(bytes, n.seen)
         /\ NewIn(bytes, n.seen, base + o .. base + n.at - 1)
<1>1. PICK b1 \in ByteAt(o), b2 \in ByteAt(o + 1) :
        n = LET c == Decode(len - o, b1, b2)
            IN  IF c.width = 0 \/ ~Remaining(o + c.width, size * c.value)
                THEN Refused
                ELSE [ok |-> TRUE, at |-> o + c.width, count |-> c.value,
                      width |-> c.width, seen |-> Seen(o, SubSeq(<<b1, b2>>, 1, c.width))]
  BY SMTT(30) DEF CountedArray
<1>2. /\ b1 \in Byte /\ b2 \in Byte /\ b1 \in Nat /\ b2 \in Nat
      /\ len \in Nat /\ o \in Nat /\ len - o \in Nat /\ base \in Nat /\ IsBytes(bytes)
  BY ReadByte, Sizes, SMTT(30) DEF Byte, Reading
<1> DEFINE c == Decode(len - o, b1, b2)
<1>3. /\ c.width # 0 /\ Remaining(o + c.width, size * c.value)
      /\ n = [ok |-> TRUE, at |-> o + c.width, count |-> c.value,
              width |-> c.width, seen |-> Seen(o, SubSeq(<<b1, b2>>, 1, c.width))]
  BY <1>1 DEF Refused
<1>4. \/ /\ len - o > 0 /\ b1 < MSB /\ c = [value |-> b1, width |-> 1]
      \/ /\ len - o > 1 /\ b1 >= MSB /\ b2 \in 1 .. MSB - 1
         /\ c = [value |-> b1 - MSB + MSB * b2, width |-> 2]
  BY <1>2, <1>3, DecodeIs, SMTT(30) DEF Malformed
<1>5. c.value \in Nat /\ c.width \in 1 .. 2 /\ o + c.width <= len
  BY <1>2, <1>4, Sizes, SMTT(30)
<1>6. size * c.value \in Nat /\ o + c.width \in 0 .. len
  BY <1>2, <1>5, SMTT(30)
<1>7. o + c.width + size * c.value <= len
  BY <1>3, <1>6, RemainingIs DEF Reading
<1> HIDE DEF c
<1>8. /\ n.count = c.value /\ n.width = c.width /\ n.at = o + c.width
      /\ n.seen = Seen(o, SubSeq(<<b1, b2>>, 1, c.width))
  BY <1>3
<1> DEFINE vs == SubSeq(<<b1, b2>>, 1, c.width)
<1>9. /\ vs \in Seq(Nat) /\ Len(vs) = c.width /\ vs[1] = b1
      /\ c.width = 2 => vs[2] = b2
  <2>1. <<b1, b2>> \in Seq(Nat) /\ Len(<<b1, b2>>) = 2
    BY <1>2, SMTT(30)
  <2>2. /\ SubSeq(<<b1, b2>>, 1, 1) \in Seq(Nat) /\ Len(SubSeq(<<b1, b2>>, 1, 1)) = 1
        /\ SubSeq(<<b1, b2>>, 1, 1)[1] = b1
    BY <2>1, SMTT(30)
  <2>3. /\ SubSeq(<<b1, b2>>, 1, 2) \in Seq(Nat) /\ Len(SubSeq(<<b1, b2>>, 1, 2)) = 2
        /\ SubSeq(<<b1, b2>>, 1, 2)[1] = b1 /\ SubSeq(<<b1, b2>>, 1, 2)[2] = b2
    BY <2>1, SMTT(30)
  <2>4. c.width = 1 \/ c.width = 2
    BY <1>5, SMTT(30)
  <2> QED
    BY <2>2, <2>3, <2>4
<1>10. n.seen = Seen(o, vs)
  BY <1>8
<1> HIDE DEF vs
<1>11. \A i \in 1 .. Len(vs) : vs[i] \in ByteAt(o + i - 1)
  <2>1. o + 1 - 1 = o /\ o + 2 - 1 = o + 1
    BY <1>2, SMTT(30)
  <2>2. Len(vs) = 1 \/ Len(vs) = 2
    BY <1>5, <1>9, SMTT(30)
  <2>3. \A i \in 1 .. Len(vs) : i = 1 \/ (i = 2 /\ c.width = 2)
    BY <1>9, <2>2, SMTT(30)
  <2> QED
    BY <1>9, <2>1, <2>3
<1>12. /\ IsBytes(n.seen) /\ Grown(bytes, n.seen)
       /\ NewIn(bytes, n.seen, base + o .. base + o + Len(vs) - 1)
       /\ \A i \in 1 .. Len(vs) : Known(n.seen, base + o + i - 1, vs[i])
  BY <1>2, <1>9, <1>10, <1>11, SeenBytes
<1>13. base + o + Len(vs) - 1 = base + n.at - 1
  BY <1>2, <1>5, <1>8, <1>9, SMTT(30)
<1>14. NewIn(bytes, n.seen, base + o .. base + n.at - 1)
  BY <1>12, <1>13
<1>15. 1 \in 1 .. Len(vs) /\ base + o + 1 - 1 = base + o
  BY <1>2, <1>5, <1>9, SMTT(30)
<1>16. Known(n.seen, base + o, b1)
  <2>1. Known(n.seen, base + o + 1 - 1, vs[1])
    BY <1>12, <1>15
  <2> QED
    BY <1>9, <1>15, <2>1
<1>17. Decoded(n.seen, base + o, n.count, n.width)
  <2>1. CASE len - o > 0 /\ b1 < MSB /\ c = [value |-> b1, width |-> 1]
    <3>1. n.count = b1 /\ n.width = 1 /\ b1 \in 0 .. MSB - 1
      BY <1>2, <1>8, <2>1, Sizes, SMTT(30)
    <3> QED
      BY <1>16, <3>1 DEF Decoded
  <2>2. CASE /\ len - o > 1 /\ b1 >= MSB /\ b2 \in 1 .. MSB - 1
             /\ c = [value |-> b1 - MSB + MSB * b2, width |-> 2]
    <3>1. n.count = b1 - MSB + MSB * b2 /\ n.width = 2 /\ c.width = 2
      BY <1>8, <2>2
    <3>2. 2 \in 1 .. Len(vs) /\ base + o + 2 - 1 = base + o + 1
      BY <1>2, <1>9, <3>1, SMTT(30)
    <3>3. Known(n.seen, base + o + 2 - 1, vs[2])
      BY <1>12, <3>2
    <3>4. Known(n.seen, base + o + 1, b2)
      BY <1>9, <3>1, <3>2, <3>3
    <3>5. b1 \in MSB .. 2 * MSB - 1
      BY <1>2, <2>2, Sizes, SMTT(30) DEF Byte
    <3> QED
      BY <1>16, <2>2, <3>1, <3>4, <3>5 DEF Decoded
  <2> QED
    BY <1>4, <2>1, <2>2 DEF c
<1>18. /\ n.count \in Nat /\ n.width \in 1 .. 2
       /\ n.at = o + n.width /\ n.at \in Nat /\ n.at <= len /\ n.at + size * n.count <= len
  BY <1>2, <1>5, <1>6, <1>7, <1>8, SMTT(30)
<1> QED
  BY <1>12, <1>14, <1>17, <1>18

\* A counted array whose count is known and which fits is read again as it was.
LEMMA CountedAgain ==
  ASSUME Reading, NEW o \in 0 .. len, NEW size \in Nat, NEW v, NEW w,
         Decoded(bytes, base + o, v, w), o + w + size * v <= len,
         NEW n \in CountedArray(o, size)
  PROVE  n.ok /\ n.at = o + w /\ n.count = v /\ n.width = w
<1>1. PICK b1 \in ByteAt(o), b2 \in ByteAt(o + 1) :
        n = LET c == Decode(len - o, b1, b2)
            IN  IF c.width = 0 \/ ~Remaining(o + c.width, size * c.value)
                THEN Refused
                ELSE [ok |-> TRUE, at |-> o + c.width, count |-> c.value,
                      width |-> c.width, seen |-> Seen(o, SubSeq(<<b1, b2>>, 1, c.width))]
  BY SMTT(30) DEF CountedArray
<1>2. /\ b1 \in Byte /\ b2 \in Byte /\ b1 \in Nat /\ b2 \in Nat
      /\ len \in Nat /\ o \in Nat /\ len - o \in Nat /\ base \in Nat
  BY ReadByte, Sizes, SMTT(30) DEF Byte, Reading
<1> DEFINE c == Decode(len - o, b1, b2)
<1>3. v \in Nat /\ w \in 1 .. 2
  BY DecodedWidth
<1>4. size * v \in Nat /\ o + w \in 0 .. len
  BY <1>2, <1>3, SMTT(30)
<1>5. c = [value |-> v, width |-> w]
  <2>1. CASE w = 1 /\ v \in 0 .. MSB - 1 /\ Known(bytes, base + o, v)
    <3>1. b1 = v
      BY <2>1, ReadAgain
    <3>2. len - o > 0 /\ b1 < MSB
      BY <1>2, <1>4, <2>1, <3>1, Sizes, SMTT(30)
    <3>3. c = [value |-> b1, width |-> 1]
      BY <1>2, <3>2, DecodeIs, Sizes, SMTT(30)
    <3> QED
      BY <2>1, <3>1, <3>3
  <2>2. ASSUME w = 2, NEW x1 \in MSB .. 2 * MSB - 1, NEW x2 \in 1 .. MSB - 1,
               Known(bytes, base + o, x1), Known(bytes, base + o + 1, x2),
               v = x1 - MSB + MSB * x2
        PROVE  c = [value |-> v, width |-> w]
    <3>1. b1 = x1
      BY <2>2, ReadAgain
    <3>2. base + (o + 1) = base + o + 1
      BY <1>2, SMTT(30)
    <3>3. b2 = x2
      BY <2>2, <3>2, ReadAgain
    <3>4. len - o > 1 /\ b1 >= MSB /\ b2 \in 1 .. MSB - 1
      BY <1>2, <1>4, <2>2, <3>1, <3>3, Sizes, SMTT(30)
    <3>5. c = [value |-> b1 - MSB + MSB * b2, width |-> 2]
      BY <1>2, <3>4, DecodeIs, Sizes, SMTT(30)
    <3> QED
      BY <2>2, <3>1, <3>3, <3>5
  <2> QED
    BY <2>1, <2>2 DEF Decoded
<1> HIDE DEF c
<1>6. c.width = w /\ c.value = v
  BY <1>5
<1>7. Remaining(o + c.width, size * c.value)
  BY <1>4, <1>6, RemainingIs DEF Reading
<1>8. n = [ok |-> TRUE, at |-> o + c.width, count |-> c.value,
           width |-> c.width, seen |-> Seen(o, SubSeq(<<b1, b2>>, 1, c.width))]
  BY <1>1, <1>3, <1>6, <1>7, SMTT(30) DEF c
<1> QED
  BY <1>6, <1>8

\* Two counted arrays of bytes that follow each other, as in an instruction and
\* in a lookup.
LEMMA TwoCounted ==
  ASSUME Reading, NEW o \in 0 .. len,
         NEW a \in CountedArray(o, 1), a.ok,
         NEW d \in CountedArray(a.at + a.count, 1), d.ok
  PROVE  /\ a.count \in Nat /\ a.width \in 1 .. 2 /\ a.at = o + a.width /\ a.at \in Nat
         /\ d.count \in Nat /\ d.width \in 1 .. 2 /\ d.at = a.at + a.count + d.width
         /\ d.at \in Nat /\ d.at + d.count <= len
         /\ IsBytes(Merge(d.seen, a.seen)) /\ Grown(bytes, Merge(d.seen, a.seen))
         /\ Decoded(Merge(d.seen, a.seen), base + o, a.count, a.width)
         /\ Decoded(Merge(d.seen, a.seen), base + (a.at + a.count), d.count, d.width)
<1> DEFINE m == Merge(d.seen, a.seen)
           q == a.at + a.count
<1>1. /\ a.count \in Nat /\ a.width \in 1 .. 2 /\ a.at = o + a.width /\ a.at \in Nat
      /\ a.at + 1 * a.count <= len /\ Decoded(a.seen, base + o, a.count, a.width)
      /\ IsBytes(a.seen) /\ Grown(bytes, a.seen)
  BY CountedOk
<1>2. q \in 0 .. len
  BY <1>1, SMTT(30) DEF Reading
<1>3. /\ d.count \in Nat /\ d.width \in 1 .. 2 /\ d.at = q + d.width /\ d.at \in Nat
      /\ d.at + 1 * d.count <= len /\ Decoded(d.seen, base + q, d.count, d.width)
      /\ IsBytes(d.seen) /\ Grown(bytes, d.seen)
      /\ NewIn(bytes, d.seen, base + q .. base + d.at - 1)
  <2> HIDE DEF q
  <2>1. d \in CountedArray(q, 1)
    BY DEF q
  <2> QED
    BY <1>2, <2>1, CountedOk
<1>4. /\ IsBytes(m) /\ Grown(bytes, m) /\ Grown(d.seen, m)
      /\ \A p, v : Known(a.seen, p, v) /\ (p \in DOMAIN d.seen => p \in DOMAIN bytes)
                     => Known(m, p, v)
  BY <1>1, <1>3, MergedBytes, Zenon
<1> HIDE DEF m
<1>5. Decoded(m, base + q, d.count, d.width)
  BY <1>3, <1>4, StaysKnown, DecodedKept, SMTT(30)
<1>6. \A p \in base + o .. base + a.at - 1 : p \in DOMAIN d.seen => p \in DOMAIN bytes
  <2> SUFFICES ASSUME NEW p \in base + o .. base + a.at - 1, p \in DOMAIN d.seen
               PROVE  p \in DOMAIN bytes
    OBVIOUS
  <2>1. base \in Nat /\ a.at \in Nat /\ a.count \in Nat /\ d.at \in Nat
    BY <1>1, <1>3 DEF Reading
  <2>2. p \in Int /\ p < base + a.at /\ base + a.at <= base + q
    BY <1>1, <2>1, SMTT(30)
  <2>3. ~(p \in base + q .. base + d.at - 1)
    BY <2>1, <2>2, SMTT(30)
  <2> QED
    BY <1>3, <2>3 DEF NewIn
<1>7. Decoded(m, base + o, a.count, a.width)
  <2>1. base \in Nat /\ o \in Nat
    BY SMTT(30) DEF Reading
  <2>2. base + o \in base + o .. base + a.at - 1
    BY <1>1, <2>1, SMTT(30)
  <2>3. a.width = 2 => base + o + 1 \in base + o .. base + a.at - 1
    BY <1>1, <2>1, SMTT(30)
  <2>4. \A v : Known(a.seen, base + o, v) => Known(m, base + o, v)
    BY <1>4, <1>6, <2>2
  <2>5. a.width = 2 => \A v : Known(a.seen, base + o + 1, v) => Known(m, base + o + 1, v)
    BY <1>4, <1>6, <2>3
  <2>6. CASE a.width = 1
    BY <1>1, <2>4, <2>6, SMTT(30) DEF Decoded
  <2>7. CASE a.width = 2
    BY <1>1, <2>4, <2>5, <2>7, DecodedKept
  <2> QED
    BY <1>1, <2>6, <2>7, SMTT(30)
<1>8. d.at + d.count <= len
  BY <1>3, SMTT(30)
<1> QED
  BY <1>1, <1>3, <1>4, <1>5, <1>7, <1>8 DEF m

\* The sum of no numbers.
LEMMA SumOfNone ==
  ASSUME NEW g
  PROVE  SumIs(g, 0, 0)
<1> DEFINE S == [i \in 0 .. 0 |-> 0]
<1>1. Sums(S, g, 0) /\ S[0] = 0
  BY SMTT(30) DEF Sums
<1> QED
  BY <1>1 DEF SumIs

\* One number more.
LEMMA SumStep ==
  ASSUME NEW n \in Nat, NEW g, NEW h, NEW t, SumIs(g, n, t),
         \A i \in 1 .. n : h[i] = g[i], h[n + 1] \in Nat
  PROVE  SumIs(h, n + 1, t + h[n + 1])
<1>1. PICK S : Sums(S, g, n) /\ S[n] = t
  BY DEF SumIs
<1>2. /\ S \in [0 .. n -> Nat] /\ S[0] = 0
      /\ \A i \in 1 .. n : g[i] \in Nat /\ S[i] = S[i - 1] + g[i]
      /\ \A i, j \in 0 .. n : i <= j => S[i] <= S[j]
  BY <1>1 DEF Sums
<1> DEFINE v == h[n + 1]
           T == [i \in 0 .. n + 1 |-> IF i = n + 1 THEN t + v ELSE S[i]]
<1>3. t \in Nat /\ v \in Nat
  BY <1>1, <1>2, SMTT(30)
<1> HIDE DEF v
<1>4. \A i \in 0 .. n : T[i] = S[i] /\ T[i] \in Nat /\ T[i] <= t
  BY <1>1, <1>2, SMTT(30)
<1>5. T[n + 1] = t + v
  BY SMTT(30)
<1>6. T \in [0 .. n + 1 -> Nat]
  BY <1>2, <1>3, SMTT(30)
<1> HIDE DEF T
<1>7. T[0] = 0
  BY <1>2, <1>4, SMTT(30)
<1>8. \A i \in 1 .. n + 1 : h[i] \in Nat /\ T[i] = T[i - 1] + h[i]
  <2> TAKE i \in 1 .. n + 1
  <2>1. CASE i = n + 1
    <3>1. i - 1 = n /\ n \in 0 .. n
      BY <2>1, SMTT(30)
    <3> QED
      BY <1>1, <1>3, <1>4, <1>5, <2>1, <3>1 DEF v
  <2>2. CASE i # n + 1
    <3>1. i \in 1 .. n /\ i \in 0 .. n /\ i - 1 \in 0 .. n
      BY <2>2, SMTT(30)
    <3> QED
      BY <1>2, <1>4, <3>1, Zenon
  <2> QED
    BY <2>1, <2>2
<1>9. \A i, j \in 0 .. n + 1 : i <= j => T[i] <= T[j]
  <2> SUFFICES ASSUME NEW i \in 0 .. n + 1, NEW j \in 0 .. n + 1, i <= j
               PROVE  T[i] <= T[j]
    OBVIOUS
  <2>1. CASE j = n + 1 /\ i = n + 1
    BY <1>3, <1>5, <2>1, SMTT(30)
  <2>2. CASE j = n + 1 /\ i # n + 1
    <3>1. i \in 0 .. n
      BY <2>2, SMTT(30)
    <3> QED
      BY <1>3, <1>4, <1>5, <2>2, <3>1, SMTT(30)
  <2>3. CASE j # n + 1
    <3>1. i \in 0 .. n /\ j \in 0 .. n
      BY <2>3, SMTT(30)
    <3> QED
      BY <1>2, <1>4, <3>1
  <2> QED
    BY <2>1, <2>2, <2>3
<1>10. Sums(T, h, n + 1)
  BY <1>6, <1>7, <1>8, <1>9 DEF Sums
<1> QED
  BY <1>5, <1>10 DEF SumIs, v

\* Bytes that are known outside H stay known.
Keeps(m, n, H) == \A p, b : p \notin H /\ Known(m, p, b) => Known(n, p, b)

\* H lies before x.
Beyond(x, H) == \A p \in Nat : p >= x => p \notin H

\* Looking at more bytes keeps all.
LEMMA GrownKeeps ==
  ASSUME NEW m, NEW n, Grown(m, n)
  PROVE  Keeps(m, n, {}) /\ \A x : Beyond(x, {})
BY DEF Keeps, Grown, Known, Beyond

\* A count that is out of the way of H stays known.
LEMMA DecodedBeyond ==
  ASSUME NEW m, NEW n, NEW H, Keeps(m, n, H), NEW x \in Nat, Beyond(x, H),
         NEW p \in Nat, p >= x, NEW v, NEW w, Decoded(m, p, v, w)
  PROVE  Decoded(n, p, v, w)
<1>1. p \notin H /\ p + 1 \notin H
  BY SMTT(30) DEF Beyond
<1> QED
  BY <1>1, DecodedKept DEF Keeps

\* A place has one byte and one count.
LEMMA KnownOnce ==
  ASSUME NEW m, NEW p, NEW b, NEW c, Known(m, p, b), Known(m, p, c)
  PROVE  b = c
BY DEF Known

\* The fields of a frame and of an item.
LEMMA FrameFields ==
  ASSUME NEW f \in Frame
  PROVE  /\ f.num_signatures \in Nat /\ f.signature_offset \in Nat
         /\ f.message_offset \in Nat /\ f.num_keys \in Nat /\ f.keys_offset \in Nat
         /\ f.hash_offset \in Nat /\ f.num_instructions \in Nat
         /\ f.instructions_offset \in Nat /\ f.frames \in Seq(InstructionFrame)
         /\ f.payloads_offset \in Nat /\ f.num_lookups \in Nat /\ f.lookups_offset \in Nat
         /\ f.writable \in Nat /\ f.readonly \in Nat /\ f.mask \in Nat
         /\ f.values_offset \in Nat /\ f.end_offset \in Nat /\ f.data_len \in Nat
BY DEF Frame

\* The fields of an item are numbers.
LEMMA ItemFields ==
  ASSUME NEW items \in Seq(Item), NEW k \in 1 .. Len(items)
  PROVE  /\ items[k].start \in Nat /\ items[k].first \in Nat /\ items[k].num_first \in Nat
         /\ items[k].second \in Nat /\ items[k].num_second \in Nat
<1>1. items[k] \in Item
  BY SMTT(30)
<1> QED
  BY <1>1, Zenon DEF Item

\* Going on never goes back.
LEMMA Further ==
  ASSUME NEW x \in Nat, NEW y \in Nat, NEW z \in Nat, x >= z
  PROVE  x + y \in Nat /\ x + y >= z
BY SMTT(30)

\* Products of counts and sizes are numbers.
LEMMA Product ==
  ASSUME NEW x \in Nat, NEW y \in Nat
  PROVE  x * y \in Nat
BY SMTT(30)

\* Places are numbers.
LEMMA MessagePlace ==
  ASSUME NEW e, NEW f \in Frame
  PROVE  /\ MessageAt(e, f) \in Nat /\ CountOfKeysAt(e, f) \in Nat
         /\ CountOfKeysAt(e, f) >= MessageAt(e, f) + 3
<1>1. f.num_signatures * SignatureSize \in Nat
  BY FrameFields, Product, Sizes
<1> QED
  BY <1>1, SMTT(30) DEF MessageAt, CountOfKeysAt

\* Where the instructions begin is a number, past the blockhash and the count.
LEMMA InstructionsPlace ==
  ASSUME NEW f \in Frame
  PROVE  /\ InstructionsAt(f) \in Nat /\ f.hash_offset + HashSize \in Nat
         /\ InstructionsAt(f) >= f.hash_offset + HashSize + 1
<1>1. f.hash_offset \in Nat /\ HashSize \in Nat
  BY FrameFields, Sizes
<1> QED
  BY <1>1, SMTT(30) DEF InstructionsAt, Width

\* Where items end and begin are numbers.
LEMMA EndPlaces ==
  ASSUME NEW f \in Frame, NEW items \in Seq(Item), NEW k \in 0 .. Len(items)
  PROVE  /\ EndOf(f, items, k) \in Nat /\ StartOf(f, items, k + 1) \in Nat
         /\ StartOf(f, items, k + 1) >= EndOf(f, items, k)
<1>1. InstructionsAt(f) \in Nat
  BY InstructionsPlace
<1>2. k # 0 => items[k].second \in Nat /\ items[k].num_second \in Nat
  BY ItemFields, SMTT(30)
<1>3. EndOf(f, items, k) \in Nat
  BY <1>1, <1>2, SMTT(30) DEF EndOf
<1>4. (k + 1) - 1 = k
  BY SMTT(30)
<1> QED
  BY <1>3, <1>4, SMTT(30) DEF StartOf

\* Bytes that only change past a part keep what is known of that part.
LEMMA SignaturesKept ==
  ASSUME NEW e, NEW at, NEW m, NEW n, NEW f, NEW H,
         SignaturesKnown(e, at, m, f), Keeps(m, n, H), at \notin H
  PROVE  SignaturesKnown(e, at, n, f)
BY DEF SignaturesKnown, Keeps

\* The same for the message header, ...
LEMMA HeaderKept ==
  ASSUME NEW e, NEW at, NEW m, NEW n, NEW f, NEW H,
         HeaderKnown(e, at, m, f), Keeps(m, n, H), at + MessageAt(e, f) \notin H
  PROVE  HeaderKnown(e, at, n, f)
BY DEF HeaderKnown, Keeps

\* ... for the static keys, ...
LEMMA KeysKept ==
  ASSUME NEW e, NEW at, NEW m, NEW n, NEW f, NEW H,
         KeysKnown(e, at, m, f), Keeps(m, n, H), at + CountOfKeysAt(e, f) \notin H
  PROVE  KeysKnown(e, at, n, f)
BY DEF KeysKnown, Keeps

\* The prelude and the message stay known when the write is after the keys.
LEMMA PreludeKept ==
  ASSUME NEW e, NEW at \in Nat, NEW m, NEW n, NEW f \in Frame, NEW H,
         PreludeKnown(e, at, m, f), Keeps(m, n, H),
         \A p \in Nat : p < at + f.hash_offset => p \notin H
  PROVE  PreludeKnown(e, at, n, f)
<1>1. /\ MessageAt(e, f) \in Nat /\ CountOfKeysAt(e, f) \in Nat
      /\ CountOfKeysAt(e, f) >= MessageAt(e, f) + 3
  BY MessagePlace
<1>2. f.num_keys * KeySize \in Nat
  BY FrameFields, Product, Sizes
<1>3. f.hash_offset = CountOfKeysAt(e, f) + 1 + f.num_keys * KeySize
  BY DEF PreludeKnown, KeysKnown
<1>4. at \notin H /\ at + MessageAt(e, f) \notin H /\ at + CountOfKeysAt(e, f) \notin H
  BY <1>1, <1>2, <1>3, SMTT(30)
<1> QED
  BY <1>4, SignaturesKept, HeaderKept, KeysKept DEF PreludeKnown

\* The count of instructions is after the blockhash.
LEMMA CountKept ==
  ASSUME NEW at \in Nat, NEW m, NEW n, NEW f \in Frame, NEW H,
         CountKnown(at, m, f), Keeps(m, n, H), Beyond(at + (f.hash_offset + HashSize), H)
  PROVE  CountKnown(at, n, f)
<1>1. at + (f.hash_offset + HashSize) \in Nat
  BY InstructionsPlace, SMTT(30)
<1> QED
  BY <1>1, DecodedBeyond, SMTT(30) DEF CountKnown

\* Where the counts of an item are.
LEMMA ItemPlaces ==
  ASSUME NEW at, NEW m, NEW f \in Frame, NEW items \in Seq(Item), NEW k \in 1 .. Len(items),
         ItemKnown(at, m, f, items, k)
  PROVE  /\ items[k].start \in Nat /\ items[k].first \in Nat /\ items[k].num_first \in Nat
         /\ items[k].second \in Nat /\ items[k].num_second \in Nat
         /\ BeforeCounts(f, k) \in Nat /\ BeforeCounts(f, k) >= 1
         /\ items[k].start = StartOf(f, items, k)
         /\ items[k].start >= EndOf(f, items, k - 1)
         /\ EndOf(f, items, k - 1) \in Nat
         /\ EndOf(f, items, k) = items[k].second + items[k].num_second
         /\ items[k].first >= items[k].start + BeforeCounts(f, k) + 1
         /\ items[k].second >= items[k].first + items[k].num_first + 1
<1>2. /\ items[k].start \in Nat /\ items[k].first \in Nat /\ items[k].num_first \in Nat
      /\ items[k].second \in Nat /\ items[k].num_second \in Nat
  BY ItemFields
<1>3. BeforeCounts(f, k) \in Nat /\ BeforeCounts(f, k) >= 1
  BY Sizes, SMTT(30) DEF BeforeCounts
<1>4. k - 1 \in 0 .. Len(items) /\ (k - 1) + 1 = k
  BY SMTT(30)
<1>5. items[k].start = StartOf(f, items, k)
  BY DEF ItemKnown
<1>6. EndOf(f, items, k - 1) \in Nat /\ StartOf(f, items, k) >= EndOf(f, items, k - 1)
  BY <1>4, EndPlaces
<1>7. EndOf(f, items, k) = items[k].second + items[k].num_second
  BY SMTT(30) DEF EndOf
<1>8. items[k].first - (items[k].start + BeforeCounts(f, k)) \in 1 .. 2
  BY DecodedWidth DEF ItemKnown
<1>9. items[k].second - (items[k].first + items[k].num_first) \in 1 .. 2
  BY DecodedWidth DEF ItemKnown
<1>10. items[k].first >= items[k].start + BeforeCounts(f, k) + 1
  BY <1>2, <1>3, <1>8, SMTT(30)
<1>11. items[k].second >= items[k].first + items[k].num_first + 1
  BY <1>2, <1>9, SMTT(30)
<1> QED
  BY <1>2, <1>3, <1>5, <1>6, <1>7, <1>10, <1>11

\* The counts of the items are after the blockhash too.
LEMMA ItemsKept ==
  ASSUME NEW at \in Nat, NEW m, NEW n, NEW f \in Frame, NEW items \in Seq(Item), NEW H,
         ItemsKnown(at, m, f, items), Spaced(f, items), Keeps(m, n, H),
         Beyond(at + (f.hash_offset + HashSize), H)
  PROVE  ItemsKnown(at, n, f, items)
<1> SUFFICES ASSUME NEW k \in 1 .. Len(items) PROVE ItemKnown(at, n, f, items, k)
  BY DEF ItemsKnown
<1>1. ItemKnown(at, m, f, items, k)
  BY DEF ItemsKnown
<1>2. InstructionsAt(f) <= EndOf(f, items, k - 1)
  <2>1. 0 \in 0 .. Len(items) /\ k - 1 \in 0 .. Len(items) /\ 0 <= k - 1
    BY SMTT(30)
  <2>2. EndOf(f, items, 0) <= EndOf(f, items, k - 1)
    BY <2>1 DEF Spaced
  <2> QED
    BY <2>2 DEF EndOf
<1> DEFINE x == at + (f.hash_offset + HashSize)
           counted == items[k].start + BeforeCounts(f, k)
           again == items[k].first + items[k].num_first
<1>3. x \in Nat /\ InstructionsAt(f) \in Nat /\ at + InstructionsAt(f) >= x
  <2>1. /\ InstructionsAt(f) \in Nat /\ f.hash_offset + HashSize \in Nat
        /\ InstructionsAt(f) >= f.hash_offset + HashSize + 1
    BY InstructionsPlace
  <2> QED
    BY <2>1, SMTT(30)
<1>4. at + counted \in Nat /\ at + counted >= x /\ at + again \in Nat /\ at + again >= x
  <2>1. /\ items[k].start \in Nat /\ items[k].first \in Nat /\ items[k].num_first \in Nat
        /\ BeforeCounts(f, k) \in Nat /\ EndOf(f, items, k - 1) \in Nat
        /\ items[k].start >= EndOf(f, items, k - 1)
        /\ items[k].first >= items[k].start + BeforeCounts(f, k) + 1
    BY <1>1, ItemPlaces
  <2>2. items[k].start >= InstructionsAt(f)
    BY <1>2, <1>3, <2>1, SMTT(30)
  <2>3. counted \in Nat /\ counted >= InstructionsAt(f)
    <3>1. items[k].start \in Nat /\ BeforeCounts(f, k) \in Nat /\ InstructionsAt(f) \in Nat
      BY <1>3, <2>1
    <3> QED
      BY <2>2, <3>1, Further
  <2>4. again \in Nat /\ again >= InstructionsAt(f)
    <3>1. items[k].first >= items[k].start
      BY <2>1, SMTT(30)
    <3>2. items[k].first >= InstructionsAt(f)
      BY <1>3, <2>1, <2>2, <3>1, SMTT(30)
    <3>3. items[k].first \in Nat /\ items[k].num_first \in Nat /\ InstructionsAt(f) \in Nat
      BY <1>3, <2>1
    <3> QED
      BY <3>2, <3>3, Further
  <2> HIDE DEF x, counted, again
  <2> QED
    BY <1>3, <2>3, <2>4, SMTT(30)
<1>5. Decoded(n, at + counted, items[k].num_first, items[k].first - counted)
  <2>1. Decoded(m, at + counted, items[k].num_first, items[k].first - counted)
    BY <1>1 DEF ItemKnown
  <2> HIDE DEF counted, x
  <2>2. Beyond(x, H)
    BY DEF x
  <2> QED
    BY <1>3, <1>4, <2>1, <2>2, DecodedBeyond
<1>6. Decoded(n, at + again, items[k].num_second, items[k].second - again)
  <2>1. Decoded(m, at + again, items[k].num_second, items[k].second - again)
    BY <1>1 DEF ItemKnown
  <2> HIDE DEF again, x
  <2>2. Beyond(x, H)
    BY DEF x
  <2> QED
    BY <1>3, <1>4, <2>1, <2>2, DecodedBeyond
<1> QED
  BY <1>1, <1>5, <1>6 DEF ItemKnown

\* So are all instructions ...
LEMMA InstructionsKept ==
  ASSUME NEW at \in Nat, NEW m, NEW n, NEW f \in Frame, NEW items \in Seq(Item), NEW H,
         InstructionsKnown(at, m, f, items), Keeps(m, n, H),
         Beyond(at + (f.hash_offset + HashSize), H)
  PROVE  InstructionsKnown(at, n, f, items)
BY CountKept, ItemsKept DEF InstructionsKnown

\* ... and the lookups.
LEMMA LookupsKept ==
  ASSUME NEW at \in Nat, NEW m, NEW n, NEW f \in Frame, NEW items \in Seq(Item), NEW H,
         LookupsKnown(at, m, f, items), Spaced(f, items), Keeps(m, n, H),
         f.num_instructions <= Len(items),
         Beyond(at + (f.hash_offset + HashSize), H)
  PROVE  LookupsKnown(at, n, f, items)
<1>1. f.num_instructions \in 0 .. Len(items)
  BY FrameFields, SMTT(30)
<1>2. 0 \in 0 .. Len(items) /\ 0 <= f.num_instructions
  BY <1>1, SMTT(30)
<1>3. EndOf(f, items, 0) <= EndOf(f, items, f.num_instructions)
  BY <1>1, <1>2 DEF Spaced
<1>4. EndOf(f, items, 0) = InstructionsAt(f)
  BY DEF EndOf
<1>5. EndOf(f, items, f.num_instructions) \in Nat
  BY <1>1, EndPlaces
<1>6. /\ at + EndOf(f, items, f.num_instructions) >= at + (f.hash_offset + HashSize)
      /\ at + EndOf(f, items, f.num_instructions) \in Nat
  <2>1. /\ InstructionsAt(f) \in Nat /\ f.hash_offset + HashSize \in Nat
        /\ InstructionsAt(f) >= f.hash_offset + HashSize + 1
    BY InstructionsPlace
  <2> QED
    BY <1>3, <1>4, <1>5, <2>1, SMTT(30)
<1>7. at + EndOf(f, items, f.num_instructions) \notin H
  BY <1>6 DEF Beyond
<1> QED
  BY <1>7 DEF LookupsKnown, Keeps

\* An empty frame is a frame.
LEMMA NoFrameIsFrame ==
  /\ NoFrame \in Frame /\ NoFrame.frames = <<>> /\ NoLookups(NoFrame)
  /\ NoFrame.num_signatures = 0 /\ NoFrame.signature_offset = 0
BY SMTT(30) DEF NoFrame, Frame, NoLookups

\* Nothing has been looked at.
LEMMA NoBytes == IsBytes(<<>>)
BY SMTT(30) DEF IsBytes

\* The invariant holds before the first parse.
LEMMA RunInit ==
  ASSUME Init
  PROVE  RunInv
<1>1. TypeOK
  BY NoFrameIsFrame, NoBytes, Sizes, SMTT(30) DEF Init, TypeOK, Function
<1>2. AtStart /\ pc = "start"
  BY DEF Init, AtStart, Reset
<1> QED
  BY <1>1, <1>2 DEF RunInv, Viewed

\* An error leaves nothing to be true of.
LEMMA RunFail ==
  ASSUME RunInv, Fail
  PROVE  RunInv'
<1>1. TypeOK'
  BY NoFrameIsFrame, NoBytes, SMTT(30) DEF RunInv, Fail, TypeOK, slice
<1>2. pc' = "error"
  BY DEF Fail
<1> QED
  BY <1>1, <1>2 DEF RunInv, Viewed

\* One more slice of those the parser stepped over.
LEMMA YieldNext ==
  ASSUME NEW items \in Seq(Item), NEW done \in Seq(Item), Len(done) < Len(items),
         \A i \in 1 .. Len(done) : done[i] = items[i]
  PROVE  LET new == Append(done, items[Len(done) + 1])
         IN  /\ new \in Seq(Item) /\ Len(new) = Len(done) + 1 /\ Len(new) <= Len(items)
             /\ \A i \in 1 .. Len(new) : new[i] = items[i]
<1> DEFINE it == items[Len(done) + 1]
<1>1. it \in Item /\ Len(done) \in Nat /\ Len(items) \in Nat
  BY SMTT(30)
<1> HIDE DEF it
<1>2. Append(done, it) \in Seq(Item) /\ Len(Append(done, it)) = Len(done) + 1
  BY <1>1, SMTT(30)
<1>3. \A i \in 1 .. Len(done) + 1 : Append(done, it)[i] = items[i]
  BY <1>1, SMTT(30) DEF it
<1> QED
  BY <1>1, <1>2, <1>3, SMTT(30) DEF it

\* A sequence with one item more.
LEMMA Appended ==
  ASSUME NEW items \in Seq(Item), NEW it \in Item
  PROVE  LET new == Append(items, it)
         IN  /\ new \in Seq(Item) /\ Len(new) = Len(items) + 1
             /\ \A i \in 1 .. Len(items) : new[i] = items[i]
             /\ new[Len(items) + 1] = it
BY SMTT(30)

\* All parts end before the end of the message.
LEMMA LegacyOrder ==
  ASSUME NEW e, NEW at, NEW m, NEW f \in Frame, NEW items \in Seq(Item), NEW n,
         LegacyKnown(e, at, m, f, items), LegacyEnds(e, f, items, n)
  PROVE  /\ \A k \in 0 .. Len(items) :
                EndOf(f, items, k) \in Nat /\ EndOf(f, items, k) <= f.end_offset
         /\ InstructionsAt(f) \in Nat /\ InstructionsAt(f) <= f.end_offset
         /\ f.num_lookups > 0 =>
                /\ f.version = "v0"
                /\ EndOf(f, items, f.num_instructions) + 1 <= f.end_offset
<1> DEFINE l == Len(items)
           ni == f.num_instructions
<1>1. /\ ni \in Nat /\ f.num_lookups \in Nat /\ f.end_offset \in Nat /\ l \in Nat
      /\ l = ni + f.num_lookups
  BY FrameFields, SMTT(30) DEF LegacyKnown
<1>2. \A k \in 0 .. l : EndOf(f, items, k) \in Nat
  BY EndPlaces
<1>3. EndOf(f, items, l) <= f.end_offset
  <2>1. l \in 0 .. l
    BY <1>1, SMTT(30)
  <2>2. StartOf(f, items, l + 1) \in Nat /\ StartOf(f, items, l + 1) >= EndOf(f, items, l)
    BY <2>1, EndPlaces
  <2>3. f.end_offset = LegacyEnd(f, items)
    BY DEF LegacyEnds
  <2> QED
    BY <1>1, <1>2, <2>1, <2>2, <2>3, SMTT(30) DEF LegacyEnd
<1>4. \A i, j \in 0 .. l : i <= j => EndOf(f, items, i) <= EndOf(f, items, j)
  BY Zenon DEF LegacyKnown, InstructionsKnown, Spaced
<1>5. ASSUME NEW k \in 0 .. l PROVE EndOf(f, items, k) <= f.end_offset
  <2>1. l \in 0 .. l /\ k <= l
    BY <1>1, SMTT(30)
  <2>2. EndOf(f, items, k) <= EndOf(f, items, l) /\ EndOf(f, items, l) \in Nat
        /\ EndOf(f, items, k) \in Nat
    BY <1>2, <1>4, <2>1
  <2> QED
    BY <1>1, <1>3, <2>2, SMTT(30)
<1>6. InstructionsAt(f) \in Nat /\ InstructionsAt(f) <= f.end_offset
  <2>1. 0 \in 0 .. l /\ EndOf(f, items, 0) = InstructionsAt(f)
    BY <1>1, SMTT(30) DEF EndOf
  <2> QED
    BY <1>2, <1>5, <2>1
<1>7. ASSUME f.num_lookups > 0
      PROVE  f.version = "v0" /\ EndOf(f, items, ni) + 1 <= f.end_offset
  <2>1. f.version = "v0"
    BY <1>1, <1>7, SMTT(30) DEF LegacyKnown, NoLookups
  <2>2. ni \in 0 .. l /\ ni + 1 \in 1 .. l /\ ni + 1 \in 0 .. l /\ (ni + 1) - 1 = ni
    BY <1>1, <1>7, SMTT(30)
  <2>3. ItemKnown(at, m, f, items, ni + 1)
    BY <2>2 DEF LegacyKnown, InstructionsKnown, ItemsKnown
  <2>4. /\ items[ni + 1].start = StartOf(f, items, ni + 1)
        /\ items[ni + 1].start \in Nat /\ BeforeCounts(f, ni + 1) \in Nat
        /\ items[ni + 1].first \in Nat /\ items[ni + 1].num_first \in Nat
        /\ items[ni + 1].second \in Nat /\ items[ni + 1].num_second \in Nat
        /\ EndOf(f, items, ni + 1) = items[ni + 1].second + items[ni + 1].num_second
        /\ items[ni + 1].first >= items[ni + 1].start + BeforeCounts(f, ni + 1) + 1
        /\ items[ni + 1].second >= items[ni + 1].first + items[ni + 1].num_first + 1
    BY <2>2, <2>3, ItemPlaces, Zenon
  <2>5. StartOf(f, items, ni + 1) = EndOf(f, items, ni) + 1
    BY <2>2 DEF StartOf
  <2> HIDE DEF l, ni
  <2>6. items[ni + 1].first >= items[ni + 1].start
    BY <2>4, SMTT(30)
  <2>7. items[ni + 1].second >= items[ni + 1].start
    BY <2>4, <2>6, SMTT(30)
  <2>8. EndOf(f, items, ni + 1) >= items[ni + 1].start
    BY <2>4, <2>7, SMTT(30)
  <2>9. EndOf(f, items, ni) + 1 <= EndOf(f, items, ni + 1) /\ EndOf(f, items, ni) \in Nat
    BY <1>2, <2>2, <2>4, <2>5, <2>8
  <2> QED
    BY <1>1, <1>2, <1>5, <2>1, <2>2, <2>9, SMTT(30)
<1> QED
  BY <1>2, <1>5, <1>6, <1>7

\* None of the places of a legacy or v0 message that is accepted is cut off.
LEMMA LegacyPlaces ==
  ASSUME NEW e, NEW at, NEW m, NEW f \in Frame, NEW items \in Seq(Item), NEW n,
         LegacyKnown(e, at, m, f, items), LegacyEnds(e, f, items, n)
  PROVE  /\ f.message_offset = MessageAt(e, f) /\ f.keys_offset = CountOfKeysAt(e, f) + 1
         /\ f.instructions_offset = InstructionsAt(f)
         /\ f.message_offset < f.hash_offset /\ f.hash_offset + HashSize <= f.end_offset
         /\ f.end_offset \in Nat
<1> DEFINE p == MessageAt(e, f)
           q == CountOfKeysAt(e, f)
           h == f.hash_offset
           w == f.num_keys * KeySize
           i == InstructionsAt(f)
           end == f.end_offset
<1>1. /\ p \in Nat /\ q \in Nat /\ q >= p + 3 /\ w \in Nat /\ i \in Nat /\ h \in Nat
      /\ i >= h + HashSize + 1 /\ HashSize \in Nat /\ end \in Nat /\ U16Max \in Nat
  BY MessagePlace, InstructionsPlace, FrameFields, Product, Sizes
<1>2. h = q + 1 + w /\ f.keys_offset = AsU16(q + 1)
  BY DEF LegacyKnown, PreludeKnown, KeysKnown
<1>3. i <= end
  BY LegacyOrder, Zenon
<1>4. end <= U16Max
  BY DEF LegacyEnds
<1>5. f.message_offset = AsU16(p) /\ f.instructions_offset = AsU16(i)
  BY Zenon DEF LegacyKnown, PreludeKnown, HeaderKnown, InstructionsKnown, CountKnown
<1> HIDE DEF p, q, h, w, i, end
<1>6. /\ q + 1 \in Nat /\ q + 1 <= U16Max /\ p <= U16Max /\ i <= U16Max
      /\ p < h /\ h + HashSize <= end
  BY <1>1, <1>2, <1>3, <1>4, SMTT(30)
<1>7. AsU16(p) = p /\ AsU16(q + 1) = q + 1 /\ AsU16(i) = i
  BY <1>1, <1>6, AsU16Is
<1> QED
  BY <1>1, <1>2, <1>5, <1>6, <1>7 DEF p, q, h, i, end

\* A blockhash that is written consists of bytes.
LEMMA WrittenBytes ==
  ASSUME IsBytes(bytes), base \in Nat, NEW o \in Nat, NEW hash \in [1 .. HashSize -> Byte]
  PROVE  IsBytes(Seen(o, hash))
<1> DEFINE D == base + o .. base + o + Len(hash) - 1
           m == Seen(o, hash)
<1>1. Len(hash) = HashSize /\ HashSize \in Nat
  BY Sizes, SMTT(30)
<1>2. \A p \in D : p - base - o + 1 \in 1 .. HashSize
  BY <1>1, SMTT(30)
<1>3. /\ DOMAIN m = D \cup DOMAIN bytes
      /\ \A p \in DOMAIN m : m[p] = IF p \in D THEN hash[p - base - o + 1] ELSE bytes[p]
  BY DEF Seen, Merge
<1> QED
  BY <1>2, <1>3, Zenon DEF IsBytes

\* Nothing changes.
LEMMA RunStutter ==
  ASSUME RunInv, UNCHANGED vars
  PROVE  RunInv'
<1>1. UNCHANGED <<entry, base, len, bytes, pc, offset, cursor, rest, sum, frame, parsed, yielded>>
  BY DEF vars, slice
<1>2. TypeOK' /\ (Viewed' <=> Viewed)
  BY <1>1 DEF TypeOK, RunInv, Viewed
<1>3. /\ AtStart' = AtStart /\ AtSignatures' = AtSignatures /\ AtHeader' = AtHeader
      /\ AtKeys' = AtKeys /\ AtInstructions' = AtInstructions
      /\ AtInstruction' = AtInstruction /\ AtLookups' = AtLookups /\ AtLookup' = AtLookup
  BY <1>1, Zenon DEF AtStart, AtSignatures, AtHeader, AtKeys, AtInstructions, AtInstruction,
              AtLookups, AtLookup, Reset, NoInstructions
<1>4. /\ AtV1Prefix' = AtV1Prefix /\ AtV1Config' = AtV1Config
      /\ AtV1Instruction' = AtV1Instruction /\ AtEnd' = AtEnd
      /\ AtV1Signatures' = AtV1Signatures
  BY <1>1 DEF AtStart, AtV1Prefix, AtV1Config, AtV1Instruction, AtV1End, AtEnd,
              AtV1Signatures, Reset
<1>5. \A S : AtV1Payload(S)' = AtV1Payload(S)
  BY <1>1, Zenon DEF AtV1Payload
<1>6. AtLegacyView' = AtLegacyView /\ AtV1View' = AtV1View
  BY <1>1, <1>5 DEF AtLegacyView, AtV1View
<1> QED
  BY <1>1, <1>2, <1>3, <1>4, <1>6, SMTT(30) DEF RunInv

\* A second parse begins on what the first has recorded.
AgainBegins(n, function, start, end) ==
    /\ first' = [entry |-> entry, frame |-> frame, yielded |-> yielded]
    /\ entry' = function /\ base' = start /\ len' = end - start
    /\ pc' = "start" /\ parsed' = <<>> /\ yielded' = <<>> /\ bytes' = n

\* Nothing changes.
LEMMA AgainStutter ==
  ASSUME AgainInv, UNCHANGED vars
  PROVE  AgainInv'
<1>1. UNCHANGED <<entry, base, len, bytes, pc, offset, cursor, rest, sum, frame, parsed,
                  yielded, first>>
  BY DEF vars, slice
<1>2. /\ Viewed' = Viewed /\ SameItems' = SameItems /\ Placed' = Placed /\ Sound' = Sound
      /\ Recorded(bytes)' = Recorded(bytes)
  BY <1>1 DEF Viewed, SameItems, SameItem, Placed, Sound, LookupsHaveIndexes, Recorded
<1>3. \A S : /\ WritableAgain(S, frame.num_lookups - rest)'
                  = WritableAgain(S, frame.num_lookups - rest)
             /\ ReadonlyAgain(S, frame.num_lookups - rest)'
                  = ReadonlyAgain(S, frame.num_lookups - rest)
  BY <1>1 DEF WritableAgain, ReadonlyAgain
<1>4. LegacyAgain' = LegacyAgain /\ V1Again' = V1Again
  BY <1>1, <1>2, <1>3 DEF LegacyAgain, V1Again
<1> QED
  BY <1>1, <1>2, <1>4, Zenon DEF AgainInv

\* The same items are the same slices.
SlicesOf(items, at) ==
    [i \in DOMAIN items |->
        [first |-> Slice(at + items[i].first, items[i].num_first, 1),
         second |-> Slice(at + items[i].second, items[i].num_second, 1)]]

\* Views that agree in all that they hand out.
LEMMA ViewsAgree ==
  ASSUME NEW f, NEW g, NEW items, NEW other, NEW at,
         f.version = g.version, f.num_keys = g.num_keys,
         f.num_instructions = g.num_instructions, f.num_lookups = g.num_lookups,
         f.writable = g.writable, f.readonly = g.readonly,
         at + f.keys_offset = 0 + g.keys_offset, at + f.hash_offset = 0 + g.hash_offset,
         SlicesOf(items, at) = SlicesOf(other, 0),
         g.version = "v1" => f.mask = g.mask /\ at + f.values_offset = 0 + g.values_offset,
         at + f.message_offset = 0 + g.message_offset,
         f.end_offset - f.message_offset = g.end_offset - g.message_offset
  PROVE  MessageView(f, items, at) = MessageView(g, other, 0)
<1>1. Slice(at + f.keys_offset, f.num_keys, KeySize) = Slice(0 + g.keys_offset, g.num_keys, KeySize)
  OBVIOUS
<1>2. Slice(at + f.hash_offset, 1, HashSize) = Slice(0 + g.hash_offset, 1, HashSize)
  OBVIOUS
<1>3. Slice(at + f.message_offset, f.end_offset - f.message_offset, 1)
        = Slice(0 + g.message_offset, g.end_offset - g.message_offset, 1)
  OBVIOUS
<1>4. (IF f.version = "v1" THEN <<f.mask, at + f.values_offset>> ELSE <<>>)
        = (IF g.version = "v1" THEN <<g.mask, 0 + g.values_offset>> ELSE <<>>)
  OBVIOUS
<1> QED
  BY <1>1, <1>2, <1>3, <1>4, Zenon DEF MessageView, SlicesOf
=============================================================================
