---------------------------- MODULE V1ParseProofs -----------------------------
(*****************************************************************************)
(* The steps of a parse of a v1 transaction, and of the iterators over it,   *)
(* keep RunInv.  No step of a second parse fails, and each finds what the    *)
(* first has stored.                                                         *)
(*****************************************************************************)
EXTENDS TransactionFrameLemmas

\* A leaf that names no prover is given to Zenon.
USE ZenonT(30)

\* Places in a v1 message are numbers.
LEMMA V1Places ==
  ASSUME NEW f \in Frame, CountOnes(f.mask) \in Nat
  PROVE  /\ HeadersAt(f) \in Nat /\ HeadersAt(f) >= f.values_offset
         /\ PayloadsAt(f) \in Nat /\ PayloadsAt(f) = HeadersAt(f) + 4 * f.num_instructions
<1>1. f.values_offset \in Nat /\ f.num_instructions \in Nat
  BY FrameFields
<1>2. CountOnes(f.mask) * WordSize \in Nat
  BY Product, Sizes
<1> QED
  BY <1>1, <1>2, SMTT(30) DEF HeadersAt, PayloadsAt, HeaderSize

\* The headers begin after the counts.
LEMMA HeaderPlace ==
  ASSUME NEW f \in Frame, NEW i \in Nat, i >= 1, CountOnes(f.mask) \in Nat,
         f.values_offset = f.keys_offset + f.num_keys * KeySize, f.keys_offset = CountsAt + 2
  PROVE  HeaderAt(f, i) \in Nat /\ HeaderAt(f, i) >= CountsAt + 2
<1>1. CountsAt \in Nat
  BY Sizes, SMTT(30) DEF CountsAt, MaskSize
<1>2. f.num_keys * KeySize \in Nat
  BY FrameFields, Product, Sizes
<1>3. f.values_offset >= CountsAt + 2 /\ f.values_offset \in Nat
  BY <1>1, <1>2, SMTT(30)
<1>4. HeadersAt(f) \in Nat /\ HeadersAt(f) >= f.values_offset
  BY V1Places
<1>5. HeadersAt(f) >= CountsAt + 2
  BY <1>1, <1>3, <1>4, SMTT(30)
<1>6. 4 * (i - 1) \in Nat /\ CountsAt + 2 \in Nat
  BY <1>1, SMTT(30)
<1> QED
  BY <1>4, <1>5, <1>6, Further DEF HeaderAt, HeaderSize

\* A write between the mask and the counts.
InHash(at, H) ==
    /\ \A p \in Nat : p < at + (4 + MaskSize) => p \notin H
    /\ Beyond(at + CountsAt, H)

\* The blockhash of a v1 message is between the mask and the counts: writing it
\* keeps the prefix ...
LEMMA V1PrefixKept ==
  ASSUME NEW at \in Nat, NEW m, NEW n, NEW f \in Frame, NEW H,
         V1PrefixKnown(at, m, f), Keeps(m, n, H), InHash(at, H)
  PROVE  V1PrefixKnown(at, n, f)
<1>1. CountsAt \in Nat
  BY Sizes, SMTT(30) DEF CountsAt, MaskSize
<1>2. at \notin H /\ at + CountsAt \notin H /\ at + (CountsAt + 1) \notin H
  BY <1>1, SMTT(30) DEF InHash, Beyond, MaskSize
<1> QED
  BY <1>2 DEF V1PrefixKnown, Keeps

\* ... and the mask.
LEMMA V1ConfigKept ==
  ASSUME NEW at \in Nat, NEW m, NEW n, NEW f \in Frame, NEW H,
         V1ConfigKnown(at, m, f), Keeps(m, n, H), InHash(at, H)
  PROVE  V1ConfigKnown(at, n, f)
<1>1. at + 4 \notin H /\ at + 5 \notin H /\ at + 6 \notin H
  BY SMTT(30) DEF InHash, MaskSize
<1> QED
  BY <1>1 DEF V1ConfigKnown, Keeps

\* The lengths in the headers stay what they are.
LEMMA HeadersKept ==
  ASSUME NEW at \in Nat, NEW m, NEW n, NEW f \in Frame, NEW H, NEW k \in Nat,
         HeadersKnown(at, m, f, k), Keeps(m, n, H), Beyond(at + CountsAt, H),
         CountOnes(f.mask) \in Nat,
         f.values_offset = f.keys_offset + f.num_keys * KeySize, f.keys_offset = CountsAt + 2
  PROVE  /\ HeadersKnown(at, n, f, k)
         /\ \A i \in 1 .. k : /\ AccountsLen(at, n, f, i) = AccountsLen(at, m, f, i)
                              /\ DataLen(at, n, f, i) = DataLen(at, m, f, i)
         /\ Payloads(at, n, f, k) = Payloads(at, m, f, k)
<1>1. CountsAt \in Nat
  BY Sizes, SMTT(30) DEF CountsAt, MaskSize
<1>2. ASSUME NEW i \in 1 .. k, NEW j \in 1 .. 3
      PROVE  /\ at + (HeaderAt(f, i) + j) \in DOMAIN n
             /\ n[at + (HeaderAt(f, i) + j)] = m[at + (HeaderAt(f, i) + j)]
  <2> DEFINE p == at + (HeaderAt(f, i) + j)
  <2>1. HeaderAt(f, i) \in Nat /\ HeaderAt(f, i) >= CountsAt + 2
    BY HeaderPlace, SMTT(30)
  <2>2. p \in Nat /\ p >= at + CountsAt
    BY <1>1, <2>1, SMTT(30)
  <2>3. p \in DOMAIN m
    BY DEF HeadersKnown
  <2> HIDE DEF p
  <2>4. p \notin H
    BY <2>2 DEF Beyond
  <2>5. Known(m, p, m[p])
    BY <2>3 DEF Known
  <2>6. Known(n, p, m[p])
    BY <2>4, <2>5 DEF Keeps
  <2> QED
    BY <2>6 DEF Known, p
<1>3. HeadersKnown(at, n, f, k)
  BY <1>2 DEF HeadersKnown
<1>4. \A i \in 1 .. k : /\ AccountsLen(at, n, f, i) = AccountsLen(at, m, f, i)
                        /\ DataLen(at, n, f, i) = DataLen(at, m, f, i)
  <2> TAKE i \in 1 .. k
  <2>1. 1 \in 1 .. 3 /\ 2 \in 1 .. 3 /\ 3 \in 1 .. 3
    BY SMTT(30)
  <2> QED
    BY <1>2, <2>1 DEF AccountsLen, DataLen
<1>5. Payloads(at, n, f, k) = Payloads(at, m, f, k)
  BY <1>4 DEF Payloads
<1> QED
  BY <1>3, <1>4, <1>5

\* Writing the blockhash keeps all that is known of a v1 message.
LEMMA V1Kept ==
  ASSUME NEW e, NEW at \in Nat, NEW m, NEW n, NEW f \in Frame, NEW items, NEW l, NEW H,
         V1Known(at, m, f), Keeps(m, n, H), InHash(at, H)
  PROVE  /\ V1Known(at, n, f)
         /\ V1Ends(e, at, m, f, l) => V1Ends(e, at, n, f, l)
         /\ V1ItemsKnown(at, m, f, items) /\ Len(items) \in 0 .. f.num_instructions
              => V1ItemsKnown(at, n, f, items)
<1> DEFINE k == f.num_instructions
<1>1. V1PrefixKnown(at, n, f) /\ V1ConfigKnown(at, n, f) /\ k \in Nat
  BY V1PrefixKept, V1ConfigKept, FrameFields DEF V1Known
<1>2. /\ f.values_offset = f.keys_offset + f.num_keys * KeySize /\ f.keys_offset = CountsAt + 2
      /\ CountOnes(f.mask) \in Nat
  BY DEF V1Known, V1PrefixKnown, V1ConfigKnown
<1>3. HeadersKnown(at, m, f, k) /\ Beyond(at + CountsAt, H)
  BY DEF V1Known, InHash
<1>4. /\ HeadersKnown(at, n, f, k)
      /\ \A i \in 1 .. k : /\ AccountsLen(at, n, f, i) = AccountsLen(at, m, f, i)
                           /\ DataLen(at, n, f, i) = DataLen(at, m, f, i)
      /\ Payloads(at, n, f, k) = Payloads(at, m, f, k)
  <2> HIDE DEF k
  <2> QED
    BY <1>1, <1>2, <1>3, HeadersKept
<1>5. V1Known(at, n, f)
  BY <1>1, <1>4 DEF V1Known
<1>6. ASSUME V1Ends(e, at, m, f, l) PROVE V1Ends(e, at, n, f, l)
  <2>1. at + 1 \notin H
    BY SMTT(30) DEF InHash, MaskSize
  <2>2. e # "message" => Known(n, at + 1, f.num_signatures)
    BY <1>6, <2>1 DEF V1Ends, Keeps
  <2> QED
    BY <1>6, <2>2 DEF V1Ends
<1>7. ASSUME V1ItemsKnown(at, m, f, items), Len(items) \in 0 .. f.num_instructions
      PROVE  V1ItemsKnown(at, n, f, items)
  <2> SUFFICES ASSUME NEW i \in 1 .. Len(items) PROVE V1ItemKnown(at, n, f, items, i)
    BY DEF V1ItemsKnown
  <2>1. i \in 1 .. k
    BY <1>1, <1>7, SMTT(30)
  <2>2. V1ItemKnown(at, m, f, items, i)
    BY <1>7 DEF V1ItemsKnown
  <2> QED
    BY <1>4, <2>1, <2>2 DEF V1ItemKnown
<1> QED
  BY <1>5, <1>6, <1>7

\* Looking at two bytes.
LEMMA SeenTwo ==
  ASSUME IsBytes(bytes), base \in Nat, NEW o \in Nat,
         NEW b1 \in ByteAt(o), NEW b2 \in ByteAt(o + 1)
  PROVE  LET m == Seen(o, <<b1, b2>>)
         IN  /\ IsBytes(m) /\ Grown(bytes, m)
             /\ Known(m, base + o, b1) /\ Known(m, base + (o + 1), b2)
<1> DEFINE vs == <<b1, b2>>
<1>1. b1 \in Nat /\ b2 \in Nat
  BY ReadByte, Sizes, SMTT(30) DEF Byte
<1>2. vs \in Seq(Nat) /\ Len(vs) = 2 /\ vs[1] = b1 /\ vs[2] = b2
  BY <1>1, SMTT(30)
<1> HIDE DEF vs
<1>3. \A i \in 1 .. Len(vs) : vs[i] \in ByteAt(o + i - 1)
  <2>1. \A i \in 1 .. Len(vs) : (i = 1 /\ o + i - 1 = o) \/ (i = 2 /\ o + i - 1 = o + 1)
    BY <1>2, SMTT(30)
  <2> QED
    BY <1>2, <2>1
<1>4. /\ base + o + 1 - 1 = base + o /\ base + o + 2 - 1 = base + (o + 1)
      /\ 1 \in 1 .. Len(vs) /\ 2 \in 1 .. Len(vs)
  BY <1>2, SMTT(30)
<1>5. /\ IsBytes(Seen(o, vs)) /\ Grown(bytes, Seen(o, vs))
      /\ Known(Seen(o, vs), base + o + 1 - 1, vs[1])
      /\ Known(Seen(o, vs), base + o + 2 - 1, vs[2])
  BY <1>2, <1>3, <1>4, SeenBytes, Zenon
<1> QED
  BY <1>2, <1>4, <1>5 DEF vs

\* Looking at three bytes.
LEMMA SeenThree ==
  ASSUME IsBytes(bytes), base \in Nat, NEW o \in Nat,
         NEW b1 \in ByteAt(o), NEW b2 \in ByteAt(o + 1), NEW b3 \in ByteAt(o + 2)
  PROVE  LET m == Seen(o, <<b1, b2, b3>>)
         IN  /\ IsBytes(m) /\ Grown(bytes, m) /\ Known(m, base + o, b1)
             /\ Known(m, base + (o + 1), b2) /\ Known(m, base + (o + 2), b3)
<1> DEFINE vs == <<b1, b2, b3>>
<1>1. b1 \in Nat /\ b2 \in Nat /\ b3 \in Nat
  BY ReadByte, Sizes, SMTT(30) DEF Byte
<1>2. vs \in Seq(Nat) /\ Len(vs) = 3 /\ vs[1] = b1 /\ vs[2] = b2 /\ vs[3] = b3
  BY <1>1, SMTT(30)
<1> HIDE DEF vs
<1>3. \A i \in 1 .. Len(vs) : vs[i] \in ByteAt(o + i - 1)
  <2>1. \A i \in 1 .. Len(vs) : \/ (i = 1 /\ o + i - 1 = o) \/ (i = 2 /\ o + i - 1 = o + 1)
                                \/ (i = 3 /\ o + i - 1 = o + 2)
    BY <1>2, SMTT(30)
  <2> QED
    BY <1>2, <2>1
<1>4. /\ base + o + 1 - 1 = base + o /\ base + o + 2 - 1 = base + (o + 1)
      /\ base + o + 3 - 1 = base + (o + 2)
      /\ 1 \in 1 .. Len(vs) /\ 2 \in 1 .. Len(vs) /\ 3 \in 1 .. Len(vs)
  BY <1>2, SMTT(30)
<1>5. /\ IsBytes(Seen(o, vs)) /\ Grown(bytes, Seen(o, vs))
      /\ Known(Seen(o, vs), base + o + 1 - 1, vs[1])
      /\ Known(Seen(o, vs), base + o + 2 - 1, vs[2])
      /\ Known(Seen(o, vs), base + o + 3 - 1, vs[3])
  BY <1>2, <1>3, <1>4, SeenBytes, Zenon
<1> QED
  BY <1>2, <1>4, <1>5 DEF vs

\* The bytes of the fixed prefix: the version and the two counts.
LEMMA SeenPrefix ==
  ASSUME IsBytes(bytes), base \in Nat, NEW o \in Nat, o >= 1,
         NEW v \in ByteAt(0), NEW b1 \in ByteAt(o), NEW b2 \in ByteAt(o + 1)
  PROVE  LET m == Merge(Seen(0, <<v>>), Seen(o, <<b1, b2>>))
         IN  /\ IsBytes(m) /\ Grown(bytes, m) /\ Known(m, base, v)
             /\ Known(m, base + o, b1) /\ Known(m, base + (o + 1), b2)
<1> DEFINE a == Seen(0, <<v>>)
           b == Seen(o, <<b1, b2>>)
           m == Merge(a, b)
<1>1. IsBytes(b) /\ Grown(bytes, b) /\ Known(b, base + o, b1) /\ Known(b, base + (o + 1), b2)
  BY SeenTwo
<1>2. IsBytes(a) /\ Grown(bytes, a) /\ Known(a, base, v)
  <2>1. base + 0 = base
    BY SMTT(30)
  <2> QED
    BY <2>1, SeenByte
<1>3. \A p \in DOMAIN a : p \in DOMAIN bytes \/ p = base
  <2>1. DOMAIN a = (base + 0 .. base + 0 + Len(<<v>>) - 1) \cup DOMAIN bytes /\ Len(<<v>>) = 1
    BY DEF Seen, Merge
  <2> QED
    BY <2>1, SMTT(30)
<1> HIDE DEF a, b
<1>4. /\ IsBytes(m) /\ Grown(bytes, m) /\ Grown(a, m)
      /\ \A p, w : Known(b, p, w) /\ (p \in DOMAIN a => p \in DOMAIN bytes) => Known(m, p, w)
  BY <1>1, <1>2, MergedBytes, Zenon
<1> HIDE DEF m
<1>5. base + o # base /\ base + (o + 1) # base
  BY SMTT(30)
<1>6. Known(m, base + o, b1) /\ Known(m, base + (o + 1), b2)
  BY <1>1, <1>3, <1>4, <1>5
<1>7. Known(m, base, v)
  BY <1>2, <1>4, StaysKnown
<1> QED
  BY <1>4, <1>6, <1>7 DEF a, b, m

\* MessageFrame::try_new_as_v1 reads the fixed part of a v1 message.
LEMMA RunParseV1Prefix ==
  ASSUME RunInv, ParseV1Prefix
  PROVE  RunInv'
<1>1. TypeOK /\ AtStart
  BY Zenon DEF ParseV1Prefix, RunInv, AtV1Prefix
<1>2. CASE Fail
  BY <1>2, RunFail
<1>3. CASE ~Fail
  <2>1. PICK v \in ByteAt(0), ni \in ByteAt(CountsAt), nk \in ByteAt(CountsAt + 1) :
          /\ Remaining(0, FIXED_V1_PREFIX_LEN)
          /\ v = V1_PREFIX /\ CountsAt + 2 <= U16Max /\ Remaining(CountsAt + 2, nk * KeySize)
          /\ bytes' = Merge(Seen(0, <<v>>), Seen(CountsAt, <<ni, nk>>))
          /\ frame' = [frame EXCEPT
                !.version = "v1", !.message_offset = AsU16(0), !.hash_offset = 4 + MaskSize,
                !.num_instructions = ni, !.num_keys = nk, !.keys_offset = CountsAt + 2]
          /\ offset' = CountsAt + 2 + nk * KeySize
          /\ pc' = "v1_config"
          /\ UNCHANGED <<slice, cursor, rest, sum, parsed, yielded, first>>
    BY <1>3, Zenon DEF ParseV1Prefix, CountsAt, Fits
  <2>2. /\ IsBytes(bytes) /\ base \in Nat /\ len \in 0 .. MaxLen /\ len \in Nat
    BY <1>1, SMTT(30) DEF TypeOK
  <2>3. CountsAt \in Nat /\ CountsAt >= 1 /\ FIXED_V1_PREFIX_LEN = CountsAt + 2
    BY Sizes, SMTT(30) DEF CountsAt, MaskSize, FIXED_V1_PREFIX_LEN
  <2>4. CountsAt + 2 \in 0 .. len
    <3>1. 0 \in 0 .. len /\ CountsAt + 2 \in Nat
      BY <2>2, <2>3, SMTT(30)
    <3> QED
      BY <2>1, <2>2, <2>3, <3>1, RemainingIs, SMTT(30)
  <2>5. ni \in Nat /\ nk \in Nat /\ nk * KeySize \in Nat
    BY <2>2, ReadByte, Product, Sizes, SMTT(30) DEF Byte
  <2>6. CountsAt + 2 + nk * KeySize \in 0 .. len
    <3>1. CountsAt + 2 + nk * KeySize <= len
      BY <2>1, <2>2, <2>4, <2>5, RemainingIs
    <3> QED
      BY <2>2, <2>3, <2>5, <3>1, SMTT(30)
  <2>7. /\ IsBytes(bytes') /\ Known(bytes', base, V1_PREFIX)
        /\ Known(bytes', base + CountsAt, ni) /\ Known(bytes', base + (CountsAt + 1), nk)
    BY <2>1, <2>2, <2>3, SeenPrefix
  <2>8. AsU16(0) = 0 /\ 4 + MaskSize \in Nat /\ CountsAt + 2 \in Nat
    BY <2>3, Sizes, AsU16Is, SMTT(30) DEF MaskSize
  <2>9. frame = NoFrame /\ Reset
    BY <1>1 DEF AtStart
  <2>10. /\ frame' \in Frame /\ frame'.version = "v1" /\ frame'.message_offset = 0
         /\ frame'.hash_offset = 4 + MaskSize /\ frame'.num_instructions = ni
         /\ frame'.num_keys = nk /\ frame'.keys_offset = CountsAt + 2
         /\ frame'.num_signatures = frame.num_signatures
         /\ frame'.signature_offset = frame.signature_offset
         /\ frame'.num_lookups = frame.num_lookups
         /\ frame'.writable = frame.writable /\ frame'.readonly = frame.readonly
    <3>1. frame \in Frame
      BY <1>1 DEF TypeOK
    <3>2. frame' = [frame EXCEPT
                !.version = "v1", !.message_offset = 0, !.hash_offset = 4 + MaskSize,
                !.num_instructions = ni, !.num_keys = nk, !.keys_offset = CountsAt + 2]
      BY <2>1, <2>8, Zenon
    <3> QED
      BY <2>5, <2>8, <3>1, <3>2, Zenon DEF Frame
  <2>11. TypeOK'
    BY <1>1, <2>1, <2>6, <2>7, <2>10 DEF TypeOK, slice
  <2>12. NoLookups(frame') /\ frame'.num_signatures = 0 /\ frame'.signature_offset = 0
    BY <2>9, <2>10, NoFrameIsFrame DEF NoLookups
  <2>13. V1PrefixKnown(base', bytes', frame')
    BY <2>1, <2>7, <2>10, <2>12 DEF V1PrefixKnown, slice
  <2>14. AtV1Config'
    BY <2>1, <2>9, <2>10, <2>12, <2>13 DEF AtV1Config, Reset
  <2> QED
    BY <2>1, <2>11, <2>14 DEF RunInv, Viewed
<1> QED
  BY <1>2, <1>3

\* Frames of one v1 prefix.
SameV1Prefix(f, g) ==
    /\ g.version = f.version /\ g.message_offset = f.message_offset
    /\ g.num_instructions = f.num_instructions /\ g.num_keys = f.num_keys
    /\ g.hash_offset = f.hash_offset /\ g.keys_offset = f.keys_offset
    /\ g.num_lookups = f.num_lookups
    /\ g.writable = f.writable /\ g.readonly = f.readonly

\* What is known of it is known of a frame with the same fields.
LEMMA SameV1PrefixKnown ==
  ASSUME NEW at, NEW m, NEW f, NEW g, SameV1Prefix(f, g), V1PrefixKnown(at, m, f)
  PROVE  V1PrefixKnown(at, m, g)
BY DEF SameV1Prefix, V1PrefixKnown, NoLookups

\* Bytes that are only looked at are not written.
LEMMA GrownInHash ==
  ASSUME NEW m, NEW n, Grown(m, n)
  PROVE  Keeps(m, n, {}) /\ (\A at : InHash(at, {})) /\ (\A x : Beyond(x, {}))
BY GrownKeeps DEF InHash

\* A number of two or more bytes is a number.
LEMMA LittleEndianNat ==
  ASSUME NEW b0 \in Nat, NEW b1 \in Nat
  PROVE  LittleEndian(b0, b1) \in Nat
BY Sizes, SMTT(30) DEF LittleEndian

\* What ParseV1Config does once it has chosen the bytes of the mask.
ConfigStep(m0, m1, m2, mask, at) ==
    /\ SanitizeMask(mask) /\ offset <= U16Max
    /\ Remaining(offset, CountOnes(mask) * WordSize)
    /\ Remaining(at, HeaderSize * frame.num_instructions)
    /\ bytes' = Seen(4, <<m0, m1, m2>>)
    /\ frame' = [frame EXCEPT
          !.mask_offset = 4, !.mask = mask, !.values_offset = offset,
          !.instructions_offset = AsU16(at),
          !.payloads_offset = AsU16(at + HeaderSize * frame.num_instructions)]
    /\ cursor' = at
    /\ offset' = at + HeaderSize * frame.num_instructions
    /\ rest' = frame.num_instructions
    /\ sum' = 0
    /\ pc' = "v1_instruction"
    /\ UNCHANGED <<slice, parsed, yielded, first>>

\* TransactionConfigFrame::try_new.  That a set of bits has a number of elements
\* is shown with the theorems on finite sets, in TransactionFrameProofs.
LEMMA RunParseV1Config ==
  ASSUME RunInv, ParseV1Config, \A mask : CountOnes(mask) \in Nat
  PROVE  RunInv'
<1>1. TypeOK /\ AtV1Config
  BY Zenon DEF ParseV1Config, RunInv
<1>2. CASE Fail
  BY <1>2, RunFail
<1>3. CASE ~Fail
  <2>1. PICK m0 \in ByteAt(4), m1 \in ByteAt(5), m2 \in ByteAt(6) :
         LET mask == LittleEndian(m0, LittleEndian(m1, m2))
             values == CountOnes(mask) * WordSize
             headers_at == offset + values
             headers == HeaderSize * frame.num_instructions
         IN  IF \/ ~SanitizeMask(mask)
                \/ ~Fits(offset) \/ ~Remaining(offset, values)
                \/ ~Remaining(headers_at, headers)
             THEN Fail
             ELSE /\ bytes' = Seen(4, <<m0, m1, m2>>)
                  /\ frame' = [frame EXCEPT
                        !.mask_offset = 4, !.mask = mask,
                        !.values_offset = offset,
                        !.instructions_offset = AsU16(headers_at),
                        !.payloads_offset = AsU16(headers_at + headers)]
                  /\ cursor' = headers_at
                  /\ offset' = headers_at + headers
                  /\ rest' = frame.num_instructions
                  /\ sum' = 0
                  /\ pc' = "v1_instruction"
                  /\ UNCHANGED <<slice, parsed, yielded, first>>
    BY Zenon DEF ParseV1Config
  <2> DEFINE mask == LittleEndian(m0, LittleEndian(m1, m2))
             values == CountOnes(mask) * WordSize
             at == offset + values
             ni == frame.num_instructions
  <2>2. ConfigStep(m0, m1, m2, mask, at)
    <3> HIDE DEF mask
    <3> QED
      BY <1>3, <2>1, Zenon DEF ConfigStep, Fits, mask
  <2>3. /\ IsBytes(bytes) /\ base \in Nat /\ len \in 0 .. MaxLen /\ len \in Nat
        /\ offset \in 0 .. len /\ offset \in Nat /\ frame \in Frame
    BY <1>1, SMTT(30) DEF TypeOK
  <2>4. m0 \in Byte /\ m1 \in Byte /\ m2 \in Byte /\ mask \in Nat
    <3>1. m0 \in Byte /\ m1 \in Byte /\ m2 \in Byte
      BY <2>3, ReadByte
    <3>2. m0 \in Nat /\ m1 \in Nat /\ m2 \in Nat
      BY <3>1, Sizes, SMTT(30) DEF Byte
    <3> QED
      BY <3>1, <3>2, LittleEndianNat
  <2> HIDE DEF mask
  <2>5. CountOnes(mask) \in Nat /\ values \in Nat /\ ni \in Nat /\ HeaderSize * ni \in Nat
    BY <2>3, Product, Sizes, FrameFields DEF HeaderSize
  <2>6. at \in 0 .. len /\ at \in Nat
    <3>1. offset + values <= len
      <4> HIDE DEF at
      <4> QED
        BY <2>2, <2>3, <2>5, RemainingIs DEF ConfigStep
    <3> QED
      BY <2>3, <2>5, <3>1, SMTT(30)
  <2> HIDE DEF values, at
  <2>7. at + HeaderSize * ni \in 0 .. len /\ at + HeaderSize * ni \in Nat
    <3>1. at + HeaderSize * ni <= len
      BY <2>2, <2>3, <2>5, <2>6, RemainingIs DEF ConfigStep
    <3> QED
      BY <2>3, <2>5, <2>6, <3>1, SMTT(30)
  <2>8. /\ IsBytes(bytes') /\ Grown(bytes, bytes') /\ Known(bytes', base + 4, m0)
        /\ Known(bytes', base + 5, m1) /\ Known(bytes', base + 6, m2)
    <3>1. 4 + 1 = 5 /\ 4 + 2 = 6 /\ 4 \in Nat
      BY SMTT(30)
    <3>2. bytes' = Seen(4, <<m0, m1, m2>>)
      BY <2>2 DEF ConfigStep
    <3> QED
      BY <2>3, <3>1, <3>2, SeenThree
  <2>9. AsU16(at) \in Nat /\ AsU16(at + HeaderSize * ni) \in Nat
    BY <2>6, <2>7, AsU16Nat
  <2>10. /\ frame' \in Frame /\ SameV1Prefix(frame, frame')
         /\ frame'.mask = mask /\ frame'.values_offset = offset
         /\ frame'.instructions_offset = AsU16(at)
         /\ frame'.payloads_offset = AsU16(at + HeaderSize * ni)
         /\ frame'.num_signatures = frame.num_signatures
         /\ frame'.signature_offset = frame.signature_offset
         /\ frame'.num_instructions = ni
    <3>1. frame' = [frame EXCEPT
            !.mask_offset = 4, !.mask = mask, !.values_offset = offset,
            !.instructions_offset = AsU16(at),
            !.payloads_offset = AsU16(at + HeaderSize * ni)]
      BY <2>2 DEF ConfigStep
    <3> QED
      BY <2>3, <2>4, <2>9, <3>1, Zenon DEF Frame, SameV1Prefix
  <2>11. /\ cursor' = at /\ offset' = at + HeaderSize * ni /\ rest' = ni /\ sum' = 0
         /\ pc' = "v1_instruction" /\ UNCHANGED <<slice, parsed, yielded, first>>
         /\ SanitizeMask(mask) /\ offset <= U16Max
    BY <2>2 DEF ConfigStep
  <2>12. TypeOK'
    BY <1>1, <2>5, <2>6, <2>7, <2>8, <2>10, <2>11 DEF TypeOK, slice
  <2>13. HeadersAt(frame') = at /\ PayloadsAt(frame') = at + HeaderSize * ni
    BY <2>10 DEF HeadersAt, PayloadsAt, at, values
  <2>14. V1PrefixKnown(base', bytes', frame')
    <3>1. V1PrefixKnown(base, bytes', frame)
      BY <1>1, <2>3, <2>8, GrownInHash, V1PrefixKept DEF AtV1Config
    <3> QED
      BY <2>10, <2>11, <3>1, SameV1PrefixKnown DEF slice
  <2>15. V1ConfigKnown(base', bytes', frame')
    <3>1. offset = frame'.keys_offset + frame'.num_keys * KeySize
      BY <1>1, <2>10 DEF AtV1Config, SameV1Prefix
    <3> QED
      BY <2>4, <2>5, <2>8, <2>10, <2>11, <2>13, <3>1 DEF V1ConfigKnown, slice, mask
  <2>16. AtV1Instruction'
    <3>1. /\ rest' <= frame'.num_instructions /\ frame'.num_instructions - rest' = 0
          /\ at = at + HeaderSize * 0 /\ 0 <= UsizeMax
      BY <2>5, <2>6, <2>10, <2>11, Sizes, SMTT(30) DEF HeaderSize
    <3>2. HeadersKnown(base', bytes', frame', 0)
      BY SMTT(30) DEF HeadersKnown
    <3>3. SumIs(Payloads(base', bytes', frame', 0), 0, 0)
      BY SumOfNone
    <3>4. Reset' /\ frame'.num_signatures = 0 /\ frame'.signature_offset = 0
      BY <1>1, <2>10, <2>11 DEF AtV1Config, Reset
    <3> QED
      BY <2>11, <2>13, <2>14, <2>15, <3>1, <3>2, <3>3, <3>4 DEF AtV1Instruction
  <2> QED
    BY <2>11, <2>12, <2>16 DEF RunInv, Viewed
<1> QED
  BY <1>2, <1>3

\* The lengths of one header more.
LEMMA OneHeaderMore ==
  ASSUME NEW at \in Nat, NEW m, NEW n, NEW f \in Frame, NEW k \in Nat, NEW t,
         V1PrefixKnown(at, m, f), V1ConfigKnown(at, m, f),
         HeadersKnown(at, m, f, k), Grown(m, n), SumIs(Payloads(at, m, f, k), k, t),
         NEW a \in Nat, NEW d0 \in Nat, NEW d1 \in Nat,
         Known(n, at + (HeaderAt(f, k + 1) + 1), a),
         Known(n, at + (HeaderAt(f, k + 1) + 2), d0),
         Known(n, at + (HeaderAt(f, k + 1) + 3), d1)
  PROVE  /\ HeadersKnown(at, n, f, k + 1)
         /\ SumIs(Payloads(at, n, f, k + 1), k + 1, t + (a + LittleEndian(d0, d1)))
<1> DEFINE g == Payloads(at, m, f, k)
           h == Payloads(at, n, f, k + 1)
<1>1. /\ f.values_offset = f.keys_offset + f.num_keys * KeySize /\ f.keys_offset = CountsAt + 2
      /\ CountOnes(f.mask) \in Nat
  BY DEF V1PrefixKnown, V1ConfigKnown
<1>2. /\ HeadersKnown(at, n, f, k)
      /\ \A i \in 1 .. k : /\ AccountsLen(at, n, f, i) = AccountsLen(at, m, f, i)
                           /\ DataLen(at, n, f, i) = DataLen(at, m, f, i)
  <2>1. Keeps(m, n, {}) /\ Beyond(at + CountsAt, {})
    BY GrownInHash
  <2> QED
    BY <1>1, <2>1, HeadersKept, SMTT(30)
<1>3. HeadersKnown(at, n, f, k + 1)
  <2> SUFFICES ASSUME NEW i \in 1 .. k + 1, NEW j \in 1 .. 3
               PROVE  at + (HeaderAt(f, i) + j) \in DOMAIN n
    BY DEF HeadersKnown
  <2>1. i \in 1 .. k \/ i = k + 1
    BY SMTT(30)
  <2>2. j = 1 \/ j = 2 \/ j = 3
    BY SMTT(30)
  <2> QED
    BY <1>2, <2>1, <2>2 DEF HeadersKnown, Known
<1>4. AccountsLen(at, n, f, k + 1) = a /\ DataLen(at, n, f, k + 1) = LittleEndian(d0, d1)
  BY DEF AccountsLen, DataLen, Known
<1>5. /\ k + 1 \in 1 .. k + 1 /\ 1 .. k \subseteq 1 .. k + 1
  BY SMTT(30)
<1>6. h[k + 1] = a + LittleEndian(d0, d1) /\ h[k + 1] \in Nat
  <2>1. LittleEndian(d0, d1) \in Nat
    BY LittleEndianNat
  <2> QED
    BY <1>4, <1>5, <2>1, SMTT(30) DEF Payloads
<1>7. \A i \in 1 .. k : h[i] = g[i]
  BY <1>2, <1>5 DEF Payloads
<1>8. SumIs(h, k + 1, t + h[k + 1])
  <2> HIDE DEF g, h
  <2>1. SumIs(g, k, t)
    BY DEF g
  <2> QED
    BY <1>6, <1>7, <2>1, SumStep
<1> QED
  BY <1>3, <1>6, <1>8

\* What ParseV1Instruction does with the lengths in a header.
V1InstructionStep(a, d0, d1) ==
    /\ sum + (a + LittleEndian(d0, d1)) <= UsizeMax
    /\ bytes' = Seen(cursor + 1, <<a, d0, d1>>)
    /\ sum' = sum + (a + LittleEndian(d0, d1))
    /\ cursor' = cursor + HeaderSize
    /\ rest' = rest - 1
    /\ UNCHANGED <<slice, pc, offset, frame, parsed, yielded, first>>

\* The lengths in one header of a v1 instruction are added up, ...
LEMMA RunParseV1Instruction ==
  ASSUME RunInv, ParseV1Instruction
  PROVE  RunInv'
<1>1. TypeOK /\ AtV1Instruction /\ pc = "v1_instruction" /\ rest > 0
  BY Zenon DEF ParseV1Instruction, RunInv
<1>2. CASE Fail
  BY <1>2, RunFail
<1>3. CASE ~Fail
  <2> DEFINE ni == frame.num_instructions
             k == ni - rest
  <2>1. /\ IsBytes(bytes) /\ base \in Nat /\ frame \in Frame /\ ni \in Nat /\ rest \in Nat
        /\ cursor \in Nat /\ sum \in Nat
    BY <1>1, FrameFields DEF TypeOK
  <2>2. PICK a \in ByteAt(cursor + 1), d0 \in ByteAt(cursor + 2), d1 \in ByteAt(cursor + 3) :
          IF sum + (a + LittleEndian(d0, d1)) > UsizeMax
          THEN Fail
          ELSE /\ bytes' = Seen(cursor + 1, <<a, d0, d1>>)
               /\ sum' = sum + (a + LittleEndian(d0, d1))
               /\ cursor' = cursor + HeaderSize
               /\ rest' = rest - 1
               /\ UNCHANGED <<slice, pc, offset, frame, parsed, yielded, first>>
    BY DEF ParseV1Instruction
  <2>3. a \in Nat /\ d0 \in Nat /\ d1 \in Nat /\ a + LittleEndian(d0, d1) \in Nat
    <3>1. a \in Nat /\ d0 \in Nat /\ d1 \in Nat
      BY <2>1, ReadByte, Sizes, SMTT(30) DEF Byte
    <3>2. LittleEndian(d0, d1) \in Nat
      BY <3>1, LittleEndianNat
    <3> QED
      BY <3>1, <3>2, SMTT(30)
  <2>4. V1InstructionStep(a, d0, d1)
    <3> DEFINE payload == a + LittleEndian(d0, d1)
    <3>1. payload \in Nat
      BY <2>3
    <3> HIDE DEF payload
    <3>2. ~(sum + payload > UsizeMax) <=> sum + payload <= UsizeMax
      BY <2>1, <3>1, Sizes, SMTT(30)
    <3> QED
      BY <1>3, <2>2, <3>2 DEF V1InstructionStep, payload
  <2>5. /\ rest <= ni /\ k \in Nat /\ ni - rest' = k + 1 /\ rest' \in Nat /\ rest' <= ni
        /\ rest' = rest - 1
    BY <1>1, <2>1, <2>4, SMTT(30) DEF AtV1Instruction, V1InstructionStep
  <2> HIDE DEF k
  <2>6. HeadersAt(frame) \in Nat /\ cursor = HeadersAt(frame) + HeaderSize * k
    BY <1>1, <2>1, V1Places, Zenon DEF AtV1Instruction, V1ConfigKnown, k
  <2>7. /\ cursor = HeaderAt(frame, k + 1)
        /\ cursor + HeaderSize = HeadersAt(frame) + HeaderSize * (k + 1)
        /\ cursor + HeaderSize \in Nat
    BY <2>1, <2>5, <2>6, SMTT(30) DEF HeaderAt, HeaderSize
  <2>8. /\ IsBytes(bytes') /\ Grown(bytes, bytes') /\ Known(bytes', base + (cursor + 1), a)
        /\ Known(bytes', base + (cursor + 2), d0) /\ Known(bytes', base + (cursor + 3), d1)
    <3>1. (cursor + 1) + 1 = cursor + 2 /\ (cursor + 1) + 2 = cursor + 3 /\ cursor + 1 \in Nat
      BY <2>1, SMTT(30)
    <3>2. bytes' = Seen(cursor + 1, <<a, d0, d1>>)
      BY <2>4 DEF V1InstructionStep
    <3> QED
      BY <2>1, <3>1, <3>2, SeenThree
  <2>9. V1PrefixKnown(base, bytes', frame) /\ V1ConfigKnown(base, bytes', frame)
    BY <1>1, <2>1, <2>8, GrownInHash, V1PrefixKept, V1ConfigKept DEF AtV1Instruction
  <2>10. /\ HeadersKnown(base, bytes', frame, k + 1)
         /\ SumIs(Payloads(base, bytes', frame, k + 1), k + 1,
                  sum + (a + LittleEndian(d0, d1)))
    <3>1. /\ V1PrefixKnown(base, bytes, frame) /\ V1ConfigKnown(base, bytes, frame)
          /\ HeadersKnown(base, bytes, frame, k)
          /\ SumIs(Payloads(base, bytes, frame, k), k, sum)
      BY <1>1 DEF AtV1Instruction, k
    <3> QED
      BY <2>1, <2>3, <2>5, <2>7, <2>8, <3>1, OneHeaderMore
  <2>11. /\ cursor' = cursor + HeaderSize /\ sum' = sum + (a + LittleEndian(d0, d1))
         /\ sum' <= UsizeMax /\ sum' \in Nat
         /\ UNCHANGED <<slice, pc, offset, frame, parsed, yielded, first>>
    BY <2>1, <2>3, <2>4, SMTT(30) DEF V1InstructionStep
  <2>12. TypeOK'
    BY <1>1, <2>5, <2>7, <2>8, <2>11 DEF TypeOK, slice
  <2>13. AtV1Instruction'
    BY <1>1, <2>5, <2>7, <2>9, <2>10, <2>11 DEF AtV1Instruction, slice, Reset
  <2> QED
    BY <1>1, <2>11, <2>12, <2>13 DEF RunInv, Viewed
<1> QED
  BY <1>2, <1>3

\* ... and the payloads are skipped.
LEMMA RunV1InstructionsEnd ==
  ASSUME RunInv, V1InstructionsEnd
  PROVE  RunInv'
<1>1. TypeOK /\ AtV1Instruction /\ rest = 0
  BY Zenon DEF V1InstructionsEnd, RunInv
<1>2. CASE Fail
  BY <1>2, RunFail
<1>3. CASE ~Fail
  <2>1. /\ Remaining(offset, sum) /\ offset' = offset + sum /\ pc' = "end"
        /\ UNCHANGED <<slice, bytes, cursor, rest, sum, frame, parsed, yielded, first>>
    BY <1>3 DEF V1InstructionsEnd
  <2>2. /\ len \in 0 .. MaxLen /\ len \in Nat /\ offset \in 0 .. len /\ offset \in Nat
        /\ sum \in Nat /\ frame.num_instructions - rest = frame.num_instructions
    BY <1>1, FrameFields, SMTT(30) DEF TypeOK
  <2>3. offset + sum \in 0 .. len
    <3>1. offset + sum <= len
      BY <2>1, <2>2, RemainingIs
    <3> QED
      BY <2>2, <3>1, SMTT(30)
  <2>4. TypeOK'
    BY <1>1, <2>1, <2>3 DEF TypeOK, slice
  <2>5. AtEnd'
    <3>1. AtV1End'
      BY <1>1, <2>1, <2>2 DEF AtV1Instruction, AtV1End, V1Known, slice, Reset
    <3>2. frame'.version = "v1"
      BY <1>1, <2>1 DEF AtV1Instruction, V1PrefixKnown
    <3> QED
      BY <3>1, <3>2 DEF AtEnd
  <2> QED
    BY <2>1, <2>4, <2>5 DEF RunInv, Viewed
<1> QED
  BY <1>2, <1>3

\* Frames of one v1 message.
SameV1(f, g) ==
    /\ SameV1Prefix(f, g) /\ g.mask = f.mask /\ g.values_offset = f.values_offset
    /\ g.instructions_offset = f.instructions_offset
    /\ g.payloads_offset = f.payloads_offset

\* What is known of a v1 message does not depend on the ends that are stored.
LEMMA SameV1Known ==
  ASSUME NEW at, NEW m, NEW f, NEW g, SameV1(f, g), V1Known(at, m, f)
  PROVE  /\ V1Known(at, m, g) /\ PayloadsAt(g) = PayloadsAt(f)
         /\ \A k : Payloads(at, m, g, k) = Payloads(at, m, f, k)
<1>1. /\ HeadersAt(g) = HeadersAt(f) /\ PayloadsAt(g) = PayloadsAt(f)
      /\ g.num_instructions = f.num_instructions
  BY DEF SameV1, SameV1Prefix, HeadersAt, PayloadsAt
<1>2. \A i : HeaderAt(g, i) = HeaderAt(f, i)
  BY <1>1 DEF HeaderAt
<1>3. V1PrefixKnown(at, m, g)
  BY SameV1PrefixKnown DEF SameV1, V1Known
<1>4. V1ConfigKnown(at, m, g)
  <2>1. V1ConfigKnown(at, m, f)
    BY DEF V1Known
  <2> QED
    BY <1>1, <2>1 DEF SameV1, SameV1Prefix, V1ConfigKnown
<1>5. HeadersKnown(at, m, g, g.num_instructions)
  BY <1>1, <1>2 DEF V1Known, HeadersKnown
<1>6. \A k : Payloads(at, m, g, k) = Payloads(at, m, f, k)
  BY <1>2 DEF Payloads, AccountsLen, DataLen
<1> QED
  BY <1>1, <1>3, <1>4, <1>5, <1>6 DEF V1Known

\* A v1 message that has just been parsed.
V1Parsed ==
    /\ V1Known(base, bytes, frame)
    /\ SumIs(Payloads(base, bytes, frame, frame.num_instructions),
             frame.num_instructions, sum)
    /\ frame.end_offset = PayloadsAt(frame) + sum
    /\ V1Ends(entry, base, bytes, frame, len)
    /\ Reset /\ pc = "parsed"

\* A v1 message that is parsed to its end has a view.
LEMMA V1ParsedView ==
  ASSUME V1Parsed'
  PROVE  AtV1View' /\ frame'.version = "v1"
<1>1. PICK S : /\ Sums(S, Payloads(base', bytes', frame', frame'.num_instructions),
                       frame'.num_instructions)
               /\ S[frame'.num_instructions] = sum'
  BY DEF V1Parsed, SumIs
<1>2. pc' = "parsed" /\ yielded' = <<>> /\ parsed' = <<>> /\ Len(yielded') = 0
  BY DEF V1Parsed, Reset
<1>3. \E T : AtV1Payload(T)'
  BY <1>1, <1>2 DEF AtV1Payload
<1>4. V1ItemsKnown(base', bytes', frame', yielded')
  BY <1>2, SMTT(30) DEF V1ItemsKnown
<1>5. frame'.version = "v1"
  BY DEF V1Parsed, V1Known, V1PrefixKnown
<1> QED
  BY <1>2, <1>3, <1>4, <1>5 DEF AtV1View, V1Parsed

\* What ParseV1Signatures stores.
SignaturesStep(n) ==
    /\ Remaining(offset, n * SignatureSize)
    /\ offset + n * SignatureSize <= U16Max
    /\ entry = "transaction" => offset + n * SignatureSize = len
    /\ bytes' = Seen(1, <<n>>)
    /\ frame' = [frame EXCEPT !.num_signatures = n,
                              !.signature_offset = frame.end_offset,
                              !.data_len = offset + n * SignatureSize]
    /\ offset' = offset + n * SignatureSize
    /\ pc' = "parsed"
    /\ UNCHANGED <<slice, cursor, rest, sum, parsed, yielded, first>>

\* SignatureFrame::try_new_as_v1 finds the signatures after the message.
LEMMA RunParseV1Signatures ==
  ASSUME RunInv, ParseV1Signatures
  PROVE  RunInv'
<1>1. TypeOK /\ AtV1Signatures
  BY Zenon DEF ParseV1Signatures, RunInv
<1>2. CASE Fail
  BY <1>2, RunFail
<1>3. CASE ~Fail
  <2>1. PICK n \in ByteAt(1) : SignaturesStep(n)
    <3>1. PICK n \in ByteAt(1) :
            LET end == offset + n * SignatureSize
            IN  IF \/ ~Remaining(offset, n * SignatureSize)
                   \/ ~Fits(end)
                   \/ entry = "transaction" /\ end # len
                THEN Fail
                ELSE /\ bytes' = Seen(1, <<n>>)
                     /\ frame' = [frame EXCEPT !.num_signatures = n,
                                               !.signature_offset = frame.end_offset,
                                               !.data_len = end]
                     /\ offset' = end
                     /\ pc' = "parsed"
                     /\ UNCHANGED <<slice, cursor, rest, sum, parsed, yielded, first>>
      BY Zenon DEF ParseV1Signatures
    <3> QED
      BY <1>3, <3>1, ZenonT(30) DEF SignaturesStep, Fits
  <2> DEFINE size == n * SignatureSize
             ni == frame.num_instructions
  <2>2. /\ IsBytes(bytes) /\ base \in Nat /\ len \in 0 .. MaxLen /\ len \in Nat
        /\ offset \in 0 .. len /\ offset \in Nat /\ frame \in Frame /\ entry \in Function
    BY <1>1, SMTT(30) DEF TypeOK
  <2>3. n \in Nat /\ size \in Nat
    BY <2>2, ReadByte, Product, Sizes, SMTT(30) DEF Byte
  <2>4. /\ Remaining(offset, size) /\ offset + size <= U16Max
        /\ entry = "transaction" => offset + size = len
        /\ bytes' = Seen(1, <<n>>)
        /\ frame' = [frame EXCEPT !.num_signatures = n,
                                  !.signature_offset = frame.end_offset,
                                  !.data_len = offset + size]
        /\ offset' = offset + size /\ pc' = "parsed"
        /\ UNCHANGED <<slice, cursor, rest, sum, parsed, yielded, first>>
    BY <2>1 DEF SignaturesStep
  <2> HIDE DEF size
  <2>5. offset + size \in 0 .. len /\ offset + size \in Nat /\ offset + size <= len
    <3>1. offset + size <= len
      BY <2>2, <2>3, <2>4, RemainingIs
    <3> QED
      BY <2>2, <2>3, <3>1, SMTT(30)
  <2>6. IsBytes(bytes') /\ Grown(bytes, bytes') /\ Known(bytes', base + 1, n)
    BY <2>2, <2>4, SeenByte
  <2>7. /\ frame' \in Frame /\ SameV1(frame, frame') /\ frame'.num_instructions = ni
        /\ frame'.end_offset = frame.end_offset /\ frame'.num_signatures = n
        /\ frame'.signature_offset = frame.end_offset /\ frame'.data_len = offset + size
    <3>1. frame.end_offset \in Nat
      BY <2>2, FrameFields
    <3> QED
      BY <2>2, <2>3, <2>4, <2>5, <3>1, Zenon DEF Frame, SameV1, SameV1Prefix
  <2>8. TypeOK'
    BY <1>1, <2>4, <2>5, <2>6, <2>7 DEF TypeOK, slice
  <2>9. /\ V1Known(base, bytes', frame)
        /\ Payloads(base, bytes', frame, ni) = Payloads(base, bytes, frame, ni)
    <3>1. V1Known(base, bytes, frame) /\ ni \in Nat
      BY <1>1, <2>2, FrameFields DEF AtV1Signatures, AtV1End
    <3>2. V1Known(base, bytes', frame)
      BY <2>2, <2>6, <3>1, GrownInHash, V1Kept
    <3>3. Payloads(base, bytes', frame, ni) = Payloads(base, bytes, frame, ni)
      <4>1. /\ frame.values_offset = frame.keys_offset + frame.num_keys * KeySize
            /\ frame.keys_offset = CountsAt + 2
            /\ HeadersKnown(base, bytes, frame, ni) /\ CountOnes(frame.mask) \in Nat
        BY <3>1 DEF V1Known, V1PrefixKnown, V1ConfigKnown
      <4> HIDE DEF ni
      <4> QED
        <5>1. Keeps(bytes, bytes', {}) /\ Beyond(base + CountsAt, {})
          BY <2>6, GrownInHash
        <5> QED
          BY <2>2, <3>1, <4>1, <5>1, HeadersKept, SMTT(30)
    <3> QED
      BY <3>2, <3>3
  <2>10. /\ V1Known(base, bytes', frame') /\ PayloadsAt(frame') = PayloadsAt(frame)
         /\ Payloads(base, bytes', frame', ni) = Payloads(base, bytes, frame, ni)
    BY <2>7, <2>9, SameV1Known, SMTT(30)
  <2>11. V1Ends(entry, base, bytes', frame', len)
    <3>1. frame.end_offset = offset /\ offset <= U16Max /\ entry # "message"
      BY <1>1 DEF AtV1Signatures
    <3>2. entry # "prefix" => entry = "transaction"
      BY <2>2, <3>1 DEF Function
    <3> QED
      BY <2>4, <2>5, <2>6, <2>7, <3>1, <3>2 DEF V1Ends, size
  <2>12. V1Parsed'
    <3>1. /\ SumIs(Payloads(base, bytes, frame, ni), ni, sum)
          /\ frame.end_offset = PayloadsAt(frame) + sum /\ Reset
      BY <1>1 DEF AtV1Signatures, AtV1End
    <3> QED
      BY <2>4, <2>7, <2>10, <2>11, <3>1 DEF V1Parsed, slice, Reset
  <2>13. AtV1View' /\ frame'.version = "v1"
    BY <2>12, V1ParsedView
  <2> QED
    BY <2>4, <2>8, <2>13 DEF RunInv, Viewed
<1> QED
  BY <1>2, <1>3

\* All parts of a v1 message end before its end, so no stored place is cut off.
LEMMA V1Order ==
  ASSUME NEW e, NEW at, NEW m, NEW f \in Frame, NEW n \in Nat, NEW s \in Nat,
         V1Known(at, m, f), V1Ends(e, at, m, f, n), f.end_offset = PayloadsAt(f) + s
  PROVE  /\ HeadersAt(f) \in Nat /\ PayloadsAt(f) \in Nat /\ f.end_offset \in Nat
         /\ PayloadsAt(f) <= f.end_offset /\ f.end_offset <= n
         /\ f.instructions_offset = HeadersAt(f) /\ f.payloads_offset = PayloadsAt(f)
<1>1. /\ HeadersAt(f) \in Nat /\ PayloadsAt(f) \in Nat
      /\ PayloadsAt(f) = HeadersAt(f) + 4 * f.num_instructions
  BY V1Places, Zenon DEF V1Known, V1ConfigKnown
<1>2. /\ f.end_offset \in Nat /\ f.num_instructions \in Nat /\ f.data_len \in Nat
      /\ f.num_signatures * SignatureSize \in Nat
  BY FrameFields, Product, Sizes
<1>3. f.end_offset <= U16Max /\ f.data_len <= n /\ f.end_offset <= f.data_len
  BY <1>2, SMTT(30) DEF V1Ends
<1>4. HeadersAt(f) <= PayloadsAt(f) /\ PayloadsAt(f) <= f.end_offset
  BY <1>1, <1>2, SMTT(30)
<1>5. HeadersAt(f) <= U16Max /\ PayloadsAt(f) <= U16Max
  BY <1>1, <1>2, <1>3, <1>4, Sizes, SMTT(30)
<1>6. f.instructions_offset = HeadersAt(f) /\ f.payloads_offset = PayloadsAt(f)
  BY <1>1, <1>5, AsU16Is DEF V1Known, V1ConfigKnown
<1>7. f.end_offset <= n
  BY <1>2, <1>3, SMTT(30)
<1> QED
  BY <1>1, <1>2, <1>4, <1>6, <1>7

\* InstructionsIterator begins at the first header and the first payload.
LEMMA V1InstructionsIter ==
  ASSUME TypeOK, AtV1View, InstructionsIter
  PROVE  AtV1View' /\ offset' \in 0 .. len /\ cursor' \in Nat /\ rest' \in Nat
<1> DEFINE ni == frame.num_instructions
<1>1. /\ pc = "parsed" /\ pc' = "next_instruction" /\ rest' = ni
      /\ cursor' = frame.instructions_offset
      /\ UNCHANGED <<entry, base, len, bytes, sum, frame, parsed, yielded>>
  BY DEF InstructionsIter, slice
<1>2. /\ frame \in Frame /\ len \in Nat /\ sum \in Nat /\ V1Known(base, bytes, frame)
      /\ V1Ends(entry, base, bytes, frame, len) /\ frame.end_offset = PayloadsAt(frame) + sum
      /\ yielded = <<>> /\ ni \in Nat /\ Len(yielded) = 0
  BY <1>1, FrameFields, SMTT(30) DEF TypeOK, AtV1View
<1>3. offset' = frame.payloads_offset
  BY <1>2, Zenon DEF InstructionsIter, V1Known, V1PrefixKnown
<1>4. /\ HeadersAt(frame) \in Nat /\ PayloadsAt(frame) \in Nat /\ frame.end_offset \in Nat
      /\ PayloadsAt(frame) <= frame.end_offset /\ frame.end_offset <= len
      /\ cursor' = HeadersAt(frame) /\ offset' = PayloadsAt(frame)
  BY <1>1, <1>2, <1>3, V1Order
<1>5. /\ offset' \in 0 .. len /\ cursor' = HeadersAt(frame) + HeaderSize * 0
      /\ 0 + ni = ni /\ offset' = PayloadsAt(frame) + 0
  BY <1>2, <1>4, SMTT(30) DEF HeaderSize
<1>6. \E S : AtV1Payload(S)'
  <2>1. PICK S : AtV1Payload(S)
    BY DEF AtV1View
  <2>2. S[0] = 0
    BY <2>1 DEF AtV1Payload, Sums
  <2>3. AtV1Payload(S)'
    BY <1>1, <1>2, <1>5, <2>1, <2>2 DEF AtV1Payload
  <2> QED
    BY <2>3
<1>7. offset' = V1EndOf(frame, yielded, 0)
  BY <1>4 DEF V1EndOf
<1>8. AtV1View'
  BY <1>1, <1>2, <1>5, <1>6, <1>7 DEF AtV1View
<1> QED
  BY <1>1, <1>2, <1>4, <1>5, <1>8

\* What the iterator of v1 instructions does with a header.
V1NextStep(a, d) ==
    /\ yielded' = Append(yielded, [start |-> cursor, first |-> offset, num_first |-> a,
                                   second |-> offset + a, num_second |-> d])
    /\ offset' = offset + a + d
    /\ cursor' = cursor + HeaderSize
    /\ rest' = rest - 1
    /\ UNCHANGED <<slice, bytes, pc, sum, frame, parsed, first>>

\* The header is read again as it was.
LEMMA V1HeaderAgain ==
  ASSUME TypeOK, AtV1View, NextV1Instruction
  PROVE  LET k == Len(yielded) + 1
             a == AccountsLen(base, bytes, frame, k)
             d == DataLen(base, bytes, frame, k)
         IN  /\ V1NextStep(a, d) /\ a \in Nat /\ d \in Nat
             /\ k \in 1 .. frame.num_instructions /\ cursor = HeaderAt(frame, k)
<1> DEFINE k == Len(yielded) + 1
           ni == frame.num_instructions
<1>1. /\ pc = "next_instruction" /\ rest > 0 /\ rest \in Nat /\ Len(yielded) \in Nat
      /\ ni \in Nat /\ Len(yielded) + rest = ni /\ base \in Nat /\ IsBytes(bytes)
      /\ cursor = HeadersAt(frame) + HeaderSize * Len(yielded) /\ frame \in Frame
      /\ HeadersKnown(base, bytes, frame, ni)
  BY FrameFields, SMTT(30) DEF NextV1Instruction, TypeOK, AtV1View, V1Known
<1>2. k \in 1 .. ni /\ k - 1 = Len(yielded)
  BY <1>1, SMTT(30)
<1>3. cursor = HeaderAt(frame, k)
  BY <1>1, <1>2 DEF HeaderAt
<1>4. PICK a \in ByteAt(cursor + 1), d0 \in ByteAt(cursor + 2), d1 \in ByteAt(cursor + 3) :
        V1NextStep(a, LittleEndian(d0, d1))
  BY DEF NextV1Instruction, V1NextStep
<1> HIDE DEF k, ni
<1>5. \A j \in 1 .. 3 : base + (cursor + j) \in DOMAIN bytes
  BY <1>1, <1>2, <1>3, Zenon DEF HeadersKnown
<1>6. /\ a = bytes[base + (cursor + 1)] /\ d0 = bytes[base + (cursor + 2)]
      /\ d1 = bytes[base + (cursor + 3)]
  <2>1. 1 \in 1 .. 3 /\ 2 \in 1 .. 3 /\ 3 \in 1 .. 3
    BY SMTT(30)
  <2> QED
    BY <1>5, <2>1 DEF ByteAt
<1>7. /\ a = AccountsLen(base, bytes, frame, k)
      /\ LittleEndian(d0, d1) = DataLen(base, bytes, frame, k)
  BY <1>3, <1>6 DEF AccountsLen, DataLen
<1>8. a \in Nat /\ LittleEndian(d0, d1) \in Nat
  <2>1. a \in Nat /\ d0 \in Nat /\ d1 \in Nat
    BY <1>1, ReadByte, Sizes, SMTT(30) DEF Byte
  <2> QED
    BY <2>1, LittleEndianNat
<1> QED
  BY <1>2, <1>3, <1>4, <1>7, <1>8 DEF k, ni

\* InstructionsIterator::next of a v1 message adds up the lengths that the parser
\* has added up.
LEMMA V1NextInstruction ==
  ASSUME TypeOK, AtV1View, NextV1Instruction
  PROVE  /\ AtV1View' /\ offset' \in 0 .. len /\ cursor' \in Nat /\ rest' \in Nat
         /\ yielded' \in Seq(Item)
<1> DEFINE k == Len(yielded) + 1
           ni == frame.num_instructions
           a == AccountsLen(base, bytes, frame, k)
           d == DataLen(base, bytes, frame, k)
           it == [start |-> cursor, first |-> offset, num_first |-> a,
                  second |-> offset + a, num_second |-> d]
<1>1. V1NextStep(a, d) /\ a \in Nat /\ d \in Nat /\ k \in 1 .. ni /\ cursor = HeaderAt(frame, k)
  BY V1HeaderAgain
<1>2. /\ pc = "next_instruction" /\ rest > 0 /\ rest \in Nat /\ Len(yielded) \in Nat
      /\ ni \in Nat /\ Len(yielded) + rest = ni /\ offset \in Nat /\ cursor \in Nat
      /\ sum \in Nat /\ len \in Nat
      /\ cursor = HeadersAt(frame) + HeaderSize * Len(yielded) /\ frame \in Frame
      /\ yielded \in Seq(Item) /\ frame.end_offset = PayloadsAt(frame) + sum
      /\ V1Known(base, bytes, frame) /\ V1Ends(entry, base, bytes, frame, len)
      /\ V1ItemsKnown(base, bytes, frame, yielded) /\ parsed = <<>>
      /\ offset = V1EndOf(frame, yielded, Len(yielded))
  BY FrameFields, SMTT(30) DEF NextV1Instruction, TypeOK, AtV1View
<1>3. /\ k - 1 = Len(yielded) /\ k \in Nat /\ k \in 0 .. ni /\ Len(yielded) \in 0 .. ni
      /\ ni \in 0 .. ni /\ k <= ni /\ rest - 1 \in Nat /\ k + (rest - 1) = ni
  BY <1>1, <1>2, SMTT(30)
<1>4. /\ pc' = pc /\ yielded' = Append(yielded, it) /\ offset' = offset + a + d
      /\ cursor' = cursor + HeaderSize /\ rest' = rest - 1
      /\ UNCHANGED <<entry, base, len, bytes, sum, frame, parsed>>
  BY <1>1 DEF V1NextStep, slice
<1> HIDE DEF a, d
<1>5. it \in Item
  BY <1>1, <1>2, SMTT(30) DEF Item
<1>6. it.second + it.num_second = offset + a + d
  BY <1>1, <1>2
<1>7. PICK S : AtV1Payload(S)
  BY DEF AtV1View
<1>8. /\ S[k] = S[Len(yielded)] + (a + d) /\ S[k] <= sum /\ S[k] \in Nat
      /\ S[Len(yielded)] \in Nat /\ offset = PayloadsAt(frame) + S[Len(yielded)]
  <2> DEFINE g == Payloads(base, bytes, frame, ni)
  <2>1. Sums(S, g, ni) /\ S[ni] = sum /\ offset = PayloadsAt(frame) + S[Len(yielded)]
    BY <1>2, <1>7 DEF AtV1Payload
  <2>2. g[k] = a + d
    BY <1>1 DEF Payloads, a, d
  <2> HIDE DEF g, k, ni
  <2>3. /\ S \in [0 .. ni -> Nat] /\ S[k] = S[k - 1] + g[k]
        /\ \A i, j \in 0 .. ni : i <= j => S[i] <= S[j]
    BY <1>1, <2>1 DEF Sums
  <2>4. S[k] <= S[ni] /\ S[k] \in Nat /\ S[Len(yielded)] \in Nat
    BY <1>3, <2>3
  <2> QED
    BY <1>3, <2>1, <2>2, <2>3, <2>4
<1>9. /\ PayloadsAt(frame) \in Nat /\ frame.end_offset \in Nat /\ frame.end_offset <= len
      /\ HeadersAt(frame) \in Nat
  BY <1>2, V1Order
<1>10. /\ offset' = PayloadsAt(frame) + S[k] /\ offset' <= frame.end_offset
       /\ offset' \in 0 .. len
  <2> DEFINE p == PayloadsAt(frame)
             s == S[k]
             r == S[Len(yielded)]
             end == frame.end_offset
  <2>1. /\ p \in Nat /\ s \in Nat /\ r \in Nat /\ end \in Nat /\ sum \in Nat /\ len \in Nat
        /\ a \in Nat /\ d \in Nat /\ s = r + (a + d) /\ s <= sum /\ offset = p + r
        /\ offset' = offset + a + d /\ end = p + sum /\ end <= len
    BY <1>1, <1>2, <1>4, <1>8, <1>9
  <2> HIDE DEF k, p, s, r, end
  <2>2. offset' = p + s /\ offset' <= end /\ offset' \in 0 .. len
    BY <2>1, SMTT(30)
  <2> QED
    BY <2>2 DEF p, s, end
<1>11. /\ yielded' \in Seq(Item) /\ Len(yielded') = k
       /\ \A i \in 1 .. Len(yielded) : yielded'[i] = yielded[i]
       /\ yielded'[k] = it
  <2> HIDE DEF it
  <2> QED
    BY <1>2, <1>4, <1>5, Appended, Zenon
<1> HIDE DEF k, ni
<1>12. \A i \in 0 .. Len(yielded) : V1EndOf(frame, yielded', i) = V1EndOf(frame, yielded, i)
  <2> SUFFICES ASSUME NEW i \in 0 .. Len(yielded)
               PROVE  V1EndOf(frame, yielded', i) = V1EndOf(frame, yielded, i)
    OBVIOUS
  <2>1. i = 0 \/ i \in 1 .. Len(yielded)
    BY <1>2, SMTT(30)
  <2> QED
    BY <1>11, <2>1 DEF V1EndOf
<1>13. V1EndOf(frame, yielded', k) = offset' /\ V1EndOf(frame, yielded', k - 1) = offset
  <2>1. k # 0 /\ k - 1 \in 0 .. Len(yielded)
    BY <1>1, <1>2, <1>3, SMTT(30)
  <2>2. V1EndOf(frame, yielded', k) = it.second + it.num_second
    BY <1>11, <2>1 DEF V1EndOf
  <2> HIDE DEF it
  <2> QED
    BY <1>2, <1>3, <1>4, <1>6, <1>12, <2>1, <2>2
<1>14. V1ItemsKnown(base, bytes, frame, yielded')
  <2> SUFFICES ASSUME NEW i \in 1 .. k PROVE V1ItemKnown(base, bytes, frame, yielded', i)
    BY <1>11 DEF V1ItemsKnown
  <2>1. CASE i = k
    BY <1>1, <1>10, <1>11, <1>13, <2>1, Zenon DEF V1ItemKnown, a, d
  <2>2. CASE i # k
    <3>1. i \in 1 .. Len(yielded) /\ i \in 0 .. Len(yielded) /\ i - 1 \in 0 .. Len(yielded)
      BY <1>2, <1>3, <2>2, SMTT(30)
    <3>2. V1ItemKnown(base, bytes, frame, yielded, i)
      BY <1>2, <3>1 DEF V1ItemsKnown
    <3> QED
      BY <1>11, <1>12, <3>1, <3>2, Zenon DEF V1ItemKnown
  <2> QED
    BY <2>1, <2>2
<1>15. cursor' = HeadersAt(frame) + HeaderSize * k /\ cursor' \in Nat
  <2> DEFINE h == HeadersAt(frame)
             y == Len(yielded)
  <2>1. h \in Nat /\ y \in Nat /\ k = y + 1 /\ cursor' = h + 4 * y + 4
    BY <1>2, <1>4, <1>9 DEF HeaderSize, k
  <2> HIDE DEF h, y
  <2>2. cursor' = h + 4 * k /\ cursor' \in Nat
    BY <2>1, SMTT(30)
  <2> QED
    BY <2>2 DEF h, HeaderSize
<1>16. \E T : AtV1Payload(T)'
  <2>1. AtV1Payload(S)'
    BY <1>4, <1>7, <1>10, <1>11 DEF AtV1Payload
  <2> QED
    BY <2>1
<1>17. AtV1View'
  BY <1>2, <1>3, <1>4, <1>11, <1>13, <1>14, <1>15, <1>16, Zenon DEF AtV1View, ni
<1> QED
  BY <1>3, <1>4, <1>10, <1>11, <1>15, <1>17

\* A v1 message has no lookups, ...
LEMMA V1LookupsIter ==
  ASSUME TypeOK, AtV1View, LookupsIter
  PROVE  AtV1View' /\ rest' \in Nat /\ cursor' \in Nat
<1> DEFINE ni == frame.num_instructions
<1>1. /\ pc = "next_instruction" /\ rest = 0 /\ pc' = "next_lookup"
      /\ rest' = frame.num_lookups /\ cursor' = frame.lookups_offset
      /\ UNCHANGED <<entry, base, len, bytes, offset, sum, frame, parsed, yielded>>
  BY DEF LookupsIter, slice
<1>2. /\ Len(yielded) + rest = ni /\ frame.num_lookups = 0 /\ Len(yielded) \in Nat
      /\ frame.lookups_offset \in Nat /\ frame.end_offset = PayloadsAt(frame) + sum
      /\ offset = V1EndOf(frame, yielded, Len(yielded))
  BY <1>1, FrameFields, SMTT(30) DEF AtV1View, V1Known, V1PrefixKnown, NoLookups, TypeOK
<1>3. Len(yielded) = ni
  BY <1>1, <1>2, SMTT(30)
<1>4. PICK S : AtV1Payload(S)
  BY DEF AtV1View
<1>5. offset = frame.end_offset /\ AtV1Payload(S)'
  BY <1>1, <1>2, <1>3, <1>4 DEF AtV1Payload
<1>6. \E T : AtV1Payload(T)'
  BY <1>5
<1>7. AtV1View'
  BY <1>1, <1>2, <1>3, <1>5, <1>6 DEF AtV1View
<1> QED
  BY <1>1, <1>2, <1>7, SMTT(30)

\* ... so their iterator ends at once.
LEMMA V1LookupsIterEnd ==
  ASSUME TypeOK, AtV1View, LookupsIterEnd
  PROVE  AtV1View'
<1>1. /\ pc = "next_lookup" /\ pc' = "done"
      /\ UNCHANGED <<entry, base, len, bytes, offset, sum, rest, frame, parsed, yielded>>
  BY DEF LookupsIterEnd, slice
<1>2. PICK S : AtV1Payload(S)
  BY DEF AtV1View
<1>3. \E T : AtV1Payload(T)'
  <2>1. AtV1Payload(S)'
    BY <1>1, <1>2, ZenonT(30) DEF AtV1Payload
  <2> QED
    BY <2>1
<1> QED
  BY <1>1, <1>3 DEF AtV1View

\* The parts of a v1 transaction follow each other without a gap.
LEMMA V1Covers ==
  ASSUME TypeOK, AtV1View
  PROVE  V1Layout
<1>1. /\ frame \in Frame /\ len \in Nat /\ sum \in Nat /\ V1Known(base, bytes, frame)
      /\ V1Ends(entry, base, bytes, frame, len) /\ frame.end_offset = PayloadsAt(frame) + sum
  BY SMTT(30) DEF TypeOK, AtV1View
<1>2. /\ frame.instructions_offset = HeadersAt(frame)
      /\ frame.payloads_offset = PayloadsAt(frame)
  BY <1>1, V1Order
<1>3. /\ frame.hash_offset = 4 + MaskSize /\ frame.keys_offset = CountsAt + 2
      /\ frame.values_offset = frame.keys_offset + frame.num_keys * KeySize
  BY <1>1, Zenon DEF V1Known, V1PrefixKnown, V1ConfigKnown
<1>4. /\ frame.data_len = frame.end_offset + frame.num_signatures * SignatureSize
      /\ entry # "message" => frame.signature_offset = frame.end_offset
  <2>1. frame.end_offset \in Nat /\ SignatureSize \in Nat
    BY <1>1, FrameFields, Sizes
  <2>2. 0 * SignatureSize = 0 /\ frame.end_offset + 0 = frame.end_offset
    BY <2>1, SMTT(30)
  <2> QED
    BY <1>1, <2>2 DEF V1Ends
<1> QED
  BY <1>1, <1>2, <1>3, <1>4 DEF V1Layout, CountsAt, HeadersAt, PayloadsAt

\* Where a v1 message is in what is parsed again.
LEMMA OldV1 ==
  ASSUME ParsingAgain, first.frame.version = "v1"
  PROVE  /\ V1Known(0, bytes, first.frame) /\ V1ItemsKnown(0, bytes, first.frame, first.yielded)
         /\ V1Ends(first.entry, 0, bytes, first.frame, first.frame.data_len)
         /\ Len(first.yielded) = first.frame.num_instructions
         /\ V1EndOf(first.frame, first.yielded, first.frame.num_instructions)
              = first.frame.end_offset
         /\ first.entry # "message" /\ base = 0 /\ len \in Nat
         /\ first.frame.end_offset \in Nat /\ first.frame.end_offset <= len
         /\ first.frame.end_offset <= U16Max
         /\ entry = "message" => len = first.frame.end_offset
         /\ entry # "message" => first.frame.data_len <= len
         /\ entry = "transaction" => len = first.frame.data_len
<1> DEFINE g == first.frame
           x == g.num_signatures * SignatureSize
<1>1. /\ V1Known(0, bytes, g) /\ V1ItemsKnown(0, bytes, g, first.yielded)
      /\ V1Ends(first.entry, 0, bytes, g, g.data_len)
      /\ Len(first.yielded) = g.num_instructions
      /\ V1EndOf(g, first.yielded, g.num_instructions) = g.end_offset
      /\ first.entry # "message"
  BY ZenonT(30) DEF ParsingAgain, Recorded
<1>2. g.message_offset = 0
  BY <1>1, Zenon DEF V1Known, V1PrefixKnown
<1>3. base = 0 /\ len \in Nat /\ g \in Frame
  BY <1>2, SMTT(30) DEF ParsingAgain, Placed, TypeOK
<1>4. g.end_offset \in Nat /\ g.data_len \in Nat /\ x \in Nat
  BY <1>3, FrameFields, Product, Sizes
<1>5. g.data_len = g.end_offset + x /\ g.end_offset <= U16Max
  BY <1>1 DEF V1Ends
<1>6. /\ entry = "message" => len = g.end_offset
      /\ entry # "message" => g.data_len <= len
      /\ entry = "transaction" => len = g.data_len
  <2>1. CASE entry = "message"
    <3>1. base + len = g.end_offset
      BY <2>1 DEF ParsingAgain, Placed
    <3> QED
      BY <1>3, <2>1, <3>1, SMTT(30)
  <2>2. CASE entry = "transaction"
    <3>1. len = g.data_len
      BY <2>2 DEF ParsingAgain, Placed
    <3> QED
      BY <1>4, <2>2, <3>1, SMTT(30)
  <2>3. CASE entry \notin {"message", "transaction"}
    BY <2>3 DEF ParsingAgain, Placed
  <2> QED
    BY <2>1, <2>2, <2>3
<1> HIDE DEF g, x
<1>7. g.end_offset <= len
  BY <1>3, <1>4, <1>5, <1>6, SMTT(30)
<1> QED
  BY <1>1, <1>3, <1>4, <1>5, <1>6, <1>7, Zenon DEF g

\* The parts of the v1 message have room.
LEMMA OldV1Room ==
  ASSUME ParsingAgain, first.frame.version = "v1"
  PROVE  /\ first.frame \in Frame /\ first.frame.keys_offset \in Nat
         /\ first.frame.values_offset \in Nat /\ first.frame.num_keys * KeySize \in Nat
         /\ HeadersAt(first.frame) \in Nat /\ PayloadsAt(first.frame) \in Nat
         /\ first.frame.values_offset
              = first.frame.keys_offset + first.frame.num_keys * KeySize
         /\ first.frame.values_offset <= HeadersAt(first.frame)
         /\ HeadersAt(first.frame) <= PayloadsAt(first.frame)
         /\ PayloadsAt(first.frame) <= len
<1> DEFINE g == first.frame
           gi == first.yielded
<1>1. g \in Frame /\ gi \in Seq(Item)
  BY DEF ParsingAgain
<1>2. /\ V1Known(0, bytes, g) /\ V1ItemsKnown(0, bytes, g, gi)
      /\ Len(gi) = g.num_instructions /\ V1EndOf(g, gi, g.num_instructions) = g.end_offset
      /\ len \in Nat /\ g.end_offset \in Nat /\ g.end_offset <= len
  BY OldV1
<1>3. /\ HeadersAt(g) \in Nat /\ HeadersAt(g) >= g.values_offset
      /\ PayloadsAt(g) \in Nat /\ PayloadsAt(g) = HeadersAt(g) + 4 * g.num_instructions
  BY <1>1, <1>2, V1Places, Zenon DEF V1Known, V1ConfigKnown
<1>4. /\ g.keys_offset \in Nat /\ g.values_offset \in Nat /\ g.num_keys * KeySize \in Nat
      /\ g.num_instructions \in Nat
  BY <1>1, FrameFields, Product, Sizes
<1>5. g.values_offset = g.keys_offset + g.num_keys * KeySize
  BY <1>2, Zenon DEF V1Known, V1ConfigKnown
<1>6. PayloadsAt(g) <= g.end_offset
  <2>1. CASE g.num_instructions = 0
    BY <1>2, <1>3, <2>1, SMTT(30) DEF V1EndOf
  <2>2. CASE g.num_instructions # 0
    <3>1. 1 \in 1 .. Len(gi) /\ 1 - 1 = 0
      BY <1>2, <1>4, <2>2, SMTT(30)
    <3>2. V1ItemKnown(0, bytes, g, gi, 1)
      BY <1>2, <3>1 DEF V1ItemsKnown
    <3>3. /\ gi[1].second = V1EndOf(g, gi, 1 - 1) + gi[1].num_first
          /\ V1EndOf(g, gi, 1) <= g.end_offset
      BY <3>2, SMTT(30) DEF V1ItemKnown
    <3>4. V1EndOf(g, gi, 1 - 1) = PayloadsAt(g)
      BY <3>1 DEF V1EndOf
    <3>5. V1EndOf(g, gi, 1) = gi[1].second + gi[1].num_second
      BY SMTT(30) DEF V1EndOf
    <3>6. gi[1].num_first \in Nat /\ gi[1].num_second \in Nat
      BY <1>1, <3>1, ItemFields
    <3> DEFINE y == gi[1].num_first
               z == gi[1].num_second
    <3>7. PayloadsAt(g) + y + z <= g.end_offset /\ y \in Nat /\ z \in Nat
      BY <3>3, <3>4, <3>5, <3>6
    <3> HIDE DEF y, z
    <3> QED
      BY <1>2, <1>3, <3>7, SMTT(30)
  <2> QED
    BY <2>1, <2>2
<1>7. PayloadsAt(g) <= len /\ HeadersAt(g) <= PayloadsAt(g)
  BY <1>2, <1>3, <1>4, <1>6, SMTT(30)
<1> QED
  BY <1>1, <1>3, <1>4, <1>5, <1>7

\* The same prefix.
LEMMA V1PrefixAgain ==
  ASSUME ParsingAgain, first.frame.version = "v1", V1PrefixKnown(base, bytes, frame)
  PROVE  /\ frame.num_instructions = first.frame.num_instructions
         /\ frame.num_keys = first.frame.num_keys
         /\ frame.keys_offset = first.frame.keys_offset
         /\ frame.hash_offset = first.frame.hash_offset
         /\ frame.message_offset = first.frame.message_offset
<1>1. base = 0 /\ V1PrefixKnown(0, bytes, first.frame)
  BY OldV1 DEF V1Known
<1>2. V1PrefixKnown(0, bytes, frame)
  BY <1>1
<1> QED
  BY <1>1, <1>2, KnownOnce, ZenonT(30) DEF V1PrefixKnown

\* The same config.
LEMMA V1ConfigAgain ==
  ASSUME ParsingAgain, first.frame.version = "v1", V1PrefixKnown(base, bytes, frame),
         V1ConfigKnown(base, bytes, frame)
  PROVE  /\ frame.mask = first.frame.mask
         /\ frame.values_offset = first.frame.values_offset
         /\ HeadersAt(frame) = HeadersAt(first.frame)
         /\ PayloadsAt(frame) = PayloadsAt(first.frame)
         /\ \A i : HeaderAt(frame, i) = HeaderAt(first.frame, i)
<1>1. base = 0 /\ V1ConfigKnown(0, bytes, first.frame)
  BY OldV1 DEF V1Known
<1>2. V1ConfigKnown(0, bytes, frame)
  BY <1>1
<1>3. PICK m0, m1, m2 \in Byte :
         /\ Known(bytes, 0 + 4, m0) /\ Known(bytes, 0 + 5, m1) /\ Known(bytes, 0 + 6, m2)
         /\ frame.mask = LittleEndian(m0, LittleEndian(m1, m2))
  BY <1>2, ZenonT(30) DEF V1ConfigKnown
<1>4. PICK n0, n1, n2 \in Byte :
         /\ Known(bytes, 0 + 4, n0) /\ Known(bytes, 0 + 5, n1) /\ Known(bytes, 0 + 6, n2)
         /\ first.frame.mask = LittleEndian(n0, LittleEndian(n1, n2))
  BY <1>1, ZenonT(30) DEF V1ConfigKnown
<1>5. m0 = n0 /\ m1 = n1 /\ m2 = n2
  BY <1>3, <1>4, KnownOnce, ZenonT(30)
<1>6. frame.mask = first.frame.mask
  BY <1>3, <1>4, <1>5
<1>7. /\ frame.num_instructions = first.frame.num_instructions
      /\ frame.num_keys = first.frame.num_keys /\ frame.keys_offset = first.frame.keys_offset
  BY V1PrefixAgain
<1>8. frame.values_offset = first.frame.values_offset
  BY <1>1, <1>2, <1>7, Zenon DEF V1ConfigKnown
<1> QED
  BY <1>6, <1>7, <1>8 DEF HeadersAt, PayloadsAt, HeaderAt

\* What the iterators of the second parse have handed out so far.
YieldedAgain ==
    /\ Len(yielded) <= Len(first.yielded)
    /\ \A i \in 1 .. Len(yielded) : yielded[i] = first.yielded[i]

\* is_legacy_or_v0 and the first byte of the message choose v1 again.
LEMMA V1AgainChooseFormat ==
  ASSUME V1Parse, RunInv, ChooseFormat
  PROVE  pc' # "error" /\ Grown(bytes, bytes') /\ V1Again'
<1>1. ParsingAgain /\ first.frame.version = "v1" /\ YieldedAgain /\ TypeOK
  BY DEF V1Parse, V1Again, ParsingAgain, YieldedAgain
<1>2. /\ base = 0 /\ len \in Nat /\ V1Known(0, bytes, first.frame) /\ IsBytes(bytes)
      /\ MSB \in Nat /\ HashSize \in Nat
  BY <1>1, OldV1, Sizes, Zenon DEF TypeOK
<1>3. Known(bytes, 0, V1_PREFIX) /\ first.frame.keys_offset = CountsAt + 2
  BY <1>2 DEF V1Known, V1PrefixKnown
<1>4. base + 0 = 0
  BY <1>2, SMTT(30)
<1>5. ByteAt(0) = {V1_PREFIX}
  BY <1>3, <1>4, ReadAgain, SMTT(30)
<1>6. len # 0
  <2> DEFINE k == first.frame.keys_offset
             x == first.frame.num_keys * KeySize
             v == first.frame.values_offset
             h == HeadersAt(first.frame)
             p == PayloadsAt(first.frame)
  <2>1. /\ k \in Nat /\ x \in Nat /\ v \in Nat /\ h \in Nat /\ p \in Nat
        /\ v = k + x /\ v <= h /\ h <= p /\ p <= len
    BY <1>1, OldV1Room
  <2>2. k > 0
    BY <1>2, <1>3, SMTT(30) DEF CountsAt, MaskSize
  <2> HIDE DEF k, x, v, h, p
  <2> QED
    BY <1>2, <2>1, <2>2, SMTT(30)
<1>7. ~(V1_PREFIX < MSB)
  BY <1>2, SMTT(30) DEF V1_PREFIX
<1>8. /\ bytes' = Seen(0, <<V1_PREFIX>>)
      /\ pc' = CASE entry = "message" /\ V1_PREFIX = V1_PREFIX -> "v1_prefix"
                 [] entry = "message" /\ V1_PREFIX # V1_PREFIX -> "header"
                 [] entry # "message" /\ V1_PREFIX < MSB -> "signatures"
                 [] OTHER -> "v1_prefix"
      /\ UNCHANGED <<yielded, first>>
  BY <1>5, <1>6, Zenon DEF ChooseFormat
<1>9. pc' = "v1_prefix"
  BY <1>7, <1>8
<1>10. Grown(bytes, bytes')
  BY <1>2, <1>5, <1>8, SeenByte
<1> QED
  BY <1>1, <1>8, <1>9, <1>10 DEF V1Again, Viewed, YieldedAgain

\* The same prefix is parsed.
LEMMA V1AgainPrefix ==
  ASSUME V1Parse, RunInv, ParseV1Prefix
  PROVE  pc' # "error" /\ Grown(bytes, bytes') /\ V1Again'
<1> DEFINE g == first.frame
           c == CountsAt
<1>1. ParsingAgain /\ g.version = "v1" /\ YieldedAgain /\ TypeOK
  BY Zenon DEF V1Parse, V1Again, ParsingAgain, YieldedAgain
<1>2. /\ base = 0 /\ len \in Nat /\ V1Known(0, bytes, g) /\ IsBytes(bytes)
      /\ U16Max \in Nat /\ HashSize \in Nat /\ len \in 0 .. MaxLen
  BY <1>1, OldV1, Sizes DEF TypeOK
<1>3. /\ Known(bytes, 0, V1_PREFIX) /\ Known(bytes, 0 + c, g.num_instructions)
      /\ Known(bytes, 0 + (c + 1), g.num_keys)
      /\ g.keys_offset = c + 2 /\ g.keys_offset <= U16Max
  BY <1>2 DEF V1Known, V1PrefixKnown
<1>4. c \in Nat /\ c = 4 + MaskSize + HashSize /\ c >= 1 /\ 4 + MaskSize \in Nat
  BY <1>2, SMTT(30) DEF CountsAt, MaskSize
<1>5. c + 2 + g.num_keys * KeySize <= len /\ g.num_keys * KeySize \in Nat
  <2> DEFINE k == first.frame.keys_offset
             x == first.frame.num_keys * KeySize
             v == first.frame.values_offset
             h == HeadersAt(first.frame)
             p == PayloadsAt(first.frame)
  <2>1. /\ k \in Nat /\ x \in Nat /\ v \in Nat /\ h \in Nat /\ p \in Nat
        /\ v = k + x /\ v <= h /\ h <= p /\ p <= len /\ k = c + 2
    BY <1>1, <1>3, OldV1Room
  <2> HIDE DEF k, x, v, h, p
  <2>2. c + 2 + x <= len
    BY <1>2, <1>4, <2>1, SMTT(30)
  <2> QED
    BY <2>1, <2>2 DEF x
<1>6. /\ ByteAt(0) = {V1_PREFIX} /\ ByteAt(c) = {g.num_instructions}
      /\ ByteAt(c + 1) = {g.num_keys}
  <2>1. base + 0 = 0 /\ base + c = 0 + c /\ base + (c + 1) = 0 + (c + 1)
    BY <1>2, SMTT(30)
  <2> QED
    BY <1>3, <2>1, ReadAgain, SMTT(30)
<1>7. /\ Remaining(0, FIXED_V1_PREFIX_LEN) /\ Fits(4 + MaskSize) /\ Fits(c + 2)
      /\ Remaining(c + 2, g.num_keys * KeySize)
  <2> DEFINE x == g.num_keys * KeySize
  <2>1. x \in Nat /\ c + 2 + x <= len
    BY <1>5
  <2>2. FIXED_V1_PREFIX_LEN = c + 2 /\ FIXED_V1_PREFIX_LEN \in Nat
    BY <1>2, <1>4, SMTT(30) DEF FIXED_V1_PREFIX_LEN, MaskSize
  <2> HIDE DEF x, c
  <2>3. 0 \in 0 .. len /\ c + 2 \in 0 .. len /\ 0 + (c + 2) <= len
    BY <1>2, <1>4, <2>1, SMTT(30)
  <2>4. Remaining(0, FIXED_V1_PREFIX_LEN)
    BY <1>2, <2>2, <2>3, RemainingIs
  <2>5. Remaining(c + 2, x)
    BY <1>2, <2>1, <2>3, RemainingIs
  <2>6. Fits(c + 2) /\ Fits(4 + MaskSize)
    BY <1>2, <1>3, <1>4, SMTT(30) DEF Fits
  <2> QED
    BY <2>4, <2>5, <2>6 DEF x
<1>8. /\ bytes' = Merge(Seen(0, <<V1_PREFIX>>), Seen(c, <<g.num_instructions, g.num_keys>>))
      /\ pc' = "v1_config" /\ UNCHANGED <<yielded, first>>
  <2>1. c = 4 + MaskSize + HashSize
    BY DEF CountsAt
  <2> HIDE DEF c, g
  <2>2. PICK version \in ByteAt(0), instructions \in ByteAt(c), keys \in ByteAt(c + 1) :
           IF \/ version # V1_PREFIX
              \/ ~Fits(4 + MaskSize) \/ ~Fits(c + 2)
              \/ ~Remaining(c + 2, keys * KeySize)
           THEN Fail
           ELSE /\ bytes' = Merge(Seen(0, <<version>>), Seen(c, <<instructions, keys>>))
                /\ pc' = "v1_config" /\ UNCHANGED <<yielded, first>>
    BY <1>7, <2>1, Zenon DEF ParseV1Prefix
  <2>3. version = V1_PREFIX /\ instructions = g.num_instructions /\ keys = g.num_keys
    BY <1>6
  <2> QED
    BY <1>7, <2>2, <2>3, Zenon
<1>9. Grown(bytes, bytes')
  <2> HIDE DEF c, g
  <2>1. /\ V1_PREFIX \in ByteAt(0) /\ g.num_instructions \in ByteAt(c)
        /\ g.num_keys \in ByteAt(c + 1)
    BY <1>6
  <2>2. base \in Nat
    BY <1>2
  <2> QED
    BY <1>2, <1>4, <1>8, <2>1, <2>2, SeenPrefix, Zenon
<1> QED
  BY <1>1, <1>8, <1>9, ZenonT(30) DEF V1Again, Viewed, YieldedAgain

\* The same config is parsed.
LEMMA V1AgainConfig ==
  ASSUME V1Parse, RunInv, ParseV1Config
  PROVE  pc' # "error" /\ Grown(bytes, bytes') /\ V1Again'
<1> DEFINE g == first.frame
           values == CountOnes(g.mask) * WordSize
           headers == HeaderSize * frame.num_instructions
<1>1. ParsingAgain /\ g.version = "v1" /\ YieldedAgain /\ TypeOK
  BY DEF V1Parse, V1Again, ParsingAgain, YieldedAgain
<1>2. V1PrefixKnown(base, bytes, frame) /\ offset = frame.keys_offset + frame.num_keys * KeySize
  BY DEF RunInv, ParseV1Config, AtV1Config
<1>3. /\ base = 0 /\ len \in Nat /\ V1ConfigKnown(0, bytes, g) /\ IsBytes(bytes)
      /\ len \in 0 .. MaxLen /\ frame \in Frame
  BY <1>1, OldV1, ZenonT(30) DEF TypeOK, V1Known
<1>4. /\ frame.num_instructions = g.num_instructions /\ frame.num_keys = g.num_keys
      /\ frame.keys_offset = g.keys_offset
  BY <1>1, <1>2, V1PrefixAgain, ZenonT(30)
<1>5. PICK m0, m1, m2 \in Byte :
         /\ Known(bytes, 0 + 4, m0) /\ Known(bytes, 0 + 5, m1) /\ Known(bytes, 0 + 6, m2)
         /\ g.mask = LittleEndian(m0, LittleEndian(m1, m2))
  BY <1>3, Zenon DEF V1ConfigKnown
<1>6. ByteAt(4) = {m0} /\ ByteAt(5) = {m1} /\ ByteAt(6) = {m2}
  BY <1>3, <1>5, ReadAgain, Zenon
<1>7. SanitizeMask(g.mask) /\ CountOnes(g.mask) \in Nat /\ offset = g.values_offset /\ g.values_offset <= U16Max
  BY <1>2, <1>3, <1>4, Zenon DEF V1ConfigKnown
<1>8. /\ offset \in Nat /\ values \in Nat /\ headers \in Nat
      /\ offset + values = HeadersAt(g) /\ offset + values + headers = PayloadsAt(g)
      /\ PayloadsAt(g) <= len
  <2>1. g \in Frame /\ PayloadsAt(g) <= len
    BY <1>1, OldV1Room
  <2>2. values \in Nat /\ headers \in Nat /\ offset \in Nat
    BY <1>1, <1>3, <1>7, FrameFields, Product, Sizes, SMTT(30) DEF TypeOK, HeaderSize
  <2> QED
    BY <1>4, <1>7, <2>1, <2>2 DEF HeadersAt, PayloadsAt
<1>9. /\ Fits(offset) /\ Remaining(offset, values) /\ Remaining(offset + values, headers)
  <2> HIDE DEF values, headers
  <2>1. /\ offset \in 0 .. len /\ offset + values <= len
        /\ offset + values \in 0 .. len /\ offset + values + headers <= len
    BY <1>3, <1>8, SMTT(30)
  <2> QED
    BY <1>3, <1>7, <1>8, <2>1, RemainingIs DEF Fits
<1>10. /\ bytes' = Seen(4, <<m0, m1, m2>>)
       /\ frame' = [frame EXCEPT
             !.mask_offset = 4, !.mask = g.mask, !.values_offset = offset,
             !.instructions_offset = AsU16(offset + values),
             !.payloads_offset = AsU16(offset + values + headers)]
       /\ offset' = offset + values + headers
       /\ rest' = frame.num_instructions /\ sum' = 0
       /\ pc' = "v1_instruction" /\ UNCHANGED <<yielded, first>>
  <2>1. PICK n0 \in ByteAt(4), n1 \in ByteAt(5), n2 \in ByteAt(6) :
          LET mask == LittleEndian(n0, LittleEndian(n1, n2))
              vals == CountOnes(mask) * WordSize
              headers_at == offset + vals
              hs == HeaderSize * frame.num_instructions
          IN  IF \/ ~SanitizeMask(mask)
                 \/ ~Fits(offset) \/ ~Remaining(offset, vals)
                 \/ ~Remaining(headers_at, hs)
              THEN Fail
              ELSE /\ bytes' = Seen(4, <<n0, n1, n2>>)
                   /\ frame' = [frame EXCEPT
                         !.mask_offset = 4, !.mask = mask,
                         !.values_offset = offset,
                         !.instructions_offset = AsU16(headers_at),
                         !.payloads_offset = AsU16(headers_at + hs)]
                   /\ cursor' = headers_at
                   /\ offset' = headers_at + hs
                   /\ rest' = frame.num_instructions
                   /\ sum' = 0
                   /\ pc' = "v1_instruction"
                   /\ UNCHANGED <<slice, parsed, yielded, first>>
    BY Zenon DEF ParseV1Config
  <2>2. n0 = m0 /\ n1 = m1 /\ n2 = m2
    BY <1>6
  <2>3. LittleEndian(n0, LittleEndian(n1, n2)) = g.mask
    BY <1>5, <2>2
  <2> QED
    BY <1>7, <1>9, <2>1, <2>2, <2>3, ZenonT(30)
<1>11. Grown(bytes, bytes')
  <2>1. m0 \in ByteAt(4) /\ m1 \in ByteAt(4 + 1) /\ m2 \in ByteAt(4 + 2) /\ base \in Nat
    BY <1>3, <1>6, SMTT(30)
  <2> QED
    BY <1>3, <1>10, <2>1, SeenThree, Zenon
<1>12. frame'.num_instructions = frame.num_instructions /\ frame.num_instructions \in Nat
  BY <1>3, <1>10, FrameFields DEF Frame
<1>13. frame'.num_instructions - rest' = 0
  BY <1>10, <1>12, SMTT(30)
<1>14. offset' + sum' = V1EndOf(first'.frame, first'.yielded, frame'.num_instructions - rest')
  BY <1>8, <1>10, <1>13, SMTT(30) DEF V1EndOf
<1> QED
  BY <1>1, <1>10, <1>11, <1>14 DEF V1Again, Viewed, YieldedAgain

\* The lengths in a header that was read before.
LEMMA OldHeader ==
  ASSUME ParsingAgain, first.frame.version = "v1",
         NEW k \in 1 .. first.frame.num_instructions
  PROVE  LET a == AccountsLen(0, bytes, first.frame, k)
             d == DataLen(0, bytes, first.frame, k)
             h == HeaderAt(first.frame, k)
         IN  /\ a \in Nat /\ d \in Nat /\ h \in Nat
             /\ ByteAt(h + 1) = {a}
             /\ \A d0 \in ByteAt(h + 2), d1 \in ByteAt(h + 3) : LittleEndian(d0, d1) = d
             /\ first.yielded[k] = [start |-> h,
                   first |-> V1EndOf(first.frame, first.yielded, k - 1), num_first |-> a,
                   second |-> V1EndOf(first.frame, first.yielded, k - 1) + a,
                   num_second |-> d]
             /\ V1EndOf(first.frame, first.yielded, k)
                  = V1EndOf(first.frame, first.yielded, k - 1) + a + d
             /\ V1EndOf(first.frame, first.yielded, k) <= first.frame.end_offset
             /\ V1EndOf(first.frame, first.yielded, k - 1) \in Nat
<1> DEFINE g == first.frame
           gi == first.yielded
           a == AccountsLen(0, bytes, g, k)
           h == HeaderAt(g, k)
           m2 == bytes[0 + (h + 2)]
           m3 == bytes[0 + (h + 3)]
           d == DataLen(0, bytes, g, k)
           e == V1EndOf(g, gi, k - 1)
<1>1. /\ base = 0 /\ V1Known(0, bytes, g) /\ V1ItemsKnown(0, bytes, g, gi)
      /\ Len(gi) = g.num_instructions /\ IsBytes(bytes) /\ g \in Frame /\ gi \in Seq(Item)
      /\ g.num_instructions \in Nat
  BY OldV1, FrameFields, ZenonT(30) DEF ParsingAgain, TypeOK
<1>2. /\ 0 + (h + 1) \in DOMAIN bytes /\ 0 + (h + 2) \in DOMAIN bytes
      /\ 0 + (h + 3) \in DOMAIN bytes
  BY <1>1, SMTT(30) DEF V1Known, HeadersKnown
<1>3. h \in Nat
  <2>1. k \in Nat /\ k >= 1
    BY <1>1, SMTT(30)
  <2> QED
    BY <1>1, <2>1, HeaderPlace, Zenon DEF V1Known, V1PrefixKnown, V1ConfigKnown
<1>4. /\ a = bytes[0 + (h + 1)] /\ d = LittleEndian(m2, m3)
  BY DEF AccountsLen, DataLen
<1>5. a \in Nat /\ m2 \in Nat /\ m3 \in Nat
  BY <1>1, <1>2, <1>4, Sizes, SMTT(30) DEF IsBytes, Byte
<1>6. d \in Nat
  BY <1>4, <1>5, LittleEndianNat, ZenonT(30)
<1>7. /\ Known(bytes, base + (h + 1), a) /\ Known(bytes, base + (h + 2), m2)
      /\ Known(bytes, base + (h + 3), m3)
  BY <1>1, <1>2, <1>4, ZenonT(30) DEF Known
<1>8. ByteAt(h + 1) = {a} /\ ByteAt(h + 2) = {m2} /\ ByteAt(h + 3) = {m3}
  BY <1>7, ReadAgain
<1>9. \A d0 \in ByteAt(h + 2), d1 \in ByteAt(h + 3) : LittleEndian(d0, d1) = d
  BY <1>4, <1>8
<1>10. /\ gi[k] = [start |-> h, first |-> e, num_first |-> a, second |-> e + a,
                   num_second |-> d]
       /\ V1EndOf(g, gi, k) <= g.end_offset
  BY <1>1, ZenonT(30) DEF V1ItemsKnown, V1ItemKnown
<1>11. V1EndOf(g, gi, k) = e + a + d
  <2>1. k # 0
    BY SMTT(30)
  <2> HIDE DEF e, a, d
  <2> QED
    BY <1>10, <2>1, SMTT(30) DEF V1EndOf
<1>12. e \in Nat
  <2>1. k \in 1 .. Len(gi)
    BY <1>1, Zenon
  <2>2. gi[k].first \in Nat
    BY <1>1, <2>1, ItemFields
  <2> HIDE DEF e, a, d, h
  <2> QED
    BY <1>10, <2>2, SMTT(30)
<1> QED
  BY <1>3, <1>5, <1>6, <1>8, <1>9, <1>10, <1>11, <1>12, Zenon

\* The same header is read, and the sum of the lengths does not overflow.
LEMMA V1AgainInstruction ==
  ASSUME V1Parse, RunInv, ParseV1Instruction
  PROVE  pc' # "error" /\ Grown(bytes, bytes') /\ V1Again'
<1> DEFINE g == first.frame
           gi == first.yielded
           k == frame.num_instructions - rest + 1
           a == AccountsLen(0, bytes, g, k)
           d == DataLen(0, bytes, g, k)
           h == HeaderAt(g, k)
           e == V1EndOf(g, gi, k - 1)
<1>1. ParsingAgain /\ g.version = "v1" /\ YieldedAgain /\ TypeOK
  BY DEF V1Parse, V1Again, ParsingAgain, YieldedAgain
<1>2. /\ pc = "v1_instruction" /\ rest > 0 /\ AtV1Instruction
      /\ offset + sum = V1EndOf(g, gi, frame.num_instructions - rest)
  BY DEF ParseV1Instruction, RunInv, V1Parse, V1Again
<1>3. /\ V1PrefixKnown(base, bytes, frame) /\ V1ConfigKnown(base, bytes, frame)
      /\ rest <= frame.num_instructions
      /\ cursor = HeadersAt(frame) + HeaderSize * (frame.num_instructions - rest)
  BY <1>2 DEF AtV1Instruction
<1>4. /\ base = 0 /\ IsBytes(bytes) /\ frame \in Frame /\ g \in Frame /\ rest \in Nat
      /\ offset \in Nat /\ sum \in Nat /\ frame.num_instructions \in Nat
      /\ g.end_offset \in Nat /\ g.end_offset <= U16Max /\ U16Max \in Nat
      /\ UsizeMax \in Nat /\ U16Max < UsizeMax /\ cursor \in Nat
  <2>1. /\ IsBytes(bytes) /\ frame \in Frame /\ rest \in Nat /\ offset \in Nat /\ sum \in Nat
        /\ cursor \in Nat
    BY <1>1, SMTT(30) DEF TypeOK
  <2>2. g \in Frame
    BY <1>1, Zenon DEF ParsingAgain
  <2>3. base = 0 /\ g.end_offset \in Nat /\ g.end_offset <= U16Max
    BY <1>1, OldV1, Zenon
  <2>4. frame.num_instructions \in Nat
    BY <2>1, FrameFields
  <2>5. U16Max \in Nat /\ UsizeMax \in Nat /\ U16Max < UsizeMax
    BY Sizes
  <2> QED
    BY <2>1, <2>2, <2>3, <2>4, <2>5, Zenon
<1>5. frame.num_instructions = g.num_instructions /\ HeaderAt(frame, k) = h
  BY <1>1, <1>3, V1PrefixAgain, V1ConfigAgain, Zenon
<1>6. k \in 1 .. g.num_instructions /\ k - 1 = frame.num_instructions - rest
  <2> DEFINE n == frame.num_instructions
  <2>1. n \in Nat /\ rest \in Nat /\ rest > 0 /\ rest <= n
    BY <1>2, <1>3, <1>4, Zenon
  <2> HIDE DEF n
  <2>2. n - rest + 1 \in 1 .. n /\ (n - rest + 1) - 1 = n - rest
    BY <2>1, SMTT(30)
  <2> QED
    BY <1>5, <2>2, Zenon DEF n
<1>7. cursor = h
  BY <1>3, <1>5, <1>6, Zenon DEF HeaderAt
<1>8. /\ a \in Nat /\ d \in Nat /\ ByteAt(h + 1) = {a}
      /\ \A d0 \in ByteAt(h + 2), d1 \in ByteAt(h + 3) : LittleEndian(d0, d1) = d
      /\ V1EndOf(g, gi, k) = e + a + d /\ V1EndOf(g, gi, k) <= g.end_offset /\ e \in Nat
  BY <1>1, <1>6, OldHeader, Zenon
<1>9. offset + sum = e
  BY <1>2, <1>6
<1>10. ~(sum + (a + d) > UsizeMax)
  <2>1. e + a + d <= g.end_offset
    BY <1>8, Zenon
  <2> HIDE DEF a, d, e, g
  <2> QED
    BY <1>4, <1>8, <1>9, <2>1, SMTT(30)
<1>11. PICK accounts \in ByteAt(cursor + 1), d0 \in ByteAt(cursor + 2),
            d1 \in ByteAt(cursor + 3) :
          LET payload == accounts + LittleEndian(d0, d1)
          IN  IF sum + payload > UsizeMax
              THEN Fail
              ELSE /\ bytes' = Seen(cursor + 1, <<accounts, d0, d1>>)
                   /\ sum' = sum + payload
                   /\ cursor' = cursor + HeaderSize
                   /\ rest' = rest - 1
                   /\ UNCHANGED <<slice, pc, offset, frame, parsed, yielded, first>>
  BY DEF ParseV1Instruction
<1>12. accounts = a /\ LittleEndian(d0, d1) = d
  BY <1>7, <1>8, Zenon
<1>13. /\ bytes' = Seen(cursor + 1, <<accounts, d0, d1>>) /\ sum' = sum + (a + d)
       /\ rest' = rest - 1 /\ UNCHANGED <<pc, offset, frame, yielded, first>>
  <2> HIDE DEF a, d
  <2> QED
    BY <1>10, <1>11, <1>12, ZenonT(30)
<1>14. Grown(bytes, bytes')
  <2>1. /\ cursor + 1 \in Nat /\ (cursor + 1) + 1 = cursor + 2 /\ (cursor + 1) + 2 = cursor + 3
        /\ base \in Nat
    BY <1>4, SMTT(30)
  <2>2. d0 \in ByteAt((cursor + 1) + 1) /\ d1 \in ByteAt((cursor + 1) + 2)
    BY <2>1
  <2> QED
    BY <1>4, <1>13, <2>1, <2>2, SeenThree, ZenonT(30)
<1>15. offset' + sum' = V1EndOf(g, gi, k)
  <2> DEFINE t == V1EndOf(g, gi, k)
  <2>1. t = e + a + d
    BY <1>8
  <2> HIDE DEF a, d, e, t
  <2>2. offset' + sum' = t
    BY <1>4, <1>8, <1>9, <1>13, <2>1, SMTT(30)
  <2> QED
    BY <2>2 DEF t
<1>16. frame'.num_instructions - rest' = k
  BY <1>4, <1>13, SMTT(30)
<1> QED
  BY <1>1, <1>2, <1>13, <1>14, <1>15, <1>16, ZenonT(30) DEF V1Again, Viewed, YieldedAgain

\* The payloads end where they did.
LEMMA V1AgainInstructionsEnd ==
  ASSUME V1Parse, RunInv, V1InstructionsEnd
  PROVE  pc' # "error" /\ Grown(bytes, bytes') /\ V1Again'
<1> DEFINE g == first.frame
           gi == first.yielded
<1>1. ParsingAgain /\ g.version = "v1" /\ YieldedAgain /\ TypeOK
  BY DEF V1Parse, V1Again, ParsingAgain, YieldedAgain
<1>2. /\ rest = 0 /\ V1PrefixKnown(base, bytes, frame)
      /\ offset + sum = V1EndOf(g, gi, frame.num_instructions - rest)
  BY ZenonT(30) DEF V1InstructionsEnd, RunInv, V1Parse, V1Again, AtV1Instruction
<1>3. frame.num_instructions = g.num_instructions /\ frame.num_instructions \in Nat
  BY <1>1, <1>2, V1PrefixAgain, FrameFields, ZenonT(30) DEF TypeOK
<1>4. frame.num_instructions - rest = g.num_instructions
  BY <1>2, <1>3, SMTT(30)
<1>5. offset + sum = g.end_offset /\ g.end_offset <= len /\ g.end_offset \in Nat
  BY <1>1, <1>2, <1>4, OldV1
<1>6. Remaining(offset, sum)
  BY <1>1, <1>5, RemainingIs DEF TypeOK
<1>7. /\ offset' = offset + sum /\ pc' = "end" /\ UNCHANGED <<bytes, frame, yielded, first>>
  BY <1>6 DEF V1InstructionsEnd
<1>8. frame.version = "v1"
  BY <1>2 DEF V1PrefixKnown
<1>9. Grown(bytes, bytes')
  BY <1>7 DEF Grown
<1> QED
  BY <1>1, <1>5, <1>7, <1>8, <1>9, ZenonT(30) DEF V1Again, Viewed, YieldedAgain

\* So does the message.
LEMMA V1AgainMessageEnd ==
  ASSUME V1Parse, RunInv, MessageEnd
  PROVE  pc' # "error" /\ Grown(bytes, bytes') /\ V1Again'
<1> DEFINE g == first.frame
<1>1. ParsingAgain /\ g.version = "v1" /\ YieldedAgain /\ TypeOK
  BY DEF V1Parse, V1Again, ParsingAgain, YieldedAgain
<1>2. offset = g.end_offset /\ frame.version = "v1"
  BY DEF MessageEnd, V1Parse, V1Again
<1>3. g.end_offset <= U16Max /\ (entry = "message" => len = g.end_offset)
  BY <1>1, OldV1
<1>4. Fits(offset) /\ (entry = "message" => offset = len)
  BY <1>2, <1>3 DEF Fits
<1>5. /\ frame' = [frame EXCEPT !.end_offset = offset, !.data_len = offset]
      /\ pc' = (IF entry # "message" THEN "v1_signatures" ELSE "parsed")
      /\ UNCHANGED <<bytes, offset, yielded, first>>
  BY <1>2, <1>4, Zenon DEF MessageEnd
<1>6. frame'.version = "v1" /\ frame'.end_offset = offset
  BY <1>1, <1>2, <1>5 DEF Frame, TypeOK
<1>7. Grown(bytes, bytes')
  BY <1>5 DEF Grown
<1>8. offset' = first'.frame.end_offset /\ frame'.end_offset = first'.frame.end_offset
      /\ pc' \in {"v1_signatures", "parsed"}
  BY <1>2, <1>5, <1>6
<1> QED
  BY <1>1, <1>5, <1>6, <1>7, <1>8 DEF V1Again, YieldedAgain

\* The same signatures follow it.
LEMMA V1AgainSignatures ==
  ASSUME V1Parse, RunInv, ParseV1Signatures
  PROVE  pc' # "error" /\ Grown(bytes, bytes') /\ V1Again'
<1> DEFINE g == first.frame
           n == g.num_signatures
           x == n * SignatureSize
<1>1. ParsingAgain /\ g.version = "v1" /\ YieldedAgain /\ TypeOK
  BY DEF V1Parse, V1Again, ParsingAgain, YieldedAgain
<1>2. /\ offset = g.end_offset /\ frame.version = "v1" /\ entry # "message"
      /\ frame.end_offset = offset
  BY DEF ParseV1Signatures, V1Parse, V1Again, RunInv, AtV1Signatures
<1>3. /\ base = 0 /\ g.data_len <= len /\ (entry = "transaction" => len = g.data_len)
      /\ V1Ends(first.entry, 0, bytes, g, g.data_len) /\ first.entry # "message"
      /\ len \in 0 .. MaxLen /\ offset \in 0 .. len /\ IsBytes(bytes) /\ frame \in Frame
  BY <1>1, <1>2, OldV1, Zenon DEF TypeOK
<1>4. /\ Known(bytes, 0 + 1, n) /\ g.data_len = g.end_offset + x /\ g.data_len <= U16Max
  BY <1>3 DEF V1Ends
<1>5. x \in Nat
  BY <1>1, FrameFields, Product, Sizes DEF ParsingAgain
<1>6. ByteAt(1) = {n}
  BY <1>3, <1>4, ReadAgain, Zenon
<1>7. /\ Remaining(offset, x) /\ Fits(offset + x)
      /\ ~(entry = "transaction" /\ offset + x # len)
  <2>1. offset + x = g.data_len
    BY <1>2, <1>4
  <2> HIDE DEF x
  <2> QED
    BY <1>3, <1>4, <1>5, <2>1, RemainingIs DEF Fits
<1> HIDE DEF n
<1>8. /\ bytes' = Seen(1, <<n>>)
      /\ frame' = [frame EXCEPT !.num_signatures = n, !.signature_offset = frame.end_offset,
                                !.data_len = offset + x]
      /\ pc' = "parsed" /\ UNCHANGED <<yielded, first>>
  BY <1>6, <1>7, Zenon DEF ParseV1Signatures
<1>9. frame'.version = "v1" /\ frame'.end_offset = offset
  BY <1>2, <1>3, <1>8 DEF Frame
<1>10. Grown(bytes, bytes')
  BY <1>3, <1>6, <1>8, SeenByte
<1> QED
  BY <1>1, <1>2, <1>8, <1>9, <1>10 DEF V1Again, Viewed, YieldedAgain

\* The iterators hand out the same slices.
LEMMA V1AgainNext ==
  ASSUME V1Parse, RunInv, NextV1Instruction
  PROVE  pc' # "error" /\ Grown(bytes, bytes') /\ V1Again'
<1> DEFINE g == first.frame
           gi == first.yielded
           k == Len(yielded) + 1
           a == AccountsLen(base, bytes, frame, k)
           d == DataLen(base, bytes, frame, k)
           e == V1EndOf(g, gi, k - 1)
<1>1. ParsingAgain /\ g.version = "v1" /\ YieldedAgain /\ TypeOK
  BY DEF V1Parse, V1Again, ParsingAgain, YieldedAgain
<1>2. /\ pc = "next_instruction" /\ Viewed /\ frame.version = "v1" /\ AtV1View
  BY DEF NextV1Instruction, RunInv, Viewed
<1>3. frame.end_offset = g.end_offset
  BY <1>2 DEF V1Parse, V1Again
<1>4. /\ V1NextStep(a, d) /\ a \in Nat /\ d \in Nat
      /\ k \in 1 .. frame.num_instructions /\ cursor = HeaderAt(frame, k)
  BY <1>1, <1>2, V1HeaderAgain, ZenonT(30)
<1>5. /\ V1PrefixKnown(base, bytes, frame) /\ V1ConfigKnown(base, bytes, frame)
      /\ offset = V1EndOf(frame, yielded, Len(yielded))
  BY <1>2 DEF AtV1View, V1Known
<1>6. /\ frame.num_instructions = g.num_instructions
      /\ PayloadsAt(frame) = PayloadsAt(g) /\ HeaderAt(frame, k) = HeaderAt(g, k)
  BY <1>1, <1>5, V1PrefixAgain, V1ConfigAgain, ZenonT(30)
<1>7. base = 0 /\ Len(gi) = g.num_instructions /\ yielded \in Seq(Item) /\ gi \in Seq(Item)
  BY <1>1, OldV1, Zenon DEF TypeOK, ParsingAgain
<1>8. Len(yielded) \in Nat /\ k - 1 = Len(yielded) /\ Len(yielded) < Len(gi)
  BY <1>4, <1>6, <1>7, SMTT(30)
<1>9. a = AccountsLen(0, bytes, g, k) /\ d = DataLen(0, bytes, g, k)
  BY <1>6, <1>7 DEF AccountsLen, DataLen
<1>10. offset = e
  <2>1. CASE Len(yielded) = 0
    BY <1>5, <1>6, <1>8, <2>1 DEF V1EndOf
  <2>2. CASE Len(yielded) # 0
    <3>1. Len(yielded) \in 1 .. Len(yielded)
      BY <1>8, <2>2, SMTT(30)
    <3>2. yielded[Len(yielded)] = gi[Len(yielded)]
      BY <1>1, <3>1 DEF YieldedAgain
    <3> QED
      BY <1>5, <1>8, <2>2, <3>2 DEF V1EndOf
  <2> QED
    BY <2>1, <2>2
<1>11. k \in 1 .. g.num_instructions
  BY <1>4, <1>6
<1>12. gi[k] = [start |-> HeaderAt(g, k), first |-> e, num_first |-> a, second |-> e + a,
                num_second |-> d]
  BY <1>1, <1>9, <1>11, OldHeader, ZenonT(30)
<1>13. [start |-> cursor, first |-> offset, num_first |-> a, second |-> offset + a,
        num_second |-> d] = gi[k]
  BY <1>4, <1>6, <1>10, <1>12, ZenonT(30)
<1>14. /\ yielded' = Append(yielded, gi[Len(yielded) + 1])
       /\ UNCHANGED <<bytes, pc, frame, first>>
  <2>1. /\ yielded' = Append(yielded, [start |-> cursor, first |-> offset, num_first |-> a,
                                       second |-> offset + a, num_second |-> d])
        /\ UNCHANGED <<bytes, pc, frame, first>>
    <3> HIDE DEF a, d
    <3> QED
      BY <1>4 DEF V1NextStep
  <2> QED
    BY <1>13, <2>1, Zenon
<1>15. YieldedAgain'
  <2>1. \A i \in 1 .. Len(yielded) : yielded[i] = gi[i]
    BY <1>1 DEF YieldedAgain
  <2>2. /\ Len(yielded') <= Len(gi) /\ \A i \in 1 .. Len(yielded') : yielded'[i] = gi[i]
    BY <1>7, <1>8, <1>14, <2>1, YieldNext
  <2> QED
    BY <1>14, <2>2 DEF YieldedAgain
<1>16. Grown(bytes, bytes')
  BY <1>14 DEF Grown
<1> QED
  BY <1>2, <1>3, <1>14, <1>15, <1>16 DEF V1Again, YieldedAgain

\* Its iterators yield the same.
LEMMA V1AgainIterate ==
  ASSUME V1Parse, RunInv,
         \/ InstructionsIter \/ NextLegacyInstruction \/ NextV1Instruction
         \/ LookupsIter \/ NextLookup \/ LookupsIterEnd
  PROVE  pc' # "error" /\ Grown(bytes, bytes') /\ V1Again'
<1>1. YieldedAgain
  BY DEF V1Parse, V1Again, YieldedAgain
<1>2. Viewed
  BY Zenon DEF InstructionsIter, NextLegacyInstruction, NextV1Instruction, LookupsIter,
         NextLookup, LookupsIterEnd, Viewed
<1>3. frame.version = "v1" /\ frame.end_offset = first.frame.end_offset
  BY <1>2 DEF V1Parse, V1Again
<1>4. ~NextLegacyInstruction /\ ~NextLookup
  <2>1. AtV1View /\ rest \in Nat
    BY <1>2, <1>3 DEF RunInv, TypeOK
  <2>2. pc = "next_lookup" => rest = 0
    BY <2>1 DEF AtV1View
  <2> QED
    BY <1>3, <2>2, SMTT(30) DEF NextLegacyInstruction, NextLookup
<1>5. CASE InstructionsIter \/ LookupsIter \/ LookupsIterEnd
  <2>1. /\ UNCHANGED <<bytes, yielded, first, frame>>
        /\ pc' \in {"next_instruction", "next_lookup", "done"}
    BY <1>5 DEF InstructionsIter, LookupsIter, LookupsIterEnd
  <2>2. Grown(bytes, bytes')
    BY <2>1 DEF Grown
  <2> QED
    BY <1>1, <1>3, <2>1, <2>2 DEF V1Again, YieldedAgain
<1>6. CASE NextV1Instruction
  BY <1>6, V1AgainNext
<1> QED
  BY <1>4, <1>5, <1>6

\* No step of a second parse of a v1 transaction fails.
LEMMA V1AgainStep ==
  ASSUME V1Parse, RunInv, pc # "error",
         \/ ChooseFormat
         \/ ParseSignatures \/ ParseHeader \/ ParseKeys
         \/ ParseInstructions \/ ParseInstruction \/ InstructionsEnd
         \/ ParseLookups \/ ParseLookup \/ LookupsEnd
         \/ ParseV1Prefix \/ ParseV1Config \/ ParseV1Instruction \/ V1InstructionsEnd
         \/ MessageEnd \/ ParseV1Signatures
         \/ InstructionsIter \/ NextLegacyInstruction \/ NextV1Instruction
         \/ LookupsIter \/ NextLookup \/ LookupsIterEnd
  PROVE  pc' # "error" /\ Grown(bytes, bytes') /\ V1Again'
<1>1. pc \notin {"signatures", "header", "keys", "instructions", "instruction", "lookups",
                 "lookup"}
  BY DEF V1Parse, V1Again
<1>2. /\ ~ParseSignatures /\ ~ParseHeader /\ ~ParseKeys /\ ~ParseInstructions
      /\ ~ParseInstruction /\ ~InstructionsEnd /\ ~ParseLookups /\ ~ParseLookup
      /\ ~LookupsEnd
  BY <1>1, Zenon DEF ParseSignatures, ParseHeader, ParseKeys, ParseInstructions, ParseInstruction,
              InstructionsEnd, ParseLookups, ParseLookup, LookupsEnd
<1> QED
  BY <1>2, V1AgainChooseFormat, V1AgainPrefix, V1AgainConfig, V1AgainInstruction,
     V1AgainInstructionsEnd, V1AgainMessageEnd, V1AgainSignatures, V1AgainIterate, Zenon

\* What it has recorded of a v1 transaction.
LEMMA V1Recorded ==
  ASSUME TypeOK, AtV1View, pc = "done", base = 0, NEW n, NEW H, Keeps(bytes, n, H),
         InHash(0, H)
  PROVE  /\ V1Known(0, n, frame) /\ V1Ends(entry, 0, n, frame, frame.data_len)
         /\ V1ItemsKnown(0, n, frame, yielded) /\ Len(yielded) = frame.num_instructions
         /\ V1EndOf(frame, yielded, frame.num_instructions) = frame.end_offset
         /\ entry = "transaction" => frame.data_len = len
         /\ frame.data_len <= len
<1>1. /\ V1Known(0, bytes, frame) /\ V1Ends(entry, 0, bytes, frame, len)
      /\ V1ItemsKnown(0, bytes, frame, yielded) /\ Len(yielded) = frame.num_instructions
      /\ V1EndOf(frame, yielded, frame.num_instructions) = frame.end_offset
  BY DEF AtV1View
<1>2. frame \in Frame /\ frame.data_len \in Nat /\ frame.num_instructions \in Nat
  BY FrameFields DEF TypeOK
<1>3. V1Ends(entry, 0, bytes, frame, frame.data_len)
  BY <1>1, <1>2, SMTT(30) DEF V1Ends
<1>4. Len(yielded) \in 0 .. frame.num_instructions
  BY <1>1, <1>2, SMTT(30)
<1>5. /\ V1Known(0, n, frame) /\ V1Ends(entry, 0, n, frame, frame.data_len)
      /\ V1ItemsKnown(0, n, frame, yielded)
  BY <1>1, <1>2, <1>3, <1>4, V1Kept
<1>6. frame.data_len <= len /\ (entry = "transaction" => frame.data_len = len)
  BY <1>1 DEF V1Ends
<1> QED
  BY <1>1, <1>5, <1>6

\* A second parse of a v1 transaction begins with the bytes of the first, but
\* perhaps for those of the blockhash.
LEMMA V1Begins ==
  ASSUME TypeOK, AtV1View, frame.version = "v1", pc = "done", base = 0,
         entry \in {"transaction", "prefix"},
         NEW n, NEW H, Keeps(bytes, n, H), InHash(0, H),
         NEW function, NEW start \in Nat, NEW end \in Nat, start <= end,
         AgainBegins(n, function, start, end),
         \/ function = entry /\ start = 0 /\ end = len
         \/ function = "transaction" /\ start = 0 /\ end = frame.data_len
         \/ function = "message" /\ start = frame.message_offset /\ end = frame.end_offset
  PROVE  Recorded(bytes)' /\ Placed' /\ V1Again'
<1>1. /\ first'.entry = entry /\ first'.frame = frame /\ first'.yielded = yielded
      /\ entry' = function /\ base' = start /\ len' = end - start
      /\ pc' = "start" /\ parsed' = <<>> /\ yielded' = <<>> /\ bytes' = n
  BY DEF AgainBegins
<1>2. /\ V1Known(0, n, frame) /\ V1Ends(entry, 0, n, frame, frame.data_len)
      /\ V1ItemsKnown(0, n, frame, yielded) /\ Len(yielded) = frame.num_instructions
      /\ V1EndOf(frame, yielded, frame.num_instructions) = frame.end_offset
      /\ (entry = "transaction" => frame.data_len = len)
      /\ frame.data_len <= len
  BY V1Recorded
<1>3. frame.data_len \in Nat /\ len \in Nat /\ yielded \in Seq(Item) /\ Len(yielded) \in Nat
  BY FrameFields, SMTT(30) DEF TypeOK
<1>4. Recorded(bytes)'
  BY <1>1, <1>2, Zenon DEF Recorded
<1>5. base' + len' = end
  BY <1>1, SMTT(30)
<1>6. base' = IF entry' = "message" THEN first'.frame.message_offset ELSE 0
  BY <1>1
<1>7. V1Again'
  BY <1>1, <1>3, SMTT(30) DEF V1Again, Viewed
<1>8. CASE entry' = "message"
  <2>1. base' + len' = first'.frame.end_offset
    BY <1>1, <1>5, <1>8
  <2> QED
    BY <1>1, <1>4, <1>6, <1>7, <1>8, <2>1 DEF Placed
<1>9. CASE entry' = "transaction"
  <2>1. len' = first'.frame.data_len
    BY <1>1, <1>2, <1>3, <1>9, SMTT(30)
  <2> QED
    BY <1>1, <1>4, <1>6, <1>7, <1>9, <2>1 DEF Placed
<1>10. CASE entry' = "prefix"
  <2>1. first'.frame.data_len <= len'
    BY <1>1, <1>2, <1>3, <1>10, SMTT(30)
  <2> QED
    BY <1>1, <1>4, <1>6, <1>7, <1>10, <2>1 DEF Placed
<1> QED
  BY <1>1, <1>8, <1>9, <1>10, Zenon

\* The view of a v1 transaction that is parsed again is the view of the first
\* parse.
LEMMA V1Views ==
  ASSUME RunInv, V1Parse, pc = "done"
  PROVE  /\ MessageView(frame, yielded, base) = MessageView(first.frame, first.yielded, 0)
         /\ entry # "message" =>
               TransactionView(frame, yielded) = TransactionView(first.frame, first.yielded)
<1> DEFINE g == first.frame
           gi == first.yielded
<1>1. ParsingAgain /\ g.version = "v1" /\ V1Again /\ TypeOK
  BY DEF V1Parse, ParsingAgain
<1>2. /\ frame.version = "v1" /\ frame.end_offset = g.end_offset
      /\ \A i \in 1 .. Len(yielded) : yielded[i] = gi[i]
  BY <1>1 DEF V1Again, Viewed
<1>3. AtV1View
  BY <1>2 DEF RunInv, Viewed
<1>4. /\ V1PrefixKnown(base, bytes, frame) /\ V1ConfigKnown(base, bytes, frame)
      /\ V1Ends(entry, base, bytes, frame, len) /\ Len(yielded) = frame.num_instructions
  BY <1>3 DEF AtV1View, V1Known
<1>5. /\ frame.num_instructions = g.num_instructions /\ frame.num_keys = g.num_keys
      /\ frame.keys_offset = g.keys_offset /\ frame.hash_offset = g.hash_offset
      /\ frame.message_offset = g.message_offset
  BY <1>1, <1>4, V1PrefixAgain, ZenonT(30)
<1>6. frame.mask = g.mask /\ frame.values_offset = g.values_offset
  BY <1>1, <1>4, V1ConfigAgain, ZenonT(30)
<1>7. /\ base = 0 /\ V1PrefixKnown(0, bytes, g) /\ Len(gi) = g.num_instructions
      /\ V1Ends(first.entry, 0, bytes, g, g.data_len) /\ first.entry # "message"
  BY <1>1, OldV1, ZenonT(30) DEF V1Known
<1>8. NoLookups(frame) /\ NoLookups(g)
  BY <1>4, <1>7, ZenonT(30) DEF V1PrefixKnown
<1>9. yielded = gi
  <2>1. yielded \in Seq(Item) /\ gi \in Seq(Item) /\ Len(yielded) = Len(gi)
    BY <1>1, <1>4, <1>5, <1>7, Zenon DEF TypeOK, ParsingAgain
  <2> QED
    BY <1>2, <2>1, SMTT(30)
<1>10. SlicesOf(yielded, base) = SlicesOf(gi, 0)
  BY <1>7, <1>9
<1>11. /\ base + frame.keys_offset = 0 + g.keys_offset
       /\ base + frame.hash_offset = 0 + g.hash_offset
       /\ base + frame.values_offset = 0 + g.values_offset
       /\ base + frame.message_offset = 0 + g.message_offset
  BY <1>5, <1>6, <1>7
<1>12. frame.end_offset - frame.message_offset = g.end_offset - g.message_offset
  BY <1>2, <1>5
<1>13. MessageView(frame, yielded, base) = MessageView(g, gi, 0)
  <2>1. frame.version = g.version
    BY <1>1, <1>2, Zenon
  <2>2. /\ frame.num_lookups = g.num_lookups /\ frame.writable = g.writable
        /\ frame.readonly = g.readonly
    BY <1>8, Zenon DEF NoLookups
  <2> HIDE DEF g, gi
  <2> QED
    BY <1>5, <1>6, <1>10, <1>11, <1>12, <2>1, <2>2, ViewsAgree, SMTT(30)
<1>14. ASSUME entry # "message"
       PROVE  TransactionView(frame, yielded) = TransactionView(g, gi)
  <2>1. /\ Known(bytes, 0 + 1, frame.num_signatures)
        /\ frame.signature_offset = frame.end_offset
        /\ frame.data_len = frame.end_offset + frame.num_signatures * SignatureSize
    BY <1>4, <1>7, <1>14, Zenon DEF V1Ends
  <2>2. /\ Known(bytes, 0 + 1, g.num_signatures) /\ g.signature_offset = g.end_offset
        /\ g.data_len = g.end_offset + g.num_signatures * SignatureSize
    BY <1>7, Zenon DEF V1Ends
  <2>3. frame.num_signatures = g.num_signatures
    BY <2>1, <2>2, KnownOnce, Zenon
  <2>4. frame.data_len = g.data_len /\ frame.signature_offset = g.signature_offset
    BY <1>2, <2>1, <2>2, <2>3
  <2>5. MessageView(frame, yielded, 0) = MessageView(g, gi, 0)
    BY <1>7, <1>13
  <2> QED
    BY <2>3, <2>4, <2>5 DEF TransactionView
<1> QED
  BY <1>13, <1>14
=============================================================================
