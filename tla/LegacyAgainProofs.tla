-------------------------- MODULE LegacyAgainProofs ---------------------------
(*****************************************************************************)
(* No step of a second parse of a legacy or v0 transaction fails, and each   *)
(* finds what the first parse has stored, at the same place of the buffer.   *)
(*****************************************************************************)
EXTENDS TransactionFrameLemmas

\* A leaf that names no prover is given to Zenon.
USE ZenonT(30)

\* There is one way to read a compressed u16 at a place.
LEMMA DecodedOnce ==
  ASSUME NEW m, NEW p, NEW v, NEW w, NEW v2, NEW w2,
         Decoded(m, p, v, w), Decoded(m, p, v2, w2)
  PROVE  v = v2 /\ w = w2
<1>1. CASE w = 1 /\ v \in 0 .. MSB - 1 /\ Known(m, p, v)
  <2>1. CASE w2 = 1 /\ v2 \in 0 .. MSB - 1 /\ Known(m, p, v2)
    BY <1>1, <2>1, KnownOnce
  <2>2. ASSUME NEW b1 \in MSB .. 2 * MSB - 1, Known(m, p, b1) PROVE FALSE
    <3>1. b1 = v
      BY <1>1, <2>2, KnownOnce
    <3> QED
      BY <1>1, <3>1, Sizes, SMTT(30)
  <2> QED
    BY <2>1, <2>2 DEF Decoded
<1>2. ASSUME w = 2, NEW a1 \in MSB .. 2 * MSB - 1, NEW a2 \in 1 .. MSB - 1,
             Known(m, p, a1), Known(m, p + 1, a2), v = a1 - MSB + MSB * a2
      PROVE  v = v2 /\ w = w2
  <2>1. CASE w2 = 1 /\ v2 \in 0 .. MSB - 1 /\ Known(m, p, v2)
    <3>1. a1 = v2
      BY <1>2, <2>1, KnownOnce
    <3> QED
      BY <2>1, <3>1, Sizes, SMTT(30)
  <2>2. ASSUME w2 = 2, NEW b1 \in MSB .. 2 * MSB - 1, NEW b2 \in 1 .. MSB - 1,
               Known(m, p, b1), Known(m, p + 1, b2), v2 = b1 - MSB + MSB * b2
        PROVE  v = v2 /\ w = w2
    <3>1. a1 = b1 /\ a2 = b2
      BY <1>2, <2>2, KnownOnce
    <3> QED
      BY <1>2, <2>2, <3>1
  <2> QED
    BY <2>1, <2>2 DEF Decoded
<1> QED
  BY <1>1, <1>2 DEF Decoded

\* Bytes that change only within the blockhash keep all that is known of a
\* legacy or v0 message.
LEMMA LegacyKept ==
  ASSUME NEW e, NEW at \in Nat, NEW m, NEW n, NEW f \in Frame, NEW items \in Seq(Item), NEW H,
         LegacyKnown(e, at, m, f, items), Keeps(m, n, H),
         \A p \in Nat : p < at + f.hash_offset => p \notin H,
         Beyond(at + (f.hash_offset + HashSize), H)
  PROVE  LegacyKnown(e, at, n, f, items)
<1>1. PreludeKnown(e, at, n, f)
  BY PreludeKept DEF LegacyKnown
<1>2. InstructionsKnown(at, n, f, items)
  BY InstructionsKept DEF LegacyKnown
<1>3. f.num_instructions <= Len(items)
  BY FrameFields, SMTT(30) DEF LegacyKnown
<1>4. f.version = "v0" => LookupsKnown(at, n, f, items)
  BY <1>3, LookupsKept DEF LegacyKnown, InstructionsKnown
<1> QED
  BY <1>1, <1>2, <1>4 DEF LegacyKnown

\* Where the message of a legacy or v0 transaction is in what is parsed again.
LEMMA OldMessage ==
  ASSUME ParsingAgain, first.frame.version # "v1"
  PROVE  /\ LegacyKnown(first.entry, 0, bytes, first.frame, first.yielded)
         /\ LegacyEnds(first.entry, first.frame, first.yielded, first.frame.data_len)
         /\ LegacyFits(first.frame, first.yielded, base + len)
         /\ first.entry # "message" /\ base \in Nat /\ len \in Nat
         /\ base = IF entry = "message" THEN MessageAt(first.entry, first.frame) ELSE 0
         /\ first.frame.end_offset \in Nat /\ first.frame.end_offset <= base + len
         /\ entry # "prefix" => base + len = first.frame.end_offset
<1> DEFINE g == first.frame
           gi == first.yielded
<1>1. /\ LegacyKnown(first.entry, 0, bytes, g, gi) /\ LegacyEnds(first.entry, g, gi, g.data_len)
      /\ LegacyFits(g, gi, base + len)
  BY DEF ParsingAgain, Recorded, Placed
<1>2. first.entry # "message" /\ base \in Nat /\ len \in Nat /\ g \in Frame /\ gi \in Seq(Item)
      /\ g.end_offset \in Nat
  BY FrameFields, SMTT(30) DEF ParsingAgain, TypeOK
<1>3. g.message_offset = MessageAt(first.entry, g)
  BY <1>1, <1>2, LegacyPlaces
<1>4. base = IF entry = "message" THEN MessageAt(first.entry, g) ELSE 0
  BY <1>3 DEF ParsingAgain, Placed
<1>5. g.data_len = g.end_offset
  BY <1>1 DEF LegacyEnds
<1>6. CASE entry = "message"
  BY <1>1, <1>2, <1>4, <1>6, SMTT(30) DEF ParsingAgain, Placed
<1>7. CASE entry = "transaction"
  <2>1. len = g.data_len /\ base = 0
    BY <1>4, <1>7 DEF ParsingAgain, Placed
  <2> QED
    BY <1>1, <1>2, <1>4, <1>5, <2>1, SMTT(30)
<1>8. CASE entry = "prefix"
  <2>1. g.data_len <= len /\ base = 0
    BY <1>4, <1>8 DEF ParsingAgain, Placed
  <2> QED
    BY <1>1, <1>2, <1>4, <1>5, <1>8, <2>1, SMTT(30)
<1> QED
  BY <1>6, <1>7, <1>8 DEF ParsingAgain

\* The same bytes are the same signature count, ...
LEMMA SignaturesAgain ==
  ASSUME ParsingAgain, first.frame.version # "v1", SignaturesKnown(entry, base, bytes, frame)
  PROVE  /\ base + MessageAt(entry, frame) = MessageAt(first.entry, first.frame)
         /\ entry # "message" => frame.num_signatures = first.frame.num_signatures
<1>1. /\ SignaturesKnown(first.entry, 0, bytes, first.frame) /\ first.entry # "message"
      /\ base = IF entry = "message" THEN MessageAt(first.entry, first.frame) ELSE 0
      /\ MessageAt(first.entry, first.frame) \in Nat
  BY OldMessage, MessagePlace DEF LegacyKnown, PreludeKnown, ParsingAgain
<1>2. CASE entry = "message"
  <2>1. MessageAt(entry, frame) = 0
    BY <1>2, Sizes, SMTT(30) DEF SignaturesKnown, MessageAt
  <2> QED
    BY <1>1, <1>2, <2>1, SMTT(30)
<1>3. CASE entry # "message"
  <2>1. Known(bytes, 0, frame.num_signatures) /\ Known(bytes, 0, first.frame.num_signatures)
    BY <1>1, <1>3 DEF SignaturesKnown
  <2>2. frame.num_signatures = first.frame.num_signatures
    BY <2>1, KnownOnce
  <2>3. MessageAt(entry, frame) = MessageAt(first.entry, first.frame)
    BY <1>1, <1>3, <2>2 DEF MessageAt
  <2> QED
    BY <1>1, <1>3, <2>2, <2>3, SMTT(30)
<1> QED
  BY <1>2, <1>3

\* ... the same version, ...
LEMMA HeaderAgain ==
  ASSUME ParsingAgain, first.frame.version # "v1", SignaturesKnown(entry, base, bytes, frame),
         HeaderKnown(entry, base, bytes, frame)
  PROVE  /\ frame.version = first.frame.version
         /\ base + CountOfKeysAt(entry, frame) = CountOfKeysAt(first.entry, first.frame)
<1> DEFINE p == MessageAt(first.entry, first.frame)
<1>1. base + MessageAt(entry, frame) = p /\ base \in Nat /\ frame \in Frame
  BY SignaturesAgain DEF ParsingAgain, TypeOK
<1>2. MessageAt(entry, frame) \in Nat /\ p \in Nat
  BY <1>1, MessagePlace DEF ParsingAgain
<1>3. HeaderKnown(first.entry, 0, bytes, first.frame)
  BY OldMessage DEF LegacyKnown, PreludeKnown
<1>4. frame.version = first.frame.version
  <2>1. 0 + p = p /\ MSB \in Nat
    BY <1>2, Sizes, SMTT(30)
  <2> HIDE DEF p
  <2>2. \/ frame.version = "legacy" /\ \E b \in 0 .. MSB - 1 : Known(bytes, p, b)
        \/ frame.version = "v0" /\ Known(bytes, p, MSB)
    BY <1>1 DEF HeaderKnown
  <2>3. \/ first.frame.version = "legacy" /\ \E b \in 0 .. MSB - 1 : Known(bytes, p, b)
        \/ first.frame.version = "v0" /\ Known(bytes, p, MSB)
    BY <1>3, <2>1 DEF HeaderKnown, p
  <2>4. ~((\E b \in 0 .. MSB - 1 : Known(bytes, p, b)) /\ Known(bytes, p, MSB))
    BY <2>1, SMTT(30) DEF Known
  <2> QED
    BY <2>2, <2>3, <2>4
<1>5. base + CountOfKeysAt(entry, frame) = CountOfKeysAt(first.entry, first.frame)
  BY <1>1, <1>2, <1>4, SMTT(30) DEF CountOfKeysAt
<1> QED
  BY <1>4, <1>5

\* ... the same keys, ...
LEMMA KeysAgain ==
  ASSUME ParsingAgain, first.frame.version # "v1", PreludeKnown(entry, base, bytes, frame)
  PROVE  /\ frame.num_keys = first.frame.num_keys
         /\ base + frame.hash_offset = first.frame.hash_offset
<1> DEFINE q == CountOfKeysAt(entry, frame)
           r == CountOfKeysAt(first.entry, first.frame)
<1>1. base + q = r /\ base \in Nat /\ frame \in Frame
  BY HeaderAgain DEF ParsingAgain, TypeOK, PreludeKnown
<1>2. q \in Nat /\ r \in Nat /\ 0 + r = r
  BY <1>1, MessagePlace, SMTT(30) DEF ParsingAgain
<1>3. /\ Known(bytes, base + q, frame.num_keys)
      /\ frame.hash_offset = q + 1 + frame.num_keys * KeySize
  BY DEF PreludeKnown, KeysKnown
<1>4. /\ Known(bytes, 0 + r, first.frame.num_keys)
      /\ first.frame.hash_offset = r + 1 + first.frame.num_keys * KeySize
  BY OldMessage DEF LegacyKnown, PreludeKnown, KeysKnown
<1> HIDE DEF q, r
<1>5. frame.num_keys = first.frame.num_keys
  BY <1>1, <1>2, <1>3, <1>4, KnownOnce
<1>6. frame.num_keys * KeySize \in Nat
  BY <1>1, FrameFields, Product, Sizes
<1> QED
  BY <1>1, <1>2, <1>3, <1>4, <1>5, <1>6, SMTT(30)

\* ... and the same instructions.
LEMMA CountAgain ==
  ASSUME ParsingAgain, first.frame.version # "v1", PreludeKnown(entry, base, bytes, frame),
         CountKnown(base, bytes, frame)
  PROVE  /\ frame.num_instructions = first.frame.num_instructions
         /\ base + InstructionsAt(frame) = InstructionsAt(first.frame)
<1> DEFINE g == first.frame
           h == frame.hash_offset + HashSize
<1>1. /\ base + frame.hash_offset = g.hash_offset /\ base \in Nat /\ frame.hash_offset \in Nat
      /\ HashSize \in Nat /\ g.hash_offset \in Nat
  BY KeysAgain, FrameFields, Sizes DEF ParsingAgain, TypeOK
<1>2. base + h = 0 + (g.hash_offset + HashSize)
  BY <1>1, SMTT(30)
<1>3. Decoded(bytes, base + h, frame.num_instructions, Width(frame.num_instructions))
  BY DEF CountKnown
<1>4. Decoded(bytes, 0 + (g.hash_offset + HashSize), g.num_instructions,
              Width(g.num_instructions))
  BY OldMessage DEF LegacyKnown, InstructionsKnown, CountKnown
<1>5. frame.num_instructions = g.num_instructions
  BY <1>2, <1>3, <1>4, DecodedOnce, SMTT(30)
<1>6. Width(g.num_instructions) \in Nat
  BY DEF Width
<1> QED
  BY <1>1, <1>5, <1>6, SMTT(30) DEF InstructionsAt

\* Where the items are.
LEMMA ItemsAgain ==
  ASSUME ParsingAgain, first.frame.version # "v1", PreludeKnown(entry, base, bytes, frame),
         CountKnown(base, bytes, frame), SameItems, NEW k \in 0 .. Len(parsed)
  PROVE  /\ base + EndOf(frame, parsed, k) = EndOf(first.frame, first.yielded, k)
         /\ base + StartOf(frame, parsed, k + 1) = StartOf(first.frame, first.yielded, k + 1)
<1>1. /\ frame.num_instructions = first.frame.num_instructions
      /\ base + InstructionsAt(frame) = InstructionsAt(first.frame)
      /\ base \in Nat /\ frame \in Frame /\ parsed \in Seq(Item)
  BY CountAgain DEF ParsingAgain, TypeOK
<1>2. EndOf(frame, parsed, k) \in Nat
  BY <1>1, EndPlaces
<1>3. base + EndOf(frame, parsed, k) = EndOf(first.frame, first.yielded, k)
  <2>1. CASE k = 0
    BY <1>1, <2>1 DEF EndOf
  <2>2. CASE k # 0
    <3>1. k \in 1 .. Len(parsed)
      BY <2>2, SMTT(30)
    <3>2. /\ first.yielded[k].second = base + parsed[k].second
          /\ first.yielded[k].num_second = parsed[k].num_second
          /\ parsed[k].second \in Nat /\ parsed[k].num_second \in Nat
      BY <1>1, <3>1, ItemFields DEF SameItems, SameItem
    <3> QED
      BY <1>1, <2>2, <3>2, SMTT(30) DEF EndOf
  <2> QED
    BY <2>1, <2>2
<1>4. (k + 1) - 1 = k
  BY SMTT(30)
<1> QED
  BY <1>1, <1>2, <1>3, <1>4, SMTT(30) DEF StartOf

\* Nothing but the items counts before the lookups.
LEMMA LegacyStays ==
  ASSUME SameItems, UNCHANGED <<base, parsed, first>>,
         pc' \in {"signatures", "header", "keys", "instructions", "instruction", "lookups"}
  PROVE  pc' # "error" /\ LegacyAgain'
<1>1. SameItems'
  BY DEF SameItems, SameItem
<1> QED
  BY <1>1 DEF LegacyAgain, Viewed

\* The parts before the instructions have room.
LEMMA OldRoom ==
  ASSUME ParsingAgain, first.frame.version # "v1"
  PROVE  /\ MessageAt(first.entry, first.frame) \in Nat
         /\ CountOfKeysAt(first.entry, first.frame) \in Nat
         /\ CountOfKeysAt(first.entry, first.frame) >= MessageAt(first.entry, first.frame) + 3
         /\ CountOfKeysAt(first.entry, first.frame) < first.frame.hash_offset
         /\ first.frame.hash_offset \in Nat
         /\ first.frame.hash_offset + HashSize <= base + len
         /\ InstructionsAt(first.frame) \in Nat /\ InstructionsAt(first.frame) <= base + len
<1> DEFINE g == first.frame
<1>1. g \in Frame /\ first.yielded \in Seq(Item)
  BY DEF ParsingAgain
<1>2. /\ LegacyKnown(first.entry, 0, bytes, g, first.yielded)
      /\ LegacyEnds(first.entry, g, first.yielded, g.data_len)
      /\ base \in Nat /\ len \in Nat /\ g.end_offset \in Nat /\ g.end_offset <= base + len
  BY OldMessage
<1>3. g.hash_offset + HashSize <= g.end_offset
  BY <1>1, <1>2, LegacyPlaces
<1>4. /\ MessageAt(first.entry, g) \in Nat /\ CountOfKeysAt(first.entry, g) \in Nat
      /\ CountOfKeysAt(first.entry, g) >= MessageAt(first.entry, g) + 3
      /\ g.hash_offset \in Nat /\ g.num_keys * KeySize \in Nat /\ HashSize \in Nat
  BY <1>1, MessagePlace, FrameFields, Product, Sizes
<1>5. g.hash_offset = CountOfKeysAt(first.entry, g) + 1 + g.num_keys * KeySize
  BY <1>2 DEF LegacyKnown, PreludeKnown, KeysKnown
<1>6. InstructionsAt(g) \in Nat /\ InstructionsAt(g) <= g.end_offset
  BY <1>1, <1>2, LegacyOrder, Zenon
<1> HIDE DEF g
<1>7. CountOfKeysAt(first.entry, g) < g.hash_offset
  BY <1>4, <1>5, SMTT(30)
<1>8. g.hash_offset + HashSize <= base + len /\ InstructionsAt(g) <= base + len
  BY <1>2, <1>3, <1>4, <1>6, SMTT(30)
<1> QED
  BY <1>4, <1>6, <1>7, <1>8 DEF g

\* is_legacy_or_v0 and the first byte of the message choose as before.
LEMMA AgainChooseFormat ==
  ASSUME LegacyParse, RunInv, ChooseFormat
  PROVE  pc' # "error" /\ Grown(bytes, bytes') /\ LegacyAgain'
<1> DEFINE p == MessageAt(first.entry, first.frame)
<1>1. ParsingAgain /\ first.frame.version # "v1" /\ SameItems /\ TypeOK
  BY DEF LegacyParse, LegacyAgain, ParsingAgain
<1>2. /\ p \in Nat /\ CountOfKeysAt(first.entry, first.frame) >= p + 3
      /\ CountOfKeysAt(first.entry, first.frame) < first.frame.hash_offset
      /\ first.frame.hash_offset + HashSize <= base + len
      /\ CountOfKeysAt(first.entry, first.frame) \in Nat /\ first.frame.hash_offset \in Nat
  BY <1>1, OldRoom
<1>3. /\ LegacyKnown(first.entry, 0, bytes, first.frame, first.yielded)
      /\ first.entry # "message" /\ base \in Nat /\ len \in Nat
      /\ base = IF entry = "message" THEN p ELSE 0
  BY <1>1, OldMessage
<1>4. IsBytes(bytes) /\ MSB \in Nat /\ MSB >= 1 /\ HashSize \in Nat
  BY <1>1, Sizes DEF TypeOK
<1>5. len > 0
  <2> HIDE DEF p
  <2> QED
    BY <1>2, <1>3, <1>4, SMTT(30)
<1>6. \E b \in 0 .. MSB : Known(bytes, base + 0, b) /\ (entry # "message" => b < MSB)
  <2>1. CASE entry = "message"
    <3>1. base + 0 = p /\ 0 + p = p
      BY <1>2, <1>3, <2>1, SMTT(30)
    <3>2. HeaderKnown(first.entry, 0, bytes, first.frame)
      BY <1>3 DEF LegacyKnown, PreludeKnown
    <3>3. \E b \in 0 .. MSB : Known(bytes, 0 + p, b)
      BY <1>4, <3>2, SMTT(30) DEF HeaderKnown
    <3> QED
      BY <2>1, <3>1, <3>3
  <2>2. CASE entry # "message"
    <3>1. SignaturesKnown(first.entry, 0, bytes, first.frame)
      BY <1>3 DEF LegacyKnown, PreludeKnown
    <3>2. /\ first.frame.num_signatures \in 1 .. MSB - 1
          /\ Known(bytes, 0, first.frame.num_signatures)
      BY <1>3, <3>1 DEF SignaturesKnown
    <3>3. base + 0 = 0
      BY <1>3, <2>2, SMTT(30)
    <3> QED
      BY <1>4, <3>2, <3>3, SMTT(30)
  <2> QED
    BY <2>1, <2>2
<1>7. PICK b \in 0 .. MSB : Known(bytes, base + 0, b) /\ (entry # "message" => b < MSB)
  BY <1>6
<1>8. ByteAt(0) = {b}
  BY <1>7, ReadAgain
<1>13. len # 0
  BY <1>3, <1>5, SMTT(30)
<1>9. /\ bytes' = Seen(0, <<b>>)
      /\ pc' = CASE entry = "message" /\ b = V1_PREFIX -> "v1_prefix"
                 [] entry = "message" /\ b # V1_PREFIX -> "header"
                 [] entry # "message" /\ b < MSB -> "signatures"
                 [] OTHER -> "v1_prefix"
      /\ UNCHANGED <<base, parsed, first>>
  BY <1>8, <1>13, Zenon DEF ChooseFormat, slice
<1>10. b # V1_PREFIX
  BY <1>4, SMTT(30) DEF V1_PREFIX
<1>11. pc' \in {"signatures", "header"}
  BY <1>7, <1>9, <1>10
<1>12. Grown(bytes, bytes')
  BY <1>3, <1>4, <1>8, <1>9, SeenByte
<1> QED
  BY <1>1, <1>9, <1>11, <1>12, LegacyStays

\* The same signatures.
LEMMA AgainParseSignatures ==
  ASSUME LegacyParse, RunInv, ParseSignatures
  PROVE  pc' # "error" /\ Grown(bytes, bytes') /\ LegacyAgain'
<1> DEFINE n == first.frame.num_signatures
<1>1. ParsingAgain /\ first.frame.version # "v1" /\ SameItems /\ TypeOK
  BY DEF LegacyParse, LegacyAgain, ParsingAgain
<1>2. entry # "message"
  BY DEF RunInv, ParseSignatures, AtSignatures
<1>3. /\ LegacyKnown(first.entry, 0, bytes, first.frame, first.yielded)
      /\ first.entry # "message" /\ base = 0 /\ len \in Nat
  BY <1>1, <1>2, OldMessage
<1>4. n \in 1 .. MSB - 1 /\ Known(bytes, 0, n)
  BY <1>3 DEF LegacyKnown, PreludeKnown, SignaturesKnown
<1>5. n \in Nat /\ n # 0 /\ ~(n >= MSB) /\ n * SignatureSize \in Nat
  BY <1>4, Sizes, Product, SMTT(30)
<1>6. 1 + n * SignatureSize <= len
  <2>1. MessageAt(first.entry, first.frame) = 1 + n * SignatureSize
    BY <1>3 DEF MessageAt
  <2> DEFINE x == n * SignatureSize
             q == CountOfKeysAt(first.entry, first.frame)
             h == first.frame.hash_offset
  <2>2. /\ 1 + x \in Nat /\ q \in Nat /\ q >= (1 + x) + 3 /\ q < h /\ h \in Nat
        /\ h + HashSize <= 0 + len /\ HashSize \in Nat
    BY <1>1, <1>3, <1>5, <2>1, OldRoom, Sizes
  <2> HIDE DEF x, q, h
  <2>3. 1 + x <= len
    BY <1>3, <2>2, SMTT(30)
  <2> QED
    BY <2>3 DEF x
<1>7. Remaining(1, n * SignatureSize)
  BY <1>1, <1>3, <1>5, <1>6, RemainingIs, SMTT(30) DEF TypeOK
<1>8. ByteAt(0) = {n}
  <2>1. base + 0 = 0
    BY <1>3, SMTT(30)
  <2> QED
    BY <1>4, <2>1, ReadAgain
<1> HIDE DEF n
<1>9. bytes' = Seen(0, <<n>>) /\ pc' = "header" /\ UNCHANGED <<base, parsed, first>>
  BY <1>5, <1>7, <1>8, Zenon DEF ParseSignatures, slice
<1>10. Grown(bytes, bytes')
  BY <1>1, <1>8, <1>9, SeenByte DEF TypeOK
<1> QED
  BY <1>1, <1>9, <1>10, LegacyStays

\* The same header.
LEMMA AgainParseHeader ==
  ASSUME LegacyParse, RunInv, ParseHeader
  PROVE  pc' # "error" /\ Grown(bytes, bytes') /\ LegacyAgain'
<1> DEFINE p == MessageAt(first.entry, first.frame)
           q == CountOfKeysAt(first.entry, first.frame)
           h == first.frame.hash_offset
<1>1. ParsingAgain /\ first.frame.version # "v1" /\ SameItems /\ TypeOK
  BY DEF LegacyParse, LegacyAgain, ParsingAgain
<1>2. AtHeader
  BY Zenon DEF RunInv, ParseHeader
<1>3. base + offset = p
  BY <1>1, <1>2, SignaturesAgain DEF AtHeader
<1>4. /\ offset \in Nat /\ base \in Nat /\ len \in Nat /\ IsBytes(bytes)
      /\ MSB \in Nat /\ HashSize \in Nat
  BY <1>1, Sizes, SMTT(30) DEF TypeOK
<1>5. /\ p \in Nat /\ q \in Nat /\ q < h /\ h \in Nat /\ h + HashSize <= base + len
  BY <1>1, OldRoom
<1>6. HeaderKnown(first.entry, 0, bytes, first.frame)
  BY <1>1, OldMessage DEF LegacyKnown, PreludeKnown
<1>7. \E b \in 0 .. MSB : Known(bytes, p, b) /\ q = p + (IF b < MSB THEN 3 ELSE 4)
  <2>1. 0 + p = p
    BY <1>5, SMTT(30)
  <2>2. CASE first.frame.version = "v0"
    <3>1. Known(bytes, 0 + p, MSB)
      BY <1>6, <2>2 DEF HeaderKnown
    <3>2. q = p + 4
      BY <2>2 DEF CountOfKeysAt
    <3> QED
      BY <1>4, <2>1, <3>1, <3>2, SMTT(30)
  <2>3. CASE first.frame.version = "legacy"
    <3>1. \E b \in 0 .. MSB - 1 : Known(bytes, 0 + p, b)
      BY <1>6, <2>3 DEF HeaderKnown
    <3>2. q = p + 3
      BY <2>3 DEF CountOfKeysAt
    <3> HIDE DEF p, q
    <3> QED
      BY <1>4, <2>1, <3>1, <3>2, SMTT(30)
  <2> QED
    BY <1>6, <2>2, <2>3 DEF HeaderKnown
<1>8. PICK b \in 0 .. MSB : Known(bytes, p, b) /\ q = p + (IF b < MSB THEN 3 ELSE 4)
  BY <1>7
<1>9. ByteAt(offset) = {b}
  BY <1>3, <1>8, ReadAgain
<1> DEFINE size == IF b < MSB THEN 3 ELSE 4
<1>10. size \in {3, 4} /\ q = p + size
  BY <1>8
<1> HIDE DEF p, q, h, size
<1>11. ~(offset >= len) /\ ~(offset + size > len) /\ ~(b > MSB)
  BY <1>3, <1>4, <1>5, <1>10, SMTT(30)
<1>12. bytes' = Seen(offset, <<b>>) /\ pc' = "keys" /\ UNCHANGED <<base, parsed, first>>
  BY <1>9, <1>11, Zenon DEF ParseHeader, slice, size
<1>13. Grown(bytes, bytes')
  BY <1>4, <1>9, <1>12, SeenByte
<1> QED
  BY <1>1, <1>12, <1>13, LegacyStays

\* The same keys.
LEMMA AgainParseKeys ==
  ASSUME LegacyParse, RunInv, ParseKeys
  PROVE  pc' # "error" /\ Grown(bytes, bytes') /\ LegacyAgain'
<1> DEFINE q == CountOfKeysAt(first.entry, first.frame)
           h == first.frame.hash_offset
           n == first.frame.num_keys
           hash == offset + 1 + n * KeySize
<1>1. ParsingAgain /\ first.frame.version # "v1" /\ SameItems /\ TypeOK
  BY DEF LegacyParse, LegacyAgain, ParsingAgain
<1>2. AtKeys
  BY Zenon DEF RunInv, ParseKeys
<1>3. base + offset = q
  BY <1>1, <1>2, HeaderAgain DEF AtKeys
<1>4. /\ offset \in Nat /\ base \in Nat /\ len \in Nat /\ IsBytes(bytes) /\ HashSize \in Nat
      /\ len \in 0 .. MaxLen /\ n \in Nat /\ n * KeySize \in Nat /\ U16Max \in Nat
  BY <1>1, Sizes, FrameFields, Product, SMTT(30) DEF TypeOK, ParsingAgain
<1>5. /\ q \in Nat /\ q < h /\ h \in Nat /\ h + HashSize <= base + len
  BY <1>1, OldRoom
<1>6. /\ n # 0 /\ ~(n > MAX_STATIC_ACCOUNTS) /\ Known(bytes, 0 + q, n)
      /\ h = q + 1 + n * KeySize /\ h <= U16Max
  BY <1>1, OldMessage DEF LegacyKnown, PreludeKnown, KeysKnown
<1>7. 0 + q = q
  BY <1>5, SMTT(30)
<1>8. ByteAt(offset) = {n}
  BY <1>3, <1>6, <1>7, ReadAgain
<1> HIDE DEF q, h, n
<1>9. /\ ~(offset >= len) /\ offset + 1 \in 0 .. len /\ offset + 1 + n * KeySize <= len
      /\ hash \in 0 .. len /\ hash + HashSize <= len /\ hash <= U16Max
  <2> DEFINE x == n * KeySize
  <2>1. x \in Nat /\ h = q + 1 + x
    BY <1>4, <1>6
  <2> HIDE DEF x
  <2>2. /\ ~(offset >= len) /\ offset + 1 \in 0 .. len /\ offset + 1 + x <= len
        /\ offset + 1 + x \in 0 .. len /\ offset + 1 + x + HashSize <= len
        /\ offset + 1 + x <= U16Max
    BY <1>3, <1>4, <1>5, <1>6, <2>1, SMTT(30)
  <2> QED
    BY <2>2 DEF x
<1>10. Remaining(offset + 1, n * KeySize) /\ Remaining(hash, HashSize) /\ Fits(hash)
  BY <1>4, <1>9, RemainingIs DEF Fits
<1>11. bytes' = Seen(offset, <<n>>) /\ pc' = "instructions"
       /\ UNCHANGED <<base, parsed, first>>
  BY <1>6, <1>8, <1>9, <1>10, Zenon DEF ParseKeys, slice
<1>12. Grown(bytes, bytes')
  BY <1>4, <1>8, <1>11, SeenByte
<1> QED
  BY <1>1, <1>11, <1>12, LegacyStays

\* The same count of instructions.
LEMMA AgainParseInstructions ==
  ASSUME LegacyParse, RunInv, ParseInstructions
  PROVE  pc' # "error" /\ Grown(bytes, bytes') /\ LegacyAgain'
<1> DEFINE g == first.frame
           v == g.num_instructions
           w == Width(v)
<1>1. ParsingAgain /\ first.frame.version # "v1" /\ SameItems /\ TypeOK
  BY DEF LegacyParse, LegacyAgain, ParsingAgain
<1>2. AtInstructions
  BY DEF RunInv, ParseInstructions
<1>3. base + frame.hash_offset = g.hash_offset
  BY <1>1, <1>2, KeysAgain DEF AtInstructions
<1>4. /\ offset \in 0 .. len /\ base \in Nat /\ len \in Nat /\ HashSize \in Nat
      /\ Reading /\ v \in Nat /\ w \in Nat /\ frame.hash_offset \in Nat
  BY <1>1, Sizes, FrameFields, SMTT(30) DEF TypeOK, ParsingAgain, Reading, Width
<1>5. /\ Decoded(bytes, 0 + (g.hash_offset + HashSize), v, w)
      /\ g.hash_offset + HashSize + w + 3 * v <= base + len
  BY <1>1, OldMessage
     DEF LegacyKnown, InstructionsKnown, CountKnown, LegacyFits, InstructionsFit, InstructionsAt
<1>6. base + offset = g.hash_offset + HashSize /\ 0 + (g.hash_offset + HashSize) = base + offset
  BY <1>2, <1>3, <1>4, SMTT(30) DEF AtInstructions
<1>7. Decoded(bytes, base + offset, v, w)
  BY <1>5, <1>6
<1>8. offset + w + 3 * v <= len
  <2> DEFINE x == g.hash_offset + HashSize
  <2>1. base + offset = x /\ x + w + 3 * v <= base + len /\ offset \in Nat
    BY <1>4, <1>5, <1>6, SMTT(30)
  <2> HIDE DEF x, w, v
  <2> QED
    BY <1>4, <2>1, SMTT(30)
<1> HIDE DEF w, v
<1>9. \A n \in CountedArray(offset, 3) : n.ok
  BY <1>4, <1>7, <1>8, CountedAgain, Zenon
<1>10. PICK n \in CountedArray(offset, 3) :
          bytes' = n.seen /\ pc' = "instruction" /\ UNCHANGED <<base, parsed, first>>
  BY <1>9, Zenon DEF ParseInstructions, slice
<1>11. Grown(bytes, bytes')
  BY <1>4, <1>9, <1>10, CountedOk
<1> QED
  BY <1>1, <1>10, <1>11, LegacyStays

\* Two counted arrays of a known item are read as they were.
LEMMA ItemAgain ==
  ASSUME ParsingAgain, first.frame.version # "v1", NEW k \in 1 .. Len(first.yielded),
         NEW c \in Nat, BeforeCounts(first.frame, k) = c,
         NEW o \in Nat, base + o = StartOf(first.frame, first.yielded, k)
  PROVE  /\ Reading /\ o + c \in 0 .. len
         /\ \A a \in CountedArray(o + c, 1) :
               /\ a.ok /\ a.at \in Nat /\ base + a.at = first.yielded[k].first
               /\ a.count = first.yielded[k].num_first
               /\ a.at + a.count \in 0 .. len
               /\ \A d \in CountedArray(a.at + a.count, 1) :
                     /\ d.ok /\ d.at \in Nat /\ base + d.at = first.yielded[k].second
                     /\ d.count = first.yielded[k].num_second
<1> DEFINE g == first.frame
           gi == first.yielded
           i == gi[k]
<1>1. /\ LegacyKnown(first.entry, 0, bytes, g, gi)
      /\ LegacyEnds(first.entry, g, gi, g.data_len)
      /\ base \in Nat /\ len \in Nat /\ g.end_offset \in Nat /\ g.end_offset <= base + len
  BY OldMessage
<1>2. g \in Frame /\ gi \in Seq(Item) /\ Reading
  BY DEF ParsingAgain, TypeOK, Reading
<1>3. ItemKnown(0, bytes, g, gi, k)
  BY <1>1 DEF LegacyKnown, InstructionsKnown, ItemsKnown
<1>4. /\ i.start \in Nat /\ i.first \in Nat /\ i.num_first \in Nat
      /\ i.second \in Nat /\ i.num_second \in Nat
      /\ i.start = base + o /\ EndOf(g, gi, k) = i.second + i.num_second
      /\ i.first >= i.start + c + 1 /\ i.second >= i.first + i.num_first + 1
  BY <1>2, <1>3, ItemPlaces, Zenon
<1>5. i.second + i.num_second <= base + len
  <2>1. k \in 0 .. Len(gi)
    BY <1>2, SMTT(30)
  <2>2. EndOf(g, gi, k) <= g.end_offset /\ EndOf(g, gi, k) \in Nat
    BY <1>1, <1>2, <2>1, LegacyOrder
  <2> QED
    BY <1>1, <1>4, <2>2, SMTT(30)
<1> DEFINE s == i.start
           f == i.first
           n == i.num_first
           t == i.second
           m == i.num_second
           x == s + c
           y == f + n
<1>6. /\ Decoded(bytes, 0 + x, n, f - x)
      /\ Decoded(bytes, 0 + y, m, t - y)
  BY <1>3 DEF ItemKnown
<1>7. /\ s \in Nat /\ f \in Nat /\ n \in Nat /\ t \in Nat /\ m \in Nat
      /\ s = base + o /\ f >= s + c + 1 /\ t >= f + n + 1 /\ t + m <= base + len
  BY <1>4, <1>5
<1> SUFFICES /\ Reading /\ o + c \in 0 .. len
             /\ \A a \in CountedArray(o + c, 1) :
                   /\ a.ok /\ a.at \in Nat /\ base + a.at = f
                   /\ a.count = n /\ a.at + a.count \in 0 .. len
                   /\ \A d \in CountedArray(a.at + a.count, 1) :
                         d.ok /\ d.at \in Nat /\ base + d.at = t /\ d.count = m
  OBVIOUS
<1> HIDE DEF s, f, n, t, m
<1>8. /\ 0 + x = base + (o + c) /\ o + c \in 0 .. len
      /\ o + c + (f - x) + 1 * n <= len
      /\ f - x \in Nat /\ base + (o + c + (f - x)) = f
      /\ \A p \in Nat : base + p = f =>
            /\ p + n \in 0 .. len /\ 0 + y = base + (p + n)
            /\ p + n + (t - y) + 1 * m <= len
            /\ t - y \in Nat /\ base + (p + n + (t - y)) = t
  <2>1. base \in Nat /\ len \in Nat
    BY <1>1
  <2>2. x = s + c /\ y = f + n
    OBVIOUS
  <2> HIDE DEF x, y
  <2>3. x \in Nat /\ y \in Nat /\ x = base + o + c /\ f >= x + 1 /\ t >= y + 1
    BY <1>7, <2>1, <2>2, SMTT(30)
  <2>4. /\ 0 + x = base + (o + c) /\ o + c \in 0 .. len
        /\ o + c + (f - x) + 1 * n <= len
        /\ f - x \in Nat /\ base + (o + c + (f - x)) = f
    <3>1. o + c \in Nat /\ 0 + x = base + (o + c)
      BY <1>7, <2>1, <2>2, <2>3, SMTT(30)
    <3>2. f - x \in Nat /\ base + (o + c + (f - x)) = f
      BY <1>7, <2>1, <2>2, <2>3, <3>1, SMTT(30)
    <3>3. o + c <= len
      BY <1>7, <2>1, <2>2, <2>3, <3>1, SMTT(30)
    <3>4. o + c + (f - x) + 1 * n <= len
      BY <1>7, <2>1, <2>2, <2>3, <3>1, <3>2, SMTT(30)
    <3> QED
      BY <2>1, <3>1, <3>2, <3>3, <3>4, SMTT(30)
  <2>5. ASSUME NEW p \in Nat, base + p = f
        PROVE  /\ p + n \in 0 .. len /\ 0 + y = base + (p + n)
               /\ p + n + (t - y) + 1 * m <= len
               /\ t - y \in Nat /\ base + (p + n + (t - y)) = t
    BY <1>7, <2>1, <2>2, <2>3, <2>5, SMTT(30)
  <2> QED
    BY <2>4, <2>5
<1> HIDE DEF x, y
<1>9. Decoded(bytes, base + (o + c), n, f - x)
  BY <1>6, <1>8
<1>10. SUFFICES ASSUME NEW a \in CountedArray(o + c, 1)
       PROVE  /\ a.ok /\ a.at \in Nat /\ base + a.at = f
              /\ a.count = n /\ a.at + a.count \in 0 .. len
              /\ \A d \in CountedArray(a.at + a.count, 1) :
                    d.ok /\ d.at \in Nat /\ base + d.at = t /\ d.count = m
  BY <1>2, <1>8
<1>11. a.ok /\ a.at = o + c + (f - x) /\ a.count = n
  BY <1>2, <1>8, <1>9, CountedAgain, SMTT(30)
<1>12. a.at \in Nat /\ base + a.at = f
  BY <1>8, <1>11, SMTT(30)
<1> DEFINE z == a.at + n
<1>13. /\ z \in 0 .. len /\ 0 + y = base + z
       /\ z + (t - y) + 1 * m <= len
       /\ t - y \in Nat /\ base + (z + (t - y)) = t
  BY <1>8, <1>12
<1> HIDE DEF z
<1>14. Decoded(bytes, base + z, m, t - y)
  BY <1>6, <1>13
<1>15. ASSUME NEW d \in CountedArray(z, 1)
       PROVE  d.ok /\ d.at \in Nat /\ base + d.at = t /\ d.count = m
  <2>1. d.ok /\ d.at = z + (t - y) /\ d.count = m
    BY <1>2, <1>13, <1>14, CountedAgain, SMTT(30)
  <2> QED
    BY <1>13, <2>1, SMTT(30)
<1> QED
  BY <1>11, <1>12, <1>13, <1>15 DEF z

\* One item more.
LEMMA MoreItems ==
  ASSUME TypeOK, SameItems, first.yielded \in Seq(Item), Len(parsed) < Len(first.yielded),
         NEW it \in Item, SameItem(it, first.yielded[Len(parsed) + 1]),
         parsed' = Append(parsed, it), UNCHANGED <<base, first>>
  PROVE  SameItems'
<1>1. parsed \in Seq(Item) /\ Len(parsed) \in Nat /\ Len(first.yielded) \in Nat
  BY SMTT(30) DEF TypeOK
<1>2. /\ Len(parsed') = Len(parsed) + 1
      /\ \A j \in 1 .. Len(parsed) : parsed'[j] = parsed[j]
      /\ parsed'[Len(parsed) + 1] = it
  BY <1>1, Appended
<1>3. Len(parsed') <= Len(first'.yielded)
  BY <1>1, <1>2, SMTT(30)
<1>4. ASSUME NEW j \in 1 .. Len(parsed')
      PROVE  SameItem(parsed'[j], first.yielded[j])
  <2>1. CASE j \in 1 .. Len(parsed)
    BY <1>2, <2>1 DEF SameItems
  <2>2. CASE j = Len(parsed) + 1
    BY <1>2, <2>2
  <2> QED
    BY <1>1, <1>2, <2>1, <2>2, SMTT(30)
<1> QED
  BY <1>3, <1>4 DEF SameItems, SameItem

\* The same instruction.
LEMMA AgainParseInstruction ==
  ASSUME LegacyParse, RunInv, ParseInstruction
  PROVE  pc' # "error" /\ Grown(bytes, bytes') /\ LegacyAgain'
<1> DEFINE g == first.frame
           gi == first.yielded
           k == Len(parsed) + 1
<1>1. ParsingAgain /\ first.frame.version # "v1" /\ SameItems /\ TypeOK
  BY DEF LegacyParse, LegacyAgain, ParsingAgain
<1>2. AtInstruction /\ rest > 0 /\ rest \in Nat /\ pc = "instruction"
  BY <1>1 DEF RunInv, ParseInstruction, TypeOK
<1>3. /\ PreludeKnown(entry, base, bytes, frame) /\ CountKnown(base, bytes, frame)
      /\ Len(parsed) + rest = frame.num_instructions
      /\ offset = EndOf(frame, parsed, Len(parsed))
  BY <1>2 DEF AtInstruction, InstructionsKnown
<1>4. /\ parsed \in Seq(Item) /\ Len(parsed) \in Nat /\ gi \in Seq(Item) /\ Len(gi) \in Nat
      /\ g \in Frame /\ g.num_instructions \in Nat /\ g.num_lookups \in Nat
      /\ offset \in Nat /\ base \in Nat /\ len \in Nat
  BY <1>1, FrameFields, SMTT(30) DEF TypeOK, ParsingAgain
<1>5. frame.num_instructions = g.num_instructions
  BY <1>1, <1>3, CountAgain
<1>6. Len(gi) = g.num_instructions + g.num_lookups
  BY <1>1, OldMessage DEF LegacyKnown
<1>7. k \in 1 .. Len(gi) /\ k <= g.num_instructions /\ Len(parsed) < Len(gi)
  BY <1>2, <1>3, <1>4, <1>5, <1>6, SMTT(30)
<1>8. base + offset = StartOf(g, gi, k)
  <2>1. Len(parsed) \in 0 .. Len(parsed)
    BY <1>4, SMTT(30)
  <2>2. base + EndOf(frame, parsed, Len(parsed)) = EndOf(g, gi, Len(parsed))
    BY <1>1, <1>3, <2>1, ItemsAgain
  <2>3. k - 1 = Len(parsed) /\ k # g.num_instructions + 1
    BY <1>4, <1>7, SMTT(30)
  <2>4. StartOf(g, gi, k) = EndOf(g, gi, Len(parsed)) + 0
    BY <2>3 DEF StartOf
  <2>5. base + offset \in Nat
    BY <1>4, SMTT(30)
  <2> QED
    BY <1>3, <2>2, <2>4, <2>5, SMTT(30)
<1>9. BeforeCounts(g, k) = 1
  BY <1>7 DEF BeforeCounts
<1> HIDE DEF k
<1>10. /\ Reading /\ offset + 1 \in 0 .. len
       /\ \A a \in CountedArray(offset + 1, 1) :
             /\ a.ok /\ a.at \in Nat /\ base + a.at = gi[k].first
             /\ a.count = gi[k].num_first
             /\ a.at + a.count \in 0 .. len
             /\ \A d \in CountedArray(a.at + a.count, 1) :
                   /\ d.ok /\ d.at \in Nat /\ base + d.at = gi[k].second
                   /\ d.count = gi[k].num_second
  BY <1>1, <1>4, <1>7, <1>8, <1>9, ItemAgain
<1>11. ~(offset >= len)
  BY <1>4, <1>10, SMTT(30)
<1>12. PICK a \in CountedArray(offset + 1, 1) : \E d \in CountedArray(a.at + a.count, 1) :
          /\ bytes' = Merge(d.seen, a.seen)
          /\ parsed' = Append(parsed, [start |-> offset, first |-> a.at, num_first |-> a.count,
                                       second |-> d.at, num_second |-> d.count])
          /\ UNCHANGED <<pc, base, first>>
  BY <1>10, <1>11, Zenon DEF ParseInstruction, slice
<1>13. PICK d \in CountedArray(a.at + a.count, 1) :
          /\ bytes' = Merge(d.seen, a.seen)
          /\ parsed' = Append(parsed, [start |-> offset, first |-> a.at, num_first |-> a.count,
                                       second |-> d.at, num_second |-> d.count])
          /\ UNCHANGED <<pc, base, first>>
  BY <1>12
<1>14. /\ a.ok /\ d.ok /\ a.at \in Nat /\ base + a.at = gi[k].first
       /\ a.count = gi[k].num_first /\ d.at \in Nat /\ base + d.at = gi[k].second
       /\ d.count = gi[k].num_second
  BY <1>10
<1>15. Grown(bytes, bytes')
  BY <1>10, <1>13, <1>14, TwoCounted, ZenonT(30)
<1> DEFINE it == [start |-> offset, first |-> a.at, num_first |-> a.count,
                  second |-> d.at, num_second |-> d.count]
<1>16. gi[k].num_first \in Nat /\ gi[k].num_second \in Nat /\ gi[k].start = StartOf(g, gi, k)
  <2>1. ItemKnown(0, bytes, g, gi, k)
    BY <1>1, <1>7, OldMessage, Zenon DEF LegacyKnown, InstructionsKnown, ItemsKnown
  <2> QED
    BY <1>4, <1>7, <2>1, ItemPlaces
<1>17. it \in Item
  BY <1>4, <1>14, <1>16 DEF Item
<1>18. SameItem(it, gi[k])
  BY <1>8, <1>14, <1>16 DEF SameItem
<1> HIDE DEF it
<1>19. SameItems'
  BY <1>1, <1>4, <1>7, <1>13, <1>17, <1>18, MoreItems DEF it, k
<1>20. pc' = "instruction"
  BY <1>2, <1>13
<1> QED
  BY <1>15, <1>19, <1>20 DEF LegacyAgain, Viewed

\* After the instructions.
LEMMA AgainInstructionsEnd ==
  ASSUME LegacyParse, RunInv, InstructionsEnd
  PROVE  pc' # "error" /\ Grown(bytes, bytes') /\ LegacyAgain'
<1>1. ParsingAgain /\ first.frame.version # "v1" /\ SameItems
  BY DEF LegacyParse, LegacyAgain
<1>2. /\ UNCHANGED <<bytes, base, parsed, first, frame>>
      /\ pc' = IF frame.version = "v0" THEN "lookups" ELSE "end"
  BY DEF InstructionsEnd, slice
<1>3. PreludeKnown(entry, base, bytes, frame) /\ NoLookups(frame)
  BY DEF InstructionsEnd, RunInv, AtInstruction
<1>4. frame.version = first.frame.version
  BY <1>1, <1>3, HeaderAgain DEF PreludeKnown
<1>5. Grown(bytes, bytes')
  BY <1>2 DEF Grown
<1>6. CASE frame.version = "v0"
  BY <1>1, <1>2, <1>5, <1>6, LegacyStays
<1>7. CASE frame.version # "v0"
  <2>1. NoLookups(first.frame)
    BY <1>1, <1>4, <1>7, OldMessage DEF LegacyKnown
  <2>2. /\ frame'.writable = first'.frame.writable /\ frame'.readonly = first'.frame.readonly
        /\ frame'.version # "v1" /\ pc' = "end"
    BY <1>1, <1>2, <1>3, <1>4, <1>7, <2>1 DEF NoLookups
  <2>3. SameItems'
    BY <1>1, <1>2 DEF SameItems, SameItem
  <2> QED
    BY <1>5, <2>2, <2>3 DEF LegacyAgain, Viewed
<1> QED
  BY <1>6, <1>7

\* The same count of lookups.
LEMMA AgainParseLookups ==
  ASSUME LegacyParse, RunInv, ParseLookups
  PROVE  pc' # "error" /\ Grown(bytes, bytes') /\ LegacyAgain'
<1> DEFINE g == first.frame
           gi == first.yielded
           n == g.num_lookups
           e == EndOf(g, gi, g.num_instructions)
<1>1. ParsingAgain /\ first.frame.version # "v1" /\ SameItems /\ TypeOK
  BY DEF LegacyParse, LegacyAgain, ParsingAgain
<1>2. /\ PreludeKnown(entry, base, bytes, frame) /\ CountKnown(base, bytes, frame)
      /\ Len(parsed) + rest = frame.num_instructions /\ rest = 0
      /\ offset = EndOf(frame, parsed, Len(parsed))
      /\ NoLookups(frame) /\ frame.version = "v0"
  BY Zenon DEF ParseLookups, RunInv, AtLookups, AtInstruction, InstructionsKnown
<1>3. /\ parsed \in Seq(Item) /\ Len(parsed) \in Nat /\ gi \in Seq(Item)
      /\ g \in Frame /\ g.num_instructions \in Nat /\ n \in Nat /\ frame \in Frame
      /\ offset \in Nat /\ base \in Nat /\ len \in Nat /\ len \in 0 .. MaxLen /\ IsBytes(bytes)
  BY <1>1, FrameFields, SMTT(30) DEF TypeOK, ParsingAgain
<1>4. frame.num_instructions = g.num_instructions /\ frame.version = g.version
  BY <1>1, <1>2, CountAgain, HeaderAgain DEF PreludeKnown
<1>5. g.version = "v0"
  BY <1>2, <1>4
<1>6. base + offset = e
  <2>1. Len(parsed) \in 0 .. Len(parsed) /\ Len(parsed) = g.num_instructions
    BY <1>2, <1>3, <1>4, SMTT(30)
  <2> QED
    BY <1>1, <1>2, <2>1, ItemsAgain
<1>7. /\ ~(n > MAX_ATLS) /\ Known(bytes, 0 + e, n)
      /\ SumIs(Writable(g, gi, n), n, g.writable) /\ SumIs(Readonly(g, gi, n), n, g.readonly)
  BY <1>1, <1>5, OldMessage, ZenonT(30) DEF LegacyKnown, LookupsKnown, Totals
<1>8. e + 1 + MIN_SIZED_ATL * n <= base + len
  BY <1>1, <1>5, OldMessage DEF LegacyFits, LookupsFit
<1>9. MIN_SIZED_ATL * n \in Nat
  BY <1>3, Product, Sizes, SMTT(30) DEF MIN_SIZED_ATL
<1>10. 0 + e = base + offset
  BY <1>3, <1>6, SMTT(30)
<1>11. ByteAt(offset) = {n}
  BY <1>7, <1>10, ReadAgain
<1>12. /\ ~(offset >= len) /\ Remaining(offset + 1, MIN_SIZED_ATL * n)
  <2> DEFINE x == MIN_SIZED_ATL * n
  <2>1. x \in Nat /\ base + offset + 1 + x <= base + len
    BY <1>6, <1>8, <1>9
  <2> HIDE DEF x
  <2>2. ~(offset >= len) /\ offset + 1 \in 0 .. len /\ offset + 1 + x <= len
    BY <1>3, <2>1, SMTT(30)
  <2>3. Remaining(offset + 1, x)
    BY <1>3, <2>1, <2>2, RemainingIs
  <2> QED
    BY <2>2, <2>3 DEF x
<1> HIDE DEF n
<1>13. /\ bytes' = Seen(offset, <<n>>)
       /\ frame' = [frame EXCEPT !.num_lookups = n, !.lookups_offset = AsU16(offset + 1)]
       /\ rest' = n /\ pc' = "lookup" /\ UNCHANGED <<base, parsed, first>>
  BY <1>7, <1>11, <1>12, Zenon DEF ParseLookups, slice
<1>14. Grown(bytes, bytes')
  BY <1>3, <1>11, <1>13, SeenByte
<1>15. SameItems'
  BY <1>1, <1>13 DEF SameItems, SameItem
<1>16. frame'.num_lookups = n /\ frame'.writable = 0 /\ frame'.readonly = 0
  BY <1>2, <1>3, <1>13 DEF Frame, NoLookups
<1>17. frame'.num_lookups - rest' = 0
  BY <1>3, <1>13, <1>16, SMTT(30)
<1>18. \E S : Sums(S, Writable(g, gi, n), n) /\ S[n] = g.writable /\ S[0] = 0
  BY <1>7, Zenon DEF SumIs, Sums
<1>19. \E S : Sums(S, Readonly(g, gi, n), n) /\ S[n] = g.readonly /\ S[0] = 0
  BY <1>7, Zenon DEF SumIs, Sums
<1>20. \E S : WritableAgain(S, frame.num_lookups - rest)'
  BY <1>13, <1>16, <1>17, <1>18 DEF WritableAgain, n
<1>21. \E S : ReadonlyAgain(S, frame.num_lookups - rest)'
  BY <1>13, <1>16, <1>17, <1>19 DEF ReadonlyAgain, n
<1> QED
  BY <1>13, <1>14, <1>15, <1>20, <1>21 DEF LegacyAgain, Viewed

\* As many lookups as before.
LEMMA LookupsAgain ==
  ASSUME ParsingAgain, first.frame.version # "v1", SameItems,
         PreludeKnown(entry, base, bytes, frame), CountKnown(base, bytes, frame),
         frame.version = "v0", LookupsKnown(base, bytes, frame, parsed),
         frame.num_instructions <= Len(parsed)
  PROVE  frame.num_lookups = first.frame.num_lookups /\ first.frame.version = "v0"
<1> DEFINE g == first.frame
           gi == first.yielded
           e == EndOf(g, gi, g.num_instructions)
<1>1. frame.num_instructions = g.num_instructions /\ frame.version = g.version
  BY CountAgain, HeaderAgain, ZenonT(30) DEF PreludeKnown
<1>2. parsed \in Seq(Item) /\ frame.num_instructions \in 0 .. Len(parsed)
  BY FrameFields, SMTT(30) DEF ParsingAgain, TypeOK
<1>3. base + EndOf(frame, parsed, frame.num_instructions) = e
  BY <1>1, <1>2, ItemsAgain
<1>4. base + EndOf(frame, parsed, frame.num_instructions) \in Nat
  BY <1>2, EndPlaces, SMTT(30) DEF ParsingAgain, TypeOK
<1>5. 0 + e = e
  BY <1>3, <1>4, SMTT(30)
<1>6. Known(bytes, e, frame.num_lookups)
  BY <1>3 DEF LookupsKnown
<1>7. Known(bytes, 0 + e, g.num_lookups)
  BY <1>1, OldMessage, Zenon DEF LegacyKnown, LookupsKnown
<1> QED
  BY <1>1, <1>5, <1>6, <1>7, KnownOnce, ZenonT(30)

\* The next of the sums.
LEMMA NextSum ==
  ASSUME NEW S, NEW h, NEW n \in Nat, Sums(S, h, n), NEW j \in Nat, j < n
  PROVE  S[j + 1] = S[j] + h[j + 1]
<1>1. j + 1 \in 1 .. n /\ (j + 1) - 1 = j
  BY SMTT(30)
<1> QED
  BY <1>1 DEF Sums

\* The same lookup.
LEMMA AgainParseLookup ==
  ASSUME LegacyParse, RunInv, ParseLookup
  PROVE  pc' # "error" /\ Grown(bytes, bytes') /\ LegacyAgain'
<1> DEFINE g == first.frame
           gi == first.yielded
           k == Len(parsed) + 1
           j == frame.num_lookups - rest
<1>1. ParsingAgain /\ first.frame.version # "v1" /\ SameItems /\ TypeOK
  BY DEF LegacyParse, LegacyAgain, ParsingAgain
<1>2. AtLookup /\ rest > 0 /\ rest \in Nat /\ pc = "lookup"
  BY <1>1, Zenon DEF RunInv, ParseLookup, TypeOK
<1>3. /\ PreludeKnown(entry, base, bytes, frame) /\ CountKnown(base, bytes, frame)
      /\ LookupsKnown(base, bytes, frame, parsed) /\ frame.version = "v0"
      /\ rest <= frame.num_lookups
      /\ Len(parsed) = frame.num_instructions + j
      /\ offset = StartOf(frame, parsed, Len(parsed) + 1)
  BY <1>2 DEF AtLookup, InstructionsKnown
<1>4. /\ parsed \in Seq(Item) /\ Len(parsed) \in Nat /\ gi \in Seq(Item) /\ Len(gi) \in Nat
      /\ g \in Frame /\ g.num_instructions \in Nat /\ g.num_lookups \in Nat
      /\ offset \in Nat /\ base \in Nat /\ len \in Nat /\ len \in 0 .. MaxLen
      /\ frame \in Frame /\ frame.num_lookups \in Nat /\ frame.num_instructions \in Nat
      /\ KeySize \in Nat
  BY <1>1, FrameFields, Sizes, SMTT(30) DEF TypeOK, ParsingAgain
<1>5. frame.num_instructions = g.num_instructions
  BY <1>1, <1>3, CountAgain
<1>6. j \in Nat /\ frame.num_instructions <= Len(parsed)
  BY <1>2, <1>3, <1>4, SMTT(30)
<1>7. frame.num_lookups = g.num_lookups /\ g.version = "v0"
  BY <1>1, <1>3, <1>6, LookupsAgain
<1>8. Len(gi) = g.num_instructions + g.num_lookups
  BY <1>1, OldMessage DEF LegacyKnown
<1>9. /\ k \in 1 .. Len(gi) /\ ~(k <= g.num_instructions) /\ Len(parsed) < Len(gi)
      /\ j < g.num_lookups /\ k = g.num_instructions + (j + 1)
  <2> DEFINE a == Len(parsed)
             b == Len(gi)
             x == g.num_instructions
             y == g.num_lookups
  <2>1. /\ a \in Nat /\ b \in Nat /\ x \in Nat /\ y \in Nat /\ rest \in Nat /\ rest > 0
        /\ j = y - rest /\ a = x + j /\ b = x + y /\ k = a + 1
    BY <1>2, <1>3, <1>4, <1>5, <1>7, <1>8
  <2> HIDE DEF a, b, x, y, j, k
  <2>2. /\ k \in 1 .. b /\ ~(k <= x) /\ a < b /\ j < y /\ k = x + (j + 1)
    BY <1>6, <2>1, SMTT(30)
  <2> QED
    BY <2>2 DEF a, b, x, y
<1>10. base + offset = StartOf(g, gi, k)
  <2>1. Len(parsed) \in 0 .. Len(parsed)
    BY <1>4, SMTT(30)
  <2> QED
    BY <1>1, <1>3, <2>1, ItemsAgain
<1>11. BeforeCounts(g, k) = KeySize
  BY <1>9 DEF BeforeCounts
<1> HIDE DEF k, j
<1>12. /\ Reading /\ offset + KeySize \in 0 .. len
       /\ \A w \in CountedArray(offset + KeySize, 1) :
             /\ w.ok /\ w.at \in Nat /\ base + w.at = gi[k].first
             /\ w.count = gi[k].num_first
             /\ w.at + w.count \in 0 .. len
             /\ \A r \in CountedArray(w.at + w.count, 1) :
                   /\ r.ok /\ r.at \in Nat /\ base + r.at = gi[k].second
                   /\ r.count = gi[k].num_second
  BY <1>1, <1>4, <1>9, <1>10, <1>11, ItemAgain, SMTT(30)
<1>13. Remaining(offset, KeySize)
  <2>1. offset \in 0 .. len /\ offset + KeySize <= len
    BY <1>4, <1>12, SMTT(30)
  <2> QED
    BY <1>4, <2>1, RemainingIs
<1>14. PICK w \in CountedArray(offset + KeySize, 1) : \E r \in CountedArray(w.at + w.count, 1) :
          /\ bytes' = Merge(r.seen, w.seen)
          /\ frame' = [frame EXCEPT !.writable = @ + w.count, !.readonly = @ + r.count]
          /\ parsed' = Append(parsed, [start |-> offset, first |-> w.at, num_first |-> w.count,
                                       second |-> r.at, num_second |-> r.count])
          /\ rest' = rest - 1 /\ UNCHANGED <<pc, base, first>>
  BY <1>12, <1>13, ZenonT(30) DEF ParseLookup, slice
<1>15. PICK r \in CountedArray(w.at + w.count, 1) :
          /\ bytes' = Merge(r.seen, w.seen)
          /\ frame' = [frame EXCEPT !.writable = @ + w.count, !.readonly = @ + r.count]
          /\ parsed' = Append(parsed, [start |-> offset, first |-> w.at, num_first |-> w.count,
                                       second |-> r.at, num_second |-> r.count])
          /\ rest' = rest - 1 /\ UNCHANGED <<pc, base, first>>
  BY <1>14, Zenon
<1>16. /\ w.ok /\ r.ok /\ w.at \in Nat /\ base + w.at = gi[k].first
       /\ w.count = gi[k].num_first /\ r.at \in Nat /\ base + r.at = gi[k].second
       /\ r.count = gi[k].num_second
  BY <1>12
<1>17. Grown(bytes, bytes')
  BY <1>12, <1>15, <1>16, TwoCounted
<1> DEFINE it == [start |-> offset, first |-> w.at, num_first |-> w.count,
                  second |-> r.at, num_second |-> r.count]
<1>18. gi[k].num_first \in Nat /\ gi[k].num_second \in Nat /\ gi[k].start = StartOf(g, gi, k)
  <2>1. ItemKnown(0, bytes, g, gi, k)
    BY <1>1, <1>9, OldMessage, Zenon DEF LegacyKnown, InstructionsKnown, ItemsKnown
  <2>2. gi \in Seq(Item) /\ g \in Frame /\ k \in 1 .. Len(gi)
    BY <1>4, <1>9
  <2>3. gi[k].start = StartOf(g, gi, k)
    BY <2>1 DEF ItemKnown
  <2> QED
    BY <2>2, <2>3, ItemFields
<1>19. it \in Item
  BY <1>4, <1>16, <1>18 DEF Item
<1>20. SameItem(it, gi[k])
  BY <1>10, <1>16, <1>18 DEF SameItem
<1>21. SameItems'
  <2> HIDE DEF it
  <2> QED
    BY <1>1, <1>4, <1>9, <1>15, <1>19, <1>20, MoreItems DEF it, k
<1>22. pc' = "lookup"
  BY <1>2, <1>15
<1>23. /\ frame'.num_lookups = frame.num_lookups
       /\ frame'.writable = frame.writable + gi[k].num_first
       /\ frame'.readonly = frame.readonly + gi[k].num_second
  BY <1>4, <1>15, <1>16 DEF Frame
<1>24. frame'.num_lookups - rest' = j + 1
  BY <1>2, <1>4, <1>15, <1>23, SMTT(30) DEF j
<1>25. j + 1 \in 1 .. g.num_lookups
  BY <1>4, <1>6, <1>9, SMTT(30)
<1>26. /\ Writable(g, gi, g.num_lookups)[j + 1] = gi[k].num_first
       /\ Readonly(g, gi, g.num_lookups)[j + 1] = gi[k].num_second
  BY <1>9, <1>25 DEF Writable, Readonly
<1>27. \E S : WritableAgain(S, frame.num_lookups - rest)'
  <2>1. PICK S : WritableAgain(S, j)
    BY <1>2 DEF LegacyParse, LegacyAgain, j
  <2> DEFINE h == Writable(g, gi, g.num_lookups)
  <2>2. S[j + 1] = S[j] + gi[k].num_first
    <3>1. Sums(S, h, g.num_lookups)
      BY <2>1, Zenon DEF WritableAgain
    <3>2. g.num_lookups \in Nat /\ j \in Nat /\ j < g.num_lookups /\ h[j + 1] = gi[k].num_first
      BY <1>4, <1>6, <1>9, <1>26, Zenon
    <3> HIDE DEF h, g, gi
    <3> QED
      BY <3>1, <3>2, NextSum, SMTT(30)
  <2> QED
    BY <1>15, <1>23, <1>24, <2>1, <2>2 DEF WritableAgain
<1>28. \E S : ReadonlyAgain(S, frame.num_lookups - rest)'
  <2>1. PICK S : ReadonlyAgain(S, j)
    BY <1>2 DEF LegacyParse, LegacyAgain, j
  <2> DEFINE h == Readonly(g, gi, g.num_lookups)
  <2>2. S[j + 1] = S[j] + gi[k].num_second
    <3>1. Sums(S, h, g.num_lookups)
      BY <2>1, Zenon DEF ReadonlyAgain
    <3>2. g.num_lookups \in Nat /\ j \in Nat /\ j < g.num_lookups /\ h[j + 1] = gi[k].num_second
      BY <1>4, <1>6, <1>9, <1>26, Zenon
    <3> HIDE DEF h, g, gi
    <3> QED
      BY <3>1, <3>2, NextSum, SMTT(30)
  <2> QED
    BY <1>15, <1>23, <1>24, <2>1, <2>2 DEF ReadonlyAgain
<1> QED
  BY <1>17, <1>21, <1>22, <1>27, <1>28, ZenonT(30) DEF LegacyAgain, Viewed

\* The same totals, which fit as they did.
LEMMA AgainLookupsEnd ==
  ASSUME LegacyParse, RunInv, LookupsEnd
  PROVE  pc' # "error" /\ Grown(bytes, bytes') /\ LegacyAgain'
<1> DEFINE g == first.frame
           j == frame.num_lookups - rest
<1>1. ParsingAgain /\ first.frame.version # "v1" /\ SameItems /\ TypeOK
  BY DEF LegacyParse, LegacyAgain, ParsingAgain
<1>2. AtLookup /\ rest = 0 /\ pc = "lookup"
  BY DEF RunInv, LookupsEnd
<1>3. /\ PreludeKnown(entry, base, bytes, frame) /\ CountKnown(base, bytes, frame)
      /\ LookupsKnown(base, bytes, frame, parsed) /\ frame.version = "v0"
      /\ Len(parsed) = frame.num_instructions + j
  BY <1>2 DEF AtLookup, InstructionsKnown
<1>4. frame.num_lookups \in Nat /\ frame.num_instructions \in Nat
  BY <1>1, FrameFields DEF TypeOK
<1>5. j = frame.num_lookups /\ frame.num_instructions <= Len(parsed)
  BY <1>2, <1>3, <1>4, SMTT(30)
<1>6. frame.num_lookups = g.num_lookups /\ g.version = "v0"
  BY <1>1, <1>3, <1>5, LookupsAgain
<1> HIDE DEF j
<1>7. frame.writable = g.writable /\ frame.readonly = g.readonly
  <2>1. (\E S : WritableAgain(S, j)) /\ (\E S : ReadonlyAgain(S, j))
    BY <1>2 DEF LegacyParse, LegacyAgain, j
  <2> QED
    BY <1>5, <1>6, <2>1 DEF WritableAgain, ReadonlyAgain
<1>8. Fits(g.writable) /\ Fits(g.readonly)
  BY <1>1, <1>6, OldMessage DEF LegacyKnown
<1>9. pc' = "end" /\ UNCHANGED <<bytes, base, parsed, first, frame>>
  BY <1>7, <1>8 DEF LookupsEnd, slice
<1>10. Grown(bytes, bytes') /\ SameItems'
  BY <1>1, <1>9 DEF Grown, SameItems, SameItem
<1> QED
  BY <1>3, <1>7, <1>9, <1>10 DEF LegacyAgain, Viewed

\* The end of the message is where it was.
LEMMA EndAgain ==
  ASSUME ParsingAgain, first.frame.version # "v1", SameItems,
         LegacyKnown(entry, base, bytes, frame, parsed)
  PROVE  /\ frame.version = first.frame.version
         /\ frame.num_instructions = first.frame.num_instructions
         /\ frame.num_lookups = first.frame.num_lookups
         /\ Len(parsed) = Len(first.yielded)
         /\ base + LegacyEnd(frame, parsed) = first.frame.end_offset
<1> DEFINE g == first.frame
           gi == first.yielded
<1>1. /\ PreludeKnown(entry, base, bytes, frame) /\ CountKnown(base, bytes, frame)
      /\ Len(parsed) = frame.num_instructions + frame.num_lookups
  BY DEF LegacyKnown, InstructionsKnown
<1>2. /\ frame.version = g.version /\ frame.num_instructions = g.num_instructions
  BY <1>1, CountAgain, HeaderAgain DEF PreludeKnown
<1>3. /\ LegacyKnown(first.entry, 0, bytes, g, gi) /\ g.end_offset = LegacyEnd(g, gi)
  BY OldMessage DEF LegacyEnds
<1>4. /\ parsed \in Seq(Item) /\ Len(parsed) \in Nat /\ frame.num_instructions \in Nat
      /\ frame.num_lookups \in Nat
  BY FrameFields, SMTT(30) DEF ParsingAgain, TypeOK
<1>5. frame.num_lookups = g.num_lookups
  <2>1. CASE frame.version = "v0"
    <3>1. LookupsKnown(base, bytes, frame, parsed) /\ frame.num_instructions <= Len(parsed)
      BY <1>1, <1>4, <2>1, SMTT(30) DEF LegacyKnown
    <3> QED
      BY <1>1, <2>1, <3>1, LookupsAgain
  <2>2. CASE frame.version # "v0"
    BY <1>2, <1>3, <2>2 DEF LegacyKnown, NoLookups
  <2> QED
    BY <2>1, <2>2
<1>6. Len(parsed) = Len(gi)
  BY <1>1, <1>2, <1>3, <1>5, ZenonT(30) DEF LegacyKnown
<1>7. Len(parsed) \in 0 .. Len(parsed)
  BY <1>4, SMTT(30)
<1>8. /\ base + EndOf(frame, parsed, Len(parsed)) = EndOf(g, gi, Len(parsed))
      /\ base + StartOf(frame, parsed, Len(parsed) + 1) = StartOf(g, gi, Len(parsed) + 1)
  BY <1>1, <1>7, ItemsAgain, Zenon
<1>9. base + LegacyEnd(frame, parsed) = g.end_offset
  BY <1>2, <1>3, <1>6, <1>8 DEF LegacyEnd
<1> QED
  BY <1>2, <1>5, <1>6, <1>9

\* The message ends where it did, so nothing is left after it.
LEMMA AgainMessageEnd ==
  ASSUME LegacyParse, RunInv, MessageEnd
  PROVE  pc' # "error" /\ Grown(bytes, bytes') /\ LegacyAgain'
<1> DEFINE g == first.frame
<1>1. ParsingAgain /\ first.frame.version # "v1" /\ SameItems /\ TypeOK
  BY DEF LegacyParse, LegacyAgain, ParsingAgain
<1>2. /\ frame.version # "v1" /\ frame.writable = g.writable /\ frame.readonly = g.readonly
  BY DEF LegacyParse, LegacyAgain, MessageEnd
<1>3. LegacyKnown(entry, base, bytes, frame, parsed) /\ offset = LegacyEnd(frame, parsed)
  BY <1>2 DEF MessageEnd, RunInv, AtEnd
<1>4. base + offset = g.end_offset
  BY <1>1, <1>3, EndAgain
<1>5. /\ base \in Nat /\ len \in Nat /\ g.end_offset \in Nat /\ g.end_offset <= U16Max
      /\ (entry # "prefix" => base + len = g.end_offset) /\ offset \in Nat /\ U16Max \in Nat
      /\ frame \in Frame
  BY <1>1, OldMessage, Sizes, SMTT(30) DEF LegacyEnds, TypeOK
<1>6. Fits(offset) /\ (entry = "prefix" \/ offset = len)
  BY <1>4, <1>5, SMTT(30) DEF Fits
<1>7. /\ frame' = [frame EXCEPT !.end_offset = offset, !.data_len = offset]
      /\ pc' = "parsed" /\ UNCHANGED <<bytes, base, parsed, first>>
  BY <1>2, <1>6, Zenon DEF MessageEnd, slice
<1>8. /\ frame'.version = frame.version /\ frame'.writable = frame.writable
      /\ frame'.readonly = frame.readonly
  BY <1>5, <1>7 DEF Frame
<1>9. Grown(bytes, bytes') /\ SameItems'
  BY <1>1, <1>7 DEF Grown, SameItems, SameItem
<1>10. /\ frame'.version # "v1" /\ frame'.writable = first'.frame.writable
       /\ frame'.readonly = first'.frame.readonly
  BY <1>2, <1>7, <1>8
<1> QED
  BY <1>7, <1>9, <1>10 DEF LegacyAgain

\* The iterators only read.
LEMMA AgainIterate ==
  ASSUME LegacyParse, RunInv,
         \/ InstructionsIter \/ NextLegacyInstruction \/ NextV1Instruction
         \/ LookupsIter \/ NextLookup \/ LookupsIterEnd
  PROVE  pc' # "error" /\ Grown(bytes, bytes') /\ LegacyAgain'
<1>1. SameItems
  BY DEF LegacyParse, LegacyAgain
<1>2. Viewed /\ Viewed' /\ UNCHANGED <<bytes, base, parsed, first, frame>>
  BY Zenon DEF InstructionsIter, NextLegacyInstruction, NextV1Instruction, LookupsIter,
         NextLookup, LookupsIterEnd, Viewed, slice
<1>3. Grown(bytes, bytes') /\ SameItems'
  BY <1>1, <1>2 DEF Grown, SameItems, SameItem
<1>4. /\ frame.version # "v1" /\ frame.writable = first.frame.writable
      /\ frame.readonly = first.frame.readonly
  BY <1>2 DEF LegacyParse, LegacyAgain
<1>5. pc' \in {"parsed", "next_instruction", "next_lookup", "done"}
  BY <1>2 DEF Viewed
<1> QED
  BY <1>2, <1>3, <1>4, <1>5 DEF LegacyAgain

\* No step of a second parse of a legacy or v0 transaction fails.
LEMMA LegacyAgainNext ==
  ASSUME LegacyParse, RunInv, pc # "error",
         \/ ChooseFormat
         \/ ParseSignatures \/ ParseHeader \/ ParseKeys
         \/ ParseInstructions \/ ParseInstruction \/ InstructionsEnd
         \/ ParseLookups \/ ParseLookup \/ LookupsEnd
         \/ ParseV1Prefix \/ ParseV1Config \/ ParseV1Instruction \/ V1InstructionsEnd
         \/ MessageEnd \/ ParseV1Signatures
         \/ InstructionsIter \/ NextLegacyInstruction \/ NextV1Instruction
         \/ LookupsIter \/ NextLookup \/ LookupsIterEnd
  PROVE  pc' # "error" /\ Grown(bytes, bytes') /\ LegacyAgain'
<1>1. pc \notin {"v1_prefix", "v1_config", "v1_instruction", "v1_signatures"}
  BY DEF LegacyParse, LegacyAgain
<1>2. /\ ~ParseV1Prefix /\ ~ParseV1Config /\ ~ParseV1Instruction /\ ~V1InstructionsEnd
      /\ ~ParseV1Signatures
  BY <1>1, Zenon DEF ParseV1Prefix, ParseV1Config, ParseV1Instruction, V1InstructionsEnd,
              ParseV1Signatures
<1> QED
  BY <1>2, AgainChooseFormat, AgainParseSignatures, AgainParseHeader, AgainParseKeys,
     AgainParseInstructions, AgainParseInstruction, AgainInstructionsEnd,
     AgainParseLookups, AgainParseLookup, AgainLookupsEnd, AgainMessageEnd, AgainIterate,
     Zenon

\* A message whose lookups have indexes leaves the room that its counts ask for.
LEMMA FitsAlone ==
  ASSUME NEW e, NEW at, NEW m, NEW f \in Frame, NEW items \in Seq(Item), NEW n,
         LegacyKnown(e, at, m, f, items), LegacyEnds(e, f, items, n),
         \A i \in f.num_instructions + 1 .. Len(items) : HasIndexes(items, i)
  PROVE  LegacyFits(f, items, f.end_offset)
<1> DEFINE ni == f.num_instructions
           nl == f.num_lookups
<1>1. /\ ni \in Nat /\ nl \in Nat /\ Len(items) = ni + nl /\ Spaced(f, items)
      /\ f.end_offset = LegacyEnd(f, items) /\ f.end_offset \in Nat
  BY FrameFields DEF LegacyKnown, InstructionsKnown, LegacyEnds
<1>2. /\ \A k \in 0 .. Len(items) :
            EndOf(f, items, k) \in Nat /\ EndOf(f, items, k) <= f.end_offset
      /\ InstructionsAt(f) \in Nat
  BY LegacyOrder
<1>3. InstructionsFit(f, f.end_offset)
  <2>1. ni \in 0 .. Len(items) /\ ni <= ni
    BY <1>1, SMTT(30)
  <2>2. InstructionsAt(f) + 3 * ni <= EndOf(f, items, ni)
    BY <1>1, <2>1 DEF Spaced
  <2>3. EndOf(f, items, ni) \in Nat /\ EndOf(f, items, ni) <= f.end_offset
    BY <1>2, <2>1
  <2> QED
    BY <1>1, <1>2, <2>2, <2>3, SMTT(30) DEF InstructionsFit
<1>4. ASSUME f.version = "v0"
      PROVE  LookupsFit(f, items, f.end_offset)
  <2>1. f.end_offset = StartOf(f, items, Len(items) + 1)
    BY <1>1, <1>4 DEF LegacyEnd
  <2>2. (Len(items) + 1) - 1 = Len(items)
    BY <1>1, SMTT(30)
  <2>3. f.end_offset
          = EndOf(f, items, Len(items)) + IF Len(items) + 1 = ni + 1 THEN 1 ELSE 0
    BY <2>1, <2>2 DEF StartOf
  <2>4. CASE nl = 0
    <3>1. Len(items) = ni /\ MIN_SIZED_ATL * nl = 0
      BY <1>1, <2>4, Sizes, SMTT(30) DEF MIN_SIZED_ATL
    <3>2. f.end_offset = EndOf(f, items, ni) + 1
      BY <2>3, <3>1
    <3> QED
      BY <1>1, <3>1, <3>2, SMTT(30) DEF LookupsFit
  <2>5. CASE nl # 0
    <3>1. /\ Len(items) \in ni + 1 .. Len(items) /\ Len(items) - ni = nl
          /\ Len(items) \in 0 .. Len(items)
      BY <1>1, <2>5, SMTT(30)
    <3>2. EndOf(f, items, ni) + 1 + MIN_SIZED_ATL * (Len(items) - ni)
            <= EndOf(f, items, Len(items))
      BY <1>1, <3>1 DEF Spaced
    <3>3. EndOf(f, items, Len(items)) <= f.end_offset /\ EndOf(f, items, Len(items)) \in Nat
      BY <1>2, <3>1
    <3>4. EndOf(f, items, ni) \in Nat /\ MIN_SIZED_ATL * nl \in Nat
      <4>1. ni \in 0 .. Len(items)
        BY <1>1, SMTT(30)
      <4>2. MIN_SIZED_ATL \in Nat
        BY Sizes, SMTT(30) DEF MIN_SIZED_ATL
      <4> QED
        BY <1>1, <1>2, <4>1, <4>2, Product
    <3> DEFINE a == EndOf(f, items, ni)
               b == EndOf(f, items, Len(items))
               c == MIN_SIZED_ATL * nl
    <3>5. a + 1 + c <= b /\ b <= f.end_offset /\ a \in Nat /\ b \in Nat /\ c \in Nat
      BY <3>1, <3>2, <3>3, <3>4
    <3> HIDE DEF a, b, c
    <3>6. a + 1 + c <= f.end_offset
      BY <1>1, <3>5, SMTT(30)
    <3> QED
      BY <3>6 DEF LookupsFit, a, c
  <2> QED
    BY <2>4, <2>5
<1> QED
  BY <1>3, <1>4 DEF LegacyFits

\* What a view that is done has recorded of a legacy or v0 transaction.
LEMMA LegacyRecorded ==
  ASSUME TypeOK, AtLegacyView, pc = "done", base = 0, NEW n, NEW H, Keeps(bytes, n, H),
         \A p \in Nat : p < frame.hash_offset => p \notin H,
         Beyond(frame.hash_offset + HashSize, H)
  PROVE  /\ LegacyKnown(entry, 0, n, frame, yielded)
         /\ LegacyEnds(entry, frame, yielded, frame.data_len)
         /\ LegacyFits(frame, yielded, len)
         /\ entry # "prefix" => frame.end_offset = len
<1>1. /\ LegacyKnown(entry, 0, bytes, frame, parsed) /\ LegacyEnds(entry, frame, parsed, len)
      /\ LegacyFits(frame, parsed, len) /\ Len(yielded) = Len(parsed)
      /\ \A i \in 1 .. Len(yielded) : yielded[i] = parsed[i]
  BY DEF AtLegacyView
<1>2. frame \in Frame /\ parsed \in Seq(Item) /\ yielded \in Seq(Item) /\ frame.data_len \in Nat
      /\ frame.hash_offset \in Nat /\ HashSize \in Nat
  BY FrameFields, Sizes DEF TypeOK
<1>3. yielded = parsed
  BY <1>1, <1>2, SMTT(30)
<1>4. /\ 0 + frame.hash_offset = frame.hash_offset
      /\ 0 + (frame.hash_offset + HashSize) = frame.hash_offset + HashSize
  BY <1>2, SMTT(30)
<1>5. LegacyKnown(entry, 0, n, frame, parsed)
  BY <1>1, <1>2, <1>4, LegacyKept, ZenonT(30)
<1>6. LegacyEnds(entry, frame, parsed, frame.data_len)
  BY <1>1, <1>2, SMTT(30) DEF LegacyEnds
<1>7. entry # "prefix" => frame.end_offset = len
  BY <1>1 DEF LegacyEnds
<1> QED
  BY <1>1, <1>3, <1>5, <1>6, <1>7

\* A second parse of a legacy or v0 transaction begins with the bytes of the
\* first, but perhaps for those of the blockhash.
LEMMA LegacyBegins ==
  ASSUME TypeOK, AtLegacyView, frame.version # "v1", pc = "done", base = 0,
         entry \in {"transaction", "prefix"},
         NEW n, NEW H, Keeps(bytes, n, H),
         \A p \in Nat : p < frame.hash_offset => p \notin H,
         Beyond(frame.hash_offset + HashSize, H),
         NEW function, NEW start \in Nat, NEW end \in Nat, start <= end,
         AgainBegins(n, function, start, end),
         \/ function = entry /\ start = 0 /\ end = len
         \/ function = "transaction" /\ start = 0 /\ end = frame.data_len
         \/ function = "message" /\ start = frame.message_offset /\ end = frame.end_offset,
         Sound'
  PROVE  Recorded(bytes)' /\ Placed' /\ LegacyAgain'
<1>1. /\ first'.entry = entry /\ first'.frame = frame /\ first'.yielded = yielded
      /\ entry' = function /\ base' = start /\ len' = end - start
      /\ pc' = "start" /\ parsed' = <<>> /\ yielded' = <<>> /\ bytes' = n
  BY DEF AgainBegins
<1>2. /\ LegacyKnown(entry, 0, n, frame, yielded)
      /\ LegacyEnds(entry, frame, yielded, frame.data_len)
      /\ LegacyFits(frame, yielded, len)
      /\ (entry # "prefix" => frame.end_offset = len)
  BY LegacyRecorded
<1>3. /\ frame \in Frame /\ yielded \in Seq(Item) /\ Len(yielded) \in Nat
      /\ frame.end_offset \in Nat /\ frame.data_len \in Nat /\ len \in Nat
      /\ frame.data_len = frame.end_offset /\ frame.data_len <= len
  <2>1. LegacyEnds(entry, frame, parsed, len)
    BY DEF AtLegacyView
  <2> QED
    BY <2>1, FrameFields, SMTT(30) DEF TypeOK, LegacyEnds
<1>4. Recorded(bytes)'
  BY <1>1, <1>2, Zenon DEF Recorded
<1>5. base' + len' = end
  BY <1>1, SMTT(30)
<1>6. LegacyFits(frame, yielded, end)
  <2>1. CASE end = len
    BY <1>2, <2>1
  <2>2. CASE end # len
    <3>1. entry = "prefix" /\ function # "prefix" /\ end = frame.end_offset
      BY <1>2, <1>3, <2>2
    <3>2. \A i \in frame.num_instructions + 1 .. Len(yielded) : HasIndexes(yielded, i)
      BY <1>1, <3>1 DEF Sound, LookupsHaveIndexes, HasIndexes
    <3> QED
      BY <1>2, <1>3, <3>1, <3>2, FitsAlone
  <2> QED
    BY <2>1, <2>2
<1>7. base' = IF entry' = "message" THEN first'.frame.message_offset ELSE 0
  BY <1>1
<1>8. CASE entry' = "message"
  <2>1. base' + len' = first'.frame.end_offset
    BY <1>1, <1>5, <1>8
  <2> QED
    BY <1>1, <1>4, <1>5, <1>6, <1>7, <1>8, <2>1, SMTT(30)
       DEF Placed, LegacyAgain, SameItems, Viewed
<1>9. CASE entry' = "transaction"
  <2>1. len' = first'.frame.data_len
    BY <1>1, <1>2, <1>3, <1>9, SMTT(30)
  <2> QED
    BY <1>1, <1>4, <1>5, <1>6, <1>7, <1>9, <2>1, SMTT(30)
       DEF Placed, LegacyAgain, SameItems, Viewed
<1>10. CASE entry' = "prefix"
  <2>1. first'.frame.data_len <= len'
    BY <1>1, <1>3, <1>10, SMTT(30)
  <2> QED
    BY <1>1, <1>4, <1>5, <1>6, <1>7, <1>10, <2>1, SMTT(30)
       DEF Placed, LegacyAgain, SameItems, Viewed
<1> QED
  BY <1>1, <1>8, <1>9, <1>10

\* The same items, found at another offset, are the same slices.
LEMMA SlicesAgree ==
  ASSUME NEW items \in Seq(Item), NEW other \in Seq(Item), NEW at \in Nat,
         Len(items) = Len(other),
         \A i \in 1 .. Len(items) : /\ other[i].first = at + items[i].first
                                    /\ other[i].num_first = items[i].num_first
                                    /\ other[i].second = at + items[i].second
                                    /\ other[i].num_second = items[i].num_second
  PROVE  SlicesOf(items, at) = SlicesOf(other, 0)
<1>1. DOMAIN items = 1 .. Len(items) /\ DOMAIN other = 1 .. Len(items)
  BY SMTT(30)
<1>2. ASSUME NEW i \in 1 .. Len(items)
      PROVE  /\ Slice(at + items[i].first, items[i].num_first, 1)
                  = Slice(0 + other[i].first, other[i].num_first, 1)
             /\ Slice(at + items[i].second, items[i].num_second, 1)
                  = Slice(0 + other[i].second, other[i].num_second, 1)
  <2>1. i \in 1 .. Len(other)
    BY <1>2
  <2>2. other[i].first \in Nat /\ other[i].second \in Nat
    BY <2>1, ItemFields
  <2>3. 0 + other[i].first = at + items[i].first /\ 0 + other[i].second = at + items[i].second
    BY <2>2, SMTT(30)
  <2> QED
    BY <2>3
<1> QED
  BY <1>1, <1>2, Zenon DEF SlicesOf

\* The views of the second parse of a legacy or v0 transaction are the views of
\* the first.
LEMMA LegacyViews ==
  ASSUME RunInv, LegacyParse, pc = "done"
  PROVE  /\ MessageView(frame, yielded, base) = MessageView(first.frame, first.yielded, 0)
         /\ entry # "message" =>
               TransactionView(frame, yielded) = TransactionView(first.frame, first.yielded)
<1> DEFINE g == first.frame
           gi == first.yielded
<1>1. ParsingAgain /\ g.version # "v1" /\ SameItems /\ TypeOK
  BY DEF LegacyParse, LegacyAgain, ParsingAgain
<1>2. /\ frame.version # "v1" /\ frame.writable = g.writable /\ frame.readonly = g.readonly
  BY DEF LegacyParse, LegacyAgain, Viewed
<1>3. AtLegacyView
  BY <1>2 DEF RunInv, Viewed
<1>4. /\ LegacyKnown(entry, base, bytes, frame, parsed) /\ LegacyEnds(entry, frame, parsed, len)
      /\ Len(yielded) = Len(parsed) /\ \A i \in 1 .. Len(yielded) : yielded[i] = parsed[i]
  BY <1>3 DEF AtLegacyView
<1>5. /\ frame \in Frame /\ parsed \in Seq(Item) /\ yielded \in Seq(Item)
      /\ g \in Frame /\ gi \in Seq(Item) /\ base \in Nat
  BY <1>1 DEF TypeOK, ParsingAgain
<1>6. yielded = parsed
  BY <1>4, <1>5, SMTT(30)
<1>7. /\ frame.version = g.version /\ frame.num_instructions = g.num_instructions
      /\ frame.num_lookups = g.num_lookups /\ Len(parsed) = Len(gi)
      /\ base + LegacyEnd(frame, parsed) = g.end_offset
  BY <1>1, <1>4, EndAgain, ZenonT(30)
<1>8. PreludeKnown(entry, base, bytes, frame)
  BY <1>4 DEF LegacyKnown
<1>9. /\ frame.num_keys = g.num_keys /\ base + frame.hash_offset = g.hash_offset
      /\ base + MessageAt(entry, frame) = MessageAt(first.entry, g)
      /\ base + CountOfKeysAt(entry, frame) = CountOfKeysAt(first.entry, g)
      /\ (entry # "message" => frame.num_signatures = g.num_signatures)
  BY <1>1, <1>8, KeysAgain, HeaderAgain, SignaturesAgain, ZenonT(30) DEF PreludeKnown
<1>10. /\ frame.message_offset = MessageAt(entry, frame)
       /\ frame.keys_offset = CountOfKeysAt(entry, frame) + 1
  BY <1>4, <1>5, LegacyPlaces, ZenonT(30)
<1>11. /\ LegacyKnown(first.entry, 0, bytes, g, gi)
       /\ LegacyEnds(first.entry, g, gi, g.data_len) /\ first.entry # "message"
       /\ base = IF entry = "message" THEN MessageAt(first.entry, g) ELSE 0
  BY <1>1, OldMessage
<1>12. g.message_offset = MessageAt(first.entry, g)
       /\ g.keys_offset = CountOfKeysAt(first.entry, g) + 1
  BY <1>5, <1>11, LegacyPlaces, SMTT(30)
<1>13. /\ frame.end_offset = LegacyEnd(frame, parsed) /\ frame.data_len = frame.end_offset
       /\ g.data_len = g.end_offset
  BY <1>4, <1>11 DEF LegacyEnds
<1>14. /\ MessageAt(entry, frame) \in Nat /\ CountOfKeysAt(entry, frame) \in Nat
       /\ frame.end_offset \in Nat /\ g.end_offset \in Nat /\ g.hash_offset \in Nat
       /\ MessageAt(first.entry, g) \in Nat /\ CountOfKeysAt(first.entry, g) \in Nat
  BY <1>5, MessagePlace, FrameFields
<1>15. /\ base + frame.keys_offset = 0 + g.keys_offset
       /\ base + frame.message_offset = 0 + g.message_offset
       /\ base + frame.hash_offset = 0 + g.hash_offset
  <2> DEFINE a == CountOfKeysAt(entry, frame)
             b == CountOfKeysAt(first.entry, g)
  <2>1. a \in Nat /\ b \in Nat /\ base + a = b /\ frame.keys_offset = a + 1 /\ g.keys_offset = b + 1
    BY <1>9, <1>10, <1>12, <1>14
  <2> HIDE DEF a, b
  <2>2. base + frame.keys_offset = 0 + g.keys_offset
    BY <1>5, <2>1, SMTT(30)
  <2> QED
    BY <1>9, <1>10, <1>12, <1>14, <2>2, SMTT(30)
<1>16. frame.end_offset - frame.message_offset = g.end_offset - g.message_offset
  <2> DEFINE x == MessageAt(entry, frame)
             y == MessageAt(first.entry, g)
             u == frame.end_offset
             v == g.end_offset
  <2>1. /\ x \in Nat /\ y \in Nat /\ u \in Nat /\ v \in Nat /\ base + x = y /\ base + u = v
        /\ frame.message_offset = x /\ g.message_offset = y
    BY <1>7, <1>9, <1>10, <1>12, <1>13, <1>14, ZenonT(30)
  <2> HIDE DEF x, y, u, v
  <2>2. u - x = v - y
    BY <1>5, <2>1, SMTT(30)
  <2> QED
    BY <2>1, <2>2 DEF u, v
<1>17. SlicesOf(yielded, base) = SlicesOf(gi, 0)
  <2>1. \A i \in 1 .. Len(parsed) : /\ gi[i].first = base + parsed[i].first
                                    /\ gi[i].num_first = parsed[i].num_first
                                    /\ gi[i].second = base + parsed[i].second
                                    /\ gi[i].num_second = parsed[i].num_second
    BY <1>1 DEF SameItems, SameItem
  <2> QED
    BY <1>5, <1>6, <1>7, <2>1, SlicesAgree, ZenonT(30)
<1>18. MessageView(frame, yielded, base) = MessageView(g, gi, 0)
  <2>1. g.version # "v1" /\ frame.writable = g.writable /\ frame.readonly = g.readonly
    BY <1>1, <1>2, Zenon
  <2>2. /\ frame.version = g.version /\ frame.num_keys = g.num_keys
        /\ frame.num_instructions = g.num_instructions /\ frame.num_lookups = g.num_lookups
    BY <1>7, <1>9, Zenon
  <2> HIDE DEF g, gi
  <2> QED
    BY <1>15, <1>16, <1>17, <2>1, <2>2, ViewsAgree, SMTT(30)
<1>19. ASSUME entry # "message"
       PROVE  TransactionView(frame, yielded) = TransactionView(g, gi)
  <2>1. base = 0 /\ base + frame.end_offset = g.end_offset
    BY <1>7, <1>11, <1>13, <1>19, Zenon
  <2>2. frame.data_len = g.data_len /\ frame.num_signatures = g.num_signatures
    BY <1>9, <1>13, <1>14, <1>19, <2>1, SMTT(30)
  <2>3. frame.signature_offset = 1 /\ g.signature_offset = 1
    BY <1>8, <1>11, <1>19, ZenonT(30) DEF LegacyKnown, PreludeKnown, SignaturesKnown
  <2>4. MessageView(frame, yielded, 0) = MessageView(g, gi, 0)
    BY <1>18, <2>1
  <2> QED
    BY <2>2, <2>3, <2>4, Zenon DEF TransactionView
<1> QED
  BY <1>18, <1>19
=============================================================================
