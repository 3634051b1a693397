-------------------------- MODULE LegacyParseProofs ---------------------------
(*****************************************************************************)
(* The steps of a parse of a legacy or v0 transaction, and of the iterators  *)
(* over it, keep RunInv.                                                     *)
(*****************************************************************************)
EXTENDS TransactionFrameLemmas

\* A leaf that names no prover is given to Zenon.
USE ZenonT(30)

\* TransactionFrame::try_new and try_new_as_message choose the format.
LEMMA RunChooseFormat ==
  ASSUME RunInv, ChooseFormat
  PROVE  RunInv'
<1>1. TypeOK /\ AtStart /\ pc = "start"
  BY DEF ChooseFormat, RunInv
<1>2. UNCHANGED <<slice, offset, cursor, rest, sum, frame, parsed, yielded, first>>
  BY DEF ChooseFormat
<1>3. AtStart'
  BY <1>1, <1>2 DEF AtStart, Reset
<1>4. CASE len = 0
  <2>1. /\ bytes' = bytes /\ pc' = IF entry = "message" THEN "header" ELSE "error"
    BY <1>4 DEF ChooseFormat
  <2>2. TypeOK'
    BY <1>1, <1>2, <2>1 DEF TypeOK, slice
  <2>3. entry = "message" => AtHeader'
    <3>1. SUFFICES ASSUME entry = "message" PROVE AtHeader'
      OBVIOUS
    <3>2. entry' = "message" /\ frame' = NoFrame /\ offset' = 0
      BY <1>2, <1>3, <3>1 DEF slice, AtStart
    <3>3. MessageAt(entry', frame') = 0 /\ SignaturesKnown(entry', base', bytes', frame')
      BY <3>2, NoFrameIsFrame, Sizes, SMTT(30) DEF MessageAt, SignaturesKnown
    <3> QED
      BY <1>3, <3>2, <3>3, NoFrameIsFrame DEF AtHeader, NoInstructions, AtStart
  <2> QED
    BY <2>1, <2>2, <2>3 DEF RunInv, Viewed
<1>5. CASE len # 0
  <2>1. PICK b \in ByteAt(0) :
          /\ bytes' = Seen(0, <<b>>)
          /\ pc' = CASE entry = "message" /\ b = V1_PREFIX -> "v1_prefix"
                     [] entry = "message" /\ b # V1_PREFIX -> "header"
                     [] entry # "message" /\ b < MSB -> "signatures"
                     [] OTHER -> "v1_prefix"
    BY <1>5 DEF ChooseFormat
  <2>2. IsBytes(bytes')
    BY <1>1, <2>1, SeenByte DEF TypeOK
  <2>3. pc' \in {"v1_prefix", "header", "signatures"}
    BY <2>1
  <2>4. TypeOK'
    BY <1>1, <1>2, <2>2, <2>3 DEF TypeOK, slice
  <2>5. CASE pc' = "v1_prefix"
    BY <1>3, <2>4, <2>5 DEF RunInv, Viewed, AtV1Prefix
  <2>6. CASE pc' = "signatures"
    <3>1. entry' # "message"
      BY <1>2, <2>1, <2>6 DEF slice
    <3>2. len' > 0
      BY <1>1, <1>2, <1>5, Sizes, SMTT(30) DEF slice, TypeOK
    <3> QED
      BY <1>3, <2>4, <2>6, <3>1, <3>2 DEF RunInv, Viewed, AtSignatures
  <2>7. CASE pc' = "header"
    <3>1. entry' = "message"
      BY <1>2, <2>1, <2>7 DEF slice
    <3>2. frame' = NoFrame /\ offset' = 0
      BY <1>3 DEF AtStart
    <3>3. MessageAt(entry', frame') = 0 /\ SignaturesKnown(entry', base', bytes', frame')
      BY <3>1, <3>2, NoFrameIsFrame, Sizes, SMTT(30) DEF MessageAt, SignaturesKnown
    <3>4. AtHeader'
      BY <1>3, <3>2, <3>3, NoFrameIsFrame DEF AtHeader, NoInstructions, AtStart
    <3> QED
      BY <2>4, <2>7, <3>4 DEF RunInv, Viewed
  <2> QED
    BY <2>3, <2>5, <2>6, <2>7
<1> QED
  BY <1>4, <1>5

\* SignatureFrame::try_new.
LEMMA RunParseSignatures ==
  ASSUME RunInv, ParseSignatures
  PROVE  RunInv'
<1>1. TypeOK /\ AtSignatures
  BY DEF ParseSignatures, RunInv
<1>2. PICK n \in ByteAt(0) :
        IF n = 0 \/ n >= MSB \/ ~Remaining(1, n * SignatureSize)
        THEN Fail
        ELSE /\ bytes' = Seen(0, <<n>>)
             /\ frame' = [frame EXCEPT !.num_signatures = n, !.signature_offset = AsU16(1)]
             /\ offset' = 1 + n * SignatureSize
             /\ pc' = "header"
             /\ UNCHANGED <<slice, cursor, rest, sum, parsed, yielded, first>>
  BY Zenon DEF ParseSignatures
<1>3. CASE Fail
  BY <1>3, RunFail
<1>4. CASE ~Fail
  <2>1. /\ n # 0 /\ ~(n >= MSB) /\ Remaining(1, n * SignatureSize)
        /\ bytes' = Seen(0, <<n>>)
        /\ frame' = [frame EXCEPT !.num_signatures = n, !.signature_offset = AsU16(1)]
        /\ offset' = 1 + n * SignatureSize
        /\ pc' = "header"
        /\ UNCHANGED <<slice, cursor, rest, sum, parsed, yielded, first>>
    BY <1>2, <1>4
  <2>2. IsBytes(bytes) /\ base \in Nat /\ len \in 0 .. MaxLen /\ len > 0 /\ len \in Nat
    BY <1>1, SMTT(30) DEF TypeOK, AtSignatures
  <2>3. n \in Byte
    BY <2>2, ReadByte
  <2>4. n \in Nat /\ n \in 1 .. MSB - 1 /\ n * SignatureSize \in Nat
    BY <2>1, <2>3, Sizes, SMTT(30) DEF Byte
  <2>5. 1 + n * SignatureSize \in 0 .. len
    <3>1. 1 \in 0 .. len
      BY <2>2, SMTT(30)
    <3>2. 1 + n * SignatureSize <= len
      BY <2>1, <2>2, <2>4, <3>1, RemainingIs
    <3> QED
      BY <2>2, <2>4, <3>2, SMTT(30)
  <2>6. AsU16(1) = 1
    BY Sizes, AsU16Is
  <2>7. IsBytes(bytes') /\ Known(bytes', base, n)
    <3>1. base + 0 = base
      BY <2>2, SMTT(30)
    <3> QED
      BY <2>1, <2>2, <3>1, SeenByte
  <2>8. frame = NoFrame
    BY <1>1 DEF AtSignatures, AtStart
  <2>9. /\ frame' \in Frame /\ frame'.num_signatures = n /\ frame'.signature_offset = 1
        /\ frame'.frames = <<>> /\ NoLookups(frame')
    <3>1. /\ frame' \in Frame /\ frame'.num_signatures = n /\ frame'.signature_offset = 1
          /\ frame'.frames = frame.frames /\ frame'.num_lookups = frame.num_lookups
          /\ frame'.writable = frame.writable /\ frame'.readonly = frame.readonly
      <4>1. frame \in Frame
        BY <1>1 DEF TypeOK
      <4>2. frame' = [frame EXCEPT !.num_signatures = n, !.signature_offset = 1]
        BY <2>1, <2>6, Zenon
      <4> QED
        BY <2>4, <4>1, <4>2, Zenon DEF Frame
    <3> QED
      BY <2>8, <3>1, NoFrameIsFrame DEF NoLookups
  <2>10. TypeOK'
    BY <1>1, <2>1, <2>5, <2>7, <2>9 DEF TypeOK, slice
  <2>11. entry' # "message" /\ base' = base
    BY <1>1, <2>1 DEF AtSignatures, slice
  <2>12. AtHeader'
    <3>1. NoInstructions'
      BY <1>1, <2>1, <2>9 DEF AtSignatures, AtStart, NoInstructions, Reset
    <3>2. SignaturesKnown(entry', base', bytes', frame')
      BY <2>4, <2>7, <2>9, <2>11 DEF SignaturesKnown
    <3>3. offset' = MessageAt(entry', frame')
      BY <2>1, <2>9, <2>11 DEF MessageAt
    <3> QED
      BY <3>1, <3>2, <3>3 DEF AtHeader
  <2> QED
    BY <2>1, <2>10, <2>12 DEF RunInv, Viewed
<1> QED
  BY <1>3, <1>4

\* MessageHeaderFrame::try_new.
LEMMA RunParseHeader ==
  ASSUME RunInv, ParseHeader
  PROVE  RunInv'
<1>1. TypeOK /\ AtHeader /\ frame \in Frame
  BY Zenon DEF ParseHeader, RunInv, TypeOK
<1>2. CASE Fail
  BY <1>2, RunFail
<1>3. CASE ~Fail
  <2>1. PICK b \in ByteAt(offset) :
          LET size == IF b < MSB THEN 3 ELSE 4
          IN  /\ ~(offset >= len) /\ ~(b > MSB) /\ ~(offset + size > len)
              /\ bytes' = Seen(offset, <<b>>)
              /\ frame' = [frame EXCEPT !.version = IF b < MSB THEN "legacy" ELSE "v0",
                                        !.message_offset = AsU16(offset)]
              /\ offset' = offset + size
              /\ pc' = "keys"
              /\ UNCHANGED <<slice, cursor, rest, sum, parsed, yielded, first>>
    BY <1>3, Zenon DEF ParseHeader
  <2> DEFINE size == IF b < MSB THEN 3 ELSE 4
             version == IF b < MSB THEN "legacy" ELSE "v0"
  <2>2. /\ ~(b > MSB) /\ ~(offset + size > len)
        /\ bytes' = Seen(offset, <<b>>)
        /\ frame' = [frame EXCEPT !.version = version, !.message_offset = AsU16(offset)]
        /\ offset' = offset + size
        /\ pc' = "keys"
        /\ UNCHANGED <<slice, cursor, rest, sum, parsed, yielded, first>>
    BY <2>1
  <2>3. /\ IsBytes(bytes) /\ base \in Nat /\ len \in 0 .. MaxLen /\ len \in Nat
        /\ offset \in Nat
    BY <1>1, SMTT(30) DEF TypeOK
  <2>4. b \in Byte
    BY <2>3, ReadByte
  <2>5. /\ b \in Nat /\ size \in 3 .. 4 /\ version \in {"legacy", "v0"}
        /\ (version = "legacy" /\ b \in 0 .. MSB - 1 /\ size = 3)
             \/ (version = "v0" /\ b = MSB /\ size = 4)
    BY <2>2, <2>4, Sizes, SMTT(30) DEF Byte
  <2> HIDE DEF size, version
  <2>6. offset + size \in 0 .. len
    BY <2>2, <2>3, <2>5, SMTT(30)
  <2>7. IsBytes(bytes') /\ Grown(bytes, bytes') /\ Known(bytes', base + offset, b)
    BY <2>2, <2>3, SeenByte
  <2>8. AsU16(offset) \in Nat
    BY <2>3, AsU16Nat
  <2>9. /\ frame' \in Frame /\ frame'.version = version
        /\ frame'.message_offset = AsU16(offset)
        /\ frame'.num_signatures = frame.num_signatures
        /\ frame'.signature_offset = frame.signature_offset
        /\ frame'.frames = frame.frames /\ frame'.num_lookups = frame.num_lookups
        /\ frame'.writable = frame.writable /\ frame'.readonly = frame.readonly
    BY <1>1, <2>2, <2>5, <2>8, Zenon DEF Frame
  <2>10. TypeOK'
    BY <1>1, <2>2, <2>6, <2>7, <2>9 DEF TypeOK, slice
  <2>11. AtKeys'
    <3>1. NoInstructions'
      BY <1>1, <2>2, <2>9 DEF AtHeader, NoInstructions, Reset, NoLookups
    <3>2. SignaturesKnown(entry, base, bytes', frame)
      BY <1>1, <2>7, GrownKeeps, SignaturesKept DEF AtHeader
    <3>3. SignaturesKnown(entry', base', bytes', frame')
      BY <2>2, <2>9, <3>2 DEF SignaturesKnown, slice
    <3>4. offset = MessageAt(entry', frame')
      BY <1>1, <2>2, <2>9 DEF AtHeader, MessageAt, slice
    <3>5. HeaderKnown(entry', base', bytes', frame')
      BY <2>2, <2>5, <2>7, <2>9, <3>4 DEF HeaderKnown, slice
    <3>6. offset' = CountOfKeysAt(entry', frame')
      BY <2>2, <2>5, <2>9, <3>4 DEF CountOfKeysAt
    <3> QED
      BY <3>1, <3>3, <3>5, <3>6 DEF AtKeys
  <2> QED
    BY <2>2, <2>10, <2>11 DEF RunInv, Viewed
<1> QED
  BY <1>2, <1>3

\* StaticAccountKeysFrame::try_new and the blockhash after the keys.
LEMMA RunParseKeys ==
  ASSUME RunInv, ParseKeys
  PROVE  RunInv'
<1>1. TypeOK /\ AtKeys /\ frame \in Frame
  BY Zenon DEF ParseKeys, RunInv, TypeOK
<1>2. CASE Fail
  BY <1>2, RunFail
<1>3. CASE ~Fail
  <2>1. PICK n \in ByteAt(offset) :
          LET hash == offset + 1 + n * KeySize
          IN  /\ ~(offset >= len)
              /\ n # 0 /\ ~(n > MAX_STATIC_ACCOUNTS) /\ Remaining(offset + 1, n * KeySize)
              /\ Fits(hash) /\ Remaining(hash, HashSize)
              /\ bytes' = Seen(offset, <<n>>)
              /\ frame' = [frame EXCEPT !.num_keys = n, !.keys_offset = AsU16(offset + 1),
                                        !.hash_offset = hash]
              /\ offset' = hash + HashSize
              /\ pc' = "instructions"
              /\ UNCHANGED <<slice, cursor, rest, sum, parsed, yielded, first>>
    BY <1>3, Zenon DEF ParseKeys
  <2> DEFINE hash == offset + 1 + n * KeySize
  <2>2. /\ ~(offset >= len)
        /\ n # 0 /\ ~(n > MAX_STATIC_ACCOUNTS) /\ Remaining(offset + 1, n * KeySize)
        /\ hash <= U16Max /\ Remaining(hash, HashSize)
        /\ bytes' = Seen(offset, <<n>>)
        /\ frame' = [frame EXCEPT !.num_keys = n, !.keys_offset = AsU16(offset + 1),
                                  !.hash_offset = hash]
        /\ offset' = hash + HashSize
        /\ pc' = "instructions"
        /\ UNCHANGED <<slice, cursor, rest, sum, parsed, yielded, first>>
    BY <2>1 DEF Fits
  <2>3. /\ IsBytes(bytes) /\ base \in Nat /\ len \in 0 .. MaxLen /\ len \in Nat
        /\ offset \in Nat
    BY <1>1, SMTT(30) DEF TypeOK
  <2>4. n \in Nat /\ n * KeySize \in Nat
    BY <2>3, ReadByte, Product, Sizes, SMTT(30) DEF Byte
  <2>5. offset + 1 \in 0 .. len /\ hash \in Nat
    BY <2>2, <2>3, <2>4, SMTT(30)
  <2>6. hash \in 0 .. len
    BY <2>2, <2>3, <2>4, <2>5, RemainingIs, SMTT(30)
  <2>7. hash + HashSize \in 0 .. len
    <3>1. HashSize \in Nat
      BY Sizes
    <3>2. hash + HashSize <= len
      <4> HIDE DEF hash
      <4> QED
        BY <2>2, <2>3, <2>6, <3>1, RemainingIs
    <3> QED
      BY <2>3, <2>5, <3>1, <3>2, SMTT(30)
  <2> HIDE DEF hash
  <2>8. IsBytes(bytes') /\ Grown(bytes, bytes') /\ Known(bytes', base + offset, n)
    BY <2>2, <2>3, SeenByte
  <2>9. AsU16(offset + 1) \in Nat
    BY <2>3, AsU16Nat, SMTT(30)
  <2>10. /\ frame' \in Frame /\ frame'.num_keys = n
         /\ frame'.keys_offset = AsU16(offset + 1) /\ frame'.hash_offset = hash
         /\ frame'.version = frame.version /\ frame'.message_offset = frame.message_offset
         /\ frame'.num_signatures = frame.num_signatures
         /\ frame'.signature_offset = frame.signature_offset
         /\ frame'.frames = frame.frames /\ frame'.num_lookups = frame.num_lookups
         /\ frame'.writable = frame.writable /\ frame'.readonly = frame.readonly
    BY <1>1, <2>2, <2>4, <2>5, <2>9, Zenon DEF Frame
  <2>11. TypeOK'
    BY <1>1, <2>2, <2>7, <2>8, <2>10 DEF TypeOK, slice
  <2>12. AtInstructions'
    <3>1. NoInstructions'
      BY <1>1, <2>2, <2>10 DEF AtKeys, NoInstructions, Reset, NoLookups
    <3>2. SignaturesKnown(entry, base, bytes', frame) /\ HeaderKnown(entry, base, bytes', frame)
      BY <1>1, <2>8, GrownKeeps, SignaturesKept, HeaderKept DEF AtKeys
    <3>3. /\ MessageAt(entry', frame') = MessageAt(entry, frame)
          /\ CountOfKeysAt(entry', frame') = CountOfKeysAt(entry, frame)
      BY <2>2, <2>10 DEF MessageAt, CountOfKeysAt, slice
    <3>4. SignaturesKnown(entry', base', bytes', frame')
      BY <2>2, <2>10, <3>2 DEF SignaturesKnown, slice
    <3>5. HeaderKnown(entry', base', bytes', frame')
      BY <2>2, <2>10, <3>2, <3>3 DEF HeaderKnown, slice
    <3>6. offset = CountOfKeysAt(entry', frame')
      BY <1>1, <3>3 DEF AtKeys
    <3>7. KeysKnown(entry', base', bytes', frame')
      BY <2>2, <2>8, <2>10, <3>6 DEF KeysKnown, slice, hash
    <3> QED
      BY <2>2, <2>10, <3>1, <3>4, <3>5, <3>7 DEF AtInstructions, PreludeKnown
  <2> QED
    BY <2>2, <2>11, <2>12 DEF RunInv, Viewed
<1> QED
  BY <1>2, <1>3

\* What the prelude says of a frame whose later fields change.
SamePrelude(f, g) ==
    /\ g.version = f.version /\ g.message_offset = f.message_offset
    /\ g.num_signatures = f.num_signatures /\ g.signature_offset = f.signature_offset
    /\ g.num_keys = f.num_keys /\ g.keys_offset = f.keys_offset
    /\ g.hash_offset = f.hash_offset

\* What is known of the prelude is known of a frame with the same prelude.
LEMMA SamePreludeKnown ==
  ASSUME NEW e, NEW at, NEW m, NEW f, NEW g, SamePrelude(f, g), PreludeKnown(e, at, m, f)
  PROVE  PreludeKnown(e, at, m, g)
<1>1. MessageAt(e, g) = MessageAt(e, f) /\ CountOfKeysAt(e, g) = CountOfKeysAt(e, f)
  BY DEF SamePrelude, MessageAt, CountOfKeysAt
<1>2. SignaturesKnown(e, at, m, g)
  BY DEF SamePrelude, PreludeKnown, SignaturesKnown
<1>3. HeaderKnown(e, at, m, g)
  BY <1>1 DEF SamePrelude, PreludeKnown, HeaderKnown
<1>4. KeysKnown(e, at, m, g)
  BY <1>1 DEF SamePrelude, PreludeKnown, KeysKnown
<1> QED
  BY <1>2, <1>3, <1>4 DEF PreludeKnown

\* InstructionsFrame::try_new reads the count of instructions.
LEMMA RunParseInstructions ==
  ASSUME RunInv, ParseInstructions
  PROVE  RunInv'
<1>1. TypeOK /\ AtInstructions /\ frame \in Frame /\ Reading
  BY DEF ParseInstructions, RunInv, TypeOK, Reading
<1>2. CASE Fail
  BY <1>2, RunFail
<1>3. CASE ~Fail
  <2>1. PICK n \in CountedArray(offset, 3) :
          /\ n.ok
          /\ bytes' = n.seen
          /\ offset' = n.at
          /\ frame' = [frame EXCEPT !.num_instructions = n.count,
                                    !.instructions_offset = AsU16(n.at)]
          /\ rest' = n.count
          /\ pc' = "instruction"
          /\ UNCHANGED <<slice, cursor, sum, parsed, yielded, first>>
    BY <1>3, Zenon DEF ParseInstructions
  <2>2. /\ n.count \in Nat /\ n.width \in 1 .. 2
        /\ n.at = offset + n.width /\ n.at \in Nat /\ n.at <= len
        /\ n.at + 3 * n.count <= len
        /\ Decoded(n.seen, base + offset, n.count, n.width)
        /\ IsBytes(n.seen) /\ Grown(bytes, n.seen)
    <3>1. offset \in 0 .. len
      BY <1>1 DEF TypeOK
    <3> QED
      BY <1>1, <2>1, <3>1, CountedOk
  <2>3. n.width = Width(n.count)
    BY <2>2, DecodedWidth
  <2>4. AsU16(n.at) \in Nat
    BY <2>2, AsU16Nat
  <2>5. /\ frame' \in Frame /\ frame'.num_instructions = n.count
        /\ frame'.instructions_offset = AsU16(n.at) /\ SamePrelude(frame, frame')
        /\ frame'.frames = frame.frames /\ frame'.num_lookups = frame.num_lookups
        /\ frame'.writable = frame.writable /\ frame'.readonly = frame.readonly
    BY <1>1, <2>1, <2>2, <2>4, Zenon DEF Frame, SamePrelude
  <2>6. len \in Nat /\ offset \in Nat
    BY <1>1, SMTT(30) DEF TypeOK
  <2>7. n.at \in 0 .. len
    BY <2>2, <2>6, SMTT(30)
  <2>8. TypeOK'
    BY <1>1, <2>1, <2>2, <2>5, <2>7 DEF TypeOK, slice
  <2>9. PreludeKnown(entry', base', bytes', frame')
    <3>1. PreludeKnown(entry, base, bytes', frame)
      BY <1>1, <2>1, <2>2, GrownKeeps, PreludeKept, SMTT(30) DEF AtInstructions, Reading
    <3>2. PreludeKnown(entry, base, bytes', frame')
      BY <2>5, <3>1, SamePreludeKnown
    <3> QED
      BY <2>1, <3>2 DEF slice
  <2>10. parsed' = <<>> /\ yielded' = <<>> /\ frame'.frames = <<>> /\ NoLookups(frame')
    BY <1>1, <2>1, <2>5 DEF AtInstructions, NoInstructions, Reset, NoLookups
  <2>11. offset = frame'.hash_offset + HashSize /\ n.at = InstructionsAt(frame')
    BY <1>1, <2>2, <2>3, <2>5 DEF AtInstructions, SamePrelude, InstructionsAt
  <2>12. InstructionsKnown(base', bytes', frame', parsed')
    <3>1. CountKnown(base', bytes', frame')
      BY <2>1, <2>2, <2>3, <2>5, <2>11 DEF CountKnown, slice
    <3>2. Len(parsed') = 0 /\ Len(frame'.frames) = 0
      BY <2>10
    <3>3. ItemsKnown(base', bytes', frame', parsed') /\ FramesMatch(frame', parsed')
      BY <3>2, SMTT(30) DEF ItemsKnown, FramesMatch
    <3>4. EndOf(frame', parsed', 0) = InstructionsAt(frame') /\ InstructionsAt(frame') \in Nat
      BY <2>5, InstructionsPlace DEF EndOf
    <3>5. Spaced(frame', parsed')
      <4>1. \A k \in 0 .. Len(parsed') : k = 0
        BY <3>2, SMTT(30)
      <4>2. \A k \in frame'.num_instructions + 1 .. Len(parsed') : FALSE
        BY <2>2, <2>5, <3>2, SMTT(30)
      <4> QED
        BY <3>4, <4>1, <4>2, SMTT(30) DEF Spaced
    <3> QED
      BY <3>1, <3>3, <3>5 DEF InstructionsKnown
  <2>13. AtInstruction'
    <3>1. Len(parsed') = 0 /\ Len(frame'.frames) = 0
      BY <2>10
    <3>2. Len(parsed') + rest' = frame'.num_instructions
      BY <2>1, <2>2, <2>5, <3>1, SMTT(30)
    <3>3. offset' = EndOf(frame', parsed', Len(parsed'))
      BY <2>1, <2>11, <3>1 DEF EndOf
    <3>4. InstructionsFit(frame', len')
      BY <2>1, <2>2, <2>5, <2>11 DEF InstructionsFit, slice
    <3> QED
      BY <2>9, <2>10, <2>12, <3>1, <3>2, <3>3, <3>4 DEF AtInstruction
  <2> QED
    BY <2>1, <2>8, <2>13 DEF RunInv, Viewed
<1> QED
  BY <1>2, <1>3

\* The same instructions, as far as their places go.
SamePlaces(f, g) ==
    /\ g.hash_offset = f.hash_offset /\ g.num_instructions = f.num_instructions
    /\ g.instructions_offset = f.instructions_offset

\* One lookup more takes its room.
LEMMA OneMore ==
  ASSUME NEW x \in Nat, NEW y \in Nat
  PROVE  x * (y + 1) = x * y + x /\ x * y \in Nat
BY SMTT(30)

\* An item is known when its counts are.
NewItem(at, n, f, items, it) ==
    LET counted == it.start + BeforeCounts(f, Len(items) + 1)
        again == it.first + it.num_first
    IN  /\ it.start = StartOf(f, items, Len(items) + 1)
        /\ Decoded(n, at + counted, it.num_first, it.first - counted)
        /\ Decoded(n, at + again, it.num_second, it.second - again)

\* How much room it takes.
LEMMA NewItemRoom ==
  ASSUME NEW at, NEW n, NEW f \in Frame, NEW items \in Seq(Item), NEW it \in Item,
         NewItem(at, n, f, items, it)
  PROVE  /\ it.second + it.num_second \in Nat
         /\ it.second + it.num_second
              >= it.start + BeforeCounts(f, Len(items) + 1) + 2 + it.num_first + it.num_second
         /\ it.start \in Nat /\ it.start >= EndOf(f, items, Len(items))
         /\ EndOf(f, items, Len(items)) \in Nat
<1>1. /\ it.start \in Nat /\ it.first \in Nat /\ it.num_first \in Nat
      /\ it.second \in Nat /\ it.num_second \in Nat
  BY DEF Item
<1> DEFINE b == BeforeCounts(f, Len(items) + 1)
<1>2. b \in Nat /\ b >= 1
  BY Sizes, SMTT(30) DEF BeforeCounts
<1> HIDE DEF b
<1>3. it.first - (it.start + b) \in 1 .. 2
  BY DecodedWidth DEF NewItem, b
<1>4. it.second - (it.first + it.num_first) \in 1 .. 2
  BY DecodedWidth DEF NewItem
<1>5. Len(items) \in 0 .. Len(items)
  BY SMTT(30)
<1>6. EndOf(f, items, Len(items)) \in Nat /\ it.start >= EndOf(f, items, Len(items))
  BY <1>5, EndPlaces DEF NewItem
<1>7. it.second + it.num_second >= it.start + b + 2 + it.num_first + it.num_second
  <2> DEFINE s == it.start
             p == it.first
             u == it.num_first
             q == it.second
             v == it.num_second
  <2>1. /\ s \in Nat /\ p \in Nat /\ u \in Nat /\ q \in Nat /\ v \in Nat
        /\ p - (s + b) \in 1 .. 2 /\ q - (p + u) \in 1 .. 2
    BY <1>1, <1>3, <1>4
  <2> HIDE DEF s, p, u, q, v
  <2>2. p >= s + b + 1 /\ q >= p + u + 1
    BY <1>2, <2>1, SMTT(30)
  <2>3. q + v >= s + b + 2 + u + v
    BY <1>2, <2>1, <2>2, SMTT(30)
  <2> QED
    BY <2>3 DEF s, u, q, v
<1> QED
  BY <1>1, <1>6, <1>7, SMTT(30) DEF b

\* The places of the items before stay.
LEMMA AppendPlaces ==
  ASSUME NEW f \in Frame, NEW g, SamePlaces(f, g), NEW items \in Seq(Item), NEW it \in Item
  PROVE  /\ Append(items, it) \in Seq(Item) /\ Len(Append(items, it)) = Len(items) + 1
         /\ \A i \in 1 .. Len(items) : Append(items, it)[i] = items[i]
         /\ Append(items, it)[Len(items) + 1] = it
         /\ InstructionsAt(g) = InstructionsAt(f)
         /\ \A k \in 0 .. Len(items) : EndOf(g, Append(items, it), k) = EndOf(f, items, k)
         /\ EndOf(g, Append(items, it), Len(items) + 1) = it.second + it.num_second
         /\ \A k \in 1 .. Len(items) + 1 :
                StartOf(g, Append(items, it), k) = StartOf(f, items, k)
<1> DEFINE new == Append(items, it)
<1>1. new \in Seq(Item) /\ Len(new) = Len(items) + 1 /\ Len(items) \in Nat
  BY SMTT(30)
<1>2. (\A i \in 1 .. Len(items) : new[i] = items[i]) /\ new[Len(items) + 1] = it
  BY SMTT(30)
<1> HIDE DEF new
<1>3. InstructionsAt(g) = InstructionsAt(f)
  BY DEF SamePlaces, InstructionsAt
<1>4. \A k \in 0 .. Len(items) : EndOf(g, new, k) = EndOf(f, items, k)
  <2> TAKE k \in 0 .. Len(items)
  <2>1. k # 0 => new[k] = items[k]
    BY <1>2, SMTT(30)
  <2> QED
    BY <1>3, <2>1 DEF EndOf
<1>5. EndOf(g, new, Len(items) + 1) = it.second + it.num_second
  <2>1. Len(items) + 1 # 0
    BY <1>1, SMTT(30)
  <2> QED
    BY <1>2, <2>1 DEF EndOf
<1>6. \A k \in 1 .. Len(items) + 1 : StartOf(g, new, k) = StartOf(f, items, k)
  <2> TAKE k \in 1 .. Len(items) + 1
  <2>1. k - 1 \in 0 .. Len(items)
    BY <1>1, SMTT(30)
  <2> QED
    BY <1>4, <2>1 DEF StartOf, SamePlaces
<1> QED
  BY <1>1, <1>2, <1>3, <1>4, <1>5, <1>6 DEF new

\* The counts of one item more.
LEMMA AppendKnown ==
  ASSUME NEW at \in Nat, NEW m, NEW n, Grown(m, n), NEW f \in Frame, NEW g,
         SamePlaces(f, g), NEW items \in Seq(Item), NEW it \in Item,
         CountKnown(at, m, f), ItemsKnown(at, m, f, items), Spaced(f, items),
         NewItem(at, n, f, items, it)
  PROVE  CountKnown(at, n, g) /\ ItemsKnown(at, n, g, Append(items, it))
<1> DEFINE new == Append(items, it)
<1>1. /\ new \in Seq(Item) /\ Len(new) = Len(items) + 1 /\ Len(items) \in Nat
      /\ \A i \in 1 .. Len(items) : new[i] = items[i]
      /\ new[Len(items) + 1] = it
      /\ InstructionsAt(g) = InstructionsAt(f)
      /\ \A k \in 1 .. Len(items) + 1 : StartOf(g, new, k) = StartOf(f, items, k)
  BY AppendPlaces, SMTT(30)
<1> HIDE DEF new
<1>2. CountKnown(at, n, f) /\ ItemsKnown(at, n, f, items)
  BY GrownKeeps, CountKept, ItemsKept
<1>3. CountKnown(at, n, g)
  BY <1>1, <1>2 DEF CountKnown, SamePlaces
<1>4. \A k \in 1 .. Len(new) : BeforeCounts(g, k) = BeforeCounts(f, k)
  BY DEF BeforeCounts, SamePlaces
<1>5. ASSUME NEW k \in 1 .. Len(items) PROVE ItemKnown(at, n, g, new, k)
  <2>1. ItemKnown(at, n, f, items, k)
    BY <1>2 DEF ItemsKnown
  <2>2. new[k] = items[k] /\ BeforeCounts(g, k) = BeforeCounts(f, k)
    BY <1>1, <1>4, SMTT(30)
  <2>3. StartOf(g, new, k) = StartOf(f, items, k)
    BY <1>1, SMTT(30)
  <2> QED
    BY <2>1, <2>2, <2>3 DEF ItemKnown
<1>6. ItemKnown(at, n, g, new, Len(items) + 1)
  <2>1. Len(items) + 1 \in 1 .. Len(new)
    BY <1>1, SMTT(30)
  <2>2. /\ new[Len(items) + 1] = it
        /\ BeforeCounts(g, Len(items) + 1) = BeforeCounts(f, Len(items) + 1)
        /\ StartOf(g, new, Len(items) + 1) = StartOf(f, items, Len(items) + 1)
    BY <1>1, <1>4, <2>1
  <2> QED
    BY <2>2 DEF ItemKnown, NewItem
<1>7. \A k \in 1 .. Len(new) : k \in 1 .. Len(items) \/ k = Len(items) + 1
  BY <1>1, SMTT(30)
<1>8. ItemsKnown(at, n, g, new)
  BY <1>5, <1>6, <1>7 DEF ItemsKnown
<1> QED
  BY <1>3, <1>8 DEF new

\* One item more still begins where the one before it ends and takes the room
\* that was asked for.
LEMMA AppendSpaced ==
  ASSUME NEW at, NEW n, NEW f \in Frame, NEW g,
         SamePlaces(f, g), NEW items \in Seq(Item), NEW it \in Item,
         Spaced(f, items), NewItem(at, n, f, items, it)
  PROVE  Spaced(g, Append(items, it))
<1> DEFINE new == Append(items, it)
           l == Len(items)
           end == it.second + it.num_second
           ni == f.num_instructions
<1>1. /\ new \in Seq(Item) /\ Len(new) = l + 1 /\ l \in Nat
      /\ \A i \in 1 .. l : new[i] = items[i]
      /\ new[l + 1] = it
      /\ InstructionsAt(g) = InstructionsAt(f)
      /\ \A k \in 0 .. l : EndOf(g, new, k) = EndOf(f, items, k)
      /\ EndOf(g, new, l + 1) = end
  BY AppendPlaces, SMTT(30)
<1>2. /\ end \in Nat /\ it.start \in Nat /\ it.start >= EndOf(f, items, l)
      /\ end >= it.start + BeforeCounts(f, l + 1) + 2 + it.num_first + it.num_second
      /\ EndOf(f, items, l) \in Nat
  BY NewItemRoom
<1>3. it.num_first \in Nat /\ it.num_second \in Nat /\ KeySize \in Nat /\ KeySize >= 1
  BY Sizes DEF Item
<1>4. ni \in Nat /\ InstructionsAt(f) \in Nat /\ g.num_instructions = ni
  BY FrameFields, InstructionsPlace DEF SamePlaces
<1>5. it.start = StartOf(f, items, l + 1)
  BY DEF NewItem
<1>6. /\ \A i, j \in 0 .. l : i <= j => EndOf(f, items, i) <= EndOf(f, items, j)
      /\ \A k \in 0 .. l : k <= ni => InstructionsAt(f) + 3 * k <= EndOf(f, items, k)
      /\ \A k \in ni + 1 .. l : (\A i \in ni + 1 .. k : HasIndexes(items, i)) =>
              EndOf(f, items, ni) + 1 + MIN_SIZED_ATL * (k - ni) <= EndOf(f, items, k)
  BY DEF Spaced
<1>7. \A k \in 0 .. l : EndOf(f, items, k) \in Nat
  BY EndPlaces
<1> HIDE DEF new, l, end, ni
<1>8. end >= EndOf(f, items, l)
  <2>1. BeforeCounts(f, l + 1) \in Nat
    BY Sizes DEF BeforeCounts
  <2>2. end >= it.start
    BY <1>2, <1>3, <2>1, SMTT(30)
  <2> QED
    BY <1>2, <2>2, SMTT(30)
<1>9. \A i, j \in 0 .. Len(new) : i <= j => EndOf(g, new, i) <= EndOf(g, new, j)
  <2> SUFFICES ASSUME NEW i \in 0 .. l + 1, NEW j \in 0 .. l + 1, i <= j
               PROVE  EndOf(g, new, i) <= EndOf(g, new, j)
    BY <1>1
  <2>1. CASE j = l + 1 /\ i = l + 1
    BY <1>1, <1>2, <2>1, SMTT(30)
  <2>2. CASE j = l + 1 /\ i # l + 1
    <3>1. i \in 0 .. l /\ l \in 0 .. l /\ i <= l
      BY <1>1, <2>2, SMTT(30)
    <3>2. EndOf(f, items, i) <= EndOf(f, items, l) /\ EndOf(f, items, i) \in Nat
      BY <1>6, <1>7, <3>1
    <3>3. EndOf(f, items, i) <= end
      BY <1>2, <1>8, <3>2, SMTT(30)
    <3> QED
      BY <1>1, <2>2, <3>1, <3>3
  <2>3. CASE j # l + 1
    <3>1. i \in 0 .. l /\ j \in 0 .. l
      BY <1>1, <2>3, SMTT(30)
    <3> QED
      BY <1>1, <1>6, <3>1
  <2> QED
    BY <2>1, <2>2, <2>3
<1>10. \A k \in 0 .. Len(new) :
          k <= ni => InstructionsAt(g) + 3 * k <= EndOf(g, new, k)
  <2> SUFFICES ASSUME NEW k \in 0 .. l + 1, k <= ni
               PROVE  InstructionsAt(f) + 3 * k <= EndOf(g, new, k)
    BY <1>1
  <2>1. CASE k = l + 1
    <3>1. BeforeCounts(f, l + 1) = 1
      BY <2>1 DEF BeforeCounts, ni
    <3>2. end >= EndOf(f, items, l) + 3
      BY <1>2, <1>3, <3>1, SMTT(30)
    <3>3. l \in 0 .. l /\ l <= ni
      BY <1>1, <1>4, <2>1, SMTT(30)
    <3>4. InstructionsAt(f) + 3 * l <= EndOf(f, items, l)
      BY <1>6, <3>3
    <3>5. InstructionsAt(f) + 3 * (l + 1) <= end
      BY <1>1, <1>2, <1>4, <3>2, <3>4, SMTT(30)
    <3> QED
      BY <1>1, <2>1, <3>5
  <2>2. CASE k # l + 1
    <3>1. k \in 0 .. l
      BY <1>1, <2>2, SMTT(30)
    <3> QED
      BY <1>1, <1>6, <3>1
  <2> QED
    BY <2>1, <2>2
<1>11. \A k \in ni + 1 .. Len(new) :
          (\A i \in ni + 1 .. k : HasIndexes(new, i)) =>
              EndOf(g, new, ni) + 1 + MIN_SIZED_ATL * (k - ni) <= EndOf(g, new, k)
  <2> SUFFICES ASSUME NEW k \in ni + 1 .. l + 1,
                      \A i \in ni + 1 .. k : HasIndexes(new, i)
               PROVE  EndOf(g, new, ni) + 1 + MIN_SIZED_ATL * (k - ni) <= EndOf(g, new, k)
    BY <1>1
  <2>1. ni \in 0 .. l /\ EndOf(g, new, ni) = EndOf(f, items, ni) /\ EndOf(f, items, ni) \in Nat
    <3>1. ni \in 0 .. l
      BY <1>1, <1>4, SMTT(30)
    <3> QED
      BY <1>1, <1>7, <3>1
  <2>2. MIN_SIZED_ATL \in Nat /\ MIN_SIZED_ATL = KeySize + 3
    BY <1>3, SMTT(30) DEF MIN_SIZED_ATL
  <2>3. CASE k = l + 1
    <3>1. BeforeCounts(f, l + 1) = KeySize
      <4>1. ~(l + 1 <= ni)
        BY <1>1, <1>4, <2>1, SMTT(30)
      <4> QED
        BY <4>1 DEF BeforeCounts, ni
    <3>2. it.num_first + it.num_second >= 1
      <4>1. k \in ni + 1 .. k
        BY <1>1, <1>4, SMTT(30)
      <4>2. HasIndexes(new, l + 1)
        BY <2>3, <4>1
      <4> QED
        BY <1>1, <1>3, <4>2, SMTT(30) DEF HasIndexes
    <3>3. end >= it.start + MIN_SIZED_ATL
      <4> DEFINE s == it.start
                 u == it.num_first
                 v == it.num_second
      <4>1. /\ s \in Nat /\ u \in Nat /\ v \in Nat /\ end \in Nat /\ KeySize \in Nat
            /\ end >= s + KeySize + 2 + u + v /\ u + v >= 1
        BY <1>2, <1>3, <3>1, <3>2
      <4> HIDE DEF s, u, v
      <4>2. end >= s + (KeySize + 3)
        BY <4>1, SMTT(30)
      <4> QED
        BY <2>2, <4>2 DEF s
    <3>4. CASE l = ni
      <4>1. (l + 1) - 1 = l
        BY <1>1, SMTT(30)
      <4>2. it.start = EndOf(f, items, ni) + 1
        BY <1>5, <3>4, <4>1 DEF StartOf, ni
      <4>3. MIN_SIZED_ATL * (k - ni) = MIN_SIZED_ATL
        <5>1. k - ni = 1
          BY <1>1, <2>3, <3>4, SMTT(30)
        <5> QED
          BY <2>2, <5>1, SMTT(30)
      <4>4. EndOf(f, items, ni) + 1 + MIN_SIZED_ATL <= end
        BY <1>2, <2>1, <2>2, <3>3, <4>2
      <4> QED
        BY <1>1, <2>1, <2>3, <4>3, <4>4
    <3>5. CASE l # ni
      <4>1. l \in ni + 1 .. l
        BY <1>1, <1>4, <2>1, <3>5, SMTT(30)
      <4>2. \A i \in ni + 1 .. l : HasIndexes(items, i)
        <5> TAKE i \in ni + 1 .. l
        <5>1. i \in ni + 1 .. k /\ i \in 1 .. l
          BY <1>1, <1>4, <2>3, SMTT(30)
        <5> QED
          BY <1>1, <5>1 DEF HasIndexes
      <4>3. EndOf(f, items, ni) + 1 + MIN_SIZED_ATL * (l - ni) <= EndOf(f, items, l)
        BY <1>6, <4>1, <4>2
      <4>4. l - ni \in Nat /\ k - ni = (l - ni) + 1
        BY <1>1, <1>4, <2>1, <2>3, SMTT(30)
      <4>5. /\ MIN_SIZED_ATL * (k - ni) = MIN_SIZED_ATL * (l - ni) + MIN_SIZED_ATL
            /\ MIN_SIZED_ATL * (l - ni) \in Nat
        BY <2>2, <4>4, OneMore
      <4>6. end >= EndOf(f, items, l) + MIN_SIZED_ATL
        BY <1>2, <2>2, <3>3, SMTT(30)
      <4>7. EndOf(f, items, ni) + 1 + MIN_SIZED_ATL * (k - ni) <= end
        <5> DEFINE x == MIN_SIZED_ATL * (l - ni)
                   y == EndOf(f, items, ni)
                   z == EndOf(f, items, l)
                   c == MIN_SIZED_ATL
        <5>1. x \in Nat /\ y + 1 + x <= z /\ MIN_SIZED_ATL * (k - ni) = x + c
          BY <4>3, <4>5
        <5>2. y \in Nat /\ z \in Nat /\ c \in Nat /\ end \in Nat /\ end >= z + c
          BY <1>2, <2>1, <2>2, <4>6
        <5> HIDE DEF x, y, z, c
        <5>3. y + 1 + (x + c) <= end
          BY <5>1, <5>2, SMTT(30)
        <5> QED
          BY <5>1, <5>3 DEF y
      <4> QED
        BY <1>1, <2>1, <2>3, <4>7
    <3> QED
      BY <3>4, <3>5
  <2>4. CASE k # l + 1
    <3>1. k \in ni + 1 .. l /\ k \in 0 .. l
      BY <1>1, <1>4, <2>4, SMTT(30)
    <3>2. \A i \in ni + 1 .. k : HasIndexes(items, i)
      <4> TAKE i \in ni + 1 .. k
      <4>1. i \in 1 .. l
        BY <1>1, <1>4, <3>1, SMTT(30)
      <4> QED
        BY <1>1, <4>1 DEF HasIndexes
    <3> QED
      BY <1>1, <1>6, <2>1, <3>1, <3>2
  <2> QED
    BY <2>3, <2>4
<1>12. Spaced(g, new)
  BY <1>4, <1>9, <1>10, <1>11 DEF Spaced
<1> QED
  BY <1>12 DEF new

\* An item is given by its fields.
LEMMA ItemIs ==
  ASSUME NEW it \in Item, NEW s, NEW a, NEW n, NEW b, NEW k,
         it.start = s, it.first = a, it.num_first = n, it.second = b, it.num_second = k
  PROVE  [start |-> s, first |-> a, num_first |-> n, second |-> b, num_second |-> k] = it
BY DEF Item

\* What is left of a sum without its first part.
LEMMA Difference ==
  ASSUME NEW x \in Nat, NEW y \in Nat, NEW z \in Nat, z = x + y
  PROVE  z - x = y
BY SMTT(30)

CountedItem(o, a, d) ==
    [start |-> o, first |-> a.at, num_first |-> a.count,
     second |-> d.at, num_second |-> d.count]

\* The item that two counted arrays after some bytes make.
LEMMA CountedItemKnown ==
  ASSUME Reading, NEW f, NEW items, NEW o \in Nat,
         o = StartOf(f, items, Len(items) + 1),
         BeforeCounts(f, Len(items) + 1) \in Nat,
         o + BeforeCounts(f, Len(items) + 1) \in 0 .. len,
         NEW a \in CountedArray(o + BeforeCounts(f, Len(items) + 1), 1), a.ok,
         NEW d \in CountedArray(a.at + a.count, 1), d.ok
  PROVE  /\ CountedItem(o, a, d) \in Item
         /\ IsBytes(Merge(d.seen, a.seen)) /\ Grown(bytes, Merge(d.seen, a.seen))
         /\ NewItem(base, Merge(d.seen, a.seen), f, items, CountedItem(o, a, d))
         /\ d.at + d.count \in 0 .. len
         /\ a.count \in Nat /\ d.count \in Nat /\ a.width \in Nat /\ d.width \in Nat
         /\ a.at - (o + BeforeCounts(f, Len(items) + 1)) = a.width
         /\ d.at - (a.at + a.count) = d.width
<1> DEFINE q == o + BeforeCounts(f, Len(items) + 1)
           m == Merge(d.seen, a.seen)
           it == CountedItem(o, a, d)
<1>1. /\ a.count \in Nat /\ a.width \in 1 .. 2 /\ a.at = q + a.width /\ a.at \in Nat
      /\ d.count \in Nat /\ d.width \in 1 .. 2 /\ d.at = a.at + a.count + d.width
      /\ d.at \in Nat /\ d.at + d.count <= len
      /\ IsBytes(m) /\ Grown(bytes, m)
      /\ Decoded(m, base + q, a.count, a.width)
      /\ Decoded(m, base + (a.at + a.count), d.count, d.width)
  BY TwoCounted
<1>2. q \in Nat /\ len \in Nat
  BY SMTT(30) DEF Reading
<1> HIDE DEF q, m
<1>3. a.width \in Nat /\ d.width \in Nat /\ a.at + a.count \in Nat
  <2>1. a.width \in 1 .. 2 /\ d.width \in 1 .. 2 /\ a.at \in Nat /\ a.count \in Nat
    BY <1>1
  <2> QED
    BY <2>1, SMTT(30)
<1>4. a.at - q = a.width
  BY <1>1, <1>2, <1>3, Difference
<1>5. d.at - (a.at + a.count) = d.width
  <2> DEFINE x == a.at + a.count
  <2>1. x \in Nat /\ d.at = x + d.width /\ d.at \in Nat
    BY <1>1, <1>3
  <2> HIDE DEF x
  <2>2. d.at - x = d.width
    BY <1>3, <2>1, Difference
  <2> QED
    BY <2>2 DEF x
<1>6. d.at + d.count \in 0 .. len
  <2> DEFINE x == d.at
             y == d.count
  <2>1. x \in Nat /\ y \in Nat /\ x + y <= len
    BY <1>1
  <2> HIDE DEF x, y
  <2>2. x + y \in 0 .. len
    BY <1>2, <2>1, SMTT(30)
  <2> QED
    BY <2>2 DEF x, y
<1>7. it \in Item
  BY <1>1 DEF CountedItem, Item
<1>8. /\ it.start = o /\ it.first = a.at /\ it.num_first = a.count
      /\ it.second = d.at /\ it.num_second = d.count
  BY DEF CountedItem
<1> HIDE DEF it
<1>9. NewItem(base, m, f, items, it)
  BY <1>1, <1>4, <1>5, <1>8 DEF NewItem, q
<1> QED
  BY <1>1, <1>3, <1>4, <1>5, <1>6, <1>7, <1>9 DEF q, m, it

\* InstructionsFrame::try_new steps over an instruction ...
LEMMA RunParseInstruction ==
  ASSUME RunInv, ParseInstruction
  PROVE  RunInv'
<1>1. TypeOK /\ AtInstruction /\ frame \in Frame /\ Reading /\ pc = "instruction"
  BY DEF ParseInstruction, RunInv, TypeOK, Reading
<1>2. CASE Fail
  BY <1>2, RunFail
<1>3. CASE ~Fail
  <2>1. /\ rest > 0 /\ ~(offset >= len)
        /\ \E a \in CountedArray(offset + 1, 1) : a.ok /\
             \E d \in CountedArray(a.at + a.count, 1) :
               /\ d.ok
               /\ bytes' = Merge(d.seen, a.seen)
               /\ offset' = d.at + d.count
               /\ frame' = [frame EXCEPT !.frames = Append(@,
                     [num_accounts |-> a.count, num_accounts_len |-> a.width,
                      data_len |-> d.count, data_len_len |-> d.width])]
               /\ parsed' = Append(parsed,
                     [start |-> offset, first |-> a.at, num_first |-> a.count,
                      second |-> d.at, num_second |-> d.count])
               /\ rest' = rest - 1
               /\ UNCHANGED <<slice, cursor, pc, sum, yielded, first>>
    BY <1>3, Zenon DEF ParseInstruction
  <2>2. PICK a \in CountedArray(offset + 1, 1) : a.ok /\
             \E d \in CountedArray(a.at + a.count, 1) :
               /\ d.ok
               /\ bytes' = Merge(d.seen, a.seen)
               /\ offset' = d.at + d.count
               /\ frame' = [frame EXCEPT !.frames = Append(@,
                     [num_accounts |-> a.count, num_accounts_len |-> a.width,
                      data_len |-> d.count, data_len_len |-> d.width])]
               /\ parsed' = Append(parsed,
                     [start |-> offset, first |-> a.at, num_first |-> a.count,
                      second |-> d.at, num_second |-> d.count])
               /\ rest' = rest - 1
               /\ UNCHANGED <<slice, cursor, pc, sum, yielded, first>>
    BY <2>1, Zenon
  <2>3. PICK d \in CountedArray(a.at + a.count, 1) :
               /\ d.ok
               /\ bytes' = Merge(d.seen, a.seen)
               /\ offset' = d.at + d.count
               /\ frame' = [frame EXCEPT !.frames = Append(@,
                     [num_accounts |-> a.count, num_accounts_len |-> a.width,
                      data_len |-> d.count, data_len_len |-> d.width])]
               /\ parsed' = Append(parsed,
                     [start |-> offset, first |-> a.at, num_first |-> a.count,
                      second |-> d.at, num_second |-> d.count])
               /\ rest' = rest - 1
               /\ UNCHANGED <<slice, cursor, pc, sum, yielded, first>>
    BY <2>2, Zenon
  <2> DEFINE it == [start |-> offset, first |-> a.at, num_first |-> a.count,
                    second |-> d.at, num_second |-> d.count]
             stored == [num_accounts |-> a.count, num_accounts_len |-> a.width,
                        data_len |-> d.count, data_len_len |-> d.width]
  <2>4. /\ parsed \in Seq(Item) /\ offset \in Nat /\ len \in Nat /\ base \in Nat
        /\ offset + 1 \in 0 .. len /\ rest \in Nat /\ len \in 0 .. MaxLen
    BY <1>1, <2>1, SMTT(30) DEF TypeOK
  <2> DEFINE l == Len(parsed)
  <2>5. /\ l \in Nat /\ frame.num_instructions \in Nat /\ l + rest = frame.num_instructions
        /\ Len(frame.frames) = l /\ l < frame.num_instructions
    <3>1. l \in Nat /\ frame.num_instructions \in Nat /\ l + rest = frame.num_instructions
          /\ Len(frame.frames) = l
      BY <1>1, <2>4, FrameFields, SMTT(30) DEF AtInstruction
    <3> QED
      BY <2>1, <2>4, <3>1, SMTT(30)
  <2>6. BeforeCounts(frame, l + 1) = 1 /\ StartOf(frame, parsed, l + 1) = offset
    <3>1. (l + 1) - 1 = l /\ l + 1 # frame.num_instructions + 1 /\ l + 1 <= frame.num_instructions
      BY <2>5, SMTT(30)
    <3>2. EndOf(frame, parsed, l) = offset
      BY <1>1 DEF AtInstruction
    <3> QED
      BY <2>4, <3>1, <3>2, SMTT(30) DEF StartOf, BeforeCounts
  <2>7. /\ it \in Item /\ IsBytes(bytes') /\ Grown(bytes, bytes')
        /\ NewItem(base, bytes', frame, parsed, it)
        /\ d.at + d.count \in 0 .. len
        /\ a.count \in Nat /\ d.count \in Nat /\ a.width \in Nat /\ d.width \in Nat
        /\ a.at - (offset + 1) = a.width /\ d.at - (a.at + a.count) = d.width
    <3>1. 1 \in Nat
      OBVIOUS
    <3>2. it = CountedItem(offset, a, d)
      BY DEF CountedItem
    <3> HIDE DEF it
    <3> QED
      BY <1>1, <2>2, <2>3, <2>4, <2>6, <3>1, <3>2, CountedItemKnown, SMTT(30)
  <2>8. frame' = [frame EXCEPT !.frames = Append(frame.frames, stored)]
        /\ parsed' = Append(parsed, it)
    BY <2>3
  <2>9. /\ frame' \in Frame /\ frame'.frames = Append(frame.frames, stored)
        /\ SamePrelude(frame, frame') /\ SamePlaces(frame, frame')
        /\ frame'.num_lookups = frame.num_lookups
        /\ frame'.writable = frame.writable /\ frame'.readonly = frame.readonly
    <3> HIDE DEF stored
    <3>0. stored \in InstructionFrame
      BY <2>7, Zenon DEF stored, InstructionFrame
    <3>1. Append(frame.frames, stored) \in Seq(InstructionFrame)
      BY <1>1, <3>0, FrameFields, SMTT(30)
    <3> QED
      BY <1>1, <2>8, <3>1, Zenon DEF Frame, SamePrelude, SamePlaces
  <2> HIDE DEF it, stored
  <2>10. parsed' \in Seq(Item)
    BY <2>4, <2>7, <2>8, SMTT(30)
  <2>11. rest - 1 \in Nat
    BY <2>1, <2>4, SMTT(30)
  <2>12. TypeOK'
    BY <1>1, <2>3, <2>7, <2>9, <2>10, <2>11 DEF TypeOK, slice
  <2>13. PreludeKnown(entry', base', bytes', frame')
    <3>1. PreludeKnown(entry, base, bytes', frame)
      BY <1>1, <2>7, GrownKeeps, PreludeKept, SMTT(30) DEF AtInstruction, Reading
    <3>2. PreludeKnown(entry, base, bytes', frame')
      BY <2>9, <3>1, SamePreludeKnown
    <3> QED
      BY <2>3, <3>2 DEF slice
  <2>16. CountKnown(base, bytes', frame') /\ ItemsKnown(base, bytes', frame', parsed')
    BY <1>1, <2>4, <2>7, <2>8, <2>9, AppendKnown, SMTT(30)
       DEF AtInstruction, InstructionsKnown
  <2>17. Spaced(frame', parsed')
    BY <1>1, <2>4, <2>7, <2>8, <2>9, AppendSpaced DEF AtInstruction, InstructionsKnown
  <2>18. /\ Len(parsed') = l + 1 /\ (\A i \in 1 .. l : parsed'[i] = parsed[i])
         /\ parsed'[l + 1] = it
         /\ EndOf(frame', parsed', l + 1) = it.second + it.num_second
         /\ InstructionsAt(frame') = InstructionsAt(frame)
    BY <1>1, <2>4, <2>7, <2>8, <2>9, AppendPlaces, SMTT(30)
  <2>19. /\ Len(frame'.frames) = l + 1
         /\ \A k \in 1 .. l : frame'.frames[k] = frame.frames[k]
         /\ frame'.frames[l + 1] = stored
    <3>1. frame.frames \in Seq(InstructionFrame)
      BY <1>1, FrameFields
    <3>2. stored \in InstructionFrame
      BY <2>7 DEF stored, InstructionFrame
    <3> QED
      BY <2>5, <2>9, <3>1, <3>2, SMTT(30)
  <2>20. FramesMatch(frame', parsed')
    <3> SUFFICES ASSUME NEW k \in 1 .. l + 1
                 PROVE  frame'.frames[k] =
                          [num_accounts |-> parsed'[k].num_first,
                           num_accounts_len |-> parsed'[k].first - (parsed'[k].start + 1),
                           data_len |-> parsed'[k].num_second,
                           data_len_len |->
                              parsed'[k].second - (parsed'[k].first + parsed'[k].num_first)]
      BY <2>19, Zenon DEF FramesMatch
    <3>1. CASE k \in 1 .. l
      <4>1. FramesMatch(frame, parsed) /\ Len(frame.frames) = l
        BY <1>1, <2>5 DEF AtInstruction, InstructionsKnown
      <4>2. frame'.frames[k] = frame.frames[k] /\ parsed'[k] = parsed[k]
        BY <2>18, <2>19, <3>1
      <4> QED
        BY <3>1, <4>1, <4>2 DEF FramesMatch
    <3>2. CASE k = l + 1
      <4>1. /\ it.start = offset /\ it.first = a.at /\ it.num_first = a.count
            /\ it.second = d.at /\ it.num_second = d.count
        BY DEF it
      <4> QED
        BY <2>7, <2>18, <2>19, <3>2, <4>1, Zenon DEF stored
    <3> QED
      BY <2>5, <3>1, <3>2, SMTT(30)
  <2>21. AtInstruction'
    <3>1. InstructionsKnown(base', bytes', frame', parsed')
      BY <2>3, <2>16, <2>17, <2>20 DEF InstructionsKnown, slice
    <3>2. Len(parsed') + rest' = frame'.num_instructions
      BY <2>3, <2>4, <2>5, <2>9, <2>18, SMTT(30) DEF SamePlaces
    <3>3. offset' = EndOf(frame', parsed', Len(parsed'))
      BY <2>3, <2>18 DEF it
    <3>4. InstructionsFit(frame', len')
      BY <1>1, <2>3, <2>9, <2>18 DEF AtInstruction, InstructionsFit, SamePlaces, slice
    <3>5. NoLookups(frame') /\ yielded' = <<>>
      BY <1>1, <2>3, <2>9 DEF AtInstruction, NoLookups
    <3> QED
      BY <2>13, <2>18, <2>19, <3>1, <3>2, <3>3, <3>4, <3>5, Zenon DEF AtInstruction
  <2> QED
    BY <1>1, <2>3, <2>12, <2>21 DEF RunInv, Viewed
<1> QED
  BY <1>2, <1>3

\* ... and over the last.
LEMMA RunInstructionsEnd ==
  ASSUME RunInv, InstructionsEnd
  PROVE  RunInv'
<1>1. /\ TypeOK /\ AtInstruction /\ frame \in Frame /\ rest = 0
      /\ pc' = (IF frame.version = "v0" THEN "lookups" ELSE "end")
      /\ UNCHANGED <<slice, bytes, offset, cursor, rest, sum, frame, parsed, yielded, first>>
  BY DEF InstructionsEnd, RunInv, TypeOK
<1>2. TypeOK'
  BY <1>1 DEF TypeOK, slice
<1>3. CASE frame.version = "v0"
  <2>1. AtLookups'
    BY <1>1, <1>3 DEF AtLookups, AtInstruction, slice
  <2> QED
    BY <1>1, <1>2, <1>3, <2>1 DEF RunInv, Viewed
<1>4. CASE frame.version # "v0"
  <2>1. frame.version # "v1"
    BY <1>1 DEF AtInstruction, PreludeKnown, HeaderKnown
  <2>2. /\ Len(parsed) \in Nat /\ frame.num_instructions \in Nat
        /\ Len(parsed) = frame.num_instructions
    <3>1. Len(parsed) \in Nat /\ frame.num_instructions \in Nat
      BY <1>1, FrameFields, SMTT(30) DEF TypeOK
    <3>2. Len(parsed) + 0 = frame.num_instructions
      BY <1>1 DEF AtInstruction
    <3> QED
      BY <3>1, <3>2, SMTT(30)
  <2>3. LegacyKnown(entry, base, bytes, frame, parsed)
    BY <1>1, <1>4, <2>2 DEF LegacyKnown, AtInstruction, NoLookups
  <2>4. LegacyFits(frame, parsed, len) /\ offset = LegacyEnd(frame, parsed) /\ yielded = <<>>
    BY <1>1, <1>4 DEF AtInstruction, LegacyFits, LegacyEnd
  <2>5. AtEnd'
    BY <1>1, <2>1, <2>3, <2>4 DEF AtEnd, slice
  <2> QED
    BY <1>1, <1>2, <1>4, <2>5 DEF RunInv, Viewed
<1> QED
  BY <1>3, <1>4

\* The instructions stay known when the frame changes elsewhere.
LEMMA SameInstructions ==
  ASSUME NEW at \in Nat, NEW m, NEW n, Grown(m, n), NEW f \in Frame, NEW g,
         SamePlaces(f, g), g.frames = f.frames, NEW items \in Seq(Item),
         InstructionsKnown(at, m, f, items)
  PROVE  /\ InstructionsKnown(at, n, g, items)
         /\ InstructionsAt(g) = InstructionsAt(f)
         /\ \A k : EndOf(g, items, k) = EndOf(f, items, k)
         /\ \A k : StartOf(g, items, k) = StartOf(f, items, k)
<1>1. InstructionsKnown(at, n, f, items)
  BY GrownKeeps, InstructionsKept
<1>2. InstructionsAt(g) = InstructionsAt(f)
  BY DEF SamePlaces, InstructionsAt
<1>3. \A k : EndOf(g, items, k) = EndOf(f, items, k)
  BY <1>2 DEF EndOf
<1>4. \A k : StartOf(g, items, k) = StartOf(f, items, k)
  BY <1>3 DEF StartOf, SamePlaces
<1>5. CountKnown(at, n, g) /\ FramesMatch(g, items)
  BY <1>1, <1>2, ZenonT(30) DEF InstructionsKnown, CountKnown, FramesMatch, SamePlaces
<1>6. ItemsKnown(at, n, g, items)
  <2>1. \A k : BeforeCounts(g, k) = BeforeCounts(f, k)
    BY DEF BeforeCounts, SamePlaces
  <2> QED
    BY <1>1, <1>4, <2>1, Zenon DEF InstructionsKnown, ItemsKnown, ItemKnown
<1>7. Spaced(g, items)
  BY <1>1, <1>2, <1>3, SMTT(30) DEF InstructionsKnown, Spaced, SamePlaces
<1> QED
  BY <1>2, <1>3, <1>4, <1>5, <1>6, <1>7 DEF InstructionsKnown

\* What ParseLookups does when it does not fail.
LookupsStep(n) ==
    /\ ~(offset >= len) /\ ~(n > MAX_ATLS) /\ Remaining(offset + 1, MIN_SIZED_ATL * n)
    /\ bytes' = Seen(offset, <<n>>)
    /\ offset' = offset + 1
    /\ frame' = [frame EXCEPT !.num_lookups = n, !.lookups_offset = AsU16(offset + 1)]
    /\ rest' = n
    /\ pc' = "lookup"
    /\ UNCHANGED <<slice, cursor, sum, parsed, yielded, first>>

\* AddressTableLookupFrame::try_new reads the count of lookups, ...
LEMMA RunParseLookups ==
  ASSUME RunInv, ParseLookups
  PROVE  RunInv'
<1>1. TypeOK /\ AtLookups /\ AtInstruction /\ frame \in Frame
  BY Zenon DEF ParseLookups, RunInv, TypeOK, AtLookups
<1>2. CASE Fail
  BY <1>2, RunFail
<1>3. CASE ~Fail
  <2>1. PICK n \in ByteAt(offset) : LookupsStep(n)
    BY <1>3, Zenon DEF ParseLookups, LookupsStep
  <2>2. /\ IsBytes(bytes) /\ base \in Nat /\ len \in 0 .. MaxLen /\ len \in Nat
        /\ offset \in Nat /\ parsed \in Seq(Item)
    BY <1>1, SMTT(30) DEF TypeOK
  <2>3. n \in Nat /\ MIN_SIZED_ATL \in Nat /\ MIN_SIZED_ATL * n \in Nat
    <3>1. n \in Nat /\ MIN_SIZED_ATL \in Nat
      BY <2>2, ReadByte, Sizes, SMTT(30) DEF Byte, MIN_SIZED_ATL
    <3> QED
      BY <3>1, Product
  <2>4. offset + 1 \in 0 .. len /\ offset + 1 + MIN_SIZED_ATL * n <= len
    <3>1. offset + 1 \in 0 .. len
      BY <2>1, <2>2, SMTT(30) DEF LookupsStep
    <3> QED
      BY <2>1, <2>2, <2>3, <3>1, RemainingIs DEF LookupsStep
  <2>5. IsBytes(bytes') /\ Grown(bytes, bytes') /\ Known(bytes', base + offset, n)
    BY <2>1, <2>2, SeenByte DEF LookupsStep
  <2>6. AsU16(offset + 1) \in Nat
    <3>1. offset + 1 \in Nat
      BY <2>2, SMTT(30)
    <3> QED
      BY <3>1, AsU16Nat
  <2>7. /\ frame' \in Frame /\ frame'.num_lookups = n
        /\ frame'.lookups_offset = AsU16(offset + 1)
        /\ SamePrelude(frame, frame') /\ SamePlaces(frame, frame')
        /\ frame'.frames = frame.frames
        /\ frame'.writable = frame.writable /\ frame'.readonly = frame.readonly
    BY <1>1, <2>1, <2>3, <2>6, Zenon DEF Frame, SamePrelude, SamePlaces, LookupsStep
  <2>8. TypeOK'
    BY <1>1, <2>1, <2>3, <2>4, <2>5, <2>7 DEF TypeOK, slice, LookupsStep
  <2>9. PreludeKnown(entry, base, bytes', frame')
    <3>1. PreludeKnown(entry, base, bytes', frame)
      BY <1>1, <2>2, <2>5, GrownKeeps, PreludeKept, SMTT(30) DEF AtInstruction
    <3> QED
      BY <2>7, <3>1, SamePreludeKnown
  <2>10. /\ InstructionsKnown(base, bytes', frame', parsed)
         /\ InstructionsAt(frame') = InstructionsAt(frame)
         /\ \A k : EndOf(frame', parsed, k) = EndOf(frame, parsed, k)
         /\ \A k : StartOf(frame', parsed, k) = StartOf(frame, parsed, k)
    BY <1>1, <2>2, <2>5, <2>7, SameInstructions, SMTT(30) DEF AtInstruction
  <2>11. /\ Len(parsed) = frame.num_instructions /\ frame.num_instructions \in Nat
         /\ Len(frame.frames) = frame.num_instructions
         /\ offset = EndOf(frame, parsed, frame.num_instructions)
    <3>1. frame.num_instructions \in Nat /\ Len(parsed) \in Nat
      BY <1>1, <2>2, FrameFields, SMTT(30)
    <3>2. Len(parsed) = frame.num_instructions
      BY <1>1, <3>1, SMTT(30) DEF AtLookups, AtInstruction
    <3> QED
      BY <1>1, <3>1, <3>2 DEF AtInstruction
  <2>12. offset + 1 = StartOf(frame, parsed, frame.num_instructions + 1)
    BY <2>11, SMTT(30) DEF StartOf
  <2>13. AtLookup'
    <3>1. rest' = n /\ n - n = 0 /\ n <= n
      BY <2>1, <2>3, SMTT(30) DEF LookupsStep
    <3>2. UNCHANGED <<entry, base, len, parsed, yielded>> /\ offset' = offset + 1
      BY <2>1 DEF LookupsStep, slice
    <3>3. frame'.num_instructions = frame.num_instructions /\ frame'.version = "v0"
      BY <1>1, <2>7 DEF SamePlaces, SamePrelude, AtLookups
    <3>4. LegacyFits(frame', parsed, len)
      BY <1>1, <2>4, <2>7, <2>10, <2>11, <3>3
         DEF LegacyFits, InstructionsFit, LookupsFit, AtInstruction
    <3>5. LookupsKnown(base, bytes', frame', parsed)
      BY <2>1, <2>5, <2>7, <2>10, <2>11, <3>3 DEF LookupsKnown, LookupsStep
    <3>6. Totals(frame', parsed, 0)
      BY <1>1, <2>7, SumOfNone DEF Totals, AtInstruction, NoLookups
    <3>7. yielded = <<>>
      BY <1>1 DEF AtInstruction
    <3>8. offset + 1 = StartOf(frame', parsed, Len(parsed) + 1)
      BY <2>10, <2>11, <2>12
    <3>9. Len(parsed) = frame'.num_instructions + (n - n) /\ Len(frame'.frames) = frame'.num_instructions
      BY <2>7, <2>11, <3>1, <3>3, SMTT(30)
    <3> QED
      BY <2>7, <2>9, <2>10, <3>1, <3>2, <3>3, <3>4, <3>5, <3>6, <3>7, <3>8, <3>9 DEF AtLookup
  <2> QED
    BY <2>1, <2>8, <2>13 DEF RunInv, Viewed, LookupsStep
<1> QED
  BY <1>2, <1>3

\* The totals with one lookup more.
LEMMA MoreTotals ==
  ASSUME NEW f \in Frame, NEW g, SamePlaces(f, g), NEW items \in Seq(Item), NEW it \in Item,
         NEW k \in Nat, Len(items) = f.num_instructions + k, Totals(f, items, k),
         g.writable = f.writable + it.num_first, g.readonly = f.readonly + it.num_second
  PROVE  Totals(g, Append(items, it), k + 1)
<1> DEFINE new == Append(items, it)
           ni == f.num_instructions
           W == Writable(f, items, k)
           R == Readonly(f, items, k)
           X == Writable(g, new, k + 1)
           Y == Readonly(g, new, k + 1)
<1>1. /\ \A i \in 1 .. Len(items) : new[i] = items[i]
      /\ new[Len(items) + 1] = it
  BY SMTT(30)
<1>2. ni \in Nat /\ g.num_instructions = ni /\ Len(items) = ni + k
  BY FrameFields DEF SamePlaces
<1>3. it.num_first \in Nat /\ it.num_second \in Nat
  BY DEF Item
<1> HIDE DEF new, ni
<1>4. ASSUME NEW i \in 1 .. k
      PROVE  X[i] = W[i] /\ Y[i] = R[i]
  <2>1. i \in 1 .. k + 1 /\ ni + i \in 1 .. Len(items)
    BY <1>2, SMTT(30)
  <2>2. new[ni + i] = items[ni + i]
    BY <1>1, <2>1
  <2> QED
    BY <1>2, <2>1, <2>2 DEF Writable, Readonly, ni
<1>5. X[k + 1] = it.num_first /\ Y[k + 1] = it.num_second
  <2>1. k + 1 \in 1 .. k + 1 /\ ni + (k + 1) = Len(items) + 1
    BY <1>2, SMTT(30)
  <2> QED
    BY <1>1, <1>2, <2>1 DEF Writable, Readonly
<1> HIDE DEF W, R, X, Y
<1>6. SumIs(W, k, f.writable) /\ SumIs(R, k, f.readonly)
  BY DEF Totals, W, R
<1>7. SumIs(X, k + 1, f.writable + X[k + 1]) /\ SumIs(Y, k + 1, f.readonly + Y[k + 1])
  BY <1>3, <1>4, <1>5, <1>6, SumStep
<1> QED
  BY <1>5, <1>7 DEF Totals, X, Y, new

\* What ParseLookup does when it does not fail.
LookupStep(w, r) ==
    /\ Remaining(offset, KeySize) /\ rest > 0 /\ w.ok /\ r.ok
    /\ bytes' = Merge(r.seen, w.seen)
    /\ offset' = r.at + r.count
    /\ frame' = [frame EXCEPT !.writable = @ + w.count, !.readonly = @ + r.count]
    /\ parsed' = Append(parsed, CountedItem(offset, w, r))
    /\ rest' = rest - 1
    /\ UNCHANGED <<slice, cursor, pc, sum, yielded, first>>

\* ... steps over a lookup ...
LEMMA RunParseLookup ==
  ASSUME RunInv, ParseLookup
  PROVE  RunInv'
<1>1. TypeOK /\ AtLookup /\ frame \in Frame /\ Reading /\ pc = "lookup"
  BY Zenon DEF ParseLookup, RunInv, TypeOK, Reading
<1>2. CASE Fail
  BY <1>2, RunFail
<1>3. CASE ~Fail
  <2>1. PICK w \in CountedArray(offset + KeySize, 1) :
           \E r \in CountedArray(w.at + w.count, 1) : LookupStep(w, r)
    BY <1>3, Zenon DEF ParseLookup, LookupStep, CountedItem
  <2>2. PICK r \in CountedArray(w.at + w.count, 1) : LookupStep(w, r)
    BY <2>1
  <2>3. /\ parsed \in Seq(Item) /\ offset \in Nat /\ len \in Nat /\ base \in Nat
        /\ offset \in 0 .. len /\ rest \in Nat /\ len \in 0 .. MaxLen
    BY <1>1, SMTT(30) DEF TypeOK
  <2> DEFINE l == Len(parsed)
             it == CountedItem(offset, w, r)
             k == frame.num_lookups - rest
             ni == frame.num_instructions
  <2>4. l \in Nat /\ ni \in Nat /\ k \in Nat /\ l = ni + k /\ frame.num_lookups \in Nat
    <3>1. l \in Nat /\ ni \in Nat /\ frame.num_lookups \in Nat
      BY <1>1, <2>3, FrameFields, SMTT(30)
    <3>2. rest <= frame.num_lookups /\ l = ni + (frame.num_lookups - rest)
      BY <1>1 DEF AtLookup
    <3> QED
      BY <2>3, <3>1, <3>2, SMTT(30)
  <2>5. BeforeCounts(frame, l + 1) = KeySize /\ StartOf(frame, parsed, l + 1) = offset
    <3>1. ~(l + 1 <= ni)
      BY <2>4, SMTT(30)
    <3>2. BeforeCounts(frame, l + 1) = KeySize
      BY <3>1 DEF BeforeCounts
    <3> QED
      BY <1>1, <3>2 DEF AtLookup
  <2>6. KeySize \in Nat /\ offset + KeySize \in 0 .. len
    <3>1. KeySize \in Nat
      BY Sizes
    <3>2. offset + KeySize <= len
      BY <2>2, <2>3, <3>1, RemainingIs DEF LookupStep
    <3> QED
      BY <2>3, <3>1, <3>2, SMTT(30)
  <2>7. /\ it \in Item /\ IsBytes(bytes') /\ Grown(bytes, bytes')
        /\ NewItem(base, bytes', frame, parsed, it)
        /\ r.at + r.count \in 0 .. len /\ w.count \in Nat /\ r.count \in Nat
    <3>1. w.ok /\ r.ok /\ bytes' = Merge(r.seen, w.seen)
      BY <2>2 DEF LookupStep
    <3> QED
      BY <1>1, <2>3, <2>5, <2>6, <3>1, CountedItemKnown
  <2>8. it.num_first = w.count /\ it.num_second = r.count /\ it.second = r.at
    BY DEF CountedItem
  <2>9. parsed' = Append(parsed, it)
    BY <2>2 DEF LookupStep
  <2> HIDE DEF it
  <2>10. /\ frame' \in Frame /\ frame'.frames = frame.frames
         /\ SamePrelude(frame, frame') /\ SamePlaces(frame, frame')
         /\ frame'.num_lookups = frame.num_lookups
         /\ frame'.lookups_offset = frame.lookups_offset
         /\ frame'.writable = frame.writable + it.num_first
         /\ frame'.readonly = frame.readonly + it.num_second
    <3>1. frame.writable + w.count \in Nat /\ frame.readonly + r.count \in Nat
      BY <1>1, <2>7, FrameFields, SMTT(30)
    <3>2. frame' = [frame EXCEPT !.writable = frame.writable + w.count,
                                 !.readonly = frame.readonly + r.count]
      BY <2>2 DEF LookupStep
    <3> QED
      BY <1>1, <2>8, <3>1, <3>2, Zenon DEF Frame, SamePrelude, SamePlaces
  <2>11. TypeOK'
    <3>1. parsed' \in Seq(Item) /\ rest - 1 \in Nat
      BY <2>2, <2>3, <2>7, <2>9, SMTT(30) DEF LookupStep
    <3> QED
      BY <1>1, <2>2, <2>7, <2>10, <3>1 DEF TypeOK, slice, LookupStep
  <2>12. PreludeKnown(entry, base, bytes', frame')
    <3>1. PreludeKnown(entry, base, bytes', frame)
      BY <1>1, <2>3, <2>7, GrownKeeps, PreludeKept, SMTT(30) DEF AtLookup
    <3> QED
      BY <2>10, <3>1, SamePreludeKnown
  <2>13. /\ CountKnown(base, bytes', frame') /\ ItemsKnown(base, bytes', frame', parsed')
         /\ Spaced(frame', parsed')
    BY <1>1, <2>3, <2>7, <2>9, <2>10, AppendKnown, AppendSpaced
       DEF AtLookup, InstructionsKnown
  <2>14. /\ Len(parsed') = l + 1 /\ (\A i \in 1 .. l : parsed'[i] = parsed[i])
         /\ EndOf(frame', parsed', l + 1) = it.second + it.num_second
         /\ InstructionsAt(frame') = InstructionsAt(frame)
         /\ \A i \in 0 .. l : EndOf(frame', parsed', i) = EndOf(frame, parsed, i)
    <3>1. frame \in Frame /\ parsed \in Seq(Item) /\ it \in Item /\ SamePlaces(frame, frame')
      BY <1>1, <2>3, <2>7, <2>10, Zenon
    <3> QED
      BY <2>9, <3>1, AppendPlaces, SMTT(30)
  <2>15. FramesMatch(frame', parsed') /\ Len(frame'.frames) = frame'.num_instructions
    <3>1. FramesMatch(frame, parsed) /\ Len(frame.frames) = ni
      BY <1>1 DEF AtLookup, InstructionsKnown
    <3>2. \A i \in 1 .. ni : parsed'[i] = parsed[i]
      BY <2>4, <2>14, SMTT(30)
    <3> QED
      BY <2>10, <3>1, <3>2, Zenon DEF FramesMatch, SamePlaces
  <2>16. Totals(frame', parsed', k + 1)
    BY <1>1, <2>3, <2>4, <2>7, <2>9, <2>10, MoreTotals DEF AtLookup
  <2>17. EndOf(frame', parsed', ni) = EndOf(frame, parsed, ni)
    BY <2>4, <2>14, SMTT(30)
  <2>18. offset' = StartOf(frame', parsed', Len(parsed') + 1)
    <3>1. Len(parsed') + 1 - 1 = l + 1 /\ Len(parsed') + 1 # ni + 1
      <4>1. Len(parsed') = l + 1
        BY <2>14
      <4> HIDE DEF l, k, ni
      <4> QED
        BY <2>4, <4>1, SMTT(30)
    <3>2. offset' = it.second + it.num_second /\ it.second + it.num_second \in Nat
      <4>1. offset' = r.at + r.count
        BY <2>2 DEF LookupStep
      <4> QED
        BY <2>3, <2>7, <2>8, <4>1, SMTT(30)
    <3>3. frame'.num_instructions = ni
      BY <2>10 DEF SamePlaces
    <3>4. StartOf(frame', parsed', Len(parsed') + 1) = EndOf(frame', parsed', l + 1) + 0
      <4> DEFINE n == Len(parsed') + 1
      <4>1. n - 1 = l + 1 /\ n # frame'.num_instructions + 1
        BY <3>1, <3>3, SMTT(30)
      <4>2. StartOf(frame', parsed', n)
              = EndOf(frame', parsed', n - 1) + IF n = frame'.num_instructions + 1 THEN 1 ELSE 0
        BY DEF StartOf
      <4> HIDE DEF n, l
      <4>3. StartOf(frame', parsed', n) = EndOf(frame', parsed', l + 1) + 0
        BY <4>1, <4>2, ZenonT(30)
      <4> QED
        BY <4>3 DEF n
    <3> QED
      BY <2>14, <3>2, <3>4, SMTT(30)
  <2>19. AtLookup'
    <3>1. rest' = rest - 1 /\ frame.num_lookups - (rest - 1) = k + 1 /\ rest - 1 <= frame.num_lookups
      <4> DEFINE n == frame.num_lookups
      <4>1. rest' = rest - 1
        BY <2>2 DEF LookupStep
      <4>2. rest \in Nat /\ n \in Nat /\ rest <= n
        BY <1>1, <2>3, <2>4 DEF AtLookup
      <4> HIDE DEF n
      <4>3. n - (rest - 1) = (n - rest) + 1 /\ rest - 1 <= n
        BY <4>2, SMTT(30)
      <4> QED
        BY <4>1, <4>3 DEF n
    <3>2. UNCHANGED <<entry, base, len, yielded>>
      BY <2>2 DEF LookupStep, slice
    <3>3. frame'.num_instructions = ni /\ frame'.version = "v0"
      BY <1>1, <2>10 DEF SamePlaces, SamePrelude, AtLookup
    <3>4. InstructionsKnown(base, bytes', frame', parsed')
      BY <2>13, <2>15 DEF InstructionsKnown
    <3>5. LegacyFits(frame', parsed', len)
      BY <1>1, <2>10, <2>14, <2>17, <3>3
         DEF LegacyFits, InstructionsFit, LookupsFit, AtLookup
    <3>6. LookupsKnown(base, bytes', frame', parsed')
      <4>1. LookupsKnown(base, bytes', frame, parsed)
        <5>1. ni <= l
          BY <2>4, SMTT(30)
        <5> QED
          BY <1>1, <2>3, <2>7, <5>1, GrownKeeps, LookupsKept DEF AtLookup, InstructionsKnown
      <4> QED
        BY <2>10, <2>17, <3>3, <4>1 DEF LookupsKnown
    <3>7. yielded = <<>>
      BY <1>1 DEF AtLookup
    <3>8. Len(parsed') = frame'.num_instructions + (k + 1)
      BY <2>4, <2>14, <3>3, SMTT(30)
    <3> QED
      BY <2>10, <2>12, <2>15, <2>16, <2>18, <3>1, <3>2, <3>3, <3>4, <3>5, <3>6, <3>7, <3>8, Zenon DEF AtLookup
  <2> QED
    BY <1>1, <2>2, <2>11, <2>19 DEF RunInv, Viewed, LookupStep
<1> QED
  BY <1>2, <1>3

\* ... and over the last.
LEMMA RunLookupsEnd ==
  ASSUME RunInv, LookupsEnd
  PROVE  RunInv'
<1>1. TypeOK /\ AtLookup /\ frame \in Frame /\ rest = 0
  BY Zenon DEF LookupsEnd, RunInv, TypeOK
<1>2. CASE Fail
  BY <1>2, RunFail
<1>3. CASE ~Fail
  <2>1. /\ Fits(frame.writable) /\ Fits(frame.readonly) /\ pc' = "end"
        /\ UNCHANGED <<slice, bytes, offset, cursor, rest, sum, frame, parsed, yielded, first>>
    BY <1>3 DEF LookupsEnd
  <2>2. TypeOK'
    BY <1>1, <2>1 DEF TypeOK, slice
  <2>3. frame.num_lookups - 0 = frame.num_lookups
    BY <1>1, FrameFields, SMTT(30)
  <2>4. LegacyKnown(entry, base, bytes, frame, parsed) /\ offset = LegacyEnd(frame, parsed)
    BY <1>1, <2>1, <2>3, ZenonT(30) DEF AtLookup, LegacyKnown, LegacyEnd
  <2>5. AtEnd'
    BY <1>1, <2>1, <2>4, Zenon DEF AtEnd, AtLookup, slice
  <2> QED
    BY <2>1, <2>2, <2>5 DEF RunInv, Viewed
<1> QED
  BY <1>2, <1>3

\* Two frames that differ in their ends only.
SameLegacy(f, g) ==
    /\ SamePrelude(f, g) /\ SamePlaces(f, g) /\ g.frames = f.frames
    /\ g.num_lookups = f.num_lookups /\ g.lookups_offset = f.lookups_offset
    /\ g.writable = f.writable /\ g.readonly = f.readonly

\* Storing the end leaves the rest as it is.
LEMMA SameLegacyKnown ==
  ASSUME NEW e, NEW at \in Nat, NEW m, NEW f \in Frame, NEW g, SameLegacy(f, g),
         NEW items \in Seq(Item), NEW n,
         LegacyKnown(e, at, m, f, items), LegacyFits(f, items, n)
  PROVE  /\ LegacyKnown(e, at, m, g, items) /\ LegacyFits(g, items, n)
         /\ LegacyEnd(g, items) = LegacyEnd(f, items)
<1>1. /\ InstructionsKnown(at, m, g, items)
      /\ InstructionsAt(g) = InstructionsAt(f)
      /\ \A k : EndOf(g, items, k) = EndOf(f, items, k)
      /\ \A k : StartOf(g, items, k) = StartOf(f, items, k)
  <2>1. Grown(m, m)
    BY DEF Grown
  <2>2. InstructionsKnown(at, m, f, items)
    BY Zenon DEF LegacyKnown
  <2>3. SamePlaces(f, g) /\ g.frames = f.frames
    BY Zenon DEF SameLegacy
  <2> QED
    BY <2>1, <2>2, <2>3, SameInstructions, SMTT(30)
<1>2. PreludeKnown(e, at, m, g)
  BY SamePreludeKnown, Zenon DEF LegacyKnown, SameLegacy
<1>3. /\ g.num_instructions = f.num_instructions /\ g.version = f.version
      /\ g.num_lookups = f.num_lookups /\ g.frames = f.frames
      /\ g.writable = f.writable /\ g.readonly = f.readonly
      /\ g.lookups_offset = f.lookups_offset
  BY Zenon DEF SameLegacy, SamePlaces, SamePrelude
<1>4. LookupsKnown(at, m, f, items) => LookupsKnown(at, m, g, items)
  BY <1>1, <1>3 DEF LookupsKnown
<1>5. \A k : Totals(f, items, k) => Totals(g, items, k)
  BY <1>3, Zenon DEF Totals, Writable, Readonly
<1>6. LegacyKnown(e, at, m, g, items)
  BY <1>1, <1>2, <1>3, <1>4, <1>5 DEF LegacyKnown, NoLookups
<1>7. LegacyFits(g, items, n)
  BY <1>1, <1>3 DEF LegacyFits, InstructionsFit, LookupsFit
<1> QED
  BY <1>1, <1>3, <1>6, <1>7 DEF LegacyEnd

\* What MessageEnd stores.
EndStep ==
    /\ offset <= U16Max
    /\ frame' = [frame EXCEPT !.end_offset = offset, !.data_len = offset]
    /\ UNCHANGED <<slice, bytes, offset, cursor, rest, sum, parsed, yielded, first>>

\* What the step that stores the end leaves alone.
LEMMA EndStored ==
  ASSUME TypeOK, EndStep
  PROVE  /\ frame' \in Frame /\ frame'.end_offset = offset /\ frame'.data_len = offset
         /\ SameLegacy(frame, frame') /\ offset \in Nat /\ offset <= len
         /\ offset' = offset
         /\ UNCHANGED <<entry, base, len, bytes, sum, parsed, yielded>>
<1>1. frame \in Frame /\ offset \in Nat /\ offset <= len
  BY SMTT(30) DEF TypeOK
<1>2. frame' = [frame EXCEPT !.end_offset = offset, !.data_len = offset]
  BY DEF EndStep
<1>3. /\ frame' \in Frame /\ frame'.end_offset = offset /\ frame'.data_len = offset
      /\ SameLegacy(frame, frame')
  BY <1>1, <1>2, Zenon DEF Frame, SameLegacy, SamePrelude, SamePlaces
<1> QED
  BY <1>1, <1>3 DEF EndStep, slice

\* The end of a legacy or v0 message.
LEMMA LegacyMessageEnd ==
  ASSUME TypeOK, EndStep, AtEnd, frame.version # "v1", pc' = "parsed",
         entry = "prefix" \/ offset = len
  PROVE  AtLegacyView' /\ frame'.version # "v1"
<1>1. /\ frame' \in Frame /\ frame'.end_offset = offset /\ frame'.data_len = offset
      /\ SameLegacy(frame, frame') /\ offset \in Nat /\ offset <= len
      /\ UNCHANGED <<entry, base, len, bytes, sum, parsed, yielded>>
  BY EndStored
<1>2. /\ LegacyKnown(entry, base, bytes, frame, parsed) /\ LegacyFits(frame, parsed, len)
      /\ offset = LegacyEnd(frame, parsed) /\ yielded = <<>>
      /\ base \in Nat /\ frame \in Frame /\ parsed \in Seq(Item)
  BY DEF AtEnd, TypeOK
<1>3. /\ LegacyKnown(entry, base, bytes, frame', parsed)
      /\ LegacyFits(frame', parsed, len)
      /\ LegacyEnd(frame', parsed) = LegacyEnd(frame, parsed)
  BY <1>1, <1>2, SameLegacyKnown, SMTT(30)
<1>4. LegacyEnds(entry, frame', parsed, len)
  BY <1>1, <1>2, <1>3 DEF LegacyEnds, EndStep
<1>5. Len(yielded) = 0 /\ Len(parsed) \in Nat
  BY <1>2, SMTT(30)
<1>6. frame'.version # "v1"
  BY <1>1 DEF SameLegacy, SamePrelude
<1> QED
  BY <1>1, <1>2, <1>3, <1>4, <1>5, <1>6, SMTT(30) DEF AtLegacyView

\* The stored offset of the instructions and of the lookups is where they are.
LEMMA LegacyInstructionsIter ==
  ASSUME TypeOK, pc = "parsed", AtLegacyView, frame.version # "v1", InstructionsIter
  PROVE  AtLegacyView' /\ offset' \in 0 .. len
<1>1. /\ pc' = "next_instruction" /\ rest' = frame.num_instructions
      /\ offset' = frame.instructions_offset
      /\ UNCHANGED <<entry, base, len, bytes, frame, parsed, yielded>>
  BY DEF InstructionsIter, slice
<1>2. /\ frame \in Frame /\ parsed \in Seq(Item) /\ len \in Nat /\ yielded = <<>>
      /\ LegacyKnown(entry, base, bytes, frame, parsed)
      /\ LegacyEnds(entry, frame, parsed, len)
  BY SMTT(30) DEF TypeOK, AtLegacyView
<1>3. InstructionsAt(frame) \in Nat /\ InstructionsAt(frame) <= frame.end_offset
  BY <1>2, LegacyOrder, Zenon
<1>4. frame.end_offset \in Nat /\ frame.end_offset <= U16Max /\ frame.end_offset <= len
  BY <1>2, FrameFields DEF LegacyEnds
<1>5. frame.instructions_offset = InstructionsAt(frame)
  <2>1. InstructionsAt(frame) <= U16Max
    BY <1>3, <1>4, Sizes, SMTT(30)
  <2>2. frame.instructions_offset = AsU16(InstructionsAt(frame))
    BY <1>2, Zenon DEF LegacyKnown, InstructionsKnown, CountKnown
  <2> QED
    BY <1>3, <2>1, <2>2, AsU16Is
<1>6. offset' \in 0 .. len
  BY <1>1, <1>2, <1>3, <1>4, <1>5, SMTT(30)
<1>7. Len(yielded) = 0 /\ frame.num_instructions \in Nat
  BY <1>2, FrameFields
<1>8. offset' = EndOf(frame, parsed, Len(yielded)) /\ Len(yielded) + rest' = frame.num_instructions
  BY <1>1, <1>5, <1>7, SMTT(30) DEF EndOf
<1> QED
  BY <1>1, <1>6, <1>8 DEF AtLegacyView

\* InstructionsIterator::next of a legacy or v0 message yields what the parser
\* stepped over.
LEMMA LegacyNextInstruction ==
  ASSUME TypeOK, AtLegacyView, NextLegacyInstruction
  PROVE  AtLegacyView' /\ offset' \in 0 .. len /\ yielded' \in Seq(Item) /\ rest' \in Nat
<1> DEFINE k == Len(yielded) + 1
           fr == frame.frames[frame.num_instructions - rest + 1]
           accounts == offset + 1 + fr.num_accounts_len
           data == accounts + fr.num_accounts + fr.data_len_len
           ni == frame.num_instructions
<1>1. /\ pc = "next_instruction" /\ rest > 0 /\ pc' = pc /\ rest' = rest - 1
      /\ yielded' = Append(yielded,
            [start |-> offset, first |-> accounts, num_first |-> fr.num_accounts,
             second |-> data, num_second |-> fr.data_len])
      /\ offset' = data + fr.data_len
      /\ UNCHANGED <<entry, base, len, bytes, frame, parsed, cursor>>
  BY ZenonT(30) DEF NextLegacyInstruction, slice
<1>2. /\ frame \in Frame /\ parsed \in Seq(Item) /\ yielded \in Seq(Item) /\ len \in Nat
      /\ rest \in Nat /\ offset \in Nat
      /\ LegacyKnown(entry, base, bytes, frame, parsed)
      /\ LegacyEnds(entry, frame, parsed, len)
      /\ Len(yielded) + rest = ni /\ offset = EndOf(frame, parsed, Len(yielded))
      /\ \A i \in 1 .. Len(yielded) : yielded[i] = parsed[i]
  <2>1. /\ frame \in Frame /\ parsed \in Seq(Item) /\ yielded \in Seq(Item) /\ len \in Nat
        /\ rest \in Nat /\ offset \in Nat
    BY SMTT(30) DEF TypeOK
  <2> QED
    BY <1>1, <2>1, Zenon DEF AtLegacyView
<1>3. /\ ni \in Nat /\ k \in Nat /\ k \in 1 .. Len(parsed) /\ k - 1 = Len(yielded)
      /\ ni - rest + 1 = k /\ k # ni + 1 /\ k <= ni /\ k \in 1 .. Len(frame.frames)
      /\ Len(yielded) < Len(parsed) /\ rest - 1 \in Nat /\ k + (rest - 1) = ni
      /\ k \in 0 .. Len(parsed)
  <2>1. /\ ni \in Nat /\ frame.num_lookups \in Nat /\ Len(yielded) \in Nat
        /\ Len(parsed) = ni + frame.num_lookups /\ Len(frame.frames) = ni
        /\ Len(yielded) + rest = ni /\ rest \in Nat /\ rest > 0
    <3>1. ni \in Nat /\ frame.num_lookups \in Nat
      BY <1>2, FrameFields
    <3>2. Len(parsed) = ni + frame.num_lookups /\ Len(frame.frames) = ni
      BY <1>2, Zenon DEF LegacyKnown
    <3>3. Len(yielded) \in Nat
      BY <1>2, SMTT(30)
    <3> QED
      BY <1>1, <1>2, <3>1, <3>2, <3>3, Zenon
  <2> DEFINE y == Len(yielded)
             nl == frame.num_lookups
  <2> HIDE DEF ni, y, nl
  <2>2. /\ y + 1 \in Nat /\ y + 1 \in 1 .. ni + nl /\ (y + 1) - 1 = y
        /\ ni - rest + 1 = y + 1 /\ y + 1 # ni + 1 /\ y + 1 <= ni /\ y + 1 \in 1 .. ni
        /\ y < ni + nl /\ rest - 1 \in Nat /\ (y + 1) + (rest - 1) = ni
        /\ y + 1 \in 0 .. ni + nl
    BY <2>1, SMTT(30) DEF y, nl
  <2> QED
    BY <2>1, <2>2 DEF y, nl
<1>4. ItemKnown(base, bytes, frame, parsed, k) /\ FramesMatch(frame, parsed)
  BY <1>2, <1>3, ZenonT(30) DEF LegacyKnown, InstructionsKnown, ItemsKnown
<1> DEFINE it == parsed[k]
<1>5. /\ it.start \in Nat /\ it.first \in Nat /\ it.num_first \in Nat
      /\ it.second \in Nat /\ it.num_second \in Nat
      /\ it.start = StartOf(frame, parsed, k)
      /\ EndOf(frame, parsed, k) = it.second + it.num_second
  BY <1>2, <1>3, <1>4, ItemPlaces, ZenonT(30)
<1>6. it.start = offset
  BY <1>2, <1>3, <1>5, SMTT(30) DEF StartOf
<1>7. /\ fr.num_accounts = it.num_first /\ fr.num_accounts_len = it.first - (it.start + 1)
      /\ fr.data_len = it.num_second /\ fr.data_len_len = it.second - (it.first + it.num_first)
  <2>1. fr = frame.frames[k]
    BY <1>3
  <2>2. k \in 1 .. Len(frame.frames)
    BY <1>3
  <2> HIDE DEF fr, k
  <2>3. fr = [num_accounts |-> parsed[k].num_first,
              num_accounts_len |-> parsed[k].first - (parsed[k].start + 1),
              data_len |-> parsed[k].num_second,
              data_len_len |-> parsed[k].second - (parsed[k].first + parsed[k].num_first)]
    BY <1>4, <2>1, <2>2, ZenonT(30) DEF FramesMatch
  <2> QED
    BY <2>3
<1>8. it \in Item
  BY <1>2, <1>3, SMTT(30)
<1> HIDE DEF fr, it, k, ni
<1>9. accounts = it.first
  BY <1>5, <1>6, <1>7, SMTT(30)
<1>10. data = it.second
  <2> HIDE DEF accounts
  <2>1. data = it.first + it.num_first + (it.second - (it.first + it.num_first))
    BY <1>7, <1>9
  <2> QED
    BY <1>5, <2>1, SMTT(30)
<1> HIDE DEF accounts, data
<1>11. yielded' = Append(yielded, it)
  <2>1. [start |-> offset, first |-> accounts, num_first |-> fr.num_accounts,
         second |-> data, num_second |-> fr.data_len] = it
    BY <1>6, <1>7, <1>8, <1>9, <1>10, ItemIs, SMTT(30)
  <2> QED
    BY <1>1, <2>1
<1>12. /\ yielded' \in Seq(Item) /\ Len(yielded') = k /\ Len(yielded') <= Len(parsed)
       /\ \A i \in 1 .. Len(yielded') : yielded'[i] = parsed[i]
  BY <1>2, <1>3, <1>11, YieldNext DEF it, k
<1>13. offset' = EndOf(frame, parsed, k)
  BY <1>1, <1>5, <1>7, <1>10
<1>14. offset' \in 0 .. len
  <2>1. EndOf(frame, parsed, k) \in Nat /\ EndOf(frame, parsed, k) <= frame.end_offset
    BY <1>2, <1>3, LegacyOrder, ZenonT(30)
  <2>2. frame.end_offset \in Nat /\ frame.end_offset <= len
    BY <1>2, FrameFields, ZenonT(30) DEF LegacyEnds
  <2> QED
    BY <1>2, <1>13, <2>1, <2>2, SMTT(30)
<1>15. Len(yielded') + rest' = frame.num_instructions /\ rest' \in Nat
  BY <1>1, <1>3, <1>12 DEF ni
<1>16. AtLegacyView'
  BY <1>1, <1>12, <1>13, <1>15 DEF AtLegacyView
<1> QED
  BY <1>12, <1>14, <1>15, <1>16

\* AddressTableLookupIterator begins where the parser found the first lookup.
LEMMA LegacyLookupsIter ==
  ASSUME TypeOK, AtLegacyView, LookupsIter
  PROVE  AtLegacyView' /\ rest' \in Nat /\ cursor' \in Nat
<1>1. /\ pc = "next_instruction" /\ rest = 0 /\ pc' = "next_lookup"
      /\ rest' = frame.num_lookups /\ cursor' = frame.lookups_offset
      /\ UNCHANGED <<entry, base, len, bytes, frame, parsed, yielded>>
  BY DEF LookupsIter, slice
<1>2. /\ frame \in Frame /\ parsed \in Seq(Item) /\ yielded \in Seq(Item)
      /\ LegacyKnown(entry, base, bytes, frame, parsed)
      /\ LegacyEnds(entry, frame, parsed, len)
      /\ Len(yielded) + rest = frame.num_instructions
  BY <1>1 DEF TypeOK, AtLegacyView
<1> DEFINE ni == frame.num_instructions
<1>3. /\ ni \in Nat /\ frame.num_lookups \in Nat /\ frame.lookups_offset \in Nat
      /\ frame.end_offset \in Nat /\ Len(yielded) = ni
      /\ ni \in 0 .. Len(parsed) /\ (ni + 1) - 1 = ni
  <2>1. /\ ni \in Nat /\ frame.num_lookups \in Nat /\ frame.lookups_offset \in Nat
        /\ frame.end_offset \in Nat /\ Len(yielded) \in Nat
        /\ Len(parsed) = ni + frame.num_lookups
    BY <1>2, FrameFields, SMTT(30) DEF LegacyKnown
  <2> QED
    BY <1>1, <1>2, <2>1, SMTT(30)
<1>4. ASSUME frame.num_lookups > 0
      PROVE  frame.lookups_offset = StartOf(frame, parsed, ni + 1)
  <2>1. /\ frame.version = "v0" /\ EndOf(frame, parsed, ni) + 1 <= frame.end_offset
        /\ EndOf(frame, parsed, ni) \in Nat
    BY <1>2, <1>3, <1>4, LegacyOrder
  <2>2. frame.lookups_offset = AsU16(EndOf(frame, parsed, ni) + 1)
    BY <1>2, <2>1, Zenon DEF LegacyKnown, LookupsKnown
  <2>3. EndOf(frame, parsed, ni) + 1 <= U16Max /\ EndOf(frame, parsed, ni) + 1 \in Nat
    <3>1. frame.end_offset <= U16Max
      BY <1>2 DEF LegacyEnds
    <3> QED
      BY <1>3, <2>1, <3>1, Sizes, SMTT(30)
  <2>4. frame.lookups_offset = EndOf(frame, parsed, ni) + 1
    BY <2>2, <2>3, AsU16Is
  <2> QED
    BY <1>3, <2>4 DEF StartOf
<1>5. /\ Len(yielded') + rest' = frame'.num_instructions + frame'.num_lookups
      /\ rest' <= frame'.num_lookups
      /\ rest' > 0 => cursor' = StartOf(frame', parsed', Len(yielded') + 1)
  BY <1>1, <1>3, <1>4, SMTT(30)
<1> QED
  BY <1>1, <1>3, <1>5 DEF AtLegacyView

\* A known lookup that lies within the slice is parsed as what it is.
LEMMA LookupAgain ==
  ASSUME Reading, frame \in Frame, parsed \in Seq(Item), NEW k \in 1 .. Len(parsed),
         ItemKnown(base, bytes, frame, parsed, k), BeforeCounts(frame, k) = KeySize,
         EndOf(frame, parsed, k) <= len
  PROVE  /\ Remaining(parsed[k].start, KeySize)
         /\ \A w \in CountedArray(parsed[k].start + KeySize, 1) :
                w.ok /\ w.at = parsed[k].first /\ w.count = parsed[k].num_first
         /\ \A r \in CountedArray(parsed[k].first + parsed[k].num_first, 1) :
                r.ok /\ r.at = parsed[k].second /\ r.count = parsed[k].num_second
<1> DEFINE s == parsed[k].start
           a == parsed[k].first
           n == parsed[k].num_first
           b == parsed[k].second
           c == parsed[k].num_second
<1>1. /\ s \in Nat /\ a \in Nat /\ n \in Nat /\ b \in Nat /\ c \in Nat
      /\ a >= s + KeySize + 1 /\ b >= a + n + 1 /\ b + c <= len
  BY ItemPlaces, ZenonT(30)
<1>2. /\ Decoded(bytes, base + (s + KeySize), n, a - (s + KeySize))
      /\ Decoded(bytes, base + (a + n), c, b - (a + n))
  BY DEF ItemKnown
<1> HIDE DEF s, a, n, b, c
<1>3. KeySize \in Nat /\ len \in Nat /\ len \in 0 .. MaxLen /\ 1 \in Nat
  BY Sizes, SMTT(30) DEF Reading
<1>4. /\ s \in 0 .. len /\ s + KeySize \in 0 .. len /\ s + KeySize <= len
      /\ s + KeySize + (a - (s + KeySize)) = a
      /\ a + n \in 0 .. len /\ a + n + (b - (a + n)) = b /\ a + 1 * n <= len
      /\ b + 1 * c <= len
  BY <1>1, <1>3, SMTT(30)
<1>5. Remaining(s, KeySize)
  BY <1>3, <1>4, RemainingIs
<1>6. ASSUME NEW w \in CountedArray(s + KeySize, 1)
      PROVE  w.ok /\ w.at = a /\ w.count = n
  <2> DEFINE x == s + KeySize
             v == a - (s + KeySize)
  <2>1. /\ x \in 0 .. len /\ x + v = a /\ x + v + 1 * n <= len
        /\ Decoded(bytes, base + x, n, v) /\ w \in CountedArray(x, 1)
    BY <1>2, <1>4, <1>6
  <2> HIDE DEF x, v
  <2> QED
    BY <1>3, <2>1, CountedAgain, SMTT(30)
<1>7. ASSUME NEW r \in CountedArray(a + n, 1)
      PROVE  r.ok /\ r.at = b /\ r.count = c
  <2> DEFINE x == a + n
             v == b - (a + n)
  <2>1. /\ x \in 0 .. len /\ x + v = b /\ x + v + 1 * c <= len
        /\ Decoded(bytes, base + x, c, v) /\ r \in CountedArray(x, 1)
    BY <1>2, <1>4, <1>7
  <2> HIDE DEF x, v
  <2> QED
    BY <1>3, <2>1, CountedAgain, SMTT(30)
<1> QED
  BY <1>5, <1>6, <1>7, ZenonT(30) DEF s, a, n, b, c

\* So the iterator of the lookups never ends early.
LEMMA LegacyNextLookup ==
  ASSUME TypeOK, AtLegacyView, NextLookup
  PROVE  AtLegacyView' /\ rest' \in Nat /\ cursor' \in Nat /\ yielded' \in Seq(Item)
<1> DEFINE k == Len(yielded) + 1
           ni == frame.num_instructions
           it == parsed[k]
<1>1. /\ pc = "next_lookup" /\ pc' = pc /\ rest > 0
      /\ UNCHANGED <<entry, base, len, bytes, frame, parsed>>
  BY DEF NextLookup, slice
<1>2. /\ frame \in Frame /\ parsed \in Seq(Item) /\ yielded \in Seq(Item) /\ len \in Nat
      /\ rest \in Nat /\ Reading
      /\ LegacyKnown(entry, base, bytes, frame, parsed)
      /\ LegacyEnds(entry, frame, parsed, len)
      /\ Len(yielded) + rest = ni + frame.num_lookups /\ rest <= frame.num_lookups
      /\ cursor = StartOf(frame, parsed, k)
      /\ \A i \in 1 .. Len(yielded) : yielded[i] = parsed[i]
  BY <1>1, SMTT(30) DEF TypeOK, AtLegacyView, Reading
<1>3. /\ k \in Nat /\ ni \in Nat /\ frame.num_lookups \in Nat /\ k \in 1 .. Len(parsed)
      /\ k \in 0 .. Len(parsed) /\ ~(k <= ni) /\ k + 1 # ni + 1 /\ (k + 1) - 1 = k
      /\ Len(yielded) < Len(parsed) /\ rest - 1 \in Nat
      /\ k + (rest - 1) = ni + frame.num_lookups /\ rest - 1 <= frame.num_lookups
  <2>1. /\ ni \in Nat /\ frame.num_lookups \in Nat /\ Len(yielded) \in Nat
        /\ Len(parsed) = ni + frame.num_lookups /\ rest \in Nat /\ rest > 0
        /\ Len(yielded) + rest = ni + frame.num_lookups /\ rest <= frame.num_lookups
    <3>1. ni \in Nat /\ frame.num_lookups \in Nat
      BY <1>2, FrameFields
    <3>2. Len(parsed) = ni + frame.num_lookups
      BY <1>2, Zenon DEF LegacyKnown
    <3>3. Len(yielded) \in Nat
      BY <1>2, SMTT(30)
    <3> QED
      BY <1>1, <1>2, <3>1, <3>2, <3>3, Zenon
  <2> DEFINE y == Len(yielded)
             nl == frame.num_lookups
  <2> HIDE DEF ni, y, nl
  <2>2. /\ y + 1 \in Nat /\ y + 1 \in 1 .. ni + nl /\ y + 1 \in 0 .. ni + nl
        /\ ~(y + 1 <= ni) /\ (y + 1) + 1 # ni + 1 /\ ((y + 1) + 1) - 1 = y + 1
        /\ y < ni + nl /\ rest - 1 \in Nat /\ (y + 1) + (rest - 1) = ni + nl
        /\ rest - 1 <= nl
    BY <2>1, SMTT(30) DEF y, nl
  <2> QED
    BY <2>1, <2>2 DEF y, nl
<1>4. BeforeCounts(frame, k) = KeySize
  BY <1>3 DEF BeforeCounts
<1>5. ItemKnown(base, bytes, frame, parsed, k) /\ it \in Item
  <2>1. ItemKnown(base, bytes, frame, parsed, k)
    BY <1>2, <1>3, ZenonT(30) DEF LegacyKnown, InstructionsKnown, ItemsKnown
  <2>2. parsed \in Seq(Item) /\ k \in 1 .. Len(parsed)
    BY <1>2, <1>3, Zenon
  <2>3. it \in Item
    BY <2>2, SMTT(30)
  <2> QED
    BY <2>1, <2>3
<1>6. EndOf(frame, parsed, k) = it.second + it.num_second /\ it.start = cursor
  BY <1>2, <1>3, <1>5, ItemPlaces, ZenonT(30)
<1>7. EndOf(frame, parsed, k) \in Nat /\ EndOf(frame, parsed, k) <= len
  <2>1. EndOf(frame, parsed, k) \in Nat /\ EndOf(frame, parsed, k) <= frame.end_offset
    BY <1>2, <1>3, LegacyOrder, ZenonT(30)
  <2>2. frame.end_offset \in Nat /\ frame.end_offset <= len
    BY <1>2, FrameFields DEF LegacyEnds
  <2> QED
    BY <1>2, <2>1, <2>2, SMTT(30)
<1> HIDE DEF k, ni
<1>8. /\ Remaining(it.start, KeySize)
      /\ \A w \in CountedArray(it.start + KeySize, 1) :
             w.ok /\ w.at = it.first /\ w.count = it.num_first
      /\ \A r \in CountedArray(it.first + it.num_first, 1) :
             r.ok /\ r.at = it.second /\ r.count = it.num_second
  BY <1>2, <1>3, <1>4, <1>5, <1>7, LookupAgain, Zenon
<1> HIDE DEF it
<1>9. PICK w \in CountedArray(cursor + KeySize, 1) :
        \E r \in CountedArray(w.at + w.count, 1) :
           /\ yielded' = Append(yielded,
                 [start |-> cursor, first |-> w.at, num_first |-> w.count,
                  second |-> r.at, num_second |-> r.count])
           /\ cursor' = r.at + r.count
           /\ rest' = rest - 1
  <2>1. Remaining(cursor, KeySize)
    BY <1>6, <1>8
  <2>2. \A w \in CountedArray(cursor + KeySize, 1) :
           w.ok /\ \A r \in CountedArray(w.at + w.count, 1) : r.ok
    BY <1>6, <1>8
  <2> QED
    BY <2>1, <2>2, Zenon DEF NextLookup
<1>10. w.at = it.first /\ w.count = it.num_first
  BY <1>6, <1>8
<1>11. /\ yielded' = Append(yielded, it) /\ cursor' = it.second + it.num_second
       /\ rest' = rest - 1
  <2>1. PICK r \in CountedArray(w.at + w.count, 1) :
           /\ yielded' = Append(yielded,
                 [start |-> cursor, first |-> w.at, num_first |-> w.count,
                  second |-> r.at, num_second |-> r.count])
           /\ cursor' = r.at + r.count
           /\ rest' = rest - 1
    BY <1>9
  <2>2. r.at = it.second /\ r.count = it.num_second
    BY <1>8, <1>10
  <2>3. [start |-> cursor, first |-> w.at, num_first |-> w.count,
         second |-> r.at, num_second |-> r.count] = it
    BY <1>5, <1>6, <1>10, <2>2, ItemIs, SMTT(30)
  <2> QED
    BY <2>1, <2>2, <2>3
<1>12. /\ yielded' \in Seq(Item) /\ Len(yielded') = k /\ Len(yielded') <= Len(parsed)
       /\ \A i \in 1 .. Len(yielded') : yielded'[i] = parsed[i]
  BY <1>2, <1>3, <1>11, YieldNext, Zenon DEF it, k
<1>13. cursor' = StartOf(frame, parsed, k + 1) /\ cursor' \in Nat
  BY <1>3, <1>6, <1>7, <1>11, SMTT(30) DEF StartOf, ni
<1>14. AtLegacyView'
  BY <1>1, <1>3, <1>11, <1>12, <1>13 DEF AtLegacyView, ni
<1> QED
  BY <1>3, <1>11, <1>12, <1>13, <1>14

\* It ends after the last.
LEMMA LegacyLookupsIterEnd ==
  ASSUME TypeOK, AtLegacyView, LookupsIterEnd
  PROVE  AtLegacyView'
<1>1. /\ pc = "next_lookup" /\ rest = 0 /\ pc' = "done"
      /\ UNCHANGED <<entry, base, len, bytes, frame, parsed, yielded>>
  BY DEF LookupsIterEnd, slice
<1>2. Len(yielded) = Len(parsed)
  <2>1. Len(yielded) + 0 = frame.num_instructions + frame.num_lookups
    BY <1>1 DEF AtLegacyView
  <2>2. Len(parsed) = frame.num_instructions + frame.num_lookups
    BY Zenon DEF AtLegacyView, LegacyKnown
  <2>3. yielded \in Seq(Item)
    BY DEF TypeOK
  <2>4. Len(yielded) \in Nat
    BY <2>3, SMTT(30)
  <2> QED
    BY <2>1, <2>2, <2>4, SMTT(30)
<1> QED
  BY <1>1, <1>2 DEF AtLegacyView

\* The parts of a legacy or v0 transaction follow each other without a gap.
LEMMA LegacyCovers ==
  ASSUME TypeOK, AtLegacyView
  PROVE  LegacyLayout
<1> DEFINE ni == frame.num_instructions
           nl == frame.num_lookups
           l == Len(parsed)
           last == EndOf(frame, parsed, l)
<1>1. /\ frame \in Frame /\ parsed \in Seq(Item) /\ l \in Nat /\ ni \in Nat /\ nl \in Nat
      /\ LegacyKnown(entry, base, bytes, frame, parsed)
      /\ LegacyEnds(entry, frame, parsed, len) /\ l = ni + nl
  BY FrameFields, SMTT(30) DEF TypeOK, AtLegacyView, LegacyKnown
<1>2. /\ frame.message_offset = MessageAt(entry, frame)
      /\ frame.keys_offset = CountOfKeysAt(entry, frame) + 1
      /\ frame.instructions_offset = InstructionsAt(frame)
  BY <1>1, LegacyPlaces
<1>3. frame.hash_offset = CountOfKeysAt(entry, frame) + 1 + frame.num_keys * KeySize
  BY <1>1, ZenonT(30) DEF LegacyKnown, PreludeKnown, KeysKnown
<1>4. last = IF parsed = <<>> THEN frame.instructions_offset
             ELSE parsed[l].second + parsed[l].num_second
  <2>1. l = 0 <=> parsed = <<>>
    BY <1>1, SMTT(30)
  <2> QED
    BY <1>2, <2>1, Zenon DEF EndOf
<1>5. frame.end_offset = last + IF frame.version = "v0" /\ nl = 0 THEN 1 ELSE 0
  <2>1. frame.end_offset = LegacyEnd(frame, parsed)
    BY <1>1 DEF LegacyEnds
  <2>2. last \in Nat /\ last + 0 = last
    <3>1. l \in 0 .. l
      BY <1>1, SMTT(30)
    <3> QED
      BY <1>1, <3>1, EndPlaces, SMTT(30)
  <2>3. (l + 1) - 1 = l /\ (l + 1 = ni + 1 <=> nl = 0)
    BY <1>1, SMTT(30)
  <2>4. StartOf(frame, parsed, l + 1) = last + IF nl = 0 THEN 1 ELSE 0
    BY <2>3 DEF StartOf
  <2> HIDE DEF last, nl
  <2>5. CASE frame.version = "v0"
    BY <2>1, <2>4, <2>5 DEF LegacyEnd
  <2>6. CASE frame.version # "v0"
    BY <2>1, <2>2, <2>6 DEF LegacyEnd, last
  <2> QED
    BY <2>5, <2>6
<1>6. frame.data_len = frame.end_offset
  BY <1>1 DEF LegacyEnds
<1>7. MessageAt(entry, frame) \in Nat /\ CountOfKeysAt(entry, frame) \in Nat
  BY <1>1, MessagePlace
<1>8. /\ frame.message_offset
            = (IF entry = "message" THEN 0 ELSE 1) + frame.num_signatures * SignatureSize
      /\ frame.keys_offset = frame.message_offset + (IF frame.version = "v0" THEN 4 ELSE 3) + 1
      /\ frame.hash_offset = frame.keys_offset + frame.num_keys * KeySize
      /\ frame.instructions_offset
            = frame.hash_offset + HashSize + Width(frame.num_instructions)
  BY <1>2, <1>3 DEF MessageAt, CountOfKeysAt, InstructionsAt
<1> QED
  BY <1>1, <1>4, <1>5, <1>6, <1>8, ZenonT(30) DEF LegacyLayout
=============================================================================
