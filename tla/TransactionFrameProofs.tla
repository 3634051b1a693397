------------------------ MODULE TransactionFrameProofs ------------------------
(*****************************************************************************)
(* The theorems about TransactionFrame, for any sizes, any width of u16 and  *)
(* usize, and buffers of any length: RunInv and AgainInv are invariants, and *)
(* they imply the properties of the frames and of the views.                 *)
(*****************************************************************************)
EXTENDS LegacyParseProofs, LegacyAgainProofs, V1ParseProofs, FiniteSetTheorems

\* A leaf that names no prover is given to Zenon.
USE ZenonT(30)

\* MessageFrame ends, and the length is checked.
LEMMA RunMessageEnd ==
  ASSUME RunInv, MessageEnd
  PROVE  RunInv'
<1>1. TypeOK /\ AtEnd /\ pc = "end"
  BY Zenon DEF MessageEnd, RunInv
<1>2. CASE Fail
  BY <1>2, RunFail
<1>3. CASE ~Fail
  <2>1. /\ EndStep
        /\ pc' = IF entry # "message" /\ frame.version = "v1" THEN "v1_signatures"
                 ELSE IF entry = "prefix" \/ offset = len THEN "parsed" ELSE "error"
    BY <1>3 DEF MessageEnd, EndStep, Fits
  <2>2. /\ frame' \in Frame /\ frame'.end_offset = offset /\ frame'.data_len = offset
        /\ SameLegacy(frame, frame') /\ offset \in Nat /\ offset <= len /\ offset' = offset
        /\ UNCHANGED <<entry, base, len, bytes, sum, parsed, yielded>>
    BY <1>1, <2>1, EndStored
  <2>3. pc' \in {"v1_signatures", "parsed", "error"}
    BY <2>1
  <2>4. TypeOK'
    BY <1>1, <2>1, <2>2, <2>3 DEF TypeOK, EndStep
  <2>5. CASE pc' = "error"
    BY <2>4, <2>5 DEF RunInv, Viewed
  <2>6. CASE frame.version # "v1" /\ pc' # "error"
    <3>1. pc' = "parsed" /\ (entry = "prefix" \/ offset = len)
      BY <2>1, <2>6
    <3>2. AtLegacyView' /\ frame'.version # "v1"
      BY <1>1, <2>1, <2>6, <3>1, LegacyMessageEnd
    <3> QED
      BY <2>4, <3>1, <3>2 DEF RunInv, Viewed
  <2>7. CASE frame.version = "v1" /\ pc' # "error"
    <3>1. /\ V1Known(base, bytes, frame) /\ Reset
          /\ frame.num_signatures = 0 /\ frame.signature_offset = 0
          /\ SumIs(Payloads(base, bytes, frame, frame.num_instructions),
                   frame.num_instructions, sum)
          /\ offset = PayloadsAt(frame) + sum
      BY <1>1, <2>7 DEF AtEnd, AtV1End
    <3>2. /\ SameV1(frame, frame') /\ frame'.num_signatures = frame.num_signatures
          /\ frame'.signature_offset = frame.signature_offset
          /\ frame'.num_instructions = frame.num_instructions
      <4>1. frame' = [frame EXCEPT !.end_offset = offset, !.data_len = offset]
        BY <2>1 DEF EndStep
      <4>2. frame \in Frame
        BY <1>1 DEF TypeOK
      <4> QED
        BY <4>1, <4>2 DEF Frame, SameV1, SameV1Prefix
    <3>3. /\ V1Known(base, bytes, frame') /\ PayloadsAt(frame') = PayloadsAt(frame)
          /\ \A k : Payloads(base, bytes, frame', k) = Payloads(base, bytes, frame, k)
      BY <3>1, <3>2, SameV1Known, Zenon
    <3>4. Reset'
      BY <2>2, <3>1 DEF Reset
    <3>5. CASE pc' = "v1_signatures"
      <4>1. AtV1End'
        BY <2>2, <3>1, <3>2, <3>3, <3>4 DEF AtV1End
      <4>2. entry # "message" /\ offset <= U16Max
        BY <2>1, <3>5 DEF EndStep
      <4>3. AtV1Signatures'
        BY <2>2, <4>1, <4>2 DEF AtV1Signatures
      <4> QED
        BY <2>4, <3>5, <4>3 DEF RunInv, Viewed
    <3>6. CASE pc' = "parsed"
      <4>1. entry = "message" /\ offset = len /\ offset <= U16Max
        <5>1. entry = "message"
          BY <2>1, <2>7, <3>6
        <5>2. entry = "prefix" \/ offset = len
          BY <2>1, <2>7, <3>6, <5>1
        <5> QED
          BY <2>1, <5>1, <5>2 DEF EndStep
      <4>2. V1Ends(entry, base, bytes, frame', len)
        BY <2>2, <3>1, <3>2, <4>1 DEF V1Ends
      <4>3. V1Parsed'
        BY <2>2, <3>1, <3>2, <3>3, <3>4, <3>6, <4>2 DEF V1Parsed
      <4>4. AtV1View' /\ frame'.version = "v1"
        BY <4>3, V1ParsedView
      <4> QED
        BY <2>4, <3>6, <4>4 DEF RunInv, Viewed
    <3> QED
      BY <2>3, <2>7, <3>5, <3>6
  <2> QED
    BY <2>5, <2>6, <2>7
<1> QED
  BY <1>2, <1>3

\* A config has finitely many words.
LEMMA CountOnesNat ==
  ASSUME NEW mask
  PROVE  CountOnes(mask) \in Nat
<1> DEFINE B == {bit \in 0 .. 8 * MaskSize : HasBit(mask, bit)}
<1>1. IsFiniteSet(0 .. 8 * MaskSize)
  <2>1. 0 \in Int /\ 8 * MaskSize \in Int
    BY SMTT(30) DEF MaskSize
  <2> QED
    BY <2>1, FS_Interval
<1>2. IsFiniteSet(B)
  BY <1>1, FS_Subset, Zenon
<1>3. Cardinality(B) \in Nat
  <2> HIDE DEF B
  <2> QED
    BY <1>2, FS_CardinalityType
<1> QED
  BY <1>3 DEF CountOnes

\* What is true of a view.
AtView == IF frame.version = "v1" THEN AtV1View ELSE AtLegacyView

\* The invariant of a view, ...
LEMMA RunView ==
  ASSUME RunInv, Viewed
  PROVE  TypeOK /\ AtView
BY ZenonT(30) DEF RunInv, AtView

\* ... to be shown of every step of its iterators.
LEMMA RunViewed ==
  ASSUME TypeOK', AtView', Viewed'
  PROVE  RunInv'
BY DEF RunInv, AtView, Viewed

\* The iterator of instructions begins, ...
LEMMA RunInstructionsIter ==
  ASSUME RunInv, InstructionsIter
  PROVE  RunInv'
<1>1. /\ pc = "parsed" /\ pc' = "next_instruction" /\ rest' = frame.num_instructions
      /\ cursor' = frame.instructions_offset
      /\ UNCHANGED <<entry, base, len, bytes, sum, frame, parsed, yielded>>
  BY DEF InstructionsIter, slice
<1>2. TypeOK /\ AtView
  BY <1>1, RunView DEF Viewed
<1>3. AtView' /\ offset' \in 0 .. len
  <2>1. CASE frame.version = "v1"
    <3>1. AtV1View' /\ offset' \in 0 .. len
      BY <1>2, <2>1, V1InstructionsIter DEF AtView
    <3> QED
      BY <1>1, <2>1, <3>1 DEF AtView
  <2>2. CASE frame.version # "v1"
    <3>1. AtLegacyView' /\ offset' \in 0 .. len
      BY <1>1, <1>2, <2>2, LegacyInstructionsIter DEF AtView
    <3> QED
      BY <1>1, <2>2, <3>1 DEF AtView
  <2> QED
    BY <2>1, <2>2
<1>4. rest' \in Nat /\ cursor' \in Nat
  BY <1>1, <1>2, FrameFields DEF TypeOK
<1>5. TypeOK'
  BY <1>1, <1>2, <1>3, <1>4 DEF TypeOK
<1> QED
  BY <1>1, <1>3, <1>5, RunViewed DEF Viewed

\* ... yields an instruction of a legacy or v0 message ...
LEMMA RunNextLegacyInstruction ==
  ASSUME RunInv, NextLegacyInstruction
  PROVE  RunInv'
<1>1. /\ pc = "next_instruction" /\ frame.version # "v1"
      /\ UNCHANGED <<entry, base, len, bytes, pc, cursor, sum, frame, parsed>>
  BY DEF NextLegacyInstruction, slice
<1>2. TypeOK /\ AtLegacyView
  BY <1>1, RunView DEF Viewed, AtView
<1>3. AtLegacyView' /\ offset' \in 0 .. len /\ yielded' \in Seq(Item) /\ rest' \in Nat
  BY <1>2, LegacyNextInstruction
<1>4. TypeOK'
  BY <1>1, <1>2, <1>3 DEF TypeOK
<1>5. AtView'
  BY <1>1, <1>3 DEF AtView
<1> QED
  BY <1>1, <1>4, <1>5, RunViewed DEF Viewed

\* ... or of a v1 message.
LEMMA RunNextV1Instruction ==
  ASSUME RunInv, NextV1Instruction
  PROVE  RunInv'
<1>1. /\ pc = "next_instruction" /\ frame.version = "v1"
      /\ UNCHANGED <<entry, base, len, bytes, pc, sum, frame, parsed>>
  BY DEF NextV1Instruction, slice
<1>2. TypeOK /\ AtV1View
  BY <1>1, RunView DEF Viewed, AtView
<1>3. /\ AtV1View' /\ offset' \in 0 .. len /\ cursor' \in Nat /\ rest' \in Nat
      /\ yielded' \in Seq(Item)
  BY <1>2, V1NextInstruction
<1>4. TypeOK'
  BY <1>1, <1>2, <1>3 DEF TypeOK
<1>5. AtView'
  BY <1>1, <1>3 DEF AtView
<1> QED
  BY <1>1, <1>4, <1>5, RunViewed DEF Viewed

\* The iterator of lookups begins, ...
LEMMA RunLookupsIter ==
  ASSUME RunInv, LookupsIter
  PROVE  RunInv'
<1>1. /\ pc = "next_instruction" /\ pc' = "next_lookup"
      /\ UNCHANGED <<entry, base, len, bytes, offset, sum, frame, parsed, yielded>>
  BY DEF LookupsIter, slice
<1>2. TypeOK /\ AtView
  BY <1>1, RunView DEF Viewed
<1>3. AtView' /\ rest' \in Nat /\ cursor' \in Nat
  BY <1>1, <1>2, LegacyLookupsIter, V1LookupsIter DEF AtView
<1>4. TypeOK'
  BY <1>1, <1>2, <1>3 DEF TypeOK
<1> QED
  BY <1>1, <1>3, <1>4, RunViewed DEF Viewed

\* ... yields a lookup ...
LEMMA RunNextLookup ==
  ASSUME RunInv, NextLookup
  PROVE  RunInv'
<1>1. /\ pc = "next_lookup" /\ rest > 0
      /\ UNCHANGED <<entry, base, len, bytes, pc, offset, sum, frame, parsed>>
  BY DEF NextLookup, slice
<1>2. TypeOK /\ AtView
  BY <1>1, RunView DEF Viewed
<1>3. frame.version # "v1"
  BY <1>1, <1>2, SMTT(30) DEF AtView, AtV1View
<1>4. AtLegacyView' /\ rest' \in Nat /\ cursor' \in Nat /\ yielded' \in Seq(Item)
  BY <1>2, <1>3, LegacyNextLookup DEF AtView
<1>5. TypeOK'
  BY <1>1, <1>2, <1>4 DEF TypeOK
<1>6. AtView'
  BY <1>1, <1>3, <1>4 DEF AtView
<1> QED
  BY <1>1, <1>5, <1>6, RunViewed DEF Viewed

\* ... and ends.
LEMMA RunLookupsIterEnd ==
  ASSUME RunInv, LookupsIterEnd
  PROVE  RunInv'
<1>1. /\ pc = "next_lookup" /\ pc' = "done"
      /\ UNCHANGED <<entry, base, len, bytes, offset, cursor, rest, sum, frame, parsed, yielded>>
  BY DEF LookupsIterEnd, slice
<1>2. TypeOK /\ AtView
  BY <1>1, RunView DEF Viewed
<1>3. AtView'
  BY <1>1, <1>2, LegacyLookupsIterEnd, V1LookupsIterEnd DEF AtView
<1>4. TypeOK'
  BY <1>1, <1>2 DEF TypeOK
<1> QED
  BY <1>1, <1>3, <1>4, RunViewed DEF Viewed

\* The message of a view lies within the bytes of the view.
LEMMA ViewPlaces ==
  ASSUME TypeOK, AtView
  PROVE  /\ frame.message_offset \in Nat /\ frame.message_offset <= frame.end_offset
         /\ frame.end_offset <= len /\ frame.data_len <= len
         /\ frame.end_offset \in Nat /\ frame.data_len \in Nat /\ frame.hash_offset \in Nat
<1>1. /\ frame \in Frame /\ len \in Nat /\ sum \in Nat /\ parsed \in Seq(Item)
      /\ frame.message_offset \in Nat /\ frame.end_offset \in Nat /\ frame.data_len \in Nat
      /\ frame.hash_offset \in Nat /\ HashSize \in Nat
  BY FrameFields, Sizes, SMTT(30) DEF TypeOK
<1>2. CASE frame.version = "v1"
  <2>1. frame.end_offset <= len
    BY <1>1, <1>2, V1Order DEF AtView, AtV1View
  <2>2. frame.message_offset = 0 /\ frame.data_len <= len
    BY <1>2 DEF AtView, AtV1View, V1Known, V1PrefixKnown, V1Ends
  <2> QED
    BY <1>1, <2>1, <2>2, SMTT(30)
<1>3. CASE frame.version # "v1"
  <2>1. /\ LegacyKnown(entry, base, bytes, frame, parsed)
        /\ LegacyEnds(entry, frame, parsed, len)
    BY <1>3 DEF AtView, AtLegacyView
  <2>2. /\ frame.message_offset < frame.hash_offset
        /\ frame.hash_offset + HashSize <= frame.end_offset
    BY <1>1, <2>1, LegacyPlaces
  <2>3. frame.data_len = frame.end_offset /\ frame.data_len <= len
    BY <2>1 DEF LegacyEnds
  <2> QED
    BY <1>1, <2>2, <2>3, SMTT(30)
<1> QED
  BY <1>2, <1>3

\* A parse that begins anew.
LEMMA RunParseAgain ==
  ASSUME TypeOK, NEW function \in Function, NEW start \in Nat, NEW end \in Nat,
         start <= end, end <= len, ParseAgain(function, start, end), IsBytes(bytes')
  PROVE  RunInv'
<1>1. /\ entry' = function /\ base' = start /\ len' = end - start /\ frame' = NoFrame
      /\ pc' = "start" /\ offset' = 0 /\ cursor' = 0 /\ rest' = 0 /\ sum' = 0
      /\ parsed' = <<>> /\ yielded' = <<>>
  BY DEF ParseAgain
<1>2. len' \in 0 .. MaxLen
  BY <1>1, Sizes, SMTT(30) DEF TypeOK
<1>3. TypeOK'
  BY <1>1, <1>2, NoFrameIsFrame, SMTT(30) DEF TypeOK
<1>4. AtStart'
  BY <1>1 DEF AtStart, Reset
<1> QED
  BY <1>1, <1>3, <1>4 DEF RunInv, Viewed

\* Bytes of a view are parsed again, or its blockhash is overwritten.
LEMMA RunAgain ==
  ASSUME RunInv, ParseMessageAlone \/ ParseTransactionAlone \/ SetRecentBlockhash
  PROVE  RunInv'
<1>1. pc = "done"
  BY DEF ParseMessageAlone, ParseTransactionAlone, SetRecentBlockhash, ParseAgain
<1>2. TypeOK /\ AtView
  BY <1>1, RunView DEF Viewed
<1>3. /\ frame.message_offset \in Nat /\ frame.message_offset <= frame.end_offset
      /\ frame.end_offset <= len /\ frame.data_len <= len
      /\ frame.end_offset \in Nat /\ frame.data_len \in Nat /\ frame.hash_offset \in Nat
  BY <1>2, ViewPlaces
<1>4. /\ IsBytes(bytes) /\ base \in Nat /\ len \in Nat /\ entry \in Function
      /\ 0 <= frame.data_len /\ 0 <= len /\ len <= len /\ 0 \in Nat
  BY <1>2, <1>3, SMTT(30) DEF TypeOK
<1>5. CASE ParseMessageAlone
  <2>1. /\ ParseAgain("message", frame.message_offset, frame.end_offset) /\ bytes' = bytes
        /\ "message" \in Function
    BY <1>5 DEF ParseMessageAlone, Function
  <2> QED
    BY <1>2, <1>3, <1>4, <2>1, RunParseAgain
<1>6. CASE ParseTransactionAlone
  <2>1. /\ ParseAgain("transaction", 0, frame.data_len) /\ bytes' = bytes
        /\ "transaction" \in Function
    BY <1>6 DEF ParseTransactionAlone, Function
  <2> QED
    BY <1>2, <1>3, <1>4, <2>1, RunParseAgain
<1>7. CASE SetRecentBlockhash
  <2>1. PICK hash \in [1 .. HashSize -> Byte] : bytes' = Seen(frame.hash_offset, hash)
    BY <1>7 DEF SetRecentBlockhash
  <2>2. IsBytes(bytes')
    BY <1>3, <1>4, <2>1, WrittenBytes
  <2>3. ParseAgain(entry, 0, len)
    BY <1>7 DEF SetRecentBlockhash
  <2> QED
    BY <1>2, <1>4, <2>2, <2>3, RunParseAgain
<1> QED
  BY <1>5, <1>6, <1>7

\* Every step keeps the invariant.
LEMMA RunNext ==
  ASSUME RunInv, [Next]_vars
  PROVE  RunInv'
<1>1. CASE ChooseFormat \/ ParseSignatures \/ ParseHeader \/ ParseKeys \/ ParseInstructions
  BY <1>1, RunChooseFormat, RunParseSignatures, RunParseHeader, RunParseKeys,
     RunParseInstructions
<1>2. CASE ParseInstruction \/ InstructionsEnd \/ ParseLookups \/ ParseLookup \/ LookupsEnd
  BY <1>2, RunParseInstruction, RunInstructionsEnd, RunParseLookups, RunParseLookup,
     RunLookupsEnd
<1>3. CASE ParseV1Prefix \/ ParseV1Config \/ ParseV1Instruction \/ V1InstructionsEnd
  BY <1>3, CountOnesNat, RunParseV1Prefix, RunParseV1Config, RunParseV1Instruction, RunV1InstructionsEnd
<1>4. CASE MessageEnd \/ ParseV1Signatures
  BY <1>4, RunMessageEnd, RunParseV1Signatures
<1>5. CASE InstructionsIter \/ NextLegacyInstruction \/ NextV1Instruction
  BY <1>5, RunInstructionsIter, RunNextLegacyInstruction, RunNextV1Instruction
<1>6. CASE LookupsIter \/ NextLookup \/ LookupsIterEnd
  BY <1>6, RunLookupsIter, RunNextLookup, RunLookupsIterEnd
<1>7. CASE ParseMessageAlone \/ ParseTransactionAlone \/ SetRecentBlockhash
  BY <1>7, RunAgain
<1>8. CASE Finished \/ UNCHANGED vars
  BY <1>8, RunStutter DEF Finished
<1> QED
  BY <1>1, <1>2, <1>3, <1>4, <1>5, <1>6, <1>7, <1>8, Zenon DEF Next

\* Every state of every parse and iteration satisfies the inductive invariant: what
\* the frame stores is what the bytes say, and the iterators are where the parser
\* was.
THEOREM RunInvAlways == Spec => []RunInv
<1>1. Init => RunInv
  BY RunInit
<1>2. RunInv /\ [Next]_vars => RunInv'
  BY RunNext
<1> QED
  BY <1>1, <1>2, PTL DEF Spec

\* The invariant implies that the frame covers the buffer, ...
LEMMA RunCovers ==
  ASSUME RunInv
  PROVE  FrameCoversBuffer
<1>1. TypeOK /\ offset \in 0 .. len
  BY Zenon DEF RunInv, TypeOK
<1>2. ASSUME Viewed
      PROVE  /\ IF frame.version = "v1" THEN V1Layout ELSE LegacyLayout
             /\ frame.data_len <= len
             /\ entry # "prefix" => frame.data_len = len
  <2>1. AtView
    BY <1>2, RunView
  <2>2. CASE frame.version = "v1"
    <3>1. AtV1View
      BY <2>1, <2>2 DEF AtView
    <3> QED
      BY <1>1, <2>2, <3>1, V1Covers DEF AtV1View, V1Ends
  <2>3. CASE frame.version # "v1"
    <3>1. AtLegacyView
      BY <2>1, <2>3 DEF AtView
    <3> QED
      BY <1>1, <2>3, <3>1, LegacyCovers DEF AtLegacyView, LegacyEnds
  <2> QED
    BY <2>2, <2>3
<1> QED
  BY <1>1, <1>2 DEF FrameCoversBuffer

\* ... that the iterators yield what the parser stepped over ...
LEMMA RunRetraces ==
  ASSUME RunInv
  PROVE  IteratorsRetraceParse
<1> SUFFICES ASSUME Viewed PROVE IteratorsRetraceParse
  BY DEF IteratorsRetraceParse
<1>1. TypeOK /\ AtView /\ yielded \in Seq(Item) /\ parsed \in Seq(Item) /\ frame \in Frame
  BY RunView DEF TypeOK
<1>2. DOMAIN yielded = 1 .. Len(yielded) /\ Len(yielded) \in Nat /\ Len(parsed) \in Nat
  BY <1>1, SMTT(30)
<1>3. CASE frame.version = "v1"
  <2>1. AtV1View
    BY <1>1, <1>3 DEF AtView
  <2>2. ASSUME NEW i \in 1 .. Len(yielded)
        PROVE  yielded[i].second + yielded[i].num_second <= frame.end_offset
    <3>1. V1ItemKnown(base, bytes, frame, yielded, i)
      BY <2>1 DEF AtV1View, V1ItemsKnown
    <3> QED
      BY <1>2, <3>1, SMTT(30) DEF V1ItemKnown, V1EndOf
  <2> QED
    BY <1>2, <1>3, <2>1, <2>2 DEF IteratorsRetraceParse, AtV1View
<1>4. CASE frame.version # "v1"
  <2>1. /\ LegacyKnown(entry, base, bytes, frame, parsed)
        /\ LegacyEnds(entry, frame, parsed, len) /\ Len(yielded) <= Len(parsed)
        /\ \A i \in 1 .. Len(yielded) : yielded[i] = parsed[i]
        /\ pc = "done" => Len(yielded) = Len(parsed)
    BY <1>1, <1>4 DEF AtView, AtLegacyView
  <2>2. ASSUME NEW i \in 1 .. Len(yielded)
        PROVE  yielded[i].second + yielded[i].num_second <= frame.end_offset
    <3>1. i \in 0 .. Len(parsed) /\ i # 0
      BY <1>2, <2>1, SMTT(30)
    <3>2. EndOf(frame, parsed, i) <= frame.end_offset
      BY <1>1, <2>1, <3>1, LegacyOrder
    <3> QED
      BY <2>1, <3>1, <3>2 DEF EndOf
  <2>3. pc = "done" => yielded = parsed
    BY <1>1, <2>1, SMTT(30)
  <2> QED
    BY <1>2, <1>4, <2>2, <2>3 DEF IteratorsRetraceParse
<1> QED
  BY <1>3, <1>4

\* The bits below n that a mask has.
BitsBelow(mask, n) == {b \in 0 .. n - 1 : HasBit(mask, b)}

\* The bits below a bit are a finite set.
LEMMA BitsBelowFinite ==
  ASSUME NEW mask, NEW n \in Nat
  PROVE  IsFiniteSet(BitsBelow(mask, n)) /\ Cardinality(BitsBelow(mask, n)) \in Nat
<1>1. IsFiniteSet(0 .. n - 1)
  <2>1. 0 \in Int /\ n - 1 \in Int
    BY SMTT(30)
  <2> QED
    BY <2>1, FS_Interval
<1>2. BitsBelow(mask, n) \in SUBSET (0 .. n - 1)
  BY DEF BitsBelow
<1>3. IsFiniteSet(BitsBelow(mask, n))
  BY <1>1, <1>2, FS_Subset
<1> QED
  BY <1>3, FS_CardinalityType

\* The words of a field come before those of any later bit: the second word of
\* the priority fee is there because sanitize_mask pairs bits 0 and 1.
LEMMA WordsBefore ==
  ASSUME NEW mask, SanitizeMask(mask), NEW bit \in ConfigField, HasBit(mask, bit),
         NEW n \in Nat, n > bit, bit = 0 => n >= 2
  PROVE  Cardinality(BitsBelow(mask, bit)) + WordsOf(bit) <= Cardinality(BitsBelow(mask, n))
<1>1. bit \in Nat
  BY SMTT(30) DEF ConfigField
<1> DEFINE A == BitsBelow(mask, bit)
           B == BitsBelow(mask, n)
<1>2. /\ IsFiniteSet(A) /\ Cardinality(A) \in Nat /\ IsFiniteSet(B) /\ Cardinality(B) \in Nat
  BY <1>1, BitsBelowFinite
<1>3. CASE bit # 0
  <2>1. bit \notin A /\ A \cup {bit} \in SUBSET B /\ WordsOf(bit) = 1
    BY <1>1, <1>3, SMTT(30) DEF BitsBelow, WordsOf
  <2> HIDE DEF A, B
  <2>2. Cardinality(A \cup {bit}) = Cardinality(A) + 1
    BY <1>2, <2>1, FS_AddElement, Zenon
  <2>3. Cardinality(A \cup {bit}) <= Cardinality(B)
    BY <1>2, <2>1, FS_Subset
  <2> QED
    BY <2>1, <2>2, <2>3 DEF A, B
<1>4. CASE bit = 0
  <2>1. A = {} /\ {0} \cup {1} \in SUBSET B /\ WordsOf(bit) = 2
    BY <1>1, <1>4, SMTT(30) DEF BitsBelow, WordsOf, SanitizeMask
  <2> HIDE DEF A, B
  <2>2. Cardinality(A) = 0 /\ IsFiniteSet({0}) /\ Cardinality({0}) = 1 /\ 1 \notin {0}
    BY <2>1, FS_EmptySet, FS_Singleton
  <2>3. Cardinality({0} \cup {1}) = 2
    BY <2>2, FS_AddElement, SMTT(30)
  <2>4. Cardinality({0} \cup {1}) <= Cardinality(B)
    BY <1>2, <2>1, FS_Subset
  <2> QED
    BY <2>1, <2>2, <2>3, <2>4, SMTT(30) DEF A, B
<1> QED
  BY <1>3, <1>4

\* Places of words are in the order of the words.
LEMMA WordOrder ==
  ASSUME NEW v \in Nat, NEW size \in Nat, NEW i \in Nat, NEW w \in Nat, NEW j \in Nat,
         i + w <= j
  PROVE  v + size * i + w * size <= v + size * j
<1>1. size * i + w * size = size * (i + w) /\ size * (i + w) <= size * j
  <2>1. PICK d \in Nat : j = (i + w) + d
    <3>1. j - (i + w) \in Nat /\ j = (i + w) + (j - (i + w))
      BY SMTT(30)
    <3> QED
      BY <3>1
  <2>2. size * j = size * (i + w) + size * d /\ size * d \in Nat /\ size * (i + w) \in Nat
    BY <2>1, SMTT(30)
  <2> QED
    BY <2>2, SMTT(30)
<1>2. size * i \in Nat /\ w * size \in Nat /\ size * j \in Nat
  BY SMTT(30)
<1> QED
  BY <1>1, <1>2, SMTT(30)

\* ... and that no two config fields share a word.
LEMMA RunWords ==
  ASSUME RunInv
  PROVE  ConfigWordsAreDisjoint
<1> SUFFICES ASSUME Viewed, frame.version = "v1",
                    NEW bit \in ConfigField, HasBit(frame.mask, bit)
             PROVE  LET end == WordOffset(bit) + WordsOf(bit) * WordSize
                    IN  /\ end <= frame.instructions_offset
                        /\ \A other \in {b \in ConfigField : HasBit(frame.mask, b)} :
                              other > bit => end <= WordOffset(other)
  BY DEF ConfigWordsAreDisjoint
<1> DEFINE mask == frame.mask
           v == frame.values_offset
           c(n) == Cardinality(BitsBelow(mask, n))
<1>1. TypeOK /\ AtV1View
  BY RunView DEF AtView
<1>2. /\ SanitizeMask(mask) /\ frame.instructions_offset = HeadersAt(frame)
      /\ v \in Nat /\ WordSize \in Nat /\ bit \in Nat /\ WordsOf(bit) \in Nat
  <2>1. /\ frame \in Frame /\ len \in Nat /\ sum \in Nat /\ V1Known(base, bytes, frame)
        /\ V1Ends(entry, base, bytes, frame, len)
        /\ frame.end_offset = PayloadsAt(frame) + sum
    BY <1>1, SMTT(30) DEF TypeOK, AtV1View
  <2>2. SanitizeMask(mask)
    BY <2>1 DEF V1Known, V1ConfigKnown
  <2>3. bit \in Nat /\ WordsOf(bit) \in Nat
    BY SMTT(30) DEF ConfigField, WordsOf
  <2>4. v \in Nat /\ WordSize \in Nat
    BY <2>1, FrameFields, Sizes
  <2>5. frame.instructions_offset = HeadersAt(frame)
    BY <2>1, V1Order
  <2> QED
    BY <2>2, <2>3, <2>4, <2>5
<1>3. \A n \in Nat : c(n) \in Nat
  BY BitsBelowFinite
<1>4. \A n \in Nat : WordOffset(n) = v + WordSize * c(n)
  BY DEF WordOffset, BitsBelow
<1>5. HeadersAt(frame) = v + WordSize * c(8 * MaskSize + 1)
  <2>1. (8 * MaskSize + 1) - 1 = 8 * MaskSize /\ 8 * MaskSize + 1 \in Nat
    BY SMTT(30) DEF MaskSize
  <2>2. CountOnes(mask) = c(8 * MaskSize + 1) /\ c(8 * MaskSize + 1) \in Nat
    BY <1>3, <2>1 DEF CountOnes, BitsBelow
  <2> HIDE DEF c, v, mask
  <2> QED
    BY <1>2, <2>2, SMTT(30) DEF HeadersAt, v, mask
<1> HIDE DEF c, v, mask
<1>6. ASSUME NEW n \in Nat, n > bit, bit = 0 => n >= 2
      PROVE  WordOffset(bit) + WordsOf(bit) * WordSize <= v + WordSize * c(n)
  <2>1. c(bit) + WordsOf(bit) <= c(n)
    BY <1>2, <1>6, WordsBefore DEF c, mask
  <2> QED
    BY <1>2, <1>3, <1>4, <2>1, WordOrder, Zenon
<1>7. WordOffset(bit) + WordsOf(bit) * WordSize <= frame.instructions_offset
  <2>1. 8 * MaskSize + 1 \in Nat /\ 8 * MaskSize + 1 > bit /\ 8 * MaskSize + 1 >= 2
    BY SMTT(30) DEF MaskSize, ConfigField
  <2> QED
    BY <1>2, <1>5, <1>6, <2>1
<1>8. ASSUME NEW other \in ConfigField, other > bit
      PROVE  WordOffset(bit) + WordsOf(bit) * WordSize <= WordOffset(other)
  <2>1. other \in Nat /\ (bit = 0 => other >= 2)
    BY <1>8, SMTT(30) DEF ConfigField
  <2> QED
    BY <1>4, <1>6, <1>8, <2>1
<1> QED
  BY <1>7, <1>8

\* The parts that a frame stores follow each other, without a gap or an overlap,
\* from the first byte to the last one that TransactionFrame::try_new accepted, for
\* any sizes, any u16 and any length of the buffer.
THEOREM FrameCoversBufferAlways == Spec => []FrameCoversBuffer
<1>1. RunInv => FrameCoversBuffer
  BY RunCovers
<1> QED
  BY <1>1, RunInvAlways, PTL

\* InstructionsIterator and AddressTableLookupIterator, which read without bounds
\* checks, step over exactly the slices that the parser has checked.
THEOREM IteratorsRetraceParseAlways == Spec => []IteratorsRetraceParse
<1>1. RunInv => IteratorsRetraceParse
  BY RunRetraces
<1> QED
  BY <1>1, RunInvAlways, PTL

\* The words that the config getters of a v1 message read are before the
\* instruction headers and no two of them overlap.
THEOREM ConfigWordsAreDisjointAlways == Spec => []ConfigWordsAreDisjoint
<1>1. RunInv => ConfigWordsAreDisjoint
  BY RunWords
<1> QED
  BY <1>1, RunInvAlways, PTL

\* What was recorded stays so when more bytes are looked at.
LEMMA RecordedStays ==
  ASSUME first.frame \in Frame, first.yielded \in Seq(Item), Recorded(bytes),
         NEW n, Grown(bytes, n)
  PROVE  Recorded(n)
<1> DEFINE g == first.frame
           gi == first.yielded
<1>1. Keeps(bytes, n, {}) /\ InHash(0, {}) /\ Beyond(0 + (g.hash_offset + HashSize), {})
  BY GrownInHash
<1>2. CASE g.version = "v1"
  <2>1. /\ V1Known(0, bytes, g) /\ V1ItemsKnown(0, bytes, g, gi)
        /\ V1Ends(first.entry, 0, bytes, g, g.data_len) /\ Len(gi) = g.num_instructions
        /\ V1EndOf(g, gi, g.num_instructions) = g.end_offset
    BY <1>2 DEF Recorded
  <2>2. Len(gi) \in 0 .. g.num_instructions
    BY <2>1, SMTT(30)
  <2>3. /\ V1Known(0, n, g) /\ V1ItemsKnown(0, n, g, gi)
        /\ V1Ends(first.entry, 0, n, g, g.data_len)
    BY <1>1, <2>1, <2>2, V1Kept
  <2> QED
    BY <1>2, <2>1, <2>3 DEF Recorded
<1>3. CASE g.version # "v1"
  <2>1. LegacyKnown(first.entry, 0, bytes, g, gi) /\ LegacyEnds(first.entry, g, gi, g.data_len)
    BY <1>3 DEF Recorded
  <2>2. \A p \in Nat : p < 0 + g.hash_offset => p \notin {}
    OBVIOUS
  <2>3. LegacyKnown(first.entry, 0, n, g, gi)
    BY <1>1, <2>1, <2>2, LegacyKept, SMTT(30)
  <2> QED
    BY <1>3, <2>1, <2>3 DEF Recorded
<1> QED
  BY <1>2, <1>3

\* A parse that goes on keeps what it has in common with the first.
LEMMA AgainParse ==
  ASSUME RunInv, AgainInv,
         \/ ChooseFormat
         \/ ParseSignatures \/ ParseHeader \/ ParseKeys
         \/ ParseInstructions \/ ParseInstruction \/ InstructionsEnd
         \/ ParseLookups \/ ParseLookup \/ LookupsEnd
         \/ ParseV1Prefix \/ ParseV1Config \/ ParseV1Instruction \/ V1InstructionsEnd
         \/ MessageEnd \/ ParseV1Signatures
         \/ InstructionsIter \/ NextLegacyInstruction \/ NextV1Instruction
         \/ LookupsIter \/ NextLookup \/ LookupsIterEnd
  PROVE  AgainInv'
<1>1. UNCHANGED <<entry, base, len, first>>
  <2>1. CASE ChooseFormat \/ ParseSignatures \/ ParseHeader \/ ParseKeys
    BY <2>1, ZenonT(30) DEF ChooseFormat, ParseSignatures, ParseHeader, ParseKeys, Fail, slice
  <2>2. CASE ParseInstructions \/ ParseInstruction \/ InstructionsEnd
    BY <2>2, ZenonT(30) DEF ParseInstructions, ParseInstruction, InstructionsEnd, Fail, slice
  <2>3. CASE ParseLookups \/ ParseLookup \/ LookupsEnd
    BY <2>3, Zenon DEF ParseLookups, ParseLookup, LookupsEnd, Fail, slice
  <2>4. CASE ParseV1Prefix
    <3>1. Fail \/ UNCHANGED <<slice, first>>
      BY <2>4, Zenon DEF ParseV1Prefix
    <3> QED
      BY <3>1 DEF Fail, slice
  <2>7. CASE ParseV1Config
    <3>1. Fail \/ UNCHANGED <<slice, first>>
      BY <2>7, ZenonT(30) DEF ParseV1Config
    <3> QED
      BY <3>1 DEF Fail, slice
  <2>5. CASE ParseV1Instruction \/ V1InstructionsEnd \/ MessageEnd \/ ParseV1Signatures
    BY <2>5, ZenonT(30) DEF ParseV1Instruction, V1InstructionsEnd, MessageEnd, ParseV1Signatures,
                Fail, slice
  <2>6. CASE \/ InstructionsIter \/ NextLegacyInstruction \/ NextV1Instruction
             \/ LookupsIter \/ NextLookup \/ LookupsIterEnd
    BY <2>6, ZenonT(30) DEF InstructionsIter, NextLegacyInstruction, NextV1Instruction, LookupsIter,
                NextLookup, LookupsIterEnd, slice
  <2> QED
    BY <2>1, <2>2, <2>3, <2>4, <2>5, <2>6, <2>7
<1>2. CASE first = NotParsed
  BY <1>1, <1>2 DEF AgainInv
<1>3. CASE first # NotParsed
  <2>1. /\ first.entry \in {"transaction", "prefix"}
        /\ entry \in {first.entry, "transaction", "message"}
        /\ first.frame \in Frame /\ first.yielded \in Seq(Item)
    BY <1>3 DEF AgainInv
  <2>2. Sound' <=> Sound
    BY <1>1 DEF Sound, LookupsHaveIndexes
  <2>3. ASSUME Sound
        PROVE  /\ pc' # "error" /\ Recorded(bytes)' /\ Placed'
               /\ IF first'.frame.version = "v1" THEN V1Again' ELSE LegacyAgain'
    <3>1. /\ pc # "error" /\ Recorded(bytes) /\ Placed
          /\ IF first.frame.version = "v1" THEN V1Again ELSE LegacyAgain
      BY <1>3, <2>3 DEF AgainInv
    <3>2. ParsingAgain
      BY <2>1, <3>1 DEF ParsingAgain, RunInv
    <3>3. /\ pc' # "error" /\ Grown(bytes, bytes')
          /\ IF first.frame.version = "v1" THEN V1Again' ELSE LegacyAgain'
      <4>1. CASE first.frame.version = "v1"
        BY <3>1, <3>2, <4>1, V1AgainStep, Zenon DEF V1Parse
      <4>2. CASE first.frame.version # "v1"
        BY <3>1, <3>2, <4>2, LegacyAgainNext, Zenon DEF LegacyParse
      <4> QED
        BY <4>1, <4>2
    <3>4. Recorded(bytes')
      BY <2>1, <3>1, <3>3, RecordedStays
    <3>5. Recorded(bytes)'
      BY <1>1, <3>4 DEF Recorded
    <3>6. Placed'
      BY <1>1, <3>1 DEF Placed
    <3> QED
      BY <1>1, <3>3, <3>5, <3>6
  <2> QED
    BY <1>1, <1>3, <2>1, <2>2, <2>3 DEF AgainInv
<1> QED
  BY <1>2, <1>3

\* Writing a blockhash keeps all other bytes.
LEMMA WrittenKeeps ==
  ASSUME NEW o \in Nat, base = 0, NEW hash \in [1 .. HashSize -> Byte]
  PROVE  Keeps(bytes, Seen(o, hash), o .. o + HashSize - 1)
<1>1. HashSize \in Nat /\ HashSize >= 1
  BY Sizes
<1>2. hash \in Seq(Byte) /\ Len(hash) = HashSize
  BY <1>1, SMTT(30)
<1>3. base + o .. base + o + Len(hash) - 1 = o .. o + HashSize - 1
  BY <1>1, <1>2, SMTT(30)
<1> QED
  BY <1>3, Zenon DEF Keeps, Known, Seen, Merge

\* A second parse begins.
LEMMA Begins ==
  ASSUME RunInv, AgainInv, entry # "message",
         NEW function \in {entry, "transaction", "message"},
         NEW start \in Nat, NEW end \in Nat, start <= end, ParseAgain(function, start, end),
         \/ function = entry /\ start = 0 /\ end = len
         \/ function = "transaction" /\ start = 0 /\ end = frame.data_len
         \/ function = "message" /\ start = frame.message_offset /\ end = frame.end_offset,
         Keeps(bytes, bytes', frame.hash_offset .. frame.hash_offset + HashSize - 1)
  PROVE  AgainInv'
<1> DEFINE o == frame.hash_offset
           H == o .. o + HashSize - 1
<1>1. /\ pc = "done" /\ first = NotParsed /\ TypeOK /\ Viewed
      /\ AgainBegins(bytes', function, start, end)
  BY DEF ParseAgain, RunInv, Viewed, AgainBegins
<1>2. base = 0 /\ entry \in {"transaction", "prefix"} /\ frame \in Frame /\ yielded \in Seq(Item)
      /\ o \in Nat /\ HashSize \in Nat
  BY <1>1, FrameFields, Sizes DEF AgainInv, TypeOK, Function
<1>3. (\A p \in Nat : p < o => p \notin H) /\ Beyond(o + HashSize, H)
  BY <1>2, SMTT(30) DEF Beyond
<1>4. /\ first'.entry = entry /\ first'.frame = frame /\ first'.yielded = yielded
      /\ entry' = function /\ pc' = "start"
  BY <1>1 DEF AgainBegins
<1>5. first' # NotParsed
  BY <1>2, <1>4, SMTT(30) DEF NotParsed
<1>6. CASE frame.version = "v1"
  <2>1. AtV1View
    BY <1>1, <1>6 DEF RunInv
  <2>2. o = 4 + MaskSize
    BY <2>1 DEF AtV1View, V1Known, V1PrefixKnown
  <2>3. InHash(0, H)
    <3>1. 0 + (4 + MaskSize) = o /\ 0 + CountsAt = o + HashSize
      BY <1>2, <2>2, SMTT(30) DEF CountsAt, MaskSize
    <3> HIDE DEF o, H
    <3> QED
      BY <1>3, <3>1 DEF InHash
  <2> HIDE DEF H
  <2>4. Recorded(bytes)' /\ Placed' /\ V1Again'
    BY <1>1, <1>2, <1>6, <2>1, <2>3, V1Begins DEF H
  <2> QED
    BY <1>2, <1>4, <1>5, <1>6, <2>4 DEF AgainInv
<1>7. CASE frame.version # "v1"
  <2>1. AtLegacyView
    BY <1>1, <1>7 DEF RunInv
  <2> HIDE DEF H
  <2>2. Sound' => Recorded(bytes)' /\ Placed' /\ LegacyAgain'
    BY <1>1, <1>2, <1>3, <1>7, <2>1, LegacyBegins DEF H
  <2> QED
    BY <1>2, <1>4, <1>5, <1>7, <2>2 DEF AgainInv
<1> QED
  BY <1>6, <1>7

\* Bytes of a view are parsed again: message_data() alone, the transaction alone,
\* or all of them with another blockhash.
LEMMA AgainBegin ==
  ASSUME RunInv, AgainInv, ParseMessageAlone \/ ParseTransactionAlone \/ SetRecentBlockhash
  PROVE  AgainInv'
<1> DEFINE H == frame.hash_offset .. frame.hash_offset + HashSize - 1
<1>1. pc = "done" /\ entry # "message" /\ first = NotParsed
  BY DEF ParseMessageAlone, ParseTransactionAlone, SetRecentBlockhash, ParseAgain
<1>2. TypeOK /\ AtView
  BY <1>1, RunView DEF Viewed
<1>3. /\ frame.message_offset \in Nat /\ frame.message_offset <= frame.end_offset
      /\ frame.end_offset \in Nat /\ frame.data_len \in Nat /\ frame.hash_offset \in Nat
      /\ len \in Nat /\ 0 \in Nat /\ 0 <= len /\ 0 <= frame.data_len /\ base = 0
  BY <1>1, <1>2, ViewPlaces, SMTT(30) DEF TypeOK, AgainInv
<1>4. bytes' = bytes => Keeps(bytes, bytes', H)
  BY DEF Keeps
<1>5. CASE ParseMessageAlone
  <2>1. ParseAgain("message", frame.message_offset, frame.end_offset) /\ bytes' = bytes
    BY <1>5 DEF ParseMessageAlone
  <2> QED
    BY <1>1, <1>3, <1>4, <2>1, Begins
<1>6. CASE ParseTransactionAlone
  <2>1. ParseAgain("transaction", 0, frame.data_len) /\ bytes' = bytes
    BY <1>6 DEF ParseTransactionAlone
  <2> QED
    BY <1>1, <1>3, <1>4, <2>1, Begins
<1>7. CASE SetRecentBlockhash
  <2>1. PICK hash \in [1 .. HashSize -> Byte] : bytes' = Seen(frame.hash_offset, hash)
    BY <1>7 DEF SetRecentBlockhash
  <2>2. Keeps(bytes, bytes', H)
    BY <1>3, <2>1, WrittenKeeps
  <2>3. ParseAgain(entry, 0, len)
    BY <1>7 DEF SetRecentBlockhash
  <2> QED
    BY <1>1, <1>3, <2>2, <2>3, Begins
<1> QED
  BY <1>5, <1>6, <1>7

\* What a second parse finds agrees, step by step, with what the first one has
\* stored, and no step of it fails.
THEOREM AgainInvAlways == Spec => [](RunInv /\ AgainInv)
<1>1. Init => RunInv /\ AgainInv
  BY RunInit DEF Init, AgainInv
<1>2. RunInv /\ AgainInv /\ [Next]_vars => (RunInv /\ AgainInv)'
  <2> SUFFICES ASSUME RunInv, AgainInv, [Next]_vars PROVE AgainInv'
    BY RunNext
  <2>1. CASE UNCHANGED vars
    BY <2>1, AgainStutter
  <2>2. CASE Finished
    BY <2>2, AgainStutter DEF Finished
  <2>3. CASE ParseMessageAlone \/ ParseTransactionAlone \/ SetRecentBlockhash
    BY <2>3, AgainBegin
  <2> QED
    BY <2>1, <2>2, <2>3, AgainParse, Zenon DEF Next
<1> QED
  BY <1>1, <1>2, PTL DEF Spec

\* A second parse never fails, and its views are the views of the first one.
LEMMA ViewsAgain ==
  ASSUME RunInv, AgainInv, first # NotParsed, Sound
  PROVE  /\ pc # "error"
         /\ pc = "done" =>
               /\ MessageView(frame, yielded, base)
                    = TransactionView(first.frame, first.yielded).message
               /\ entry # "message" =>
                     TransactionView(frame, yielded) = TransactionView(first.frame, first.yielded)
<1>1. /\ pc # "error" /\ ParsingAgain
      /\ IF first.frame.version = "v1" THEN V1Again ELSE LegacyAgain
  BY Zenon DEF AgainInv, ParsingAgain, RunInv
<1>2. TransactionView(first.frame, first.yielded).message
        = MessageView(first.frame, first.yielded, 0)
  BY DEF TransactionView
<1>3. CASE first.frame.version = "v1"
  BY <1>1, <1>2, <1>3, V1Views DEF V1Parse
<1>4. CASE first.frame.version # "v1"
  BY <1>1, <1>2, <1>4, LegacyViews DEF LegacyParse
<1> QED
  BY <1>3, <1>4

\* The message of a transaction that parses, message_data(), parses on its own,
\* and the MessageView of it hands out the same slices of the same buffer as the
\* view of the transaction.
THEOREM MessageParsesAloneAlways == Spec => []MessageParsesAlone
<1>1. RunInv /\ AgainInv => MessageParsesAlone
  BY ViewsAgain DEF MessageParsesAlone, Sound
<1> QED
  BY <1>1, AgainInvAlways, PTL

\* The bytes of a transaction that try_new_from_prefix finds in a longer buffer,
\* when its lookups have indexes, parse on their own to the same view.
THEOREM PrefixIsSelfContainedAlways == Spec => []PrefixIsSelfContained
<1>1. first.entry = "prefix" => first # NotParsed
  BY SMTT(30) DEF NotParsed
<1>2. RunInv /\ AgainInv => PrefixIsSelfContained
  BY <1>1, ViewsAgain DEF PrefixIsSelfContained, Sound
<1> QED
  BY <1>2, AgainInvAlways, PTL

\* After set_recent_blockhash the bytes still parse, to the same view: no part of
\* the frame depends on the blockhash.
THEOREM BlockhashKeepsTheViewAlways == Spec => []BlockhashKeepsTheView
<1>1. RunInv /\ first.entry = entry => first # NotParsed
  BY SMTT(30) DEF NotParsed, RunInv, TypeOK, Function
<1>2. AgainInv /\ first # NotParsed => first.entry # "message"
  BY DEF AgainInv
<1>3. RunInv /\ AgainInv => BlockhashKeepsTheView
  BY <1>1, <1>2, ViewsAgain DEF BlockhashKeepsTheView, Sound
<1> QED
  BY <1>3, AgainInvAlways, PTL
=============================================================================
