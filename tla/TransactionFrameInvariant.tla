---------------------- MODULE TransactionFrameInvariant -----------------------
(*****************************************************************************)
(* What holds at every step of a parse, of the iteration after it and of a   *)
(* second parse of the same bytes: the inductive invariants of the proofs    *)
(* about TransactionFrame.                                                   *)
(*                                                                           *)
(* RunInv says, at every place of the parser, which of the chosen bytes each *)
(* field of the frame and each item was read from, and that an item begins   *)
(* where the one before it ends.  The properties of a frame do not follow    *)
(* from its fields alone: that an iterator reads what the parser has checked *)
(* rests on both reading the same bytes.                                     *)
(*                                                                           *)
(* AgainInv says that a second parse finds what the first has stored: it is  *)
(* at the same place of the buffer and has the same items so far.            *)
(*****************************************************************************)
EXTENDS TransactionFrame

\* The byte at a place is known.
Known(m, p, b) == p \in DOMAIN m /\ m[p] = b
IsBytes(m) == \A p \in DOMAIN m : m[p] \in Byte

\* A compressed u16 of value v and width w is known at p.
Decoded(m, p, v, w) ==
    \/ w = 1 /\ v \in 0 .. MSB - 1 /\ Known(m, p, v)
    \/ w = 2 /\ \E b1 \in MSB .. 2 * MSB - 1, b2 \in 1 .. MSB - 1 :
                   Known(m, p, b1) /\ Known(m, p + 1, b2) /\ v = b1 - MSB + MSB * b2

-----------------------------------------------------------------------------
(* Totals.                                                                 *)

\* S[i] is the sum of the first i of the numbers g[1], ..., g[n].
Sums(S, g, n) ==
    /\ S \in [0 .. n -> Nat]
    /\ S[0] = 0
    /\ \A i \in 1 .. n : g[i] \in Nat /\ S[i] = S[i - 1] + g[i]
    /\ \A i, j \in 0 .. n : i <= j => S[i] <= S[j]

\* t is the sum of the first n of the numbers g[1], g[2], ...
SumIs(g, n, t) == \E S : Sums(S, g, n) /\ S[n] = t

-----------------------------------------------------------------------------
(* The inductive invariant.  Its parts are about a frame f, the items its    *)
(* loops stepped over and the bytes m of the buffer in which the slice that  *)
(* was given to entry point e begins at `at`.                                *)

Item == [start : Nat, first : Nat, num_first : Nat, second : Nat, num_second : Nat]
InstructionFrame ==
    [num_accounts : Nat, num_accounts_len : Nat, data_len : Nat, data_len_len : Nat]
Frame ==
    [version : {"none", "legacy", "v0", "v1"}, num_signatures : Nat,
     signature_offset : Nat, message_offset : Nat, num_keys : Nat, keys_offset : Nat,
     hash_offset : Nat, num_instructions : Nat, instructions_offset : Nat,
     frames : Seq(InstructionFrame), payloads_offset : Nat, num_lookups : Nat,
     lookups_offset : Nat, writable : Nat, readonly : Nat, mask_offset : Nat,
     mask : Nat, values_offset : Nat, end_offset : Nat, data_len : Nat]
Function == {"transaction", "prefix", "message"}

\* The variables are what they should be and no offset is past the end.
TypeOK ==
    /\ entry \in Function
    /\ base \in Nat
    /\ len \in 0 .. MaxLen
    /\ IsBytes(bytes)
    /\ offset \in 0 .. len
    /\ cursor \in Nat /\ rest \in Nat /\ sum \in Nat
    /\ frame \in Frame
    /\ parsed \in Seq(Item) /\ yielded \in Seq(Item)
    /\ pc \in {"start", "signatures", "header", "keys", "instructions", "instruction",
               "lookups", "lookup", "v1_prefix", "v1_config", "v1_instruction", "end",
               "v1_signatures", "parsed", "next_instruction", "next_lookup", "done",
               "error"}

\* Where the parts of a legacy or v0 message begin.
MessageAt(e, f) == (IF e = "message" THEN 0 ELSE 1) + f.num_signatures * SignatureSize
CountOfKeysAt(e, f) == MessageAt(e, f) + IF f.version = "v0" THEN 4 ELSE 3
InstructionsAt(f) == f.hash_offset + HashSize + Width(f.num_instructions)

\* The end of the k-th instruction or lookup, and where it begins: the lookups
\* are preceded by their count.
EndOf(f, items, k) ==
    IF k = 0 THEN InstructionsAt(f) ELSE items[k].second + items[k].num_second
StartOf(f, items, k) ==
    EndOf(f, items, k - 1) + IF k = f.num_instructions + 1 THEN 1 ELSE 0

\* SignatureFrame.
SignaturesKnown(e, at, m, f) ==
    IF e = "message"
    THEN f.num_signatures = 0 /\ f.signature_offset = 0
    ELSE /\ f.num_signatures \in 1 .. MSB - 1
         /\ f.signature_offset = 1
         /\ Known(m, at, f.num_signatures)

\* MessageHeaderFrame.
HeaderKnown(e, at, m, f) ==
    /\ \/ /\ f.version = "legacy"
          /\ \E b \in 0 .. MSB - 1 : Known(m, at + MessageAt(e, f), b)
       \/ f.version = "v0" /\ Known(m, at + MessageAt(e, f), MSB)
    /\ f.message_offset = AsU16(MessageAt(e, f))

\* StaticAccountKeysFrame and the blockhash.
KeysKnown(e, at, m, f) ==
    /\ f.num_keys # 0 /\ ~(f.num_keys > MAX_STATIC_ACCOUNTS)
    /\ Known(m, at + CountOfKeysAt(e, f), f.num_keys)
    /\ f.keys_offset = AsU16(CountOfKeysAt(e, f) + 1)
    /\ f.hash_offset = CountOfKeysAt(e, f) + 1 + f.num_keys * KeySize
    /\ f.hash_offset <= U16Max

\* The count of instructions.
CountKnown(at, m, f) ==
    /\ Decoded(m, at + (f.hash_offset + HashSize), f.num_instructions,
               Width(f.num_instructions))
    /\ f.instructions_offset = AsU16(InstructionsAt(f))

\* The two counts of the k-th instruction or lookup, which begins where the one
\* before it ends.
BeforeCounts(f, k) == IF k <= f.num_instructions THEN 1 ELSE KeySize
ItemKnown(at, m, f, items, k) ==
    LET counted == items[k].start + BeforeCounts(f, k)
        again == items[k].first + items[k].num_first
    IN  /\ items[k].start = StartOf(f, items, k)
        /\ Decoded(m, at + counted, items[k].num_first, items[k].first - counted)
        /\ Decoded(m, at + again, items[k].num_second, items[k].second - again)
ItemsKnown(at, m, f, items) ==
    \A k \in 1 .. Len(items) : ItemKnown(at, m, f, items, k)

\* They are in order and take the room that the parser asks for in advance.
HasIndexes(items, i) == items[i].num_first + items[i].num_second > 0
Spaced(f, items) ==
    /\ \A i, j \in 0 .. Len(items) : i <= j => EndOf(f, items, i) <= EndOf(f, items, j)
    /\ \A k \in 0 .. Len(items) :
          k <= f.num_instructions => InstructionsAt(f) + 3 * k <= EndOf(f, items, k)
    /\ \A k \in f.num_instructions + 1 .. Len(items) :
          (\A i \in f.num_instructions + 1 .. k : HasIndexes(items, i)) =>
              EndOf(f, items, f.num_instructions) + 1
                  + MIN_SIZED_ATL * (k - f.num_instructions) <= EndOf(f, items, k)

\* The lengths stored for the instructions.
FramesMatch(f, items) ==
    \A k \in 1 .. Len(f.frames) :
        f.frames[k] = [num_accounts |-> items[k].num_first,
                       num_accounts_len |-> items[k].first - (items[k].start + 1),
                       data_len |-> items[k].num_second,
                       data_len_len |->
                           items[k].second - (items[k].first + items[k].num_first)]

\* AddressTableLookupFrame.
LookupsKnown(at, m, f, items) ==
    /\ ~(f.num_lookups > MAX_ATLS)
    /\ Known(m, at + EndOf(f, items, f.num_instructions), f.num_lookups)
    /\ f.lookups_offset = AsU16(EndOf(f, items, f.num_instructions) + 1)
Writable(f, items, k) == [i \in 1 .. k |-> items[f.num_instructions + i].num_first]
Readonly(f, items, k) == [i \in 1 .. k |-> items[f.num_instructions + i].num_second]

\* The totals after k lookups.
Totals(f, items, k) ==
    /\ SumIs(Writable(f, items, k), k, f.writable)
    /\ SumIs(Readonly(f, items, k), k, f.readonly)
NoLookups(f) == f.num_lookups = 0 /\ f.writable = 0 /\ f.readonly = 0

\* The room that the two counts ask for in a slice of length n.
InstructionsFit(f, n) == InstructionsAt(f) + 3 * f.num_instructions <= n
LookupsFit(f, items, n) ==
    EndOf(f, items, f.num_instructions) + 1 + MIN_SIZED_ATL * f.num_lookups <= n
PreludeKnown(e, at, m, f) ==
    SignaturesKnown(e, at, m, f) /\ HeaderKnown(e, at, m, f) /\ KeysKnown(e, at, m, f)
InstructionsKnown(at, m, f, items) ==
    /\ CountKnown(at, m, f)
    /\ ItemsKnown(at, m, f, items)
    /\ Spaced(f, items)
    /\ FramesMatch(f, items)

\* All of a legacy or v0 frame but its end.
LegacyKnown(e, at, m, f, items) ==
    /\ PreludeKnown(e, at, m, f)
    /\ InstructionsKnown(at, m, f, items)
    /\ Len(f.frames) = f.num_instructions
    /\ Len(items) = f.num_instructions + f.num_lookups
    /\ IF f.version = "v0"
       THEN /\ LookupsKnown(at, m, f, items)
            /\ Totals(f, items, f.num_lookups)
            /\ Fits(f.writable) /\ Fits(f.readonly)
       ELSE NoLookups(f)
LegacyEnd(f, items) ==
    IF f.version = "v0" THEN StartOf(f, items, Len(items) + 1)
                        ELSE EndOf(f, items, Len(items))
LegacyFits(f, items, n) ==
    InstructionsFit(f, n) /\ (f.version = "v0" => LookupsFit(f, items, n))

\* Where the end is stored.
LegacyEnds(e, f, items, n) ==
    /\ f.end_offset = LegacyEnd(f, items) /\ f.data_len = f.end_offset
    /\ f.end_offset <= U16Max
    /\ f.data_len <= n /\ (e # "prefix" => f.data_len = n)

\* Where the parts of a v1 message begin.
CountsAt == 4 + MaskSize + HashSize
HeadersAt(f) == f.values_offset + CountOnes(f.mask) * WordSize
PayloadsAt(f) == HeadersAt(f) + HeaderSize * f.num_instructions
V1PrefixKnown(at, m, f) ==
    /\ f.version = "v1" /\ f.message_offset = 0
    /\ Known(m, at, V1_PREFIX)
    /\ Known(m, at + CountsAt, f.num_instructions)
    /\ Known(m, at + (CountsAt + 1), f.num_keys)
    /\ f.hash_offset = 4 + MaskSize
    /\ f.keys_offset = CountsAt + 2 /\ f.keys_offset <= U16Max
    /\ NoLookups(f)

\* TransactionConfigFrame and the place of the headers.
V1ConfigKnown(at, m, f) ==
    /\ \E m0, m1, m2 \in Byte :
          /\ Known(m, at + 4, m0) /\ Known(m, at + 5, m1) /\ Known(m, at + 6, m2)
          /\ f.mask = LittleEndian(m0, LittleEndian(m1, m2))
    /\ SanitizeMask(f.mask) /\ CountOnes(f.mask) \in Nat
    /\ f.values_offset = f.keys_offset + f.num_keys * KeySize
    /\ f.values_offset <= U16Max
    /\ f.instructions_offset = AsU16(HeadersAt(f))
    /\ f.payloads_offset = AsU16(PayloadsAt(f))

\* The lengths in the i-th instruction header.
HeaderAt(f, i) == HeadersAt(f) + HeaderSize * (i - 1)
AccountsLen(at, m, f, i) == m[at + (HeaderAt(f, i) + 1)]
DataLen(at, m, f, i) ==
    LittleEndian(m[at + (HeaderAt(f, i) + 2)], m[at + (HeaderAt(f, i) + 3)])
Payloads(at, m, f, k) ==
    [i \in 1 .. k |-> AccountsLen(at, m, f, i) + DataLen(at, m, f, i)]
HeadersKnown(at, m, f, k) ==
    \A i \in 1 .. k : \A j \in 1 .. 3 : at + (HeaderAt(f, i) + j) \in DOMAIN m
V1Known(at, m, f) ==
    /\ V1PrefixKnown(at, m, f)
    /\ V1ConfigKnown(at, m, f)
    /\ HeadersKnown(at, m, f, f.num_instructions)

\* What is stored of the end of the message and of the signatures after it.
V1Ends(e, at, m, f, n) ==
    /\ f.end_offset <= U16Max
    /\ IF e = "message"
       THEN /\ f.num_signatures = 0 /\ f.signature_offset = 0
            /\ f.data_len = f.end_offset
       ELSE /\ Known(m, at + 1, f.num_signatures)
            /\ f.signature_offset = f.end_offset
            /\ f.data_len = f.end_offset + f.num_signatures * SignatureSize
            /\ f.data_len <= U16Max
    /\ f.data_len <= n /\ (e # "prefix" => f.data_len = n)

\* The slices of the iterator of v1 instructions.
V1EndOf(f, items, k) ==
    IF k = 0 THEN PayloadsAt(f) ELSE items[k].second + items[k].num_second
V1ItemKnown(at, m, f, items, i) ==
    /\ items[i] = [start |-> HeaderAt(f, i),
                   first |-> V1EndOf(f, items, i - 1),
                   num_first |-> AccountsLen(at, m, f, i),
                   second |-> V1EndOf(f, items, i - 1) + AccountsLen(at, m, f, i),
                   num_second |-> DataLen(at, m, f, i)]
    /\ V1EndOf(f, items, i) <= f.end_offset
V1ItemsKnown(at, m, f, items) ==
    \A i \in 1 .. Len(items) : V1ItemKnown(at, m, f, items, i)

-----------------------------------------------------------------------------
(* The stages of a run.                                                      *)

Reset == parsed = <<>> /\ yielded = <<>>
NoInstructions == Reset /\ frame.frames = <<>> /\ NoLookups(frame)
AtStart == frame = NoFrame /\ Reset /\ offset = 0
AtSignatures == AtStart /\ entry # "message" /\ len > 0
AtHeader ==
    /\ NoInstructions
    /\ SignaturesKnown(entry, base, bytes, frame)
    /\ offset = MessageAt(entry, frame)
AtKeys ==
    /\ NoInstructions
    /\ SignaturesKnown(entry, base, bytes, frame)
    /\ HeaderKnown(entry, base, bytes, frame)
    /\ offset = CountOfKeysAt(entry, frame)
AtInstructions ==
    /\ NoInstructions
    /\ PreludeKnown(entry, base, bytes, frame)
    /\ offset = frame.hash_offset + HashSize
AtInstruction ==
    /\ PreludeKnown(entry, base, bytes, frame)
    /\ InstructionsKnown(base, bytes, frame, parsed)
    /\ Len(frame.frames) = Len(parsed)
    /\ Len(parsed) + rest = frame.num_instructions
    /\ InstructionsFit(frame, len)
    /\ NoLookups(frame) /\ yielded = <<>>
    /\ offset = EndOf(frame, parsed, Len(parsed))
AtLookups ==
    /\ AtInstruction
    /\ rest = 0 /\ frame.version = "v0"
AtLookup ==
    /\ PreludeKnown(entry, base, bytes, frame) /\ frame.version = "v0"
    /\ InstructionsKnown(base, bytes, frame, parsed)
    /\ Len(frame.frames) = frame.num_instructions
    /\ rest <= frame.num_lookups
    /\ Len(parsed) = frame.num_instructions + (frame.num_lookups - rest)
    /\ LegacyFits(frame, parsed, len)
    /\ LookupsKnown(base, bytes, frame, parsed)
    /\ Totals(frame, parsed, frame.num_lookups - rest)
    /\ yielded = <<>>
    /\ offset = StartOf(frame, parsed, Len(parsed) + 1)
AtV1Prefix == AtStart
AtV1Config ==
    /\ Reset
    /\ V1PrefixKnown(base, bytes, frame)
    /\ frame.num_signatures = 0 /\ frame.signature_offset = 0
    /\ offset = frame.keys_offset + frame.num_keys * KeySize
AtV1Instruction ==
    /\ Reset
    /\ V1PrefixKnown(base, bytes, frame) /\ V1ConfigKnown(base, bytes, frame)
    /\ frame.num_signatures = 0 /\ frame.signature_offset = 0
    /\ rest <= frame.num_instructions
    /\ cursor = HeadersAt(frame) + HeaderSize * (frame.num_instructions - rest)
    /\ offset = PayloadsAt(frame)
    /\ HeadersKnown(base, bytes, frame, frame.num_instructions - rest)
    /\ SumIs(Payloads(base, bytes, frame, frame.num_instructions - rest),
             frame.num_instructions - rest, sum)
    /\ sum <= UsizeMax
AtV1End ==
    /\ Reset
    /\ V1Known(base, bytes, frame)
    /\ frame.num_signatures = 0 /\ frame.signature_offset = 0
    /\ SumIs(Payloads(base, bytes, frame, frame.num_instructions),
             frame.num_instructions, sum)
    /\ offset = PayloadsAt(frame) + sum
AtEnd ==
    IF frame.version = "v1"
    THEN AtV1End
    ELSE /\ LegacyKnown(entry, base, bytes, frame, parsed)
         /\ LegacyFits(frame, parsed, len)
         /\ offset = LegacyEnd(frame, parsed)
         /\ yielded = <<>>
AtV1Signatures ==
    /\ AtV1End /\ entry # "message"
    /\ frame.end_offset = offset /\ offset <= U16Max
AtLegacyView ==
    /\ LegacyKnown(entry, base, bytes, frame, parsed)
    /\ LegacyFits(frame, parsed, len)
    /\ LegacyEnds(entry, frame, parsed, len)
    /\ Len(yielded) <= Len(parsed)
    /\ \A i \in 1 .. Len(yielded) : yielded[i] = parsed[i]
    /\ pc = "parsed" => yielded = <<>>
    /\ pc = "next_instruction" =>
          /\ Len(yielded) + rest = frame.num_instructions
          /\ offset = EndOf(frame, parsed, Len(yielded))
    /\ pc = "next_lookup" =>
          /\ Len(yielded) + rest = frame.num_instructions + frame.num_lookups
          /\ rest <= frame.num_lookups
          /\ rest > 0 => cursor = StartOf(frame, parsed, Len(yielded) + 1)
    /\ pc = "done" => Len(yielded) = Len(parsed)

\* The iterator of v1 instructions adds up the same lengths as the parser.
AtV1Payload(S) ==
    /\ Sums(S, Payloads(base, bytes, frame, frame.num_instructions),
            frame.num_instructions)
    /\ S[frame.num_instructions] = sum
    /\ pc = "next_instruction" => offset = PayloadsAt(frame) + S[Len(yielded)]
AtV1View ==
    /\ V1Known(base, bytes, frame)
    /\ V1Ends(entry, base, bytes, frame, len)
    /\ frame.end_offset = PayloadsAt(frame) + sum
    /\ \E S : AtV1Payload(S)
    /\ parsed = <<>>
    /\ V1ItemsKnown(base, bytes, frame, yielded)
    /\ pc = "parsed" => yielded = <<>>
    /\ pc = "next_instruction" =>
          /\ Len(yielded) + rest = frame.num_instructions
          /\ cursor = HeadersAt(frame) + HeaderSize * Len(yielded)
          /\ offset = V1EndOf(frame, yielded, Len(yielded))
    /\ pc \in {"next_lookup", "done"} =>
          /\ Len(yielded) = frame.num_instructions /\ rest = 0
          /\ offset = frame.end_offset
          /\ offset = V1EndOf(frame, yielded, Len(yielded))
RunInv ==
    /\ TypeOK
    /\ pc = "start" => AtStart
    /\ pc = "signatures" => AtSignatures
    /\ pc = "header" => AtHeader
    /\ pc = "keys" => AtKeys
    /\ pc = "instructions" => AtInstructions
    /\ pc = "instruction" => AtInstruction
    /\ pc = "lookups" => AtLookups
    /\ pc = "lookup" => AtLookup
    /\ pc = "v1_prefix" => AtV1Prefix
    /\ pc = "v1_config" => AtV1Config
    /\ pc = "v1_instruction" => AtV1Instruction
    /\ pc = "end" => AtEnd
    /\ pc = "v1_signatures" => AtV1Signatures
    /\ Viewed => IF frame.version = "v1" THEN AtV1View ELSE AtLegacyView

-----------------------------------------------------------------------------
(* The second parse of a buffer.                                             *)

\* The buffer still holds what the first parse stored.
Recorded(m) ==
    IF first.frame.version = "v1"
    THEN /\ V1Known(0, m, first.frame)
         /\ V1Ends(first.entry, 0, m, first.frame, first.frame.data_len)
         /\ V1ItemsKnown(0, m, first.frame, first.yielded)
         /\ Len(first.yielded) = first.frame.num_instructions
         /\ V1EndOf(first.frame, first.yielded, first.frame.num_instructions)
              = first.frame.end_offset
    ELSE /\ LegacyKnown(first.entry, 0, m, first.frame, first.yielded)
         /\ LegacyEnds(first.entry, first.frame, first.yielded, first.frame.data_len)

\* Which part of it is parsed again.
Placed ==
    /\ base = IF entry = "message" THEN first.frame.message_offset ELSE 0
    /\ CASE entry = "message" -> base + len = first.frame.end_offset
         [] entry = "transaction" -> len = first.frame.data_len
         [] OTHER -> first.frame.data_len <= len
    /\ first.frame.version # "v1" =>
          LegacyFits(first.frame, first.yielded, base + len)
SameItem(item, other) ==
    /\ other.start = base + item.start
    /\ other.first = base + item.first /\ other.num_first = item.num_first
    /\ other.second = base + item.second /\ other.num_second = item.num_second
SameItems ==
    /\ Len(parsed) <= Len(first.yielded)
    /\ \A i \in 1 .. Len(parsed) : SameItem(parsed[i], first.yielded[i])

\* The totals of the lookups add up the same counts as before.
WritableAgain(S, k) ==
    /\ Sums(S, Writable(first.frame, first.yielded, first.frame.num_lookups),
            first.frame.num_lookups)
    /\ S[first.frame.num_lookups] = first.frame.writable /\ S[k] = frame.writable
ReadonlyAgain(S, k) ==
    /\ Sums(S, Readonly(first.frame, first.yielded, first.frame.num_lookups),
            first.frame.num_lookups)
    /\ S[first.frame.num_lookups] = first.frame.readonly /\ S[k] = frame.readonly

\* A legacy or v0 transaction is parsed as one again.
LegacyAgain ==
    /\ pc \notin {"v1_prefix", "v1_config", "v1_instruction", "v1_signatures"}
    /\ SameItems
    /\ pc = "lookup" => /\ \E S : WritableAgain(S, frame.num_lookups - rest)
                        /\ \E S : ReadonlyAgain(S, frame.num_lookups - rest)
    /\ pc = "end" \/ Viewed =>
          /\ frame.version # "v1"
          /\ frame.writable = first.frame.writable /\ frame.readonly = first.frame.readonly

\* A v1 transaction is parsed as one again.
V1Again ==
    /\ pc \notin {"signatures", "header", "keys", "instructions", "instruction",
                  "lookups", "lookup"}
    /\ pc = "v1_instruction" =>
          offset + sum
            = V1EndOf(first.frame, first.yielded, frame.num_instructions - rest)
    /\ pc \in {"end", "v1_signatures"} => offset = first.frame.end_offset
    /\ pc \in {"end", "v1_signatures"} \/ Viewed => frame.version = "v1"
    /\ Viewed => frame.end_offset = first.frame.end_offset
    /\ Len(yielded) <= Len(first.yielded)
    /\ \A i \in 1 .. Len(yielded) : yielded[i] = first.yielded[i]

\* Without what follows it, a prefix is only sure to parse when its lookups
\* have indexes.
Sound == first.entry = "prefix" /\ entry # "prefix" => LookupsHaveIndexes
AgainInv ==
    /\ first = NotParsed => base = 0
    /\ first # NotParsed =>
          /\ first.entry \in {"transaction", "prefix"}
          /\ entry \in {first.entry, "transaction", "message"}
          /\ first.frame \in Frame /\ first.yielded \in Seq(Item)
          /\ Sound => /\ pc # "error"
                      /\ Recorded(bytes)
                      /\ Placed
                      /\ IF first.frame.version = "v1" THEN V1Again ELSE LegacyAgain

\* A second parse, of what the first one has recorded.
ParsingAgain ==
    /\ TypeOK
    /\ first.entry \in {"transaction", "prefix"}
    /\ entry \in {first.entry, "transaction", "message"}
    /\ first.frame \in Frame /\ first.yielded \in Seq(Item)
    /\ Recorded(bytes)
    /\ Placed
LegacyParse == ParsingAgain /\ first.frame.version # "v1" /\ LegacyAgain
V1Parse == ParsingAgain /\ first.frame.version = "v1" /\ V1Again
=============================================================================
