--------------------------- MODULE TransactionFrame ---------------------------
(***************************************************************************)
(* The zero-copy parser of serialized transactions and messages            *)
(* (transaction-view/src: TransactionFrame, MessageFrame and the frames    *)
(* they are made of) and the iterators that later read the same bytes      *)
(* again, most of them without bounds checks.                              *)
(*                                                                         *)
(* A buffer has a length and bytes that are only chosen when something     *)
(* first looks at them: content the parser skips (signatures, keys, hashes,*)
(* account indexes, data, program ids and the two readonly counts) stays   *)
(* unchosen.  The widths of bytes, of u16 and of the fixed-size items are  *)
(* constants, so that an offset that does not fit u16 is a reachable case. *)
(***************************************************************************)
EXTENDS Integers, Sequences, FiniteSets

CONSTANTS
    MSB,            \* the high bit of a byte, 0x80: bytes are 0 .. 2 * MSB - 1
    U16Max,         \* u16::MAX
    UsizeMax,       \* usize::MAX
    SignatureSize,  \* size_of::<Signature>()
    KeySize,        \* size_of::<Pubkey>()
    HashSize,       \* size_of::<Hash>()
    WordSize,       \* CONFIG_VALUE_SIZE
    PacketSize,     \* PACKET_DATA_SIZE
    MaxLen          \* bound on the length of the buffer

ASSUME FrameAssumption ==
    /\ {MSB, U16Max, UsizeMax, SignatureSize, KeySize, HashSize,
        WordSize, PacketSize, MaxLen} \subseteq Nat \ {0}
    /\ MSB * MSB <= U16Max + 1      \* a two-byte compressed u16 is a u16
    /\ U16Max < UsizeMax /\ MaxLen < UsizeMax

VARIABLES
    entry,     \* "transaction", "prefix" or "message": the function called
    base,      \* where the parsed slice begins in the buffer
    len,       \* its length
    bytes,     \* the bytes looked at so far, by their place in the buffer
    pc,        \* the part that is parsed or iterated next
    offset,    \* the parser's, later an iterator's, offset into the slice
    cursor,    \* header_offset of a v1 message
    rest,      \* iterations left of the current loop
    sum,       \* total_payload_len
    frame,     \* the metadata stored so far
    parsed,    \* the slices the loops of the parser stepped over
    yielded,   \* the slices the iterators handed out
    first      \* the earlier parse of bytes that are now parsed again

slice == <<entry, base, len>>
vars == <<entry, base, len, bytes, pc, offset, cursor, rest, sum, frame,
          parsed, yielded, first>>

Byte == 0 .. 2 * MSB - 1
V1_PREFIX == MSB + 1
MAX_STATIC_ACCOUNTS == PacketSize \div KeySize

\* Mutant: every lookup is taken to have a writable and a readonly index.
MinSizedAtlWithBoth == KeySize + 4

MIN_SIZED_ATL == KeySize + 3
MIN_SIZED_PACKET_WITH_ATLS ==
    1 + SignatureSize + 1 + 3 + 1 + KeySize + HashSize + 1 + 1
MAX_ATLS == (PacketSize - MIN_SIZED_PACKET_WITH_ATLS) \div MIN_SIZED_ATL
HeaderSize == 4   \* size_of::<V1InstructionHeader>()
MaskSize == 3     \* bytes of the config mask: its five known bits and more
FIXED_V1_PREFIX_LEN == 1 + 3 + MaskSize + HashSize + 1 + 1

NoFrame ==
    [version |-> "none", num_signatures |-> 0, signature_offset |-> 0,
     message_offset |-> 0, num_keys |-> 0, keys_offset |-> 0,
     hash_offset |-> 0, num_instructions |-> 0, instructions_offset |-> 0,
     frames |-> <<>>, payloads_offset |-> 0, num_lookups |-> 0,
     lookups_offset |-> 0, writable |-> 0, readonly |-> 0, mask_offset |-> 0,
     mask |-> 0, values_offset |-> 0, end_offset |-> 0, data_len |-> 0]

-----------------------------------------------------------------------------
\* bytes.rs.

AsU16(n) == n % (U16Max + 1)

Fits(n) == n <= U16Max      \* checked_offset, u16::try_from

\* check_remaining, with the wrapping subtraction of the code.
Remaining(o, n) == n <= (len - o) % (UsizeMax + 1)

\* The values the byte at o may have.
ByteAt(o) == IF base + o \in DOMAIN bytes THEN {bytes[base + o]} ELSE Byte

\* Two sets of bytes together, the first of which counts where they meet.
Merge(f, g) ==
    [i \in DOMAIN f \cup DOMAIN g |-> IF i \in DOMAIN f THEN f[i] ELSE g[i]]

\* The bytes looked at after those from o on turned out to be values.
Seen(o, values) ==
    Merge([i \in base + o .. base + o + Len(values) - 1 |-> values[i - base - o + 1]],
          bytes)

Malformed == [value |-> 0, width |-> 0]

\* optimized_read_compressed_u16, with n bytes left of which b1, b2 are next.
Decode(n, b1, b2) ==
    CASE n = 0 -> Malformed
      [] n > 0 /\ b1 < MSB -> [value |-> b1, width |-> 1]
      [] n > 0 /\ b1 >= MSB /\ (n = 1 \/ b2 = 0 \/ b2 >= MSB) -> Malformed
      [] OTHER -> [value |-> b1 - MSB + MSB * b2, width |-> 2]

Refused == [ok |-> FALSE]

\* optimized_read_compressed_u16 at o followed by advance_offset_for_array for
\* items of the given size: the ways it can go.
CountedArray(o, size) ==
    {LET n == Decode(len - o, b1, b2)
     IN  IF n.width = 0 \/ ~Remaining(o + n.width, size * n.value)
         THEN Refused
         ELSE [ok |-> TRUE, at |-> o + n.width, count |-> n.value, width |-> n.width,
               seen |-> Seen(o, SubSeq(<<b1, b2>>, 1, n.width))] :
     b1 \in ByteAt(o), b2 \in ByteAt(o + 1)}

\* A little-endian number of two or more bytes.
LittleEndian(b0, b1) == b0 + 2 * MSB * b1

-----------------------------------------------------------------------------
\* Every function of the parser returns at its first error, and nothing is kept.
Fail ==
    /\ pc' = "error"
    /\ bytes' = <<>>
    /\ offset' = 0 /\ cursor' = 0 /\ rest' = 0 /\ sum' = 0
    /\ frame' = NoFrame
    /\ parsed' = <<>> /\ yielded' = <<>>
    /\ UNCHANGED <<slice, first>>

\* Mutant: a message with the high bit set is taken to be v1, as in a transaction.
ChooseFormatByHighBit ==
    /\ pc = "start"
    /\ len > 0
    /\ \E b \in ByteAt(0) :
          /\ bytes' = Seen(0, <<b>>)
          /\ pc' = CASE b >= MSB -> "v1_prefix"
                     [] entry = "message" /\ b < MSB -> "header"
                     [] OTHER -> "signatures"
    /\ UNCHANGED <<slice, offset, cursor, rest, sum, frame, parsed, yielded, first>>

\* is_legacy_or_v0 and MessageFrame::try_new choose by the first byte.
ChooseFormat ==
    /\ pc = "start"
    /\ IF len = 0
       THEN /\ pc' = (IF entry = "message" THEN "header" ELSE "error")
            /\ UNCHANGED bytes
       ELSE \E b \in ByteAt(0) :
               /\ bytes' = Seen(0, <<b>>)
               /\ pc' = CASE entry = "message" /\ b = V1_PREFIX -> "v1_prefix"
                          [] entry = "message" /\ b # V1_PREFIX -> "header"
                          [] entry # "message" /\ b < MSB -> "signatures"
                          [] OTHER -> "v1_prefix"
    /\ UNCHANGED <<slice, offset, cursor, rest, sum, frame, parsed, yielded, first>>

\* SignatureFrame::try_new.
ParseSignatures ==
    /\ pc = "signatures"
    /\ \E n \in ByteAt(0) :
          LET array == n * SignatureSize
          IN  IF n = 0 \/ n >= MSB \/ ~Remaining(1, array)
              THEN Fail
              ELSE /\ bytes' = Seen(0, <<n>>)
                   /\ frame' = [frame EXCEPT !.num_signatures = n,
                                             !.signature_offset = AsU16(1)]
                   /\ offset' = 1 + array
                   /\ pc' = "header"
                   /\ UNCHANGED <<slice, cursor, rest, sum, parsed, yielded, first>>

\* MessageHeaderFrame::try_new: the version byte of v0, or the first count of
\* a legacy header, and the rest of the header.
ParseHeader ==
    /\ pc = "header"
    /\ IF offset >= len
       THEN Fail
       ELSE \E b \in ByteAt(offset) :
              LET size == IF b < MSB THEN 3 ELSE 4
              IN  IF b > MSB \/ offset + size > len
                  THEN Fail
                  ELSE /\ bytes' = Seen(offset, <<b>>)
                       /\ frame' = [frame EXCEPT
                             !.version = IF b < MSB THEN "legacy" ELSE "v0",
                             !.message_offset = AsU16(offset)]
                       /\ offset' = offset + size
                       /\ pc' = "keys"
                       /\ UNCHANGED <<slice, cursor, rest, sum, parsed,
                                      yielded, first>>

\* StaticAccountKeysFrame::try_new, and the recent blockhash after the keys.
ParseKeys ==
    /\ pc = "keys"
    /\ IF offset >= len
       THEN Fail
       ELSE \E n \in ByteAt(offset) :
              LET hash == offset + 1 + n * KeySize
              IN  IF \/ n = 0 \/ n > MAX_STATIC_ACCOUNTS
                     \/ ~Remaining(offset + 1, n * KeySize)
                     \/ ~Fits(hash) \/ ~Remaining(hash, HashSize)
                  THEN Fail
                  ELSE /\ bytes' = Seen(offset, <<n>>)
                       /\ frame' = [frame EXCEPT !.num_keys = n,
                                                 !.keys_offset = AsU16(offset + 1),
                                                 !.hash_offset = hash]
                       /\ offset' = hash + HashSize
                       /\ pc' = "instructions"
                       /\ UNCHANGED <<slice, cursor, rest, sum, parsed,
                                      yielded, first>>

\* The count of InstructionsFrame::try_new_for_legacy_and_v0, which must leave
\* room for three bytes per instruction.
ParseInstructions ==
    /\ pc = "instructions"
    /\ \E n \in CountedArray(offset, 3) :
          IF ~n.ok
          THEN Fail
          ELSE /\ bytes' = n.seen
               /\ offset' = n.at
               /\ frame' = [frame EXCEPT !.num_instructions = n.count,
                                         !.instructions_offset = AsU16(n.at)]
               /\ rest' = n.count
               /\ pc' = "instruction"
               /\ UNCHANGED <<slice, cursor, sum, parsed, yielded, first>>

\* One iteration of its loop.
ParseInstruction ==
    /\ pc = "instruction"
    /\ rest > 0
    /\ IF offset >= len
       THEN Fail
       ELSE \E a \in CountedArray(offset + 1, 1) :
              IF ~a.ok
              THEN Fail
              ELSE \E d \in CountedArray(a.at + a.count, 1) :
                     IF ~d.ok
                     THEN Fail
                     ELSE /\ bytes' = Merge(d.seen, a.seen)
                          /\ offset' = d.at + d.count
                          /\ frame' = [frame EXCEPT !.frames = Append(@,
                                [num_accounts |-> a.count, num_accounts_len |-> a.width,
                                 data_len |-> d.count, data_len_len |-> d.width])]
                          /\ parsed' = Append(parsed,
                                [start |-> offset, first |-> a.at, num_first |-> a.count,
                                 second |-> d.at, num_second |-> d.count])
                          /\ rest' = rest - 1
                          /\ UNCHANGED <<slice, cursor, pc, sum, yielded, first>>

InstructionsEnd ==
    /\ pc = "instruction"
    /\ rest = 0
    /\ pc' = IF frame.version = "v0" THEN "lookups" ELSE "end"
    /\ UNCHANGED <<slice, bytes, offset, cursor, rest, sum, frame, parsed,
                   yielded, first>>

\* The count of AddressTableLookupFrame::try_new.
ParseLookups ==
    /\ pc = "lookups"
    /\ IF offset >= len
       THEN Fail
       ELSE \E n \in ByteAt(offset) :
              IF n > MAX_ATLS \/ ~Remaining(offset + 1, MIN_SIZED_ATL * n)
              THEN Fail
              ELSE /\ bytes' = Seen(offset, <<n>>)
                   /\ offset' = offset + 1
                   /\ frame' = [frame EXCEPT !.num_lookups = n,
                                             !.lookups_offset = AsU16(offset + 1)]
                   /\ rest' = n
                   /\ pc' = "lookup"
                   /\ UNCHANGED <<slice, cursor, sum, parsed, yielded, first>>

\* One iteration of its loop: the writable and the readonly indexes of a table.
ParseLookup ==
    /\ pc = "lookup"
    /\ rest > 0
    /\ IF ~Remaining(offset, KeySize)
       THEN Fail
       ELSE \E w \in CountedArray(offset + KeySize, 1) :
              IF ~w.ok
              THEN Fail
              ELSE \E r \in CountedArray(w.at + w.count, 1) :
                     IF ~r.ok
                     THEN Fail
                     ELSE /\ bytes' = Merge(r.seen, w.seen)
                          /\ offset' = r.at + r.count
                          /\ frame' = [frame EXCEPT !.writable = @ + w.count,
                                                    !.readonly = @ + r.count]
                          /\ parsed' = Append(parsed,
                                [start |-> offset, first |-> w.at, num_first |-> w.count,
                                 second |-> r.at, num_second |-> r.count])
                          /\ rest' = rest - 1
                          /\ UNCHANGED <<slice, cursor, pc, sum, yielded, first>>

LookupsEnd ==
    /\ pc = "lookup"
    /\ rest = 0
    /\ IF Fits(frame.writable) /\ Fits(frame.readonly)
       THEN /\ pc' = "end"
            /\ UNCHANGED <<slice, bytes, offset, cursor, rest, sum, frame,
                           parsed, yielded, first>>
       ELSE Fail

-----------------------------------------------------------------------------
\* The v1 format.

HasBit(mask, bit) == (mask \div 2^bit) % 2 = 1
CountOnes(mask) == Cardinality({bit \in 0 .. 8 * MaskSize : HasBit(mask, bit)})

\* Mutant: the two halves of the priority fee are not checked to agree.
SanitizeBitsOnly(mask) == mask < 32

\* sanitize_mask: only bits 0 to 4, and bits 0 and 1 together.
SanitizeMask(mask) == mask < 32 /\ (HasBit(mask, 0) <=> HasBit(mask, 1))

\* The fixed prefix and the addresses of MessageFrame::try_new_as_v1.  The mask
\* and the number of required signatures are chosen where they are used.
ParseV1Prefix ==
    /\ pc = "v1_prefix"
    /\ LET hash_at == 4 + MaskSize
           counts_at == hash_at + HashSize
           keys_at == counts_at + 2
       IN  IF ~Remaining(0, FIXED_V1_PREFIX_LEN)
           THEN Fail
           ELSE \E version \in ByteAt(0),
                   instructions \in ByteAt(counts_at), keys \in ByteAt(counts_at + 1) :
                  IF \/ version # V1_PREFIX
                     \/ ~Fits(hash_at) \/ ~Fits(keys_at)
                     \/ ~Remaining(keys_at, keys * KeySize)
                  THEN Fail
                  ELSE /\ bytes' = Merge(Seen(0, <<version>>),
                                       Seen(counts_at, <<instructions, keys>>))
                       /\ frame' = [frame EXCEPT
                             !.version = "v1", !.message_offset = AsU16(0),
                             !.hash_offset = hash_at,
                             !.num_instructions = instructions,
                             !.num_keys = keys, !.keys_offset = keys_at]
                       /\ offset' = keys_at + keys * KeySize
                       /\ pc' = "v1_config"
                       /\ UNCHANGED <<slice, cursor, rest, sum, parsed, yielded, first>>

\* TransactionConfigFrame::try_new, and the header block of try_new_for_v1.
ParseV1Config ==
    /\ pc = "v1_config"
    /\ \E m0 \in ByteAt(4), m1 \in ByteAt(5), m2 \in ByteAt(6) :
         LET mask == LittleEndian(m0, LittleEndian(m1, m2))
             values == CountOnes(mask) * WordSize
             headers_at == offset + values
             headers == HeaderSize * frame.num_instructions
         IN  IF \/ ~SanitizeMask(mask)
                \/ ~Fits(offset) \/ ~Remaining(offset, values)
                \/ ~Remaining(headers_at, headers)
             THEN Fail
             ELSE /\ bytes' = Seen(4, <<m0, m1, m2>>)
                  /\ frame' = [frame EXCEPT
                        !.mask_offset = 4, !.mask = mask,
                        !.values_offset = offset,
                        !.instructions_offset = AsU16(headers_at),
                        !.payloads_offset = AsU16(headers_at + headers)]
                  /\ cursor' = headers_at
                  /\ offset' = headers_at + headers
                  /\ rest' = frame.num_instructions
                  /\ sum' = 0
                  /\ pc' = "v1_instruction"
                  /\ UNCHANGED <<slice, parsed, yielded, first>>

\* One iteration of the loop of try_new_for_v1: the lengths in a header.
ParseV1Instruction ==
    /\ pc = "v1_instruction"
    /\ rest > 0
    /\ \E accounts \in ByteAt(cursor + 1),
          d0 \in ByteAt(cursor + 2), d1 \in ByteAt(cursor + 3) :
         LET payload == accounts + LittleEndian(d0, d1)
         IN  IF sum + payload > UsizeMax
             THEN Fail
             ELSE /\ bytes' = Seen(cursor + 1, <<accounts, d0, d1>>)
                  /\ sum' = sum + payload
                  /\ cursor' = cursor + HeaderSize
                  /\ rest' = rest - 1
                  /\ UNCHANGED <<slice, pc, offset, frame, parsed, yielded, first>>

\* One check for the payloads of all instructions.
V1InstructionsEnd ==
    /\ pc = "v1_instruction"
    /\ rest = 0
    /\ IF ~Remaining(offset, sum)
       THEN Fail
       ELSE /\ offset' = offset + sum
            /\ pc' = "end"
            /\ UNCHANGED <<slice, bytes, cursor, rest, sum, frame, parsed,
                           yielded, first>>

-----------------------------------------------------------------------------
\* Mutant: the end of the message is stored without the check.
MessageEndUnchecked ==
    /\ pc = "end"
    /\ frame' = [frame EXCEPT !.end_offset = AsU16(offset), !.data_len = AsU16(offset)]
    /\ pc' = IF entry # "message" /\ frame.version = "v1" THEN "v1_signatures"
             ELSE IF entry = "prefix" \/ AsU16(offset) = len THEN "parsed" ELSE "error"
    /\ UNCHANGED <<slice, bytes, offset, cursor, rest, sum, parsed, yielded, first>>

\* The end of the message, and of a legacy or v0 transaction; only
\* try_new_from_prefix allows bytes after it.
MessageEnd ==
    /\ pc = "end"
    /\ IF ~Fits(offset)
       THEN Fail
       ELSE /\ frame' = [frame EXCEPT !.end_offset = offset, !.data_len = offset]
            /\ pc' = IF entry # "message" /\ frame.version = "v1" THEN "v1_signatures"
                     ELSE IF entry = "prefix" \/ offset = len THEN "parsed" ELSE "error"
            /\ UNCHANGED <<slice, bytes, offset, cursor, rest, sum, parsed,
                           yielded, first>>

\* TransactionFrame::try_new_as_v1: the signatures follow the message, as many
\* as its header requires.
ParseV1Signatures ==
    /\ pc = "v1_signatures"
    /\ \E required \in ByteAt(1) :
         LET end == offset + required * SignatureSize
         IN  IF \/ ~Remaining(offset, required * SignatureSize)
                \/ ~Fits(end)
                \/ entry = "transaction" /\ end # len
             THEN Fail
             ELSE /\ bytes' = Seen(1, <<required>>)
                  /\ frame' = [frame EXCEPT !.num_signatures = required,
                                            !.signature_offset = frame.end_offset,
                                            !.data_len = end]
                  /\ offset' = end
                  /\ pc' = "parsed"
                  /\ UNCHANGED <<slice, cursor, rest, sum, parsed, yielded, first>>

-----------------------------------------------------------------------------
\* The iterators, which trust the stored frame.

\* InstructionsFrame::iter.
InstructionsIter ==
    /\ pc = "parsed"
    /\ pc' = "next_instruction"
    /\ rest' = frame.num_instructions
    /\ cursor' = frame.instructions_offset
    /\ offset' = IF frame.version = "v1" THEN frame.payloads_offset
                                         ELSE frame.instructions_offset
    /\ UNCHANGED <<slice, bytes, sum, frame, parsed, yielded, first>>

\* Mutant: the width of the data length is taken to be one byte.
NextInstructionNarrow ==
    /\ pc = "next_instruction"
    /\ rest > 0
    /\ frame.version # "v1"
    /\ LET f == frame.frames[frame.num_instructions - rest + 1]
           accounts == offset + 1 + f.num_accounts_len
           data == accounts + f.num_accounts + 1
       IN  /\ yielded' = Append(yielded,
                 [start |-> offset, first |-> accounts, num_first |-> f.num_accounts,
                  second |-> data, num_second |-> f.data_len])
           /\ offset' = data + f.data_len
    /\ rest' = rest - 1
    /\ UNCHANGED <<slice, bytes, pc, cursor, sum, frame, parsed, first>>

\* for_legacy_and_v0: the stored lengths and widths give the slices.
NextLegacyInstruction ==
    /\ pc = "next_instruction"
    /\ rest > 0
    /\ frame.version # "v1"
    /\ LET f == frame.frames[frame.num_instructions - rest + 1]
           accounts == offset + 1 + f.num_accounts_len
           data == accounts + f.num_accounts + f.data_len_len
       IN  /\ yielded' = Append(yielded,
                 [start |-> offset, first |-> accounts, num_first |-> f.num_accounts,
                  second |-> data, num_second |-> f.data_len])
           /\ offset' = data + f.data_len
    /\ rest' = rest - 1
    /\ UNCHANGED <<slice, bytes, pc, cursor, sum, frame, parsed, first>>

\* read_v1_header and for_v1: the header is read again.
NextV1Instruction ==
    /\ pc = "next_instruction"
    /\ rest > 0
    /\ frame.version = "v1"
    /\ \E accounts \in ByteAt(cursor + 1),
          d0 \in ByteAt(cursor + 2), d1 \in ByteAt(cursor + 3) :
          /\ yielded' = Append(yielded,
                [start |-> cursor, first |-> offset, num_first |-> accounts,
                 second |-> offset + accounts, num_second |-> LittleEndian(d0, d1)])
          /\ offset' = offset + accounts + LittleEndian(d0, d1)
    /\ cursor' = cursor + HeaderSize
    /\ rest' = rest - 1
    /\ UNCHANGED <<slice, bytes, pc, sum, frame, parsed, first>>

\* MessageFrame::address_table_lookup_iter.
LookupsIter ==
    /\ pc = "next_instruction"
    /\ rest = 0
    /\ pc' = "next_lookup"
    /\ rest' = frame.num_lookups
    /\ cursor' = frame.lookups_offset
    /\ UNCHANGED <<slice, bytes, offset, sum, frame, parsed, yielded, first>>

\* AddressTableLookupIterator::next parses the lookup again and ends the
\* iteration when it cannot.
NextLookup ==
    /\ pc = "next_lookup"
    /\ rest > 0
    /\ IF ~Remaining(cursor, KeySize)
       THEN rest' = 0 /\ UNCHANGED <<cursor, yielded>>
       ELSE \E w \in CountedArray(cursor + KeySize, 1) :
              IF ~w.ok
              THEN rest' = 0 /\ UNCHANGED <<cursor, yielded>>
              ELSE \E r \in CountedArray(w.at + w.count, 1) :
                     IF ~r.ok
                     THEN rest' = 0 /\ UNCHANGED <<cursor, yielded>>
                     ELSE /\ yielded' = Append(yielded,
                                [start |-> cursor, first |-> w.at, num_first |-> w.count,
                                 second |-> r.at, num_second |-> r.count])
                          /\ cursor' = r.at + r.count
                          /\ rest' = rest - 1
    /\ UNCHANGED <<slice, bytes, pc, offset, sum, frame, parsed, first>>

LookupsIterEnd ==
    /\ pc = "next_lookup"
    /\ rest = 0
    /\ pc' = "done"
    /\ UNCHANGED <<slice, bytes, offset, cursor, rest, sum, frame, parsed,
                   yielded, first>>

-----------------------------------------------------------------------------
\* The views: what the accessors hand out, as places in the buffer.

Slice(start, count, size) == [start |-> start, end |-> start + count * size]

\* A MessageView of the bytes from at on, or the MessageViewRef of a
\* transaction, with what its iterators yield.
MessageView(f, items, at) ==
    [version |-> f.version,
     num_static_account_keys |-> f.num_keys,
     num_instructions |-> f.num_instructions,
     num_address_table_lookups |-> f.num_lookups,
     total_writable_lookup_accounts |-> f.writable,
     total_readonly_lookup_accounts |-> f.readonly,
     static_account_keys |-> Slice(at + f.keys_offset, f.num_keys, KeySize),
     recent_blockhash |-> Slice(at + f.hash_offset, 1, HashSize),
     iterators |-> [i \in DOMAIN items |->
                       [first |-> Slice(at + items[i].first, items[i].num_first, 1),
                        second |-> Slice(at + items[i].second, items[i].num_second, 1)]],
     transaction_config |-> IF f.version = "v1" THEN <<f.mask, at + f.values_offset>>
                                                ELSE <<>>,
     data |-> Slice(at + f.message_offset, f.end_offset - f.message_offset, 1)]

\* A TransactionView of a buffer that begins with the transaction.
TransactionView(f, items) ==
    [num_signatures |-> f.num_signatures,
     signatures |-> Slice(f.signature_offset, f.num_signatures, SignatureSize),
     message |-> MessageView(f, items, 0),
     data |-> Slice(0, f.data_len, 1)]

NotParsed == [entry |-> "none", frame |-> NoFrame, yielded |-> <<>>]

\* Some of the bytes of a view are parsed again through another entry point.
ParseAgain(function, start, end) ==
    /\ pc = "done"
    /\ first = NotParsed
    /\ first' = [entry |-> entry, frame |-> frame, yielded |-> yielded]
    /\ entry' = function
    /\ base' = start
    /\ len' = end - start
    /\ frame' = NoFrame
    /\ pc' = "start"
    /\ offset' = 0 /\ cursor' = 0 /\ rest' = 0 /\ sum' = 0
    /\ parsed' = <<>> /\ yielded' = <<>>

\* The message of a transaction, message_data(), on its own.
ParseMessageAlone ==
    /\ entry # "message"
    /\ ParseAgain("message", frame.message_offset, frame.end_offset)
    /\ UNCHANGED bytes

\* What from_prefix says the transaction occupies, without what follows it.
ParseTransactionAlone ==
    /\ entry = "prefix"
    /\ ParseAgain("transaction", 0, frame.data_len)
    /\ UNCHANGED bytes

\* Mutant: the offset is taken to be one into the message.
SetBlockhashInMessage ==
    /\ entry # "message"
    /\ ParseAgain(entry, 0, len)
    /\ \E hash \in [1 .. HashSize -> Byte] :
          bytes' = Seen(frame.hash_offset - frame.message_offset, hash)

\* set_recent_blockhash writes into the buffer, under the frame that was
\* parsed before; the buffer is then parsed again, by whoever gets it next.
SetRecentBlockhash ==
    /\ entry # "message"
    /\ ParseAgain(entry, 0, len)
    /\ \E hash \in [1 .. HashSize -> Byte] : bytes' = Seen(frame.hash_offset, hash)

Finished ==
    /\ pc = "error" \/ (pc = "done" /\ (entry = "message" \/ first # NotParsed))
    /\ UNCHANGED vars

Init ==
    /\ entry \in {"transaction", "prefix", "message"}
    /\ base = 0
    /\ len \in 0 .. MaxLen
    /\ bytes = <<>>
    /\ pc = "start"
    /\ offset = 0 /\ cursor = 0 /\ rest = 0 /\ sum = 0
    /\ frame = NoFrame
    /\ parsed = <<>> /\ yielded = <<>>
    /\ first = NotParsed

Next ==
    \/ ChooseFormat
    \/ ParseSignatures \/ ParseHeader \/ ParseKeys
    \/ ParseInstructions \/ ParseInstruction \/ InstructionsEnd
    \/ ParseLookups \/ ParseLookup \/ LookupsEnd
    \/ ParseV1Prefix \/ ParseV1Config \/ ParseV1Instruction \/ V1InstructionsEnd
    \/ MessageEnd \/ ParseV1Signatures
    \/ InstructionsIter \/ NextLegacyInstruction \/ NextV1Instruction
    \/ LookupsIter \/ NextLookup \/ LookupsIterEnd
    \/ ParseMessageAlone \/ ParseTransactionAlone \/ SetRecentBlockhash
    \/ Finished

Spec == Init /\ [][Next]_vars

-----------------------------------------------------------------------------
\* The parse succeeded, so a view of the bytes exists.
Viewed == pc \in {"parsed", "next_instruction", "next_lookup", "done"}

\* The width of a compressed u16.
Width(n) == IF n < MSB THEN 1 ELSE 2

\* Legacy and v0: the signatures are first.
LegacyLayout ==
    LET counts == IF entry = "message" THEN 0 ELSE 1
        header == IF frame.version = "v0" THEN 4 ELSE 3
        stepped == IF parsed = <<>> THEN frame.instructions_offset
                   ELSE parsed[Len(parsed)].second + parsed[Len(parsed)].num_second
    IN  /\ frame.message_offset = counts + frame.num_signatures * SignatureSize
        /\ frame.keys_offset = frame.message_offset + header + 1
        /\ frame.hash_offset = frame.keys_offset + frame.num_keys * KeySize
        /\ frame.instructions_offset
              = frame.hash_offset + HashSize + Width(frame.num_instructions)
        /\ Len(parsed) = frame.num_instructions + frame.num_lookups
        /\ frame.end_offset
              = stepped + IF frame.version = "v0" /\ frame.num_lookups = 0 THEN 1 ELSE 0
        /\ frame.data_len = frame.end_offset

\* v1: the message is first and the signatures are last.
V1Layout ==
    /\ frame.hash_offset = 4 + MaskSize
    /\ frame.keys_offset = frame.hash_offset + HashSize + 2
    /\ frame.values_offset = frame.keys_offset + frame.num_keys * KeySize
    /\ frame.instructions_offset
          = frame.values_offset + CountOnes(frame.mask) * WordSize
    /\ frame.payloads_offset
          = frame.instructions_offset + HeaderSize * frame.num_instructions
    /\ frame.end_offset = frame.payloads_offset + sum
    /\ frame.data_len = frame.end_offset + frame.num_signatures * SignatureSize
    /\ entry # "message" => frame.signature_offset = frame.end_offset

(* No offset of the parser or of an iterator is ever past the end, which the *)
(* wrapping subtraction of check_remaining relies on.  The stored metadata   *)
(* lays out the buffer without gap or overlap, from its first byte to        *)
(* data_len: although most offsets are stored with an unchecked `as u16`,    *)
(* none of a successful parse is truncated, and without the prefix entry     *)
(* point nothing follows.                                                    *)
FrameCoversBuffer ==
    /\ offset \in 0 .. len
    /\ Viewed =>
          /\ IF frame.version = "v1" THEN V1Layout ELSE LegacyLayout
          /\ frame.data_len <= len
          /\ entry # "prefix" => frame.data_len = len

(* The iterators hand out exactly the slices that the parser validated and   *)
(* never one that reaches past the message, although they trust stored       *)
(* widths, re-read headers without bounds checks, and stop silently at a     *)
(* lookup that no longer parses.                                             *)
IteratorsRetraceParse ==
    Viewed =>
        /\ \A i \in DOMAIN yielded :
              yielded[i].second + yielded[i].num_second <= frame.end_offset
        /\ pc = "done" =>
              IF frame.version = "v1"
              THEN /\ Len(yielded) = frame.num_instructions
                   /\ offset = frame.end_offset
              ELSE yielded = parsed

\* TransactionConfigFrame::word_index_for_bit and word_offset.
WordOffset(bit) ==
    frame.values_offset
      + WordSize * Cardinality({b \in 0 .. bit - 1 : HasBit(frame.mask, b)})

\* The bits of the mask that have an accessor, and the words each reads.
ConfigField == {0, 2, 3, 4}
WordsOf(bit) == IF bit = 0 THEN 2 ELSE 1

(* The accessors of TransactionConfigView read words that belong to them     *)
(* alone and lie between the addresses and the instruction headers; the      *)
(* priority fee is one unchecked read of two words behind a single bit.      *)
ConfigWordsAreDisjoint ==
    Viewed /\ frame.version = "v1" =>
        \A bit \in {b \in ConfigField : HasBit(frame.mask, b)} :
            LET end == WordOffset(bit) + WordsOf(bit) * WordSize
            IN  /\ end <= frame.instructions_offset
                /\ \A other \in {b \in ConfigField : HasBit(frame.mask, b)} :
                      other > bit => end <= WordOffset(other)

\* Every lookup of the first parse has an index, as sanitize_address_table_lookups
\* demands.
LookupsHaveIndexes ==
    \A i \in first.frame.num_instructions + 1 .. Len(first.yielded) :
        first.yielded[i].num_first + first.yielded[i].num_second > 0

(* The message of a transaction also parses on its own, and the MessageView  *)
(* of message_data() has the counts and the very bytes of the view of the    *)
(* transaction: the entry points tell v0 from v1 in different ways and start *)
(* at different offsets, and the MessageView must describe what was signed.  *)
(* Of a transaction parsed from a prefix this is only so when its lookups    *)
(* have indexes.                                                             *)
MessageParsesAlone ==
    first # NotParsed /\ entry = "message"
      /\ (first.entry = "prefix" => LookupsHaveIndexes) =>
        /\ pc # "error"
        /\ pc = "done" =>
              MessageView(frame, yielded, base)
                = TransactionView(first.frame, first.yielded).message

(* The view of a transaction that from_prefix found is the view of exactly   *)
(* its bytes, at least when its lookups have indexes.                        *)
PrefixIsSelfContained ==
    first.entry = "prefix" /\ entry = "transaction" /\ LookupsHaveIndexes =>
        /\ pc # "error"
        /\ pc = "done" =>
              TransactionView(frame, yielded) = TransactionView(first.frame, first.yielded)

(* set_recent_blockhash changes nothing but the blockhash: the frame that    *)
(* the view keeps is still the frame of the bytes, for any hash, so whoever  *)
(* parses them anew has the same view.                                       *)
BlockhashKeepsTheView ==
    first.entry = entry =>
        /\ pc # "error"
        /\ pc = "done" =>
              TransactionView(frame, yielded) = TransactionView(first.frame, first.yielded)

(* try_new_from_prefix says that "any bytes after the serialized transaction *)
(* are ignored": what it accepts parses without those bytes.                 *)
TrailingBytesAreIgnored ==
    first.entry = "prefix" /\ entry = "transaction" => pc # "error"
=============================================================================
