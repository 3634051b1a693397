----------------------------- MODULE SanitizedView -----------------------------
(***************************************************************************)
(* From a parsed view to a sanitized and a resolved one                    *)
(* (transaction-view/src: sanitize.rs, the counts of message_view.rs, and  *)
(* resolved_transaction_view.rs).                                          *)
(*                                                                         *)
(* The same metadata is checked twice side by side: as a transaction, and  *)
(* as the bare message of that transaction.  Instructions are chosen when  *)
(* the check gets to them.  u8 and u16 have widths given by constants, and *)
(* the arithmetic wraps, saturates or truncates where the code's does.     *)
(***************************************************************************)
EXTENDS Integers, Sequences, FiniteSets

CONSTANTS
    U8Max,            \* u8::MAX; the account limit is U8Max + 1
    U16Max,           \* u16::MAX
    SignatureSize,    \* size_of::<Signature>()
    PacketSize,       \* PACKET_DATA_SIZE
    MaxStatic,        \* static accounts a legacy or v0 frame may have
    MessageLength,    \* lengths of messages
    Lookup,           \* address table lookups, [writable, readonly] counts
    MaxLookups,       \* bound on the lookups of a message
    MaxInstructions,  \* bound on the instructions of a message
    Key,              \* account keys
    Reserved,         \* reserved_account_keys
    Loader            \* bpf_loader_upgradeable::ID

ASSUME ViewAssumption ==
    /\ {U8Max, U16Max, SignatureSize, PacketSize, MaxStatic} \subseteq Nat \ {0}
    /\ MaxStatic <= U8Max
    /\ 2 * U8Max < U16Max
    /\ MessageLength \subseteq Nat
    /\ Lookup \subseteq [writable : 0 .. U16Max, readonly : 0 .. U16Max]
    /\ MaxLookups \in Nat /\ MaxInstructions \in Nat
    /\ Reserved \subseteq Key /\ Loader \in Key

VARIABLES
    view,          \* the counts of the parsed view
    instructions,  \* its instructions, as far as they were looked at
    pc,            \* the next check
    transaction,   \* whether the view still passes as a transaction
    message,       \* whether its message still passes as a bare message
    keys,          \* AccountKeys of the resolved view, by index
    cache,         \* writable_cache, by index
    visited,       \* instructions the second loop of cache_is_writable has seen
    loader         \* is_upgradable_loader_present: "unknown", "yes" or "no"

resolved == <<keys, cache, visited, loader>>
viewVars == <<view, instructions, pc, transaction, message, keys, cache, visited, loader>>

U8 == 0 .. U8Max
U16 == 0 .. U16Max
WrappingSub8(a, b) == (a - b) % (U8Max + 1)
WrappingAdd16(a, b) == (a + b) % (U16Max + 1)
SaturatingAdd16(a, b) == IF a + b > U16Max THEN U16Max ELSE a + b

Versions == {"legacy", "v0", "v1"}
Lookups == UNION {[1 .. n -> Lookup] : n \in 0 .. MaxLookups}
Instruction == [program : U8, accounts : {{}} \cup {{i} : i \in U8}]

\* AddressTableLookupFrame: the totals over the lookups.
Total(lookups, count(_)) ==
    LET sum[n \in 0 .. Len(lookups)] ==
          IF n = 0 THEN 0 ELSE sum[n - 1] + count(lookups[n])
    IN  sum[Len(lookups)]

WritableOf(l) == l.writable
ReadonlyOf(l) == l.readonly

Header ==
    [version : Versions, signatures : U8, required : U8, readonly_signed : U8,
     readonly_unsigned : U8, static : U8, length : MessageLength]

\* What the parser lets through: legacy and v0 have a signature and a static
\* account, only v0 has lookups, and v1 has the signatures it requires.
Parsed(h, lookups) ==
    /\ h.version # "v0" => lookups = <<>>
    /\ h.version = "v1" => h.signatures = h.required
    /\ h.version # "v1" => h.signatures > 0 /\ h.static \in 1 .. MaxStatic
    /\ Total(lookups, WritableOf) \in U16 /\ Total(lookups, ReadonlyOf) \in U16

ParsedView(h, lookups) ==
    [version |-> h.version, signatures |-> h.signatures, required |-> h.required,
     readonly_signed |-> h.readonly_signed, readonly_unsigned |-> h.readonly_unsigned,
     static |-> h.static, length |-> h.length, lookups |-> lookups,
     writable |-> Total(lookups, WritableOf), readonly |-> Total(lookups, ReadonlyOf)]

ViewInit ==
    /\ \E h \in Header, lookups \in Lookups :
          Parsed(h, lookups) /\ view = ParsedView(h, lookups)
    /\ instructions = <<>>
    /\ pc = "size"
    /\ transaction = TRUE /\ message = TRUE
    /\ keys = <<>> /\ cache = <<>>
    /\ visited = 0 /\ loader = "unknown"

-----------------------------------------------------------------------------
\* The length of a legacy or v0 transaction, TransactionView::data().
TransactionLength == 1 + view.signatures * SignatureSize + view.length

\* Mutant: the byte that counts the signatures is forgotten.
SignedLengthWithoutCount == view.required * SignatureSize + view.length

\* sanitize_message_size: the length of the transaction after signing.
SignedLength == view.required * SignatureSize + view.length + 1

Packet == view.version # "v1"

\* sanitize_signatures.
SignaturesOK == view.signatures = view.required

\* sanitize and sanitize_message up to the common checks.
SanitizeSizes ==
    /\ pc = "size"
    /\ transaction' = ((Packet => TransactionLength <= PacketSize) /\ SignaturesOK)
    /\ message' = (Packet => SignedLength <= PacketSize)
    /\ pc' = "body"
    /\ UNCHANGED <<view, instructions, resolved>>

\* Mutant: all signers may be readonly, the fee payer included.
HeaderWithReadonlyPayer ==
    /\ view.required >= 1
    /\ view.readonly_signed <= view.required
    /\ view.readonly_unsigned <= WrappingSub8(view.static, view.required)

\* sanitize_message_header.
HeaderOK ==
    /\ view.required >= 1
    /\ view.readonly_signed < view.required
    /\ view.readonly_unsigned <= WrappingSub8(view.static, view.required)

\* sanitize_required_signatures.
RequiredSignaturesOK == view.static >= view.required

\* total_number_of_accounts.
TotalNumberOfAccounts ==
    SaturatingAdd16(SaturatingAdd16(view.static, view.writable), view.readonly)

\* sanitize_account_access.
AccountAccessOK == Packet => TotalNumberOfAccounts <= U8Max + 1

Verdict(ok) ==
    /\ transaction' = (transaction /\ ok)
    /\ message' = (message /\ ok)

\* The checks of sanitize_message_body before the instructions.
SanitizeBody ==
    /\ pc = "body"
    /\ transaction \/ message
    /\ Verdict(HeaderOK /\ RequiredSignaturesOK /\ AccountAccessOK)
    /\ pc' = "instructions"
    /\ UNCHANGED <<view, instructions, resolved>>

\* Mutant: a program may be any account, loaded ones included.
ProgramAnyAccount(i) ==
    LET max_account_index == WrappingSub8(TotalNumberOfAccounts, 1)
    IN  /\ i.program <= max_account_index
        /\ i.program # 0
        /\ \A a \in i.accounts : a <= max_account_index

\* The loop of sanitize_instructions.
InstructionOK(i) ==
    LET max_program_id_index == WrappingSub8(view.static, 1)
        max_account_index == WrappingSub8(TotalNumberOfAccounts, 1)   \* as u8
    IN  /\ i.program <= max_program_id_index
        /\ i.program # 0
        /\ \A a \in i.accounts : a <= max_account_index

SanitizeInstruction(i) ==
    /\ pc = "instructions"
    /\ transaction \/ message
    /\ Len(instructions) < MaxInstructions
    /\ instructions' = Append(instructions, i)
    /\ Verdict(InstructionOK(i))
    /\ UNCHANGED <<view, pc, resolved>>

\* sanitize_address_table_lookups, the last check.
SanitizeLookups ==
    /\ pc = "instructions"
    /\ transaction \/ message
    /\ Verdict(\A n \in DOMAIN view.lookups :
                  view.lookups[n].writable > 0 \/ view.lookups[n].readonly > 0)
    /\ pc' = "sanitized"
    /\ UNCHANGED <<view, instructions, resolved>>

-----------------------------------------------------------------------------
\* The counts of a sanitized view (MessageViewRef<true>).
NumUnsigned == WrappingSub8(view.static, view.required)
NumWritableUnsigned == WrappingSub8(NumUnsigned, view.readonly_unsigned)
NumWritableSigned == WrappingSub8(view.required, view.readonly_signed)
TotalNumAccounts ==
    WrappingAdd16(WrappingAdd16(view.static, view.writable), view.readonly)
NumRequestedWriteLocks ==
    WrappingAdd16(WrappingSub8(WrappingSub8(view.static, view.readonly_signed),
                               view.readonly_unsigned),
                  view.writable)

-----------------------------------------------------------------------------
\* ResolvedTransactionView.

\* The lengths of the resolved addresses, none if they are absent.
LoadedAddresses ==
    [some : {TRUE}, writable : U8, readonly : U8]
      \cup [some : {FALSE}, writable : {0}, readonly : {0}]

AddressesMatch(loaded) ==
    /\ view.version = "v0" => loaded.some
    /\ loaded.writable = view.writable
    /\ loaded.readonly = view.readonly

\* is_requested_write in the first loop of cache_is_writable.
IsRequestedWrite(index) ==
    IF index >= view.static THEN index - view.static < view.writable
    ELSE IF index >= view.required THEN index - view.required < NumWritableUnsigned
    ELSE index < NumWritableSigned

\* try_new_with_source up to the end of that loop, which indexes an array of
\* U8Max + 1 elements and panics past its end.
TryNewWithSource(loaded) ==
    /\ pc = "sanitized"
    /\ transaction
    /\ IF ~AddressesMatch(loaded)
       THEN /\ pc' = "mismatch"
            /\ UNCHANGED <<view, instructions, transaction, message, resolved>>
       ELSE LET count == view.static + view.writable + view.readonly
            IN  /\ keys' \in [0 .. count - 1 -> Key]
                /\ cache' = [i \in U8 |-> /\ i < count
                                          /\ IsRequestedWrite(i)
                                          /\ keys'[i] \notin Reserved]
                /\ pc' = IF count > U8Max + 1 THEN "panic" ELSE "programs"
                /\ UNCHANGED <<view, instructions, transaction, message, visited, loader>>

\* Mutant: the loader is only looked for among the static accounts.
LoaderPresentStatic ==
    IF loader # "unknown" THEN loader
    ELSE IF \E i \in DOMAIN keys : i < view.static /\ keys[i] = Loader THEN "yes" ELSE "no"

LoaderPresent ==
    IF loader # "unknown" THEN loader
    ELSE IF \E i \in DOMAIN keys : keys[i] = Loader THEN "yes" ELSE "no"

\* One iteration of the second loop: a program that is called is not writable
\* unless the upgradeable loader is among the keys, which is looked up once.
VisitProgram ==
    /\ pc = "programs"
    /\ visited < Len(instructions)
    /\ visited' = visited + 1
    /\ LET program == instructions[visited + 1].program
       IN  IF cache[program]
           THEN /\ loader' = LoaderPresent
                /\ cache' = [cache EXCEPT ![program] = (LoaderPresent = "yes")]
           ELSE UNCHANGED <<loader, cache>>
    /\ UNCHANGED <<view, instructions, pc, transaction, message, keys>>

Resolved ==
    /\ pc = "programs"
    /\ visited = Len(instructions)
    /\ pc' = "resolved"
    /\ UNCHANGED <<view, instructions, transaction, message, resolved>>

-----------------------------------------------------------------------------
\* What the runtime reads from the views.

\* SVMStaticMessage: the counts.
StaticMessage ==
    [num_transaction_signatures |-> view.required,
     num_write_locks |-> NumRequestedWriteLocks,
     num_readonly_signed_static_accounts |-> view.readonly_signed,
     num_readonly_unsigned_static_accounts |-> view.readonly_unsigned,
     num_instructions |-> Len(instructions),
     num_lookup_tables |-> Len(view.lookups)]

\* static_account_keys, indexed from zero, of which the fee payer is the first.
StaticKeys == [i \in 0 .. view.static - 1 |-> keys[i]]

\* program_instructions_iter: the programs, as they are called.
ProgramIds == [n \in DOMAIN instructions |-> StaticKeys[instructions[n].program]]

\* is_signer, is_invoked and is_writable take an index of any size.
IsSigner(index) == index < view.required

\* Mutant: the index is truncated to u8.
IsInvokedTruncated(index) ==
    \E n \in DOMAIN instructions : instructions[n].program = index % (U8Max + 1)

IsInvoked(index) ==
    index \in U8 /\ \E n \in DOMAIN instructions : instructions[n].program = index

IsWritable(index) == index \in DOMAIN cache /\ cache[index]

\* A view that was refused, or is resolved, stays as it is.
ViewFinished ==
    /\ \/ pc \in {"body", "instructions", "sanitized"} /\ ~transaction /\ ~message
       \/ pc = "sanitized" /\ ~transaction
       \/ pc \in {"mismatch", "resolved"}
    /\ UNCHANGED viewVars

ViewNext ==
    \/ SanitizeSizes
    \/ SanitizeBody
    \/ \E i \in Instruction : SanitizeInstruction(i)
    \/ SanitizeLookups
    \/ \E loaded \in LoadedAddresses : TryNewWithSource(loaded)
    \/ VisitProgram
    \/ Resolved
    \/ ViewFinished

ViewSpec == ViewInit /\ [][ViewNext]_viewVars

-----------------------------------------------------------------------------
\* The view is a TransactionView<true>.
Sanitized == transaction /\ pc \in {"sanitized", "programs", "resolved"}

(* A bare message is sanitized exactly when the transaction formed by        *)
(* signing it is, which is what MessageView::sanitize promises: the size     *)
(* check computes the signed length from the header instead of measuring it, *)
(* and the signature count is not there to be compared.                      *)
MessageAgreesWithTransaction ==
    pc = "sanitized" \/ ~message \/ ~transaction =>
        /\ view.signatures = view.required => (message <=> transaction)
        /\ transaction => message

\* Accounts requested writable, by the layout of the account list.
WriteRequested(i) ==
    \/ i < view.required - view.readonly_signed
    \/ view.required <= i /\ i < view.static - view.readonly_unsigned
    \/ view.static <= i /\ i < view.static + view.writable

(* The counts that later code takes from a sanitized view with wrapping      *)
(* arithmetic are exact, the fee payer is writable, and the write locks it   *)
(* reports are the accounts requested writable.                              *)
SanitizedCountsAreExact ==
    Sanitized =>
        /\ NumUnsigned = view.static - view.required
        /\ NumWritableUnsigned = NumUnsigned - view.readonly_unsigned
        /\ NumWritableSigned = view.required - view.readonly_signed
        /\ NumWritableUnsigned >= 0 /\ NumWritableSigned >= 1
        /\ TotalNumAccounts = view.static + view.writable + view.readonly
        /\ TotalNumAccounts = TotalNumberOfAccounts
        /\ NumRequestedWriteLocks
              = Cardinality({i \in 0 .. TotalNumAccounts - 1 : WriteRequested(i)})

(* Every index in a sanitized transaction is in range: programs are static   *)
(* accounts other than the fee payer, which program_instructions_iter        *)
(* indexes without a check of its own, and accounts exist, although the      *)
(* largest index is truncated to u8.                                         *)
SanitizedIndexesInRange ==
    Sanitized =>
        \A n \in DOMAIN instructions :
            /\ instructions[n].program \in 1 .. view.static - 1
            /\ \A a \in instructions[n].accounts :
                  a < view.static + view.writable + view.readonly

(* The cache of a resolved view says writable exactly for the accounts that  *)
(* are requested writable, are not reserved, and are not called as programs  *)
(* without the upgradeable loader among the keys; nothing past the accounts  *)
(* is writable, and the order of the instructions makes no difference.       *)
WritableCacheIsExact ==
    pc = "resolved" =>
        \A i \in U8 :
            cache[i] <=> /\ i \in DOMAIN keys
                         /\ WriteRequested(i)
                         /\ keys[i] \notin Reserved
                         /\ \/ \A n \in DOMAIN instructions : instructions[n].program # i
                            \/ \E k \in DOMAIN keys : keys[k] = Loader

(* What the runtime is told about a resolved transaction fits together, for  *)
(* indexes of any size.  Resolving never indexes past the 256 entries of the *)
(* cache.  signature() and fee_payer() exist; the fee payer signs, is never  *)
(* called, and is writable unless its key is reserved.  Only accounts are    *)
(* signers, called or writable, only static ones sign or are called, and     *)
(* num_write_locks covers the writable ones.                                 *)
RuntimeViewIsConsistent ==
    /\ pc # "panic"
    /\ pc = "resolved" =>
          /\ view.signatures >= 1 /\ view.signatures = StaticMessage.num_transaction_signatures
          /\ 0 \in DOMAIN StaticKeys
          /\ IsSigner(0) /\ ~IsInvoked(0)
          /\ IsWritable(0) <=> StaticKeys[0] \notin Reserved
          /\ \A i \in 0 .. U16Max :
                /\ IsSigner(i) \/ IsInvoked(i) => i \in DOMAIN StaticKeys
                /\ IsWritable(i) => i < TotalNumAccounts
          /\ Cardinality({i \in 0 .. U16Max : IsWritable(i)})
                <= StaticMessage.num_write_locks
          /\ \A n \in 1 .. StaticMessage.num_instructions :
                LET program == instructions[n].program
                IN  /\ IsInvoked(program)
                    /\ IsWritable(program) =>
                          ProgramIds[n] \notin Reserved
                            /\ \E k \in DOMAIN keys : keys[k] = Loader
=============================================================================
