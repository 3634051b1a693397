# TLA+ models of agave-sdk

This directory holds TLA+ models of the parts of this repository in which
processes, threads, files, bytes or counts interact, TLC configurations that
check them on small instances, and TLAPS proofs of all their safety properties.
Every definition is written from the Rust code; `PROJECT.json` maps each one to
the lines it stands for, and lists runs, mutants, findings, hazards and theorems.

## The system and its parts

| Part | Code | State and operations | Module |
|---|---|---|---|
| Event stream, publishers | `event-system/src/backend/linux.rs`, `linux/publisher.rs` | queue, generation, slots; apply rule, create, publish, drop | `EventStream` |
| Lanes of a queue | `linux/publisher.rs`, `linux/subscriber.rs` | rings, cursors; publish, batch, receive, connect | `PublishLanes` |
| Queue files | `linux.rs` | directories, descriptors; create, publish, remove | `StreamFiles` |
| Discovery | `linux/subscriber.rs` | an explorer's progress through `try_new`, typed and dynamic connection | `StreamDiscovery` (extends `StreamFiles`) |
| Event system directory, handles | `linux.rs`, `event_system.rs`, `publisher_factory.rs`, `publisher.rs`, `stub.rs` | the layout, counts of values; create, clone, drop | `EventSystemLifetime` |
| Policy manager | `linux/stream_policy.rs` | weak references, policy, mutex; create stream, set policy | `StreamPolicyManager` |
| Policy language | `event-system/src/stream_policy.rs` | rules; parse, look up | `StreamPolicy` |
| Scheduler handshake | `scheduler-handshake/src/server.rs`, `client.rs` | sockets, shared buffer, time; accept, connect | `Handshake`, `HandshakeOutcome` |
| Session layout | `shared.rs`, `server.rs`, `client.rs` | files, allocator handles; validate, set up both sides, also as a local session | `SessionLayout` |
| Transaction parser | `transaction-view/src/*_frame.rs`, `bytes.rs` | offsets, stored frame; parse, iterate, replace the blockhash | `TransactionFrame` |
| Sanitizing, resolving | `sanitize.rs`, `message_view.rs`, `resolved_transaction_view.rs` | counts, writable cache; checks, resolve, what the runtime reads | `SanitizedView` |

The proofs are in modules of their own: `EventSystemProofs` (event stream, lanes,
event system directory), `StreamProofs` (queue files, discovery, both parts of the
policy), `SchedulerProofs` (handshake, session layout, sanitizing), and, for the
parser, `TransactionFrameProofs` with the modules it rests on. A module that shares
its proof module with another has its own names for the initial states, the steps
and the specification (`LaneInit`, `LaneNext`, `LaneSpec` and so on).

How they interact: the policy language decides which streams the policy manager
enables; enabling creates queue files, which explorers discover; publishers and
subscribers then meet on the lanes. The handshake carries a logon, from which
the session layout follows. A parsed frame is what sanitizing starts from.

`StreamDiscovery` composes two of these parts. The others are composed by
abstraction: `EventStream` treats queue creation as atomic, `StreamPolicyManager`
has a coarser version of the directory steps of `StreamFiles`,
`EventSystemLifetime` makes publishing or removing a queue one step, `Handshake` takes
"the logon validates" as a constant, and `SanitizedView` starts from any counts
the parser can let through.

## How state and actions correspond to the code

**EventStream.** A section under the lock of `state` is one action. The unlocked
Relaxed load of the generation is separate (`LoadUnchanged`, `LoadChanged`) and
may return any generation from the newest the thread is bound to see (`known`).
`Learn` is external: a store becoming visible. A queue is named by the
generation that created it.

**PublishLanes.** The ring is the shaq library's and is modelled from its use:
a reservation succeeds when no connected subscriber still needs the cells. Each
cell write is an action, so a batch can fail in the middle.

**StreamFiles, StreamDiscovery.** One action per system call that another
process can observe; the steps in the staging directory are merged. Following a
link takes two actions, since the kernel reads it before it looks up the
descriptor. Queue identifiers are random in the code and taken to be unique.
A crash closes all descriptors and leaves the directories. `memory` is what was
done to the anonymous file of a queue, its header and its seals: an explorer may
have the file open when its creation fails or its process dies, and then finds
the seals only if `Seal` was reached.

**EventSystemLifetime.** Several event systems, each in a process of its own, use
one path. Values are counted, and the last one to go drops what it shares. Each
creation and removal of a directory is an action and may fail; removals name a
path, so each acts on whatever is there. Any process may be killed.

**StreamPolicyManager.** The mutex covers several actions, between which other
threads clone and drop handles. The last reference, which may be the manager's
own, tears the stream down. The weak references are a set that is visited in any
order; the code's vector gives one of these orders.

**StreamPolicy.** Directives are records; case and white space are left out.
`SortBy` is what a stable sort promises, not how it is done.

**Handshake.** A message has a few parts, each remembering its author. Clients
may stop at any point. Time passes only while the server waits for data. A
`listener.accept` that fails takes no connection and is left out.

**SessionLayout.** Widths of integers, page sizes and cell sizes are constants.
The overflow, the missing handle and the `expect` are phases that must not be
reached. `SetupNext` is `setup_local_session`: the server's setup, then the client's,
with the same logon and files.

**TransactionFrame.** Bytes are chosen when something first looks at them, so
skipped content costs nothing. The widths of bytes and of u16 are constants, and
the buffer may be longer than u16 can express. The config mask has three bytes.
`SetRecentBlockhash` changes bytes under a frame that is kept. For a prefix the
code gives the iterators the bytes of the transaction alone; here they are bounded
by the whole buffer, so that staying inside the transaction is a result
(`IteratorsRetraceParse`) and not a bound.

**SanitizedView.** A transaction and its bare message are checked side by side.
Wrapping, saturating and truncating arithmetic is kept.

## Runs

| Run | What it shows | Instance |
|---|---|---|
| `event_stream` | slots, lanes and generations stay consistent; publishers end up following the policy | 3 publishers, 2 slots, 5 changes |
| `publish_lanes` | whole batches, in order; held messages are stable | 2 publishers, 2 subscribers, 2 cells, batches up to 3 |
| `stream_discovery` | streams sharing a name or a descriptor number are not mixed up; a stream that stays published is found | 2 queues, 2 names, 2 descriptors, 2 event types |
| `event_system_lifetime` | a layout lives as long as its last value, and only its owner removes it | 3 event systems, 3 streams of one name, 2 clones |
| `stream_policy_manager` | unique names, streams follow the policy, names are freed | 3 streams, 2 names, 2 handles, 3 policies |
| `stream_policy` | longest prefix, last directive; normal form | 4 directives, 5 prefixes |
| `handshake` | implements `HandshakeOutcome`; bounded waiting; everyone is served | 3 clients, 3 parts |
| `handshake_cause` | violated, see Findings | 2 clients |
| `session_layout` | what validates can be set up; both sides agree | counts and sizes at and beyond each limit |
| `transaction_frame` | frames are exact; iterators stay inside | 21 bytes of 4 values, u16 up to 20 |
| `transaction_prefix` | violated, see Findings | the same |
| `sanitized_view` | later wrapping arithmetic and indexing is exact | u8 up to 3, 2 lookups, 2 instructions |

Bounds: three publishers for two slots make slots contended; five changes let a
publisher miss several at once. Two queues on two names and two descriptors let
a name or a descriptor be reused while an explorer is at work; the run is this
small because it also checks liveness, and its safety properties are proved for
any number of queues. Three event systems let one be dropped, one fail and one
succeed at the same path. A batch of three exceeds the
ring of two. One tick of timeout and three parts let a client stall between any
two writes. U16 is smaller than the longest buffer, so offsets that do not fit
are reached. U8 is small enough that every wrap happens. Message
lengths are odd and even, so that the packet limit is met exactly and missed by
one byte. These are small
instances: outside what is proved below, larger ones are not covered.

Type invariants are part of the inductive invariants of the proofs. No run lists
one.

Every property of a passing run has a mutant: a definition changed as a
plausible mistake would change it, under which TLC finds the property violated.

## Fairness

- `EventStream`: a publisher that is called goes on (weak fairness on its
  steps), and a Relaxed store becomes visible (strong fairness on `Learn`).
  The second is not promised by the language's memory model in bounded time; it
  is what real hardware does and what the code relies on.
- `StreamDiscovery`: explorers run, and list each name again and again while it
  exists. The code leaves polling to its caller.
- `Handshake`: the server keeps calling `accept`, and time passes. Nothing is
  assumed of clients.

## Proofs

The properties of a module are not inductive alone. Each part of a proof module
has a strengthening that is (`IInv`, `LaneIInv`, `SystemIInv`, `DiscoveryIInv`,
`ParseInv`, `LayoutInv`, `SanitizedIInv`, `RunInv`, `AgainInv`) and a theorem that
it holds in every reachable state.

Event stream, for any finite set of publishers and any natural numbers of
slots and changes (`PublisherAssumption`, `SlotsAssumption`,
`MaxGenerationAssumption`): `SlotsAccounted`, `ProducersMatch`, `NeverStale`,
`RetiredQueues`. `IInv` adds that the current queue is the one the generation
stands for, and for each publisher (`PublisherInv`) how its cached generation,
`known` and its producer relate at each point of a call. The central step is
`LaneAvailable`: holders of lanes hold slots, so by `SlotAccounting` a publisher
with a slot and no lane finds one free.

Lanes, for rings, batches and numbers of calls of any size
(`LanesAssumption`): `ReceivedIsSent`, `HeldIsStable`. `LaneIInv` says that what a
connected subscriber has not released lies within one ring's length of the
cursor (`Room`) and is still in its cell (`Stored`). Fewer than `Capacity`
consecutive events are in distinct cells, so a write misses all of them.

Queue files and discovery, for any queues, names, descriptors and explorers
(`FilesAssumption`, `TypeAssumption`): `Discoverable`, `NoDirectoryLeft`,
`SchemaAndQueue`, `SealedQueues`. `MemoryInv` says that a file with seals has its
header, whatever became of its queue. `DiscoveryIInv` says that a queue stays at its path with
both entries until its own removal has opened the directory, since a rename does
not replace a directory with entries. So a removal only empties its own
directory. What an explorer reads through one directory descriptor is of one
queue, and the identifier is compared with that.

Event system directory, for any event systems, streams, names and numbers of
handles (`LifetimeAssumption`): `LayoutKept`, `NothingLeft`, `OwnersRemove`.
`SystemIInv` says who owns `tmp` and `event-streams` at each stage of a creation or a
removal (`LayoutOwned`), that a stream with its reference keeps its event system
from being dropped (`StreamsHold`), whose the entries are (`EntriesOwned`), and
that nothing outlives its owner without a kill or a failed removal (`NoRemains`).

Policy manager, for any streams, names and numbers of handles and
policies (`ManagerAssumption`): `NamesUnique`, `PolicyFollowed`,
`EnabledPublished`, `NamesFreed`. `IInv` says that a usable stream is referenced
and registered (`References`), so that pruning keeps it; that what lies at a path
has a queue (`Directories`); and that a stream follows the policy or is still to
be visited (`Policies`).

Policy language, for any prefixes and names over the natural numbers and any
number of directives (`PolicyAssumption`): `LongestPrefix`, `NormalForm`. `ParseInv`
says that there is one rule for each prefix that the directives so far name, the
one of the last of them (`Collected`), and that a parsed policy is strictly sorted
(`SortedInv`). `OrderingExists` shows that `SortBy` has something to choose: as no
two rules have one prefix, each goes to the place given by the number of rules
that are less. Two prefixes of one name with one length are equal (`OnePrefix`),
so the last match is the longest. First differences and last positions come from
`LeastNatural`, a minimal counterexample where induction would be used elsewhere.

Handshake, for any set of clients, length of the message and timeout
(`HandshakeAssumption`, and `UndecidedAssumption`: the value for "no outcome yet"
is not an outcome): `OwnMessage`, `WaitBounded` and `OutcomeImplemented`, the
refinement of `HandshakeOutcome`. `IInv` says that what has been read was written
by the connection being served and that all reads but the last took no longer
than the timeout (`ServerInv`), that a connection is in the backlog once and not
after it was accepted (`BacklogInv`), and that a client's socket holds nothing
before its outcome is decided and then the answer that goes with it
(`ClientInv`). For the refinement, `ServerRefines` and `ClientRefines` show that
each action is a step of `HandshakeOutcome` or a stutter. `BacklogInv` is what
makes an outcome be decided only once.

Session layout, for any widths, page and cell sizes, limit on workers, and
any logons whose fields are usize (`WidthAssumption`, `LogonAssumption`):
`Representable`, `HandlesLeft`, `FilesFit`, `EndpointsAgree`. `LayoutInv` says how many
files and handles there are in each phase (`Progress`) and that the client will
take each file so far for what it is (`InOrder`, where `JoinAt` says what the
client makes of a position). `Room` derives all limits from what `Validate` has checked. The
size that shaq needs for a capacity is not looked into: validating and setting up
compute the same one.

Sanitizing and resolving, for u8 and u16 of any widths of which the second is more
than twice the first, any sizes, limits and lookups whose totals are u16, and any number of
instructions (`ViewAssumption`): `SameVerdict`, `CountsExact`, `IndexesInRange`,
`CacheExact`, `RuntimeConsistent`. The central step is `ExactCounts`: a view that
passes the checks of the body has no more accounts than u8 can index, and then no
wrapping or saturating operation does anything but add or subtract.
`WriteLockCount` counts the three ranges of writable accounts. `SanitizedIInv` adds to
this that the verdicts differ only in the number of signatures (`Agreement`) and
what the cache says after each visited instruction (`CacheInv`): an entry that an
earlier call of the same program has cleared is not looked at again, and the
loader's presence, once looked up, stays right because the keys do not change.

Transaction parser, for any sizes of keys, hashes, signatures and packets, any
widths of byte, u16 and usize of which each holds the one before, and buffers of any
length that usize can express (`FrameAssumption`): `FrameCoversBufferAlways`, `IteratorsRetraceParseAlways`,
`ConfigWordsAreDisjointAlways`, `MessageParsesAloneAlways`,
`PrefixIsSelfContainedAlways`, `BlockhashKeepsTheViewAlways`. The invariants are in
`TransactionFrameInvariant`, which has no theorem.

- `RunInv` says for each place of the parser and of the iterators which bytes the
  fields of the frame and the items so far were read from (`SignaturesKnown`,
  `KeysKnown`, `ItemsKnown`, `V1Known` and so on), and that an item begins where the
  one before it ends. The bytes are in it because an iterator trusts what it reads
  again: that it gets what the parser got rests on both reading the same bytes. An
  offset that the code casts without a check is cast in the invariant too
  (`AsU16`); that the cast changed nothing follows at the end, where `Fits` is
  checked for an offset that is no smaller.
- `AgainInv` relates a second parse of a buffer, of all of it, of its prefix or of
  its message, to the first one (`first`): it is at the same place (`Placed`), finds
  the same items (`SameItems`, `V1Again`), and so cannot fail. Replacing the
  blockhash keeps what was recorded (`Recorded`), since no recorded byte lies in it.
  For the bytes of a prefix on their own it assumes that lookups have indexes
  (`Sound`), as the properties do; the finding below is the case that is excluded.
- `TransactionFrameLemmas` has what both rest on: a compressed u16 that is known is
  decoded to the same value (`Decoded`), items that are known stay known when more
  bytes are looked at or one more item is read, and totals of counts (`SumIs`).
  `LegacyParseProofs`, `LegacyAgainProofs` and `V1ParseProofs` have one lemma for
  each action and invariant. Totals are given by a witness, the sequence of partial
  sums, in place of a recursive sum about which nothing could be proved.

Only model-checked are the liveness properties `PublishersFollowPolicy`,
`PublishedStreamsAreFound` and `EveryConnectionIsServed`: liveness under fairness is
out of the prover's reach. The two runs that end in a violation have nothing to
prove.

## Findings

- `server.rs:71`: the comment says the result of writing the rejection is
  ignored, but `?` returns the write's error in place of the refusal's cause.
- `address_table_lookup_frame.rs:82`: `try_new_from_prefix` says that trailing
  bytes are ignored, but a transaction ending in an empty lookup is accepted
  only if another byte follows it. Sanitizing refuses it later.
  `MessageParsesAlone` and `PrefixIsSelfContained` are therefore stated for
  lookups that have indexes.

## Not modelled

- Decoding of payloads, and the publisher and subscriber calls of the stub
  backend, which change nothing.
- The metadata of lanes and the counts of rejected items: the shaq library keeps
  them, and its code is not in this repository.
- Stream name validation, queue cell sizes, event metadata, the derive macro: no
  interacting state.
- Scheduler bindings and the Geyser plugin interface: types and traits whose
  users are not in this repository.
- Contents of keys, signatures, hashes and payloads.

## Plan

A refinement between the directory steps of `StreamPolicyManager`,
`EventSystemLifetime` and `StreamFiles`, which are modelled three times at different
grains.
