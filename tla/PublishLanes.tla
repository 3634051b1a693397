----------------------------- MODULE PublishLanes -----------------------------
(***************************************************************************)
(* Publishing on the lanes of one queue and receiving from it              *)
(* (Publisher::publish and publish_batch in event-system/src/backend/linux/*)
(* publisher.rs, Subscriber and StreamMessage in backend/linux/            *)
(* subscriber.rs).                                                         *)
(*                                                                         *)
(* Every publisher has a lane, a ring of Capacity cells in shared memory.  *)
(* The ring is shaq's: a reservation succeeds when no connected subscriber *)
(* still needs the cells, and a subscriber needs a cell until it drops the *)
(* message it was handed.  publish writes cells one by one and makes the   *)
(* whole reservation visible at the end, or drops it.  publish is a batch  *)
(* of one.                                                                 *)
(***************************************************************************)
EXTENDS Integers, Sequences, FiniteSets

CONSTANTS
    LanePublisher,
    Subscriber,
    Capacity,         \* StreamConfig::capacity
    SubscriberSlots,  \* StreamConfig::subscriber_slots
    MaxBatch,         \* bound on the events of one call
    MaxCalls          \* bound on the calls of one publisher

ASSUME LanesAssumption ==
    /\ {Capacity, SubscriberSlots, MaxBatch, MaxCalls} \subseteq Nat
    /\ Capacity > 0

VARIABLES
    cells,      \* the cells of each lane
    tail,       \* events made visible on each lane
    calls,      \* calls of publish and publish_batch so far
    batch,      \* size of the batch being written, 0 between calls
    written,    \* cells of it written so far
    sent,       \* events of the calls that returned Ok, in order
    connected,  \* the subscribers
    joined,     \* tail of each lane when a subscriber connected
    cursor,     \* events each subscriber has released on each lane
    holding,    \* the lane of the message a subscriber holds, if any
    received    \* what each subscriber read on each lane

ring == <<cells, tail>>
writers == <<calls, batch, written, sent>>
readers == <<connected, joined, cursor, holding, received>>
laneVars == <<cells, tail, calls, batch, written, sent,
          connected, joined, cursor, holding, received>>

\* An event is named by the call that publishes it and its place in the batch;
\* no event is like a cell that was never written.
Empty == [call |-> 0, index |-> 0]

LaneInit ==
    /\ cells = [p \in LanePublisher |-> [i \in 0 .. Capacity - 1 |-> Empty]]
    /\ tail = [p \in LanePublisher |-> 0]
    /\ calls = [p \in LanePublisher |-> 0]
    /\ batch = [p \in LanePublisher |-> 0]
    /\ written = [p \in LanePublisher |-> 0]
    /\ sent = [p \in LanePublisher |-> <<>>]
    /\ connected = {}
    /\ joined = [s \in Subscriber |-> [p \in LanePublisher |-> 0]]
    /\ cursor = [s \in Subscriber |-> [p \in LanePublisher |-> 0]]
    /\ holding = [s \in Subscriber |-> {}]
    /\ received = [s \in Subscriber |-> [p \in LanePublisher |-> <<>>]]

-----------------------------------------------------------------------------
\* shaq: n cells are free when every connected subscriber has released the
\* events that were in them.
HasRoom(p, n) == \A s \in connected : tail[p] + n - cursor[s][p] <= Capacity

\* publish and publish_batch up to the reservation.  An empty batch writes
\* nothing, and a reservation that does not fit is refused.
Reserve(p, n) ==
    /\ batch[p] = 0
    /\ calls[p] < MaxCalls
    /\ calls' = [calls EXCEPT ![p] = @ + 1]
    /\ IF n > 0 /\ n <= Capacity /\ HasRoom(p, n)
       THEN /\ batch' = [batch EXCEPT ![p] = n]
            /\ written' = [written EXCEPT ![p] = 0]
       ELSE UNCHANGED <<batch, written>>
    /\ UNCHANGED <<cells, tail, sent, readers>>

\* An event is serialized into its cell.
WriteCell(p) ==
    /\ written[p] < batch[p]
    /\ cells' = [cells EXCEPT ![p][(tail[p] + written[p]) % Capacity] =
                    [call |-> calls[p], index |-> written[p] + 1]]
    /\ written' = [written EXCEPT ![p] = @ + 1]
    /\ UNCHANGED <<tail, calls, batch, sent, readers>>

\* Mutant: what was written before the failure is made visible.
SerializationFailsPartly(p) ==
    /\ written[p] < batch[p]
    /\ tail' = [tail EXCEPT ![p] = @ + written[p]]
    /\ batch' = [batch EXCEPT ![p] = 0]
    /\ written' = [written EXCEPT ![p] = 0]
    /\ UNCHANGED <<cells, calls, sent, readers>>

\* An event does not serialize: the write guard is dropped.
SerializationFails(p) ==
    /\ written[p] < batch[p]
    /\ batch' = [batch EXCEPT ![p] = 0]
    /\ written' = [written EXCEPT ![p] = 0]
    /\ UNCHANGED <<cells, tail, calls, sent, readers>>

\* write_guard.publish(), and Ok is returned.
PublishGuard(p) ==
    /\ batch[p] > 0
    /\ written[p] = batch[p]
    /\ tail' = [tail EXCEPT ![p] = @ + batch[p]]
    /\ sent' = [sent EXCEPT ![p] = @ \o
                  [i \in 1 .. batch[p] |-> [call |-> calls[p], index |-> i]]]
    /\ batch' = [batch EXCEPT ![p] = 0]
    /\ written' = [written EXCEPT ![p] = 0]
    /\ UNCHANGED <<cells, calls, readers>>

-----------------------------------------------------------------------------
\* AvailableStream::try_connect: a subscriber starts with what is published
\* after it connects, and is refused when all slots are taken.
TryConnect(s) ==
    /\ s \notin connected
    /\ Cardinality(connected) < SubscriberSlots
    /\ connected' = connected \cup {s}
    /\ joined' = [joined EXCEPT ![s] = tail]
    /\ cursor' = [cursor EXCEPT ![s] = tail]
    /\ received' = [received EXCEPT ![s] = [p \in LanePublisher |-> <<>>]]
    /\ UNCHANGED <<ring, writers, holding>>

\* Mutant: a message is released when it is received, not when it is dropped.
TryRecvReleased(s, p) ==
    /\ s \in connected
    /\ holding[s] = {}
    /\ cursor[s][p] < tail[p]
    /\ holding' = [holding EXCEPT ![s] = {p}]
    /\ received' = [received EXCEPT ![s][p] = Append(@, cells[p][cursor[s][p] % Capacity])]
    /\ cursor' = [cursor EXCEPT ![s][p] = @ + 1]
    /\ UNCHANGED <<ring, writers, connected, joined>>

\* Subscriber::try_recv and recv_timeout: an unseen message of some lane, which
\* the subscriber holds, borrowed, until it is dropped.
TryRecv(s, p) ==
    /\ s \in connected
    /\ holding[s] = {}
    /\ cursor[s][p] < tail[p]
    /\ holding' = [holding EXCEPT ![s] = {p}]
    /\ received' = [received EXCEPT ![s][p] = Append(@, cells[p][cursor[s][p] % Capacity])]
    /\ UNCHANGED <<ring, writers, connected, joined, cursor>>

\* The StreamMessage is dropped.
DropMessage(s, p) ==
    /\ holding[s] = {p}
    /\ holding' = [holding EXCEPT ![s] = {}]
    /\ cursor' = [cursor EXCEPT ![s][p] = joined[s][p] + Len(received[s][p])]
    /\ UNCHANGED <<ring, writers, connected, joined, received>>

\* The Subscriber is dropped, which it cannot be while a message borrows it.
Disconnect(s) ==
    /\ s \in connected
    /\ holding[s] = {}
    /\ connected' = connected \ {s}
    /\ joined' = [joined EXCEPT ![s] = [p \in LanePublisher |-> 0]]
    /\ cursor' = [cursor EXCEPT ![s] = [p \in LanePublisher |-> 0]]
    /\ received' = [received EXCEPT ![s] = [p \in LanePublisher |-> <<>>]]
    /\ UNCHANGED <<ring, writers, holding>>

LaneNext ==
    \/ \E p \in LanePublisher :
          \/ \E n \in 0 .. MaxBatch : Reserve(p, n)
          \/ WriteCell(p)
          \/ SerializationFails(p)
          \/ PublishGuard(p)
    \/ \E s \in Subscriber :
          \/ TryConnect(s)
          \/ \E p \in LanePublisher : TryRecv(s, p) \/ DropMessage(s, p)
          \/ Disconnect(s)

LaneSpec == LaneInit /\ [][LaneNext]_laneVars

-----------------------------------------------------------------------------
(* A subscriber receives, on every lane, exactly the events of the calls     *)
(* that returned Ok since it connected, in order and without a gap: a batch  *)
(* of which one event fails to serialize, or that is back-pressured, leaves  *)
(* nothing behind, though some of its cells were written.                    *)
ReceivesExactlyWhatWasSent ==
    \A s \in connected, p \in LanePublisher :
        LET end == joined[s][p] + Len(received[s][p])
        IN  /\ end <= Len(sent[p])
            /\ received[s][p] = SubSeq(sent[p], joined[s][p] + 1, end)

(* The cell behind a message that a subscriber still holds is not written,   *)
(* so payload() stays what was received: publishers on that lane are         *)
(* back-pressured instead.                                                   *)
HeldMessageIsStable ==
    \A s \in connected, p \in LanePublisher :
        p \in holding[s] =>
            cells[p][(joined[s][p] + Len(received[s][p]) - 1) % Capacity]
              = received[s][p][Len(received[s][p])]
=============================================================================
