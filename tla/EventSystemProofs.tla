-------------------------- MODULE EventSystemProofs --------------------------
(***************************************************************************)
(* Proofs about the parts of an event system that its handles work on: the *)
(* slots and producers of a stream (EventStream), the events on the        *)
(* lanes of a queue (PublishLanes) and the directories that belong to the  *)
(* event system itself (EventSystemLifetime).                              *)
(***************************************************************************)
EXTENDS EventStream, PublishLanes, EventSystemLifetime, FiniteSetTheorems,
        SequenceTheorems, TLAPS

\* A leaf that names no prover is given to Zenon.
USE ZenonT(30)

-----------------------------------------------------------------------------
(***************************************************************************)
(* Proofs about EventStream for every set of publishers, number of slots   *)
(* and bound on the generation.                                            *)
(*                                                                         *)
(* ProducerMatchesGeneration rests on create_producer never running out of *)
(* lanes, which rests on the slot accounting: a publisher that is about to *)
(* ask for a lane has a slot and no lane, and every lane of the current    *)
(* queue is held by some other publisher with a slot.  IInv says so.       *)
(***************************************************************************)

\* The parts of the inductive invariant that concern one publisher.
PublisherInv(p) ==
    /\ generation[p] =< queue_generation
    /\ known[p] =< queue_generation
    /\ pc[p] \in {"idle", "ready"} => producer[p] = QueueOf(generation[p])
    /\ pc[p] \notin {"idle", "ready"} => producer[p] = NoQueue
    /\ pc[p] = "ready" => known[p] =< generation[p]

\* The inductive invariant.
IInv ==
    /\ TypeOK
    /\ SlotAccounting
    /\ queue = QueueOf(queue_generation)
    /\ \A p \in Publisher : PublisherInv(p)

-----------------------------------------------------------------------------

\* The publishers that hold a slot are finitely many.
LEMMA LiveFinite ==
    /\ IsFiniteSet(Live)
    /\ Cardinality(Live) \in Nat
BY PublisherAssumption, FS_Subset, FS_CardinalityType DEF Live

\* A publisher without a lane that has, or is about to take, a slot gets a lane
\* of the current queue: the other holders of lanes do not use up the slots.
LEMMA LaneAvailable ==
    ASSUME IInv, NEW p \in Publisher,
           producer[p] = NoQueue,
           p \in Live \/ remaining > 0
    PROVE  CreateProducer = queue
<1>1. CASE queue = NoQueue
  BY <1>1 DEF CreateProducer
<1>2. CASE queue # NoQueue
  <2>1. Holders(queue) \subseteq Live
    BY <1>2 DEF Holders, Live, IInv, PublisherInv, TypeOK, NoQueue
  <2>2. p \notin Holders(queue)
    BY <1>2 DEF Holders
  <2>3. /\ Cardinality(Holders(queue)) \in Nat
        /\ Cardinality(Holders(queue)) =< Cardinality(Live)
        /\ Cardinality(Holders(queue)) = Cardinality(Live) => Holders(queue) = Live
    BY <2>1, LiveFinite, FS_Subset, FS_CardinalityType
  <2>4. Cardinality(Holders(queue)) < PublisherSlots
    BY <2>2, <2>3, LiveFinite, SlotsAssumption, SMTT(30) DEF IInv, SlotAccounting, TypeOK
  <2>. QED
    BY <1>2, <2>4 DEF CreateProducer
<1>. QED
  BY <1>1, <1>2

\* Initially no publisher exists, so all slots are free.
LEMMA InitIInv == Init => IInv
<1>. SUFFICES ASSUME Init PROVE IInv
  OBVIOUS
<1>1. TypeOK
  BY SlotsAssumption, MaxGenerationAssumption, SMTT(30) DEF Init, TypeOK, NoQueue
<1>2. Live = {}
  BY DEF Init, Live
<1>3. SlotAccounting
  BY <1>2, FS_EmptySet, SlotsAssumption, SMTT(30) DEF Init, SlotAccounting
<1>. QED
  BY <1>1, <1>3, SMTT(30) DEF Init, IInv, PublisherInv, QueueOf, NoQueue

\* A step that leaves the slots alone and moves publishers only between live
\* places keeps the accounting.
LEMMA SameLiveSameSlots ==
    ASSUME SlotAccounting, Live' = Live, remaining' = remaining
    PROVE  SlotAccounting'
BY DEF SlotAccounting

\* Every step preserves the invariant.
LEMMA NextIInv == IInv /\ [Next]_vars => IInv'
<1>. SUFFICES ASSUME IInv, [Next]_vars PROVE IInv'
  OBVIOUS
<1>. USE SlotsAssumption, MaxGenerationAssumption
<1>1. CASE Enable
  <2>1. TypeOK' /\ queue' = QueueOf(queue_generation')
    BY <1>1, SMTT(30) DEF Enable, IInv, TypeOK, QueueOf, NoQueue
  <2>2. SlotAccounting'
    BY <1>1, SameLiveSameSlots DEF Enable, IInv, Live
  <2>3. \A p \in Publisher : PublisherInv(p)'
    BY <1>1, SMTT(30) DEF Enable, IInv, TypeOK, PublisherInv
  <2>. QED
    BY <2>1, <2>2, <2>3 DEF IInv, QueueOf
<1>2. CASE Disable
  <2>1. TypeOK' /\ queue' = QueueOf(queue_generation')
    BY <1>2, SMTT(30) DEF Disable, IInv, TypeOK, QueueOf, NoQueue
  <2>2. SlotAccounting'
    BY <1>2, SameLiveSameSlots DEF Disable, IInv, Live
  <2>3. \A p \in Publisher : PublisherInv(p)'
    BY <1>2, SMTT(30) DEF Disable, IInv, TypeOK, PublisherInv
  <2>. QED
    BY <2>1, <2>2, <2>3 DEF IInv, QueueOf
<1>3. ASSUME NEW p \in Publisher, TryCreatePublisher(p) PROVE IInv'
  <2>. USE <1>3 DEF TryCreatePublisher
  <2>1. CreateProducer = QueueOf(queue_generation)
    BY LaneAvailable DEF IInv, PublisherInv
  <2>2. TypeOK'
    BY <2>1, SMTT(30) DEF IInv, TypeOK
  <2>3. Live' = Live \cup {p} /\ p \notin Live
    BY DEF Live, IInv, TypeOK
  <2>4. Cardinality(Live') = Cardinality(Live) + 1
    BY <2>3, LiveFinite, FS_AddElement
  <2>5. SlotAccounting'
    BY <2>4, LiveFinite, SMTT(30) DEF IInv, TypeOK, SlotAccounting
  <2>6. \A q \in Publisher : PublisherInv(q)'
    BY <2>1, SMTT(30) DEF IInv, TypeOK, PublisherInv, QueueOf
  <2>. QED
    BY <2>2, <2>5, <2>6 DEF IInv, QueueOf
<1>4. ASSUME NEW p \in Publisher, LoadUnchanged(p) PROVE IInv'
  <2>. USE <1>4 DEF LoadUnchanged, streamVars
  <2>1. TypeOK'
    BY DEF IInv, TypeOK
  <2>2. SlotAccounting'
    BY SameLiveSameSlots DEF IInv, TypeOK, Live
  <2>3. \A q \in Publisher : PublisherInv(q)'
    BY SMTT(30) DEF IInv, TypeOK, PublisherInv, QueueOf
  <2>. QED
    BY <2>1, <2>2, <2>3 DEF IInv, QueueOf
<1>5. ASSUME NEW p \in Publisher, LoadChanged(p) PROVE IInv'
  <2>. USE <1>5 DEF LoadChanged, streamVars
  <2>1. PICK g \in known[p]..queue_generation : known' = [known EXCEPT ![p] = g]
    OBVIOUS
  <2>2. g \in Nat /\ g =< queue_generation
    BY <2>1, SMTT(30) DEF IInv, TypeOK
  <2>3. TypeOK'
    BY <2>1, <2>2 DEF IInv, TypeOK, NoQueue
  <2>4. SlotAccounting'
    BY SameLiveSameSlots DEF IInv, TypeOK, Live
  <2>5. \A q \in Publisher : PublisherInv(q)'
    BY <2>1, <2>2 DEF IInv, TypeOK, PublisherInv, QueueOf
  <2>. QED
    BY <2>3, <2>4, <2>5 DEF IInv, QueueOf
<1>6. ASSUME NEW p \in Publisher, ReplaceProducer(p) PROVE IInv'
  <2>. USE <1>6 DEF ReplaceProducer, streamVars
  <2>1. CreateProducer = QueueOf(queue_generation)
    BY LaneAvailable DEF IInv, PublisherInv, Live
  <2>2. TypeOK'
    BY <2>1, SMTT(30) DEF IInv, TypeOK
  <2>3. SlotAccounting'
    BY SameLiveSameSlots DEF IInv, TypeOK, Live
  <2>4. \A q \in Publisher : PublisherInv(q)'
    BY <2>1, SMTT(30) DEF IInv, TypeOK, PublisherInv, QueueOf
  <2>. QED
    BY <2>2, <2>3, <2>4 DEF IInv, QueueOf
<1>7. ASSUME NEW p \in Publisher, Return(p) PROVE IInv'
  <2>. USE <1>7 DEF Return, streamVars
  <2>1. TypeOK'
    BY DEF IInv, TypeOK
  <2>2. SlotAccounting'
    BY SameLiveSameSlots DEF IInv, TypeOK, Live
  <2>3. \A q \in Publisher : PublisherInv(q)'
    BY DEF IInv, TypeOK, PublisherInv, QueueOf
  <2>. QED
    BY <2>1, <2>2, <2>3 DEF IInv, QueueOf
<1>8. ASSUME NEW p \in Publisher, Learn(p) PROVE IInv'
  <2>. USE <1>8 DEF Learn, streamVars
  <2>1. TypeOK'
    BY SMTT(30) DEF IInv, TypeOK
  <2>2. SlotAccounting'
    BY SameLiveSameSlots DEF IInv, TypeOK, Live
  <2>3. \A q \in Publisher : PublisherInv(q)'
    BY SMTT(30) DEF IInv, TypeOK, PublisherInv, QueueOf
  <2>. QED
    BY <2>1, <2>2, <2>3 DEF IInv, QueueOf
<1>9. ASSUME NEW p \in Publisher, DropProducer(p) PROVE IInv'
  <2>. USE <1>9 DEF DropProducer, streamVars
  <2>1. TypeOK'
    BY DEF IInv, TypeOK, NoQueue
  <2>2. SlotAccounting'
    BY SameLiveSameSlots DEF IInv, TypeOK, Live
  <2>3. \A q \in Publisher : PublisherInv(q)'
    BY DEF IInv, TypeOK, PublisherInv, QueueOf
  <2>. QED
    BY <2>1, <2>2, <2>3 DEF IInv, QueueOf
<1>10. ASSUME NEW p \in Publisher, DropSlot(p) PROVE IInv'
  <2>. USE <1>10 DEF DropSlot
  <2>1. Live' = Live \ {p} /\ p \in Live
    BY DEF Live, IInv, TypeOK
  <2>2. Cardinality(Live') = Cardinality(Live) - 1
    BY <2>1, LiveFinite, FS_RemoveElement
  <2>3. SlotAccounting'
    BY <2>2, LiveFinite, SMTT(30) DEF IInv, TypeOK, SlotAccounting
  <2>4. Cardinality(Live') \in Nat
    BY <2>1, LiveFinite, FS_RemoveElement, FS_CardinalityType
  <2>5. TypeOK'
    BY <2>3, <2>4, SMTT(30) DEF IInv, TypeOK, SlotAccounting
  <2>6. \A q \in Publisher : PublisherInv(q)'
    BY DEF IInv, TypeOK, PublisherInv, QueueOf
  <2>. QED
    BY <2>3, <2>5, <2>6 DEF IInv, QueueOf
<1>11. CASE UNCHANGED vars
  <2>1. SlotAccounting'
    BY <1>11, SameLiveSameSlots DEF vars, IInv, Live
  <2>. QED
    BY <1>11, <2>1 DEF vars, IInv, TypeOK, PublisherInv, QueueOf
<1>. QED
  BY <1>1, <1>2, <1>3, <1>4, <1>5, <1>6, <1>7, <1>8, <1>9, <1>10, <1>11 DEF Next

\* The inductive invariant holds in every reachable state.
THEOREM InductiveInvariant == Spec => []IInv
BY InitIInv, NextIInv, PTL DEF Spec

\* Type correctness of the stream and its publishers.
THEOREM TypeCorrect == Spec => []TypeOK
<1>1. IInv => TypeOK
  BY DEF IInv
<1>. QED
  BY InductiveInvariant, <1>1, PTL

\* Publisher slots are never leaked or lent twice, for any number of publishers.
THEOREM SlotsAccounted == Spec => []SlotAccounting
<1>1. IInv => SlotAccounting
  BY DEF IInv
<1>. QED
  BY InductiveInvariant, <1>1, PTL

\* A publisher that is about to publish holds a producer of the queue that its
\* cached generation stands for: no publisher is starved of a lane and none
\* mistakes one queue for another, for any number of publishers and changes.
THEOREM ProducersMatch == Spec => []ProducerMatchesGeneration
<1>1. IInv => ProducerMatchesGeneration
  BY DEF IInv, PublisherInv, ProducerMatchesGeneration
<1>. QED
  BY InductiveInvariant, <1>1, PTL

\* No call works on a queue that its thread already knew to be replaced.
THEOREM NeverStale == Spec => []NoStaleUse
<1>1. IInv => NoStaleUse
  <2>. SUFFICES ASSUME IInv, NEW p \in Publisher, pc[p] = "ready"
                PROVE  \E g \in known[p]..queue_generation : producer[p] = QueueOf(g)
    BY DEF NoStaleUse
  <2>1. generation[p] \in known[p]..queue_generation
    BY SMTT(30) DEF IInv, TypeOK, PublisherInv
  <2>. QED
    BY <2>1 DEF IInv, PublisherInv
<1>. QED
  BY InductiveInvariant, <1>1, PTL

\* A disabled queue only loses producers, whatever the publishers do.
THEOREM RetiredQueues == Spec => RetiredQueuesOnlyLoseProducers
<1>1. IInv /\ [Next]_vars =>
        [\A q \in 1..MaxGeneration : q # queue => Holders(q)' \subseteq Holders(q)]_vars
  <2>. SUFFICES ASSUME IInv, Next, NEW q \in 1..MaxGeneration, q # queue
                PROVE  Holders(q)' \subseteq Holders(q)
    OBVIOUS
  <2>1. CreateProducer # q /\ NoQueue # q
    BY SMTT(30) DEF CreateProducer, NoQueue
  <2>2. \A p \in Publisher : producer'[p] = q => producer[p] = q
    BY <2>1 DEF IInv, TypeOK, Next, Enable, Disable, TryCreatePublisher, LoadUnchanged,
       LoadChanged, ReplaceProducer, Return, Learn, DropProducer, DropSlot, streamVars
  <2>. QED
    BY <2>2 DEF Holders
<1>. QED
  BY InductiveInvariant, <1>1, PTL DEF Spec, RetiredQueuesOnlyLoseProducers

-----------------------------------------------------------------------------
(***************************************************************************)
(* What subscribers receive, for any number of publishers, subscribers,    *)
(* cells of a ring and events of a batch, and for calls without end.       *)
(*                                                                         *)
(* The events between a subscriber's cursor and the tail of a lane, with   *)
(* the reservation behind them, fit in the ring.  So two of them never     *)
(* share a cell (DistinctCells), and writing the reservation leaves what   *)
(* the subscriber has yet to read, or holds, as it was sent.               *)
(***************************************************************************)

\* The cell of the ring an event is in.
Slot(i) == i % Capacity

Cell == [call : Nat, index : Nat]

LaneTypeOK ==
    /\ cells \in [LanePublisher -> [0 .. Capacity - 1 -> Cell]]
    /\ tail \in [LanePublisher -> Nat]
    /\ calls \in [LanePublisher -> Nat]
    /\ batch \in [LanePublisher -> Nat]
    /\ written \in [LanePublisher -> Nat]
    /\ sent \in [LanePublisher -> Seq(Cell)]
    /\ connected \subseteq Subscriber
    /\ joined \in [Subscriber -> [LanePublisher -> Nat]]
    /\ cursor \in [Subscriber -> [LanePublisher -> Nat]]
    /\ holding \in [Subscriber -> SUBSET LanePublisher]
    /\ received \in [Subscriber -> [LanePublisher -> Seq(Cell)]]

\* What a publisher has sent and what it is writing.
Writing ==
    \A p \in LanePublisher :
        /\ Len(sent[p]) = tail[p]
        /\ written[p] <= batch[p]
        /\ \A i \in 0 .. written[p] - 1 :
              cells[p][Slot(tail[p] + i)] = [call |-> calls[p], index |-> i + 1]

\* A reservation leaves alone what a subscriber has not released.
Room ==
    /\ \A p \in LanePublisher : batch[p] <= Capacity
    /\ \A s \in connected, p \in LanePublisher :
          /\ joined[s][p] <= cursor[s][p]
          /\ cursor[s][p] <= tail[p]
          /\ tail[p] + batch[p] - cursor[s][p] <= Capacity

\* What is not released is in its cell.
Stored ==
    \A s \in connected, p \in LanePublisher :
        \A i \in cursor[s][p] .. tail[p] - 1 :
            cells[p][Slot(i)] = sent[p][i + 1]

\* A subscriber holds at most the first message it has not released.
Held ==
    /\ \A s \in Subscriber \ connected : holding[s] = {}
    /\ \A s \in connected, p, q \in LanePublisher : p \in holding[s] /\ q \in holding[s] => p = q
    /\ \A s \in connected, p \in LanePublisher :
          /\ p \in holding[s] =>
                /\ cursor[s][p] < tail[p]
                /\ Len(received[s][p]) = cursor[s][p] - joined[s][p] + 1
          /\ p \notin holding[s] => Len(received[s][p]) = cursor[s][p] - joined[s][p]

\* What was received is what was sent.
Received ==
    \A s \in connected, p \in LanePublisher :
        \A k \in 1 .. Len(received[s][p]) : received[s][p][k] = sent[p][joined[s][p] + k]

LaneIInv == LaneTypeOK /\ Writing /\ Room /\ Stored /\ Held /\ Received

(* The size of a ring, in the form the steps use.                            *)
LEMMA Constants == Capacity \in Nat \ {0}
  BY LanesAssumption, SMTT(30)

(* Division with remainder by the size of a ring.                            *)
LEMMA DivMod ==
    ASSUME NEW i \in Nat
    PROVE  /\ Slot(i) \in 0 .. Capacity - 1
           /\ i \div Capacity \in Nat
           /\ i = Capacity * (i \div Capacity) + Slot(i)
  BY Constants, SMTT(30) DEF Slot

(* Less than Capacity events that follow each other are in distinct cells.   *)
LEMMA DistinctCells ==
    ASSUME NEW i \in Nat, NEW j \in Nat, i < j, j < i + Capacity
    PROVE  Slot(i) # Slot(j)
<1> SUFFICES ASSUME Slot(i) = Slot(j) PROVE FALSE
  OBVIOUS
<1> DEFINE a == i \div Capacity
           b == j \div Capacity
           r == Slot(i)
<1>1. /\ i = Capacity * a + r /\ j = Capacity * b + r
      /\ a \in Nat /\ b \in Nat /\ r \in Nat
  BY DivMod, LanesAssumption, SMTT(30)
<1> HIDE DEF a, b, r
<1>2. j - i = Capacity * (b - a)
  BY <1>1, LanesAssumption, SMTT(30)
<1>3. CASE b - a <= 0
  BY <1>1, <1>2, <1>3, LanesAssumption, SMTT(30)
<1>4. CASE b - a >= 1
  <2>1. Capacity * (b - a) >= Capacity
    BY <1>1, <1>4, LanesAssumption, SMTT(30)
  <2> QED
    BY <1>2, <2>1, LanesAssumption, SMTT(30)
<1> QED
  BY <1>1, <1>3, <1>4, SMTT(30)

(* The counters of one subscriber on one lane.                               *)
Counts(s, p) ==
    /\ tail[p] \in Nat /\ batch[p] \in Nat
    /\ joined[s][p] \in Nat /\ cursor[s][p] \in Nat /\ Len(received[s][p]) \in Nat
    /\ joined[s][p] <= cursor[s][p] /\ cursor[s][p] <= tail[p]
    /\ tail[p] + batch[p] - cursor[s][p] <= Capacity
    /\ joined[s][p] + Len(received[s][p]) <= tail[p]
    /\ p \in holding[s] =>
          /\ cursor[s][p] < tail[p]
          /\ Len(received[s][p]) = cursor[s][p] - joined[s][p] + 1
    /\ p \notin holding[s] => Len(received[s][p]) = cursor[s][p] - joined[s][p]

(* What the invariant says of them.                                          *)
LEMMA Counters ==
    ASSUME LaneIInv, NEW s \in connected, NEW p \in LanePublisher
    PROVE  Counts(s, p) /\ s \in Subscriber /\ received[s][p] \in Seq(Cell)
<1>1. /\ s \in Subscriber
      /\ tail[p] \in Nat /\ batch[p] \in Nat
      /\ joined[s][p] \in Nat /\ cursor[s][p] \in Nat
      /\ received[s][p] \in Seq(Cell)
  BY DEF LaneIInv, LaneTypeOK
<1>2. Len(received[s][p]) \in Nat
  BY <1>1, SMTT(30)
<1>3. /\ joined[s][p] <= cursor[s][p] /\ cursor[s][p] <= tail[p]
      /\ tail[p] + batch[p] - cursor[s][p] <= Capacity
  BY DEF LaneIInv, Room
<1>4. /\ p \in holding[s] =>
            /\ cursor[s][p] < tail[p]
            /\ Len(received[s][p]) = cursor[s][p] - joined[s][p] + 1
      /\ p \notin holding[s] => Len(received[s][p]) = cursor[s][p] - joined[s][p]
  BY DEF LaneIInv, Held
<1>5. joined[s][p] + Len(received[s][p]) <= tail[p]
  BY <1>1, <1>2, <1>3, <1>4, SMTT(30)
<1> QED
  BY <1>1, <1>2, <1>3, <1>4, <1>5 DEF Counts

(* Nothing is published and nobody is connected.                             *)
LEMMA LaneInitIInv == LaneInit => LaneIInv
<1> SUFFICES ASSUME LaneInit PROVE LaneIInv
  OBVIOUS
<1> USE LanesAssumption DEF LaneInit
<1>1. Empty \in Cell
  BY DEF Empty, Cell
<1>2. LaneTypeOK
  BY <1>1, SMTT(30) DEF LaneTypeOK
<1> QED
  BY <1>2, SMTT(30) DEF LaneIInv, Writing, Room, Stored, Held, Received

LEMMA ReserveIInv ==
    ASSUME LaneIInv, NEW p \in LanePublisher, NEW n \in Nat, Reserve(p, n)
    PROVE  LaneIInv'
<1> USE Constants DEF LaneIInv, Reserve, readers
<1>1. /\ batch' \in [LanePublisher -> Nat] /\ written' \in [LanePublisher -> Nat]
      /\ \A q \in LanePublisher \ {p} : batch'[q] = batch[q] /\ written'[q] = written[q]
      /\ \A q \in LanePublisher \ {p} : calls'[q] = calls[q]
      /\ calls' \in [LanePublisher -> Nat]
  <2>1. CASE n > 0 /\ n <= Capacity /\ HasRoom(p, n)
    <3>1. batch' = [batch EXCEPT ![p] = n] /\ written' = [written EXCEPT ![p] = 0]
      BY <2>1
    <3>2. calls' = [calls EXCEPT ![p] = @ + 1]
      OBVIOUS
    <3> HIDE DEF Reserve
    <3> QED
      BY <3>1, <3>2, SMTT(30) DEF LaneTypeOK
  <2>2. CASE ~(n > 0 /\ n <= Capacity /\ HasRoom(p, n))
    BY <2>2, SMTT(30) DEF LaneTypeOK
  <2> QED
    BY <2>1, <2>2
<1>2. /\ written'[p] = 0
      /\ batch'[p] = 0 \/ (batch'[p] = n /\ n <= Capacity /\ HasRoom(p, n))
  BY SMTT(30) DEF LaneTypeOK, Writing
<1>3. UNCHANGED <<cells, tail, sent, connected, joined, cursor, holding, received>>
  OBVIOUS
<1> HIDE DEF Reserve
<1>4. LaneTypeOK'
  BY <1>1, <1>3 DEF LaneTypeOK
<1>5. Writing'
  <2> SUFFICES ASSUME NEW q \in LanePublisher
               PROVE  /\ Len(sent[q]) = tail[q]
                      /\ written'[q] <= batch'[q]
                      /\ \A i \in 0 .. written'[q] - 1 :
                            cells[q][Slot(tail[q] + i)]
                              = [call |-> calls'[q], index |-> i + 1]
    BY <1>3 DEF Writing
  <2>1. CASE q = p
    BY <1>1, <1>2, <2>1, SMTT(30) DEF LaneTypeOK, Writing
  <2>2. CASE q # p
    BY <1>1, <2>2 DEF LaneTypeOK, Writing
  <2> QED
    BY <2>1, <2>2
<1>6. Room'
  <2>1. ASSUME NEW q \in LanePublisher PROVE batch'[q] <= Capacity
    BY <1>1, <1>2, Constants, SMTT(30) DEF Room
  <2>2. ASSUME NEW s \in connected, NEW q \in LanePublisher
        PROVE  tail[q] + batch'[q] - cursor[s][q] <= Capacity
    <3>1. CASE q = p
      BY <1>2, <3>1, SMTT(30) DEF LaneTypeOK, Room, HasRoom
    <3>2. CASE q # p
      BY <1>1, <3>2 DEF Room
    <3> QED
      BY <3>1, <3>2
  <2> QED
    BY <1>3, <2>1, <2>2 DEF Room
<1>7. Stored'
  BY <1>3, SMTT(30) DEF Stored
<1>8. Held'
  BY <1>3 DEF Held
<1>9. Received'
  BY <1>3, SMTT(30) DEF Received
<1> QED
  BY <1>4, <1>5, <1>6, <1>7, <1>8, <1>9

(* Writing the next cell of a reservation spares what was written of it and  *)
(* what is not released.                                                     *)
LEMMA WriteCellIInv ==
    ASSUME LaneIInv, NEW p \in LanePublisher, WriteCell(p)
    PROVE  LaneIInv'
<1> USE Constants DEF LaneIInv
<1> DEFINE at == Slot(tail[p] + written[p])
           event == [call |-> calls[p], index |-> written[p] + 1]
<1>1. /\ written[p] < batch[p]
      /\ cells' = [cells EXCEPT ![p][at] = event]
      /\ written' = [written EXCEPT ![p] = @ + 1]
      /\ UNCHANGED <<tail, calls, batch, sent, connected, joined, cursor, holding, received>>
  BY DEF WriteCell, readers, Slot
<1>2. /\ tail[p] \in Nat /\ written[p] \in Nat /\ batch[p] \in Nat /\ calls[p] \in Nat
      /\ event \in Cell
      /\ at \in 0 .. Capacity - 1
  <2>1. tail[p] \in Nat /\ written[p] \in Nat /\ batch[p] \in Nat /\ calls[p] \in Nat
    BY DEF LaneTypeOK
  <2>2. event \in Cell
    BY <2>1, SMTT(30) DEF Cell
  <2>3. tail[p] + written[p] \in Nat
    BY <2>1, SMTT(30)
  <2>4. at \in 0 .. Capacity - 1
    BY <2>3, DivMod
  <2> QED
    BY <2>1, <2>2, <2>4
<1> HIDE DEF at, event
<1>3. /\ cells'[p][at] = event
      /\ \A k \in 0 .. Capacity - 1 : k # at => cells'[p][k] = cells[p][k]
      /\ \A q \in LanePublisher \ {p} : cells'[q] = cells[q] /\ written'[q] = written[q]
      /\ written'[p] = written[p] + 1
      /\ cells' \in [LanePublisher -> [0 .. Capacity - 1 -> Cell]]
      /\ written' \in [LanePublisher -> Nat]
  BY <1>1, <1>2, SMTT(30) DEF LaneTypeOK
<1>4. LaneTypeOK'
  BY <1>1, <1>3 DEF LaneTypeOK
<1>5. Writing'
  <2> SUFFICES ASSUME NEW q \in LanePublisher
               PROVE  /\ Len(sent[q]) = tail[q]
                      /\ written'[q] <= batch[q]
                      /\ \A i \in 0 .. written'[q] - 1 :
                            cells'[q][Slot(tail[q] + i)]
                              = [call |-> calls[q], index |-> i + 1]
    BY <1>1, SMTT(30) DEF Writing
  <2>1. CASE q # p
    BY <1>3, <2>1, ZenonT(60) DEF Writing
  <2>2. CASE q = p
    <3>1. Len(sent[p]) = tail[p] /\ written'[p] <= batch[p]
      BY <1>1, <1>2, <1>3, SMTT(30) DEF Writing
    <3>2. ASSUME NEW i \in 0 .. written'[p] - 1
          PROVE  cells'[p][Slot(tail[p] + i)] = [call |-> calls[p], index |-> i + 1]
      <4>1. CASE i = written[p]
        BY <1>3, <4>1 DEF at, event
      <4>2. CASE i < written[p]
        <5>1. written[p] < Capacity
          BY <1>1, <1>2, SMTT(30) DEF Room
        <5>2. Slot(tail[p] + i) # at
          <6> DEFINE m == tail[p] + i
                     n == tail[p] + written[p]
          <6>1. m \in Nat /\ n \in Nat /\ m < n /\ n < m + Capacity
            BY <1>2, <4>2, <5>1, SMTT(30)
          <6> HIDE DEF m, n
          <6>2. Slot(m) # Slot(n)
            BY <6>1, DistinctCells
          <6> QED
            BY <6>2 DEF at, m, n
        <5>3. Slot(tail[p] + i) \in 0 .. Capacity - 1
          <6>1. tail[p] + i \in Nat
            BY <1>2, SMTT(30)
          <6> QED
            BY <6>1, DivMod
        <5>4. cells[p][Slot(tail[p] + i)] = [call |-> calls[p], index |-> i + 1]
          BY <1>2, <4>2, SMTT(30) DEF Writing
        <5> QED
          BY <1>3, <5>2, <5>3, <5>4
      <4> QED
        BY <1>2, <1>3, <4>1, <4>2, SMTT(30)
    <3> QED
      BY <2>2, <3>1, <3>2
  <2> QED
    BY <2>1, <2>2
<1>6. Room'
  BY <1>1 DEF Room
<1>7. Stored'
  <2> SUFFICES ASSUME NEW s \in connected, NEW q \in LanePublisher,
                      NEW i \in cursor[s][q] .. tail[q] - 1
               PROVE  cells'[q][Slot(i)] = sent[q][i + 1]
    BY <1>1, SMTT(30) DEF Stored
  <2>1. cells[q][Slot(i)] = sent[q][i + 1]
    BY DEF Stored
  <2>2. CASE q # p
    BY <1>3, <2>1, <2>2
  <2>3. CASE q = p
    <3>1. i \in Nat /\ i < tail[p] + written[p] /\ tail[p] + written[p] < i + Capacity
      <4> DEFINE c == cursor[s][p]
                 t == tail[p]
                 n == batch[p]
                 w == written[p]
      <4>1. /\ c \in Nat /\ t \in Nat /\ n \in Nat /\ t + n - c <= Capacity
        BY Counters DEF Counts
      <4>2. w \in Nat /\ w < n /\ i \in c .. t - 1
        BY <1>1, <1>2, <2>3
      <4> HIDE DEF c, t, n, w
      <4>3. i \in Nat /\ i < t + w /\ t + w < i + Capacity
        BY <4>1, <4>2, SMTT(30)
      <4> QED
        BY <4>3 DEF t, w
    <3>2. Slot(i) # at
      <4> DEFINE n == tail[p] + written[p]
      <4>1. n \in Nat /\ i < n /\ n < i + Capacity
        BY <1>2, <3>1, SMTT(30)
      <4> HIDE DEF n
      <4>2. Slot(i) # Slot(n)
        BY <3>1, <4>1, DistinctCells
      <4> QED
        BY <4>2 DEF at, n
    <3>3. Slot(i) \in 0 .. Capacity - 1
      BY <3>1, DivMod
    <3> QED
      BY <1>3, <2>1, <2>3, <3>2, <3>3
  <2> QED
    BY <2>2, <2>3
<1>8. Held'
  BY <1>1 DEF Held
<1>9. Received'
  BY <1>1, SMTT(30) DEF Received
<1> QED
  BY <1>4, <1>5, <1>6, <1>7, <1>8, <1>9

(* A dropped reservation leaves no trace.                                    *)
LEMMA SerializationFailsIInv ==
    ASSUME LaneIInv, NEW p \in LanePublisher, SerializationFails(p)
    PROVE  LaneIInv'
<1> USE Constants DEF LaneIInv
<1>1. /\ batch' = [batch EXCEPT ![p] = 0]
      /\ written' = [written EXCEPT ![p] = 0]
      /\ UNCHANGED <<cells, tail, calls, sent, connected, joined, cursor, holding, received>>
  BY DEF SerializationFails, readers
<1>2. LaneTypeOK'
  BY <1>1 DEF LaneTypeOK
<1>3. Writing'
  BY <1>1, SMTT(30) DEF LaneTypeOK, Writing
<1>4. Room'
  <2>1. ASSUME NEW q \in LanePublisher PROVE batch'[q] \in Nat /\ batch'[q] <= batch[q]
    BY <1>1, SMTT(30) DEF LaneTypeOK
  <2>2. ASSUME NEW q \in LanePublisher PROVE batch'[q] <= Capacity
    BY <2>1, SMTT(30) DEF LaneTypeOK, Room
  <2>3. ASSUME NEW s \in connected, NEW q \in LanePublisher
        PROVE  tail[q] + batch'[q] - cursor[s][q] <= Capacity
    <3>1. Counts(s, q)
      BY Counters
    <3> QED
      BY <2>1, <3>1, SMTT(30) DEF Counts
  <2> QED
    BY <1>1, <2>2, <2>3 DEF Room
<1>5. Stored'
  BY <1>1, SMTT(30) DEF Stored
<1>6. Held'
  BY <1>1 DEF Held
<1>7. Received'
  BY <1>1, SMTT(30) DEF Received
<1> QED
  BY <1>2, <1>3, <1>4, <1>5, <1>6, <1>7

(* Publishing a reservation appends its events to what was sent.             *)
LEMMA PublishGuardIInv ==
    ASSUME LaneIInv, NEW p \in LanePublisher, PublishGuard(p)
    PROVE  LaneIInv'
<1> USE Constants DEF LaneIInv
<1> DEFINE events == [i \in 1 .. batch[p] |-> [call |-> calls[p], index |-> i]]
<1>1. /\ written[p] = batch[p]
      /\ tail' = [tail EXCEPT ![p] = @ + batch[p]]
      /\ sent' = [sent EXCEPT ![p] = @ \o events]
      /\ batch' = [batch EXCEPT ![p] = 0]
      /\ written' = [written EXCEPT ![p] = 0]
      /\ UNCHANGED <<cells, calls, connected, joined, cursor, holding, received>>
  BY DEF PublishGuard, readers
<1>2. /\ tail[p] \in Nat /\ batch[p] \in Nat /\ calls[p] \in Nat
      /\ sent[p] \in Seq(Cell) /\ Len(sent[p]) = tail[p]
  BY DEF LaneTypeOK, Writing
<1>3. /\ events \in Seq(Cell) /\ Len(events) = batch[p]
      /\ \A i \in 1 .. batch[p] : events[i] = [call |-> calls[p], index |-> i]
  <2>1. \A i \in 1 .. batch[p] : [call |-> calls[p], index |-> i] \in Cell
    BY <1>2, SMTT(30) DEF Cell
  <2> QED
    BY <1>2, <2>1, SMTT(30)
<1> HIDE DEF events
<1>4. /\ sent[p] \o events \in Seq(Cell)
      /\ Len(sent[p] \o events) = tail[p] + batch[p]
      /\ \A i \in 1 .. tail[p] : (sent[p] \o events)[i] = sent[p][i]
      /\ \A i \in 1 .. batch[p] :
            (sent[p] \o events)[tail[p] + i] = [call |-> calls[p], index |-> i]
  <2>1. /\ sent[p] \o events \in Seq(Cell)
        /\ Len(sent[p] \o events) = Len(sent[p]) + Len(events)
        /\ \A i \in 1 .. Len(sent[p]) + Len(events) :
              (sent[p] \o events)[i] = IF i <= Len(sent[p]) THEN sent[p][i]
                                      ELSE events[i - Len(sent[p])]
    BY <1>2, <1>3, ConcatProperties, SMTT(30)
  <2>2. ASSUME NEW i \in 1 .. batch[p]
        PROVE  (sent[p] \o events)[tail[p] + i] = [call |-> calls[p], index |-> i]
    <3> DEFINE l == Len(sent[p])
               n == Len(events)
               j == tail[p] + i
    <3>1. l \in Nat /\ n \in Nat /\ i \in 1 .. n /\ j = l + i
      BY <1>2, <1>3
    <3> HIDE DEF l, n, j
    <3>2. j \in 1 .. l + n /\ ~(j <= l) /\ j - l = i
      BY <3>1, SMTT(30)
    <3>3. (sent[p] \o events)[j] = events[i]
      BY <2>1, <3>2 DEF l, n
    <3> QED
      BY <1>3, <3>3 DEF j
  <2>3. ASSUME NEW i \in 1 .. tail[p] PROVE (sent[p] \o events)[i] = sent[p][i]
    BY <1>2, <1>3, <2>1, SMTT(30)
  <2> QED
    BY <1>2, <1>3, <2>1, <2>2, <2>3
<1>5. /\ sent'[p] = sent[p] \o events
      /\ tail'[p] = tail[p] + batch[p]
      /\ \A q \in LanePublisher \ {p} : sent'[q] = sent[q] /\ tail'[q] = tail[q]
      /\ sent' \in [LanePublisher -> Seq(Cell)] /\ tail' \in [LanePublisher -> Nat]
  <2>1. /\ sent'[p] = sent[p] \o events
        /\ \A q \in LanePublisher \ {p} : sent'[q] = sent[q]
        /\ sent' \in [LanePublisher -> Seq(Cell)]
    BY <1>1, <1>4 DEF LaneTypeOK
  <2>2. /\ tail'[p] = tail[p] + batch[p]
        /\ \A q \in LanePublisher \ {p} : tail'[q] = tail[q]
        /\ tail' \in [LanePublisher -> Nat]
    BY <1>1, <1>2, SMTT(30) DEF LaneTypeOK
  <2> QED
    BY <2>1, <2>2
<1>6. /\ batch'[p] = 0 /\ written'[p] = 0
      /\ \A q \in LanePublisher \ {p} : batch'[q] = batch[q] /\ written'[q] = written[q]
      /\ batch' \in [LanePublisher -> Nat] /\ written' \in [LanePublisher -> Nat]
  BY <1>1 DEF LaneTypeOK
<1>7. LaneTypeOK'
  BY <1>1, <1>5, <1>6 DEF LaneTypeOK
<1>8. Writing'
  <2> SUFFICES ASSUME NEW q \in LanePublisher
               PROVE  /\ Len(sent'[q]) = tail'[q]
                      /\ written'[q] <= batch'[q]
                      /\ \A i \in 0 .. written'[q] - 1 :
                            cells[q][Slot(tail'[q] + i)]
                              = [call |-> calls[q], index |-> i + 1]
    BY <1>1, SMTT(30) DEF Writing
  <2>1. CASE q = p
    BY <1>4, <1>5, <1>6, <2>1, SMTT(30)
  <2>2. CASE q # p
    BY <1>5, <1>6, <2>2, ZenonT(60) DEF Writing
  <2> QED
    BY <2>1, <2>2
<1>9. Room'
  <2>1. ASSUME NEW q \in LanePublisher PROVE batch'[q] <= Capacity
    BY <1>6, SMTT(30) DEF Room
  <2>2. ASSUME NEW s \in connected, NEW q \in LanePublisher
        PROVE  /\ cursor[s][q] <= tail'[q]
               /\ tail'[q] + batch'[q] - cursor[s][q] <= Capacity
    <3>1. Counts(s, q)
      BY Counters
    <3>2. CASE q = p
      <4> DEFINE c == cursor[s][p]
                 t == tail[p]
                 n == batch[p]
      <4>1. c \in Nat /\ t \in Nat /\ n \in Nat /\ c <= t /\ t + n - c <= Capacity
        BY <3>1, <3>2 DEF Counts
      <4>2. tail'[q] = t + n /\ batch'[q] = 0 /\ cursor[s][q] = c
        BY <1>5, <1>6, <3>2
      <4> HIDE DEF c, t, n
      <4>3. c <= t + n /\ t + n + 0 - c <= Capacity
        BY <4>1, SMTT(30)
      <4> QED
        BY <4>2, <4>3
    <3>3. CASE q # p
      BY <1>5, <1>6, <3>1, <3>3 DEF Counts
    <3> QED
      BY <3>2, <3>3
  <2> QED
    BY <1>1, <2>1, <2>2 DEF Room
<1>10. Stored'
  <2> SUFFICES ASSUME NEW s \in connected, NEW q \in LanePublisher,
                      NEW i \in cursor[s][q] .. tail'[q] - 1
               PROVE  cells[q][Slot(i)] = sent'[q][i + 1]
    BY <1>1, ZenonT(60) DEF Stored
  <2>1. CASE q # p
    <3>1. tail'[q] = tail[q] /\ sent'[q] = sent[q]
      BY <1>5, <2>1
    <3> QED
      BY <3>1 DEF Stored
  <2>2. CASE q = p /\ i < tail[p]
    <3>1. cells[p][Slot(i)] = sent[p][i + 1]
      BY <1>2, <2>2, SMTT(30) DEF Stored
    <3>2. i + 1 \in 1 .. tail[p]
      BY <1>2, <2>2, SMTT(30) DEF LaneTypeOK
    <3> QED
      BY <1>4, <1>5, <2>2, <3>1, <3>2
  <2>3. CASE q = p /\ i >= tail[p]
    <3> DEFINE k == i - tail[p]
    <3>1. k \in 0 .. batch[p] - 1 /\ tail[p] + k = i /\ tail[p] + (k + 1) = i + 1
      <4> DEFINE c == cursor[s][p]
                 t == tail[p]
                 n == batch[p]
      <4>1. c \in Nat /\ t \in Nat /\ n \in Nat
        BY <2>3, Counters DEF Counts
      <4>2. i \in c .. (t + n) - 1 /\ i >= t
        BY <1>5, <2>3
      <4> HIDE DEF c, t, n
      <4>3. i - t \in 0 .. n - 1 /\ t + (i - t) = i /\ t + (i - t + 1) = i + 1
        BY <4>1, <4>2, SMTT(30)
      <4> QED
        BY <4>3 DEF t, n
    <3> HIDE DEF k
    <3>2. cells[p][Slot(tail[p] + k)] = [call |-> calls[p], index |-> k + 1]
      BY <1>1, <3>1 DEF Writing
    <3>3. k + 1 \in 1 .. batch[p]
      BY <1>2, <3>1, SMTT(30)
    <3>4. (sent[p] \o events)[tail[p] + (k + 1)] = [call |-> calls[p], index |-> k + 1]
      BY <1>4, <3>3
    <3> QED
      BY <1>5, <2>3, <3>1, <3>2, <3>4
  <2> QED
    BY <1>2, <2>1, <2>2, <2>3, SMTT(30) DEF LaneTypeOK
<1>11. Held'
  <2>1. ASSUME NEW s \in connected, NEW q \in LanePublisher, q \in holding[s]
        PROVE  cursor[s][q] < tail'[q]
    <3>1. Counts(s, q)
      BY Counters
    <3>2. CASE q = p
      <4> DEFINE c == cursor[s][p]
                 t == tail[p]
                 n == batch[p]
      <4>1. c \in Nat /\ t \in Nat /\ n \in Nat /\ c < t
        BY <2>1, <3>1, <3>2 DEF Counts
      <4>2. tail'[q] = t + n /\ cursor[s][q] = c
        BY <1>5, <3>2
      <4> HIDE DEF c, t, n
      <4>3. c < t + n
        BY <4>1, SMTT(30)
      <4> QED
        BY <4>2, <4>3
    <3>3. CASE q # p
      BY <1>5, <2>1, <3>1, <3>3 DEF Counts
    <3> QED
      BY <3>2, <3>3
  <2> QED
    BY <1>1, <2>1 DEF Held
<1>12. Received'
  <2>1. ASSUME NEW s \in connected, NEW q \in LanePublisher, NEW k \in 1 .. Len(received[s][q])
        PROVE  received[s][q][k] = sent'[q][joined[s][q] + k]
    <3>1. received[s][q][k] = sent[q][joined[s][q] + k]
      BY DEF Received
    <3>2. joined[s][q] + k \in 1 .. tail[q]
      <4> DEFINE j == joined[s][q]
                 t == tail[q]
                 l == Len(received[s][q])
      <4>1. j \in Nat /\ t \in Nat /\ l \in Nat /\ j + l <= t /\ k \in 1 .. l
        BY Counters DEF Counts
      <4> HIDE DEF j, t, l
      <4>2. j + k \in 1 .. t
        BY <4>1, SMTT(30)
      <4> QED
        BY <4>2 DEF j, t
    <3>3. CASE q = p
      BY <1>4, <1>5, <3>1, <3>2, <3>3
    <3>4. CASE q # p
      BY <1>5, <3>1, <3>4
    <3> QED
      BY <3>3, <3>4
  <2> SUFFICES ASSUME NEW s \in connected', NEW q \in LanePublisher,
                      NEW k \in 1 .. Len(received'[s][q])
               PROVE  received'[s][q][k] = sent'[q][joined'[s][q] + k]
    BY DEF Received
  <2>2. s \in connected /\ received' = received /\ joined' = joined
    BY <1>1
  <2>3. received'[s][q][k] = received[s][q][k] /\ k \in 1 .. Len(received[s][q])
    BY <2>2
  <2>4. received[s][q][k] = sent'[q][joined[s][q] + k]
    BY <2>1, <2>2, <2>3
  <2> QED
    BY <2>2, <2>3, <2>4
<1> QED
  BY <1>7, <1>8, <1>9, <1>10, <1>11, <1>12

(* A subscriber starts at the tail of every lane.                            *)
LEMMA TryConnectIInv ==
    ASSUME LaneIInv, NEW s \in Subscriber, TryConnect(s)
    PROVE  LaneIInv'
<1> USE Constants DEF LaneIInv
<1>1. /\ s \notin connected /\ connected' = connected \cup {s}
      /\ joined' = [joined EXCEPT ![s] = tail]
      /\ cursor' = [cursor EXCEPT ![s] = tail]
      /\ received' = [received EXCEPT ![s] = [p \in LanePublisher |-> <<>>]]
      /\ UNCHANGED <<cells, tail, calls, batch, written, sent, holding>>
  BY DEF TryConnect, ring, writers
<1>2. /\ joined'[s] = tail /\ cursor'[s] = tail
      /\ \A p \in LanePublisher : received'[s][p] = <<>>
      /\ \A r \in Subscriber \ {s} : /\ joined'[r] = joined[r] /\ cursor'[r] = cursor[r]
                                     /\ received'[r] = received[r]
  BY <1>1 DEF LaneTypeOK
<1>3. LaneTypeOK'
  BY <1>1, SMTT(30) DEF LaneTypeOK
<1>4. Writing'
  BY <1>1 DEF Writing
<1>5. ASSUME NEW r \in connected', NEW p \in LanePublisher
      PROVE  \/ r \in connected \ {s}
             \/ /\ r = s /\ joined'[r][p] = tail[p] /\ cursor'[r][p] = tail[p]
                /\ received'[r][p] = <<>> /\ holding[r] = {}
  BY <1>1, <1>2 DEF Held
<1>6. Room'
  <2>1. ASSUME NEW r \in connected', NEW p \in LanePublisher
        PROVE  /\ joined'[r][p] <= cursor'[r][p]
               /\ cursor'[r][p] <= tail[p]
               /\ tail[p] + batch[p] - cursor'[r][p] <= Capacity
    <3>1. CASE r \in connected \ {s}
      BY <1>2, <3>1 DEF LaneTypeOK, Room
    <3>2. CASE r = s
      BY <1>2, <3>2, SMTT(30) DEF LaneTypeOK, Room
    <3> QED
      BY <1>5, <3>1, <3>2
  <2> QED
    BY <1>1, <2>1 DEF Room
<1>7. Stored'
  <2> SUFFICES ASSUME NEW r \in connected', NEW p \in LanePublisher,
                      NEW i \in cursor'[r][p] .. tail[p] - 1
               PROVE  cells[p][Slot(i)] = sent[p][i + 1]
    BY <1>1, SMTT(30) DEF Stored
  <2>1. CASE r \in connected \ {s}
    BY <1>2, <2>1, SMTT(30) DEF LaneTypeOK, Stored
  <2>2. CASE r = s
    BY <1>2, <2>2, SMTT(30) DEF LaneTypeOK
  <2> QED
    BY <1>5, <2>1, <2>2
<1>8. Held'
  <2>1. \A r \in Subscriber \ connected' : holding[r] = {}
    BY <1>1 DEF Held
  <2>2. ASSUME NEW r \in connected', NEW p \in LanePublisher, NEW q \in LanePublisher,
               p \in holding[r], q \in holding[r]
        PROVE  p = q
    BY <1>5, <2>2 DEF Held
  <2>3. ASSUME NEW r \in connected', NEW p \in LanePublisher
        PROVE  /\ p \in holding[r] =>
                    /\ cursor'[r][p] < tail[p]
                    /\ Len(received'[r][p]) = cursor'[r][p] - joined'[r][p] + 1
               /\ p \notin holding[r] => Len(received'[r][p]) = cursor'[r][p] - joined'[r][p]
    <3>1. CASE r \in connected \ {s}
      BY <1>2, <3>1, SMTT(30) DEF LaneTypeOK, Held
    <3>2. CASE r = s
      BY <1>1, <1>2, <3>2, SMTT(30) DEF LaneTypeOK, Held
    <3> QED
      BY <1>5, <3>1, <3>2
  <2> QED
    BY <1>1, <2>1, <2>2, <2>3, SMTT(30) DEF Held
<1>9. Received'
  <2> SUFFICES ASSUME NEW r \in connected', NEW p \in LanePublisher,
                      NEW k \in 1 .. Len(received'[r][p])
               PROVE  received'[r][p][k] = sent'[p][joined'[r][p] + k]
    BY DEF Received
  <2>1. CASE r \in connected \ {s}
    BY <1>1, <1>2, <2>1, SMTT(30) DEF LaneTypeOK, Received
  <2>2. CASE r = s
    BY <1>2, <2>2, SMTT(30)
  <2> QED
    BY <1>5, <2>1, <2>2
<1> QED
  BY <1>3, <1>4, <1>6, <1>7, <1>8, <1>9

(* A subscriber that leaves takes its claims with it.                        *)
LEMMA DisconnectIInv ==
    ASSUME LaneIInv, NEW s \in Subscriber, Disconnect(s)
    PROVE  LaneIInv'
<1> USE Constants DEF LaneIInv
<1>1. /\ holding[s] = {} /\ connected' = connected \ {s}
      /\ joined' = [joined EXCEPT ![s] = [p \in LanePublisher |-> 0]]
      /\ cursor' = [cursor EXCEPT ![s] = [p \in LanePublisher |-> 0]]
      /\ received' = [received EXCEPT ![s] = [p \in LanePublisher |-> <<>>]]
      /\ UNCHANGED <<cells, tail, calls, batch, written, sent, holding>>
  BY DEF Disconnect, ring, writers
<1>2. \A r \in connected' : /\ r \in connected
                            /\ joined'[r] = joined[r] /\ cursor'[r] = cursor[r]
                            /\ received'[r] = received[r]
  BY <1>1 DEF LaneTypeOK
<1>3. LaneTypeOK'
  BY <1>1, SMTT(30) DEF LaneTypeOK
<1>4. Writing'
  BY <1>1 DEF Writing
<1>5. Room'
  BY <1>1, <1>2 DEF Room
<1>8. Stored'
  BY <1>1, <1>2, SMTT(30) DEF Stored
<1>6. Held'
  BY <1>1, <1>2, SMTT(30) DEF Held
<1>7. Received'
  BY <1>1, <1>2, SMTT(30) DEF Received
<1> QED
  BY <1>3, <1>4, <1>5, <1>6, <1>7, <1>8

(* A message is read from the first cell that is not released.               *)
LEMMA TryRecvIInv ==
    ASSUME LaneIInv, NEW s \in Subscriber, NEW p \in LanePublisher, TryRecv(s, p)
    PROVE  LaneIInv'
<1> USE Constants DEF LaneIInv
<1> DEFINE message == cells[p][Slot(cursor[s][p])]
<1>1. /\ s \in connected /\ holding[s] = {} /\ cursor[s][p] < tail[p]
      /\ holding' = [holding EXCEPT ![s] = {p}]
      /\ received' = [received EXCEPT ![s][p] = Append(@, message)]
      /\ UNCHANGED <<cells, tail, calls, batch, written, sent, connected, joined, cursor>>
  BY DEF TryRecv, ring, writers, Slot
<1>2. /\ cursor[s][p] \in Nat /\ joined[s][p] \in Nat
      /\ received[s][p] \in Seq(Cell)
      /\ Len(received[s][p]) = cursor[s][p] - joined[s][p]
  <2>1. Counts(s, p) /\ received[s][p] \in Seq(Cell)
    BY <1>1, Counters
  <2> QED
    BY <1>1, <2>1 DEF Counts
<1>3. message \in Cell /\ message = sent[p][cursor[s][p] + 1]
  <2>1. cursor[s][p] \in cursor[s][p] .. tail[p] - 1
    BY <1>1, <1>2, SMTT(30) DEF LaneTypeOK
  <2>2. Slot(cursor[s][p]) \in 0 .. Capacity - 1
    BY <1>2, DivMod
  <2> QED
    BY <1>1, <2>1, <2>2, SMTT(30) DEF LaneTypeOK, Stored
<1> HIDE DEF message
<1>4. /\ received'[s][p] = Append(received[s][p], message)
      /\ \A r \in Subscriber, q \in LanePublisher :
            r # s \/ q # p => received'[r][q] = received[r][q]
      /\ \A r \in Subscriber \ {s} : holding'[r] = holding[r]
      /\ holding'[s] = {p}
  BY <1>1 DEF LaneTypeOK
<1>5. /\ Append(received[s][p], message) \in Seq(Cell)
      /\ Len(Append(received[s][p], message)) = Len(received[s][p]) + 1
      /\ \A k \in 1 .. Len(received[s][p]) :
            Append(received[s][p], message)[k] = received[s][p][k]
      /\ Append(received[s][p], message)[Len(received[s][p]) + 1] = message
  BY <1>2, <1>3, SMTT(30)
<1>6. LaneTypeOK'
  BY <1>1, <1>5 DEF LaneTypeOK
<1>7. /\ Writing'
      /\ Room'
      /\ Stored'
  <2>1. Writing'
    BY <1>1 DEF Writing
  <2>2. Room'
    BY <1>1 DEF Room
  <2>3. Stored'
    BY <1>1, SMTT(30) DEF Stored
  <2> QED
    BY <2>1, <2>2, <2>3
<1>8. Held'
  <2>1. \A r \in Subscriber \ connected' : holding'[r] = {}
    BY <1>1, <1>4 DEF Held
  <2>2. ASSUME NEW r \in connected', NEW q \in LanePublisher, NEW u \in LanePublisher,
               q \in holding'[r], u \in holding'[r]
        PROVE  q = u
    BY <1>1, <1>4, <2>2 DEF LaneTypeOK, Held
  <2>3. ASSUME NEW r \in connected', NEW q \in LanePublisher
        PROVE  /\ q \in holding'[r] =>
                    /\ cursor'[r][q] < tail'[q]
                    /\ Len(received'[r][q]) = cursor'[r][q] - joined'[r][q] + 1
               /\ q \notin holding'[r] => Len(received'[r][q]) = cursor'[r][q] - joined'[r][q]
    <3>1. CASE r = s /\ q = p
      BY <1>1, <1>2, <1>4, <1>5, <3>1
    <3>2. CASE r # s \/ q # p
      <4>1. r \in connected /\ Counts(r, q)
        BY <1>1, Counters
      <4>2. received'[r][q] = received[r][q] /\ (q \in holding'[r] <=> q \in holding[r])
        BY <1>1, <1>4, <3>2, <4>1 DEF LaneTypeOK
      <4> QED
        BY <1>1, <4>1, <4>2 DEF Counts
    <3> QED
      BY <3>1, <3>2
  <2> QED
    BY <2>1, <2>2, <2>3 DEF Held
<1>9. Received'
  <2> SUFFICES ASSUME NEW r \in connected', NEW q \in LanePublisher,
                      NEW k \in 1 .. Len(received'[r][q])
               PROVE  received'[r][q][k] = sent'[q][joined'[r][q] + k]
    BY DEF Received
  <2>1. CASE r # s \/ q # p
    <3>1. received'[r][q] = received[r][q]
      BY <1>1, <1>4, <2>1 DEF LaneTypeOK
    <3>2. r \in connected /\ sent'[q] = sent[q] /\ joined'[r][q] = joined[r][q]
      BY <1>1
    <3>3. received[r][q][k] = sent[q][joined[r][q] + k]
      BY <3>1, <3>2 DEF Received
    <3> QED
      BY <3>1, <3>2, <3>3
  <2>2. CASE r = s /\ q = p /\ k <= Len(received[s][p])
    BY <1>1, <1>4, <1>5, <2>2, SMTT(30) DEF Received
  <2>3. CASE r = s /\ q = p /\ k > Len(received[s][p])
    <3>1. k = Len(received[s][p]) + 1 /\ joined[s][p] + k = cursor[s][p] + 1
      <4> DEFINE j == joined[s][p]
                 c == cursor[s][p]
                 l == Len(received[s][p])
      <4>1. j \in Nat /\ c \in Nat /\ l \in Nat /\ l = c - j
        BY <1>2, SMTT(30)
      <4>2. Len(received'[r][q]) = l + 1 /\ k > l
        BY <1>4, <1>5, <2>3
      <4> HIDE DEF j, c, l
      <4>3. k = l + 1 /\ j + k = c + 1
        BY <4>1, <4>2, SMTT(30)
      <4> QED
        BY <4>3 DEF j, c, l
    <3> QED
      BY <1>1, <1>3, <1>4, <1>5, <2>3, <3>1
  <2> QED
    BY <1>2, <2>1, <2>2, <2>3, SMTT(30)
<1> QED
  BY <1>6, <1>7, <1>8, <1>9

(* Dropping a message releases the cell it was read from.                    *)
LEMMA DropMessageIInv ==
    ASSUME LaneIInv, NEW s \in Subscriber, NEW p \in LanePublisher, DropMessage(s, p)
    PROVE  LaneIInv'
<1> USE Constants DEF LaneIInv
<1>1. /\ holding[s] = {p}
      /\ holding' = [holding EXCEPT ![s] = {}]
      /\ cursor' = [cursor EXCEPT ![s][p] = joined[s][p] + Len(received[s][p])]
      /\ UNCHANGED <<cells, tail, calls, batch, written, sent, connected, joined, received>>
  BY DEF DropMessage, ring, writers
<1>2. s \in connected
  BY <1>1 DEF Held
<1>3. /\ cursor[s][p] \in Nat /\ cursor[s][p] < tail[p]
      /\ joined[s][p] + Len(received[s][p]) = cursor[s][p] + 1
  <2>1. Counts(s, p)
    BY <1>2, Counters
  <2> QED
    BY <1>1, <2>1, SMTT(30) DEF Counts
<1>4. /\ cursor'[s][p] = cursor[s][p] + 1
      /\ \A r \in Subscriber, q \in LanePublisher : r # s \/ q # p => cursor'[r][q] = cursor[r][q]
      /\ \A r \in Subscriber \ {s} : holding'[r] = holding[r]
      /\ holding'[s] = {}
      /\ cursor' \in [Subscriber -> [LanePublisher -> Nat]]
  BY <1>1, <1>3, SMTT(30) DEF LaneTypeOK
<1>5. LaneTypeOK'
  BY <1>1, <1>4 DEF LaneTypeOK
<1>6. Writing' /\ Received'
  <2>1. Writing'
    BY <1>1 DEF Writing
  <2>2. Received'
    BY <1>1, SMTT(30) DEF Received
  <2> QED
    BY <2>1, <2>2
<1>7. ASSUME NEW r \in connected, NEW q \in LanePublisher
      PROVE  cursor[r][q] \in Nat /\ cursor'[r][q] \in Nat /\ cursor[r][q] <= cursor'[r][q]
  <2>1. cursor[r][q] \in Nat /\ cursor'[r][q] \in Nat
    BY <1>4, SMTT(30) DEF LaneTypeOK
  <2>2. CASE r = s /\ q = p
    <3> DEFINE c == cursor[r][q]
               d == cursor'[r][q]
    <3>1. c \in Nat /\ d \in Nat
      BY <2>1
    <3>2. d = c + 1
      BY <1>4, <2>2
    <3> HIDE DEF c, d
    <3>3. c <= d
      BY <3>1, <3>2, SMTT(30)
    <3> QED
      BY <2>1, <3>3 DEF c, d
  <2>3. CASE r # s \/ q # p
    <3>1. cursor'[r][q] = cursor[r][q]
      BY <1>4, <2>3 DEF LaneTypeOK
    <3> QED
      BY <2>1, <3>1, SMTT(30)
  <2> QED
    BY <2>1, <2>2, <2>3
<1>8. Room'
  <2>1. ASSUME NEW r \in connected, NEW q \in LanePublisher
        PROVE  /\ joined[r][q] <= cursor'[r][q]
               /\ cursor'[r][q] <= tail[q]
               /\ tail[q] + batch[q] - cursor'[r][q] <= Capacity
    <3>1. Counts(r, q)
      BY Counters
    <3>2. CASE r = s /\ q = p
      <4> DEFINE j == joined[s][p]
                 c == cursor[s][p]
                 t == tail[p]
                 n == batch[p]
      <4>1. /\ j \in Nat /\ c \in Nat /\ t \in Nat /\ n \in Nat
            /\ j <= c /\ c < t /\ t + n - c <= Capacity
        BY <1>3, <3>1, <3>2 DEF Counts
      <4>2. cursor'[r][q] = c + 1 /\ joined[r][q] = j /\ tail[q] = t /\ batch[q] = n
        BY <1>4, <3>2
      <4> HIDE DEF j, c, t, n
      <4>3. j <= c + 1 /\ c + 1 <= t /\ t + n - (c + 1) <= Capacity
        BY <4>1, SMTT(30)
      <4> QED
        BY <4>2, <4>3
    <3>3. CASE r # s \/ q # p
      <4>1. cursor'[r][q] = cursor[r][q]
        BY <1>4, <3>3 DEF LaneTypeOK
      <4> QED
        BY <3>1, <4>1 DEF Counts
    <3> QED
      BY <3>2, <3>3
  <2> QED
    BY <1>1, <2>1 DEF Room
<1>9. Stored'
  <2> SUFFICES ASSUME NEW r \in connected, NEW q \in LanePublisher,
                      NEW i \in cursor'[r][q] .. tail[q] - 1
               PROVE  cells[q][Slot(i)] = sent[q][i + 1]
    BY <1>1, SMTT(30) DEF Stored
  <2>1. i \in cursor[r][q] .. tail[q] - 1
    <3> DEFINE c == cursor[r][q]
               d == cursor'[r][q]
               t == tail[q]
    <3>1. c \in Nat /\ d \in Nat /\ c <= d
      BY <1>7
    <3>2. t \in Nat /\ i \in d .. t - 1
      BY DEF LaneTypeOK
    <3> HIDE DEF c, d, t
    <3>3. i \in c .. t - 1
      BY <3>1, <3>2, SMTT(30)
    <3> QED
      BY <3>3 DEF c, t
  <2> QED
    BY <2>1 DEF Stored
<1>10. Held'
  <2>1. ASSUME NEW r \in connected, NEW q \in LanePublisher
        PROVE  /\ q \in holding'[r] =>
                    /\ cursor'[r][q] < tail[q]
                    /\ Len(received[r][q]) = cursor'[r][q] - joined[r][q] + 1
               /\ q \notin holding'[r] => Len(received[r][q]) = cursor'[r][q] - joined[r][q]
    <3>1. Counts(r, q)
      BY Counters
    <3>2. CASE r = s /\ q = p
      BY <1>3, <1>4, <3>1, <3>2, SMTT(30) DEF Counts
    <3>3. CASE r # s \/ q # p
      <4>1. cursor'[r][q] = cursor[r][q] /\ (q \in holding'[r] <=> q \in holding[r])
        BY <1>1, <1>4, <3>3 DEF LaneTypeOK
      <4> QED
        BY <3>1, <4>1 DEF Counts
    <3> QED
      BY <3>2, <3>3
  <2>2. \A r \in Subscriber \ connected : holding'[r] = {}
    BY <1>4 DEF Held
  <2>3. ASSUME NEW r \in connected, NEW q \in LanePublisher, NEW u \in LanePublisher,
               q \in holding'[r], u \in holding'[r]
        PROVE  q = u
    BY <1>4, <2>3 DEF LaneTypeOK, Held
  <2> QED
    BY <1>1, <2>1, <2>2, <2>3, SMTT(30) DEF Held
<1> QED
  BY <1>5, <1>6, <1>8, <1>9, <1>10

(* Every step keeps the inductive invariant.                                 *)
LEMMA LaneNextIInv == LaneIInv /\ [LaneNext]_laneVars => LaneIInv'
<1> SUFFICES ASSUME LaneIInv, [LaneNext]_laneVars PROVE LaneIInv'
  OBVIOUS
<1>1. ASSUME NEW p \in LanePublisher, NEW n \in 0 .. MaxBatch, Reserve(p, n) PROVE LaneIInv'
  BY <1>1, ReserveIInv, LanesAssumption, SMTT(30)
<1>2. CASE UNCHANGED laneVars
  <2> USE <1>2 DEF laneVars, LaneIInv
  <2>1. LaneTypeOK'
    BY DEF LaneTypeOK
  <2>2. Writing'
    BY DEF Writing
  <2>3. Room'
    BY DEF Room
  <2>4. Stored'
    BY DEF Stored
  <2>5. Held'
    BY DEF Held
  <2>6. Received'
    BY DEF Received
  <2> QED
    BY <2>1, <2>2, <2>3, <2>4, <2>5, <2>6
<1> QED
  BY <1>1, <1>2, WriteCellIInv, SerializationFailsIInv, PublishGuardIInv, TryConnectIInv,
     DisconnectIInv, TryRecvIInv, DropMessageIInv DEF LaneNext

\* LaneIInv holds in every reachable state.
THEOREM LaneIInvAlways == LaneSpec => []LaneIInv
  BY LaneInitIInv, LaneNextIInv, PTL DEF LaneSpec

(* Every subscriber receives exactly the events of the successful calls      *)
(* since it connected, in order, for rings and batches of any size.          *)
THEOREM ReceivedIsSent == LaneSpec => []ReceivesExactlyWhatWasSent
<1>1. ASSUME LaneIInv PROVE ReceivesExactlyWhatWasSent
  <2> SUFFICES ASSUME NEW s \in connected, NEW p \in LanePublisher
               PROVE  LET end == joined[s][p] + Len(received[s][p])
                      IN  /\ end <= Len(sent[p])
                          /\ received[s][p] = SubSeq(sent[p], joined[s][p] + 1, end)
    BY DEF ReceivesExactlyWhatWasSent
  <2> DEFINE got == received[s][p]
             j == joined[s][p]
             all == sent[p]
  <2>1. /\ got \in Seq(Cell) /\ Len(got) \in Nat
        /\ all \in Seq(Cell) /\ Len(all) \in Nat
        /\ j \in Nat /\ j + Len(got) <= Len(all)
    <3>1. sent[p] \in Seq(Cell) /\ Len(sent[p]) = tail[p]
      BY <1>1 DEF LaneIInv, LaneTypeOK, Writing
    <3>2. Counts(s, p) /\ received[s][p] \in Seq(Cell)
      BY <1>1, Counters
    <3> QED
      BY <3>1, <3>2 DEF Counts
  <2>2. \A k \in 1 .. Len(got) : got[k] = all[j + k]
    BY <1>1 DEF LaneIInv, Received
  <2> HIDE DEF got, j, all
  <2> DEFINE part == SubSeq(all, j + 1, j + Len(got))
  <2>3. /\ part \in Seq(Cell)
        /\ Len(part) = Len(got)
        /\ \A k \in 1 .. Len(got) : part[k] = all[j + k]
    BY <2>1, SubSeqProperties, SMTT(30)
  <2> HIDE DEF part
  <2>4. got = part
    BY <2>1, <2>2, <2>3, SeqEqual
  <2> QED
    BY <2>1, <2>4 DEF got, j, all, part
<1> QED
  BY <1>1, LaneIInvAlways, PTL

(* The cell of a message that a subscriber holds is never written.           *)
THEOREM HeldIsStable == LaneSpec => []HeldMessageIsStable
<1>1. ASSUME LaneIInv PROVE HeldMessageIsStable
  <2> SUFFICES ASSUME NEW s \in connected, NEW p \in LanePublisher, p \in holding[s]
               PROVE  cells[p][Slot(joined[s][p] + Len(received[s][p]) - 1)]
                        = received[s][p][Len(received[s][p])]
    BY DEF HeldMessageIsStable, Slot
  <2>1. /\ cursor[s][p] \in cursor[s][p] .. tail[p] - 1
        /\ joined[s][p] + Len(received[s][p]) - 1 = cursor[s][p]
        /\ joined[s][p] + Len(received[s][p]) = cursor[s][p] + 1
        /\ Len(received[s][p]) \in 1 .. Len(received[s][p])
    <3> DEFINE j == joined[s][p]
               c == cursor[s][p]
               t == tail[p]
               l == Len(received[s][p])
    <3>1. /\ j \in Nat /\ c \in Nat /\ t \in Nat /\ l \in Nat
          /\ j <= c /\ c < t /\ l = c - j + 1
      BY <1>1, Counters DEF Counts
    <3> HIDE DEF j, c, t, l
    <3>2. c \in c .. t - 1 /\ j + l - 1 = c /\ j + l = c + 1 /\ l \in 1 .. l
      BY <3>1, SMTT(30)
    <3> QED
      BY <3>2 DEF j, c, t, l
  <2>2. cells[p][Slot(cursor[s][p])] = sent[p][cursor[s][p] + 1]
    BY <1>1, <2>1 DEF LaneIInv, Stored
  <2>3. received[s][p][Len(received[s][p])] = sent[p][joined[s][p] + Len(received[s][p])]
    BY <1>1, <2>1 DEF LaneIInv, Received
  <2> QED
    BY <2>1, <2>2, <2>3
<1> QED
  BY <1>1, LaneIInvAlways, PTL

-----------------------------------------------------------------------------
(***************************************************************************)
(* The properties of EventSystemLifetime for any number of event systems,  *)
(* streams, names and handles.                                             *)
(*                                                                         *)
(* The three properties need one inductive invariant.  Its heart is that   *)
(* the place an event system has reached decides what it owns: tmp from    *)
(* its creation to RemoveTmp, event-streams from its creation until        *)
(* RemoveStreams.  Since a path holds one directory, no two systems are in *)
(* these places at once.  Everything below the layout hangs on the Arc     *)
(* that keeps an event system "live" as long as a stream holds it.         *)
(***************************************************************************)

SystemState == {"unused", "tmp", "rollback", "failed", "live", "drop_tmp",
                "drop_streams", "drop_entries", "gone", "dead"}
StreamState == {"unused", "off", "on", "queue", "layout", "stub", "gone"}

SystemTypeOK ==
    /\ backend \in [System -> {"none", "platform", "stub"}]
    /\ spc \in [System -> SystemState]
    /\ systems \in [System -> Nat]
    /\ owner \in [Stream -> System \cup {None}]
    /\ sname \in [Stream -> Name \cup {None}]
    /\ stream \in [Stream -> StreamState]
    /\ factories \in [Stream -> Nat]
    /\ publishers \in [Stream -> Nat]
    /\ tmp \in System \cup {None}
    /\ streams \in System \cup {None}
    /\ dirs \in [Name -> Stream \cup {None}]
    /\ litter \in BOOLEAN

\* What an event system owns at the place it has reached.
LayoutOwned ==
    \A s \in System :
        /\ spc[s] = "unused" => backend[s] = "none"
        /\ spc[s] \in {"tmp", "rollback", "drop_tmp", "drop_streams", "drop_entries"} =>
              backend[s] = "platform"
        /\ spc[s] \in {"tmp", "rollback", "live", "drop_tmp"} /\ backend[s] = "platform" =>
              tmp = s
        /\ spc[s] \in {"live", "drop_tmp", "drop_streams", "drop_entries"}
              /\ backend[s] = "platform" => streams = s
        /\ tmp = s \/ streams = s => backend[s] = "platform"
        /\ spc[s] = "drop_entries" => \A n \in Name : dirs[n] = None
        /\ systems[s] > 0 => spc[s] = "live" /\ backend[s] # "none"

\* The streams of an event system keep it, and handles keep streams.
StreamsHold ==
    \A t \in Stream :
        /\ stream[t] = "unused" => owner[t] = None
        /\ stream[t] # "unused" => owner[t] \in System /\ sname[t] \in Name
        /\ stream[t] \in {"off", "on", "queue", "layout"} =>
              backend[owner[t]] = "platform" /\ spc[owner[t]] = "live"
        /\ stream[t] \notin {"off", "on", "stub"} => factories[t] = 0 /\ publishers[t] = 0

\* What is in event-streams belongs to the owner of that directory.
EntriesOwned ==
    /\ \A t \in Stream : stream[t] \in {"on", "queue"} => dirs[sname[t]] = t
    /\ \A n \in Name, t \in Stream :
          dirs[n] = t => sname[t] = n /\ owner[t] \in System /\ streams = owner[t]

\* Without a crash or a failed removal, nothing outlives its owner.
NoRemains ==
    ~litter =>
        /\ \A s \in System :
              /\ tmp = s => spc[s] \in {"tmp", "rollback", "live", "drop_tmp"}
              /\ streams = s => spc[s] \in {"live", "drop_tmp", "drop_streams", "drop_entries"}
        /\ \A n \in Name, t \in Stream : dirs[n] = t => stream[t] \in {"on", "queue"}

SystemIInv == SystemTypeOK /\ LayoutOwned /\ StreamsHold /\ EntriesOwned /\ NoRemains

(* No directory exists before the first call of EventSystem::new.            *)
LEMMA SystemInitIInv == SystemInit => SystemIInv
<1> SUFFICES ASSUME SystemInit PROVE SystemIInv
  OBVIOUS
<1> USE LifetimeAssumption
<1>1. SystemTypeOK
  BY DEF SystemInit, SystemTypeOK, SystemState, StreamState
<1>2. LayoutOwned
  BY SMTT(30) DEF SystemInit, LayoutOwned
<1>3. StreamsHold
  BY DEF SystemInit, StreamsHold
<1>4. EntriesOwned /\ NoRemains
  BY DEF SystemInit, EntriesOwned, NoRemains
<1> QED
  BY <1>1, <1>2, <1>3, <1>4 DEF SystemIInv

(* Every step keeps the inductive invariant.                                 *)
LEMMA SystemNextIInv == SystemIInv /\ [SystemNext]_systemVars => SystemIInv'
<1> SUFFICES ASSUME SystemIInv, [SystemNext]_systemVars PROVE SystemIInv'
  OBVIOUS
<1> USE LifetimeAssumption DEF SystemIInv, SystemTypeOK, SystemState, StreamState, disk, handles
<1>1. ASSUME NEW s \in System, CreateTmp(s) PROVE SystemIInv'
  <2> USE <1>1 DEF CreateTmp
  <2>1. SystemTypeOK'
    OBVIOUS
  <2>2. LayoutOwned'
    BY SMTT(30) DEF LayoutOwned
  <2>3. StreamsHold'
    BY DEF StreamsHold
  <2>4. EntriesOwned'
    BY DEF EntriesOwned
  <2>5. NoRemains'
    BY SMTT(30) DEF NoRemains
  <2> QED
    BY <2>1, <2>2, <2>3, <2>4, <2>5
<1>2. ASSUME NEW s \in System, CreateStreams(s) PROVE SystemIInv'
  <2> USE <1>2 DEF CreateStreams
  <2>1. SystemTypeOK'
    BY SMTT(30)
  <2>2. LayoutOwned'
    BY SMTT(30) DEF LayoutOwned
  <2>3. StreamsHold'
    BY SMTT(30) DEF StreamsHold
  <2>4. EntriesOwned'
    BY SMTT(30) DEF EntriesOwned
  <2>5. NoRemains'
    BY SMTT(30) DEF NoRemains
  <2> QED
    BY <2>1, <2>2, <2>3, <2>4, <2>5
<1>3. ASSUME NEW s \in System, Rollback(s) PROVE SystemIInv'
  <2> USE <1>3 DEF Rollback
  <2>1. SystemTypeOK'
    OBVIOUS
  <2>2. LayoutOwned'
    BY SMTT(30) DEF LayoutOwned
  <2>3. StreamsHold'
    BY DEF StreamsHold
  <2>4. EntriesOwned'
    BY DEF EntriesOwned
  <2>5. NoRemains'
    BY SMTT(30) DEF NoRemains
  <2> QED
    BY <2>1, <2>2, <2>3, <2>4, <2>5
<1>4. ASSUME NEW s \in System, Stub(s) PROVE SystemIInv'
  <2> USE <1>4 DEF Stub
  <2>1. SystemTypeOK'
    OBVIOUS
  <2>2. LayoutOwned'
    BY SMTT(30) DEF LayoutOwned
  <2>3. StreamsHold'
    BY DEF StreamsHold
  <2>4. EntriesOwned'
    BY DEF EntriesOwned
  <2>5. NoRemains'
    BY DEF NoRemains
  <2> QED
    BY <2>1, <2>2, <2>3, <2>4, <2>5
<1>5. ASSUME NEW s \in System, CloneSystem(s) PROVE SystemIInv'
  <2> USE <1>5 DEF CloneSystem
  <2>1. SystemTypeOK'
    BY SMTT(30)
  <2>2. LayoutOwned'
    BY SMTT(30) DEF LayoutOwned
  <2>3. StreamsHold'
    BY DEF StreamsHold
  <2>4. EntriesOwned'
    BY DEF EntriesOwned
  <2>5. NoRemains'
    BY DEF NoRemains
  <2> QED
    BY <2>1, <2>2, <2>3, <2>4, <2>5
<1>6. ASSUME NEW s \in System, DropSystem(s) PROVE SystemIInv'
  <2> USE <1>6 DEF DropSystem, AfterLastSystem, Holding
  <2>1. SystemTypeOK'
    BY SMTT(30)
  <2>2. LayoutOwned'
    BY SMTT(30) DEF LayoutOwned
  <2>3. StreamsHold'
    BY SMTT(30) DEF StreamsHold
  <2>4. EntriesOwned'
    BY DEF EntriesOwned
  <2>5. NoRemains'
    BY SMTT(30) DEF NoRemains, EntriesOwned, StreamsHold, LayoutOwned
  <2> QED
    BY <2>1, <2>2, <2>3, <2>4, <2>5
<1>7. ASSUME NEW s \in System, RemoveTmp(s) PROVE SystemIInv'
  <2> USE <1>7 DEF RemoveTmp
  <2>1. SystemTypeOK'
    OBVIOUS
  <2>2. LayoutOwned'
    BY SMTT(30) DEF LayoutOwned
  <2>3. StreamsHold'
    BY DEF StreamsHold
  <2>4. EntriesOwned'
    BY DEF EntriesOwned
  <2>5. NoRemains'
    BY SMTT(30) DEF NoRemains
  <2> QED
    BY <2>1, <2>2, <2>3, <2>4, <2>5
<1>8. ASSUME NEW s \in System, EmptyStreams(s) PROVE SystemIInv'
  <2> USE <1>8 DEF EmptyStreams
  <2>1. SystemTypeOK'
    <3>1. litter' \in BOOLEAN
      OBVIOUS
    <3> QED
      BY <3>1
  <2>2. LayoutOwned'
    BY SMTT(30) DEF LayoutOwned
  <2>3. StreamsHold'
    BY SMTT(30) DEF StreamsHold
  <2>4. EntriesOwned'
    BY SMTT(30) DEF EntriesOwned, StreamsHold, LayoutOwned
  <2>5. NoRemains'
    BY SMTT(30) DEF NoRemains
  <2> QED
    BY <2>1, <2>2, <2>3, <2>4, <2>5
<1>9. ASSUME NEW s \in System, RemoveStreams(s) PROVE SystemIInv'
  <2> USE <1>9 DEF RemoveStreams
  <2>1. SystemTypeOK'
    OBVIOUS
  <2>2. LayoutOwned'
    BY SMTT(30) DEF LayoutOwned
  <2>3. StreamsHold'
    BY DEF StreamsHold
  <2>4. EntriesOwned'
    BY SMTT(30) DEF EntriesOwned, StreamsHold, LayoutOwned
  <2>5. NoRemains'
    BY SMTT(30) DEF NoRemains
  <2> QED
    BY <2>1, <2>2, <2>3, <2>4, <2>5
<1>10. ASSUME NEW s \in System, Crash(s) PROVE SystemIInv'
  <2> USE <1>10 DEF Crash
  <2>1. SystemTypeOK'
    OBVIOUS
  <2>2. LayoutOwned'
    BY SMTT(30) DEF LayoutOwned
  <2>3. StreamsHold'
    BY SMTT(30) DEF StreamsHold
  <2>4. EntriesOwned'
    BY SMTT(30) DEF EntriesOwned
  <2>5. NoRemains'
    BY DEF NoRemains
  <2> QED
    BY <2>1, <2>2, <2>3, <2>4, <2>5
<1>11. ASSUME NEW s \in System, NEW t \in Stream, NEW n \in Name, CreateStream(s, t, n) PROVE SystemIInv'
  <2> USE <1>11 DEF CreateStream, NewFactory, CanPublish
  <2>1. SystemTypeOK'
    BY SMTT(30)
  <2>2. LayoutOwned'
    BY SMTT(30) DEF LayoutOwned
  <2>3. StreamsHold'
    BY SMTT(30) DEF StreamsHold, LayoutOwned
  <2>4. EntriesOwned'
    BY SMTT(30) DEF EntriesOwned, StreamsHold, LayoutOwned
  <2>5. NoRemains'
    BY SMTT(30) DEF NoRemains
  <2> QED
    BY <2>1, <2>2, <2>3, <2>4, <2>5
<1>12. ASSUME NEW s \in System, NEW t \in Stream, NEW n \in Name, CreateStubStream(s, t, n) PROVE SystemIInv'
  <2> USE <1>12 DEF CreateStubStream, NewFactory
  <2>1. SystemTypeOK'
    OBVIOUS
  <2>2. LayoutOwned'
    BY DEF LayoutOwned
  <2>3. StreamsHold'
    BY SMTT(30) DEF StreamsHold
  <2>4. EntriesOwned'
    BY SMTT(30) DEF EntriesOwned, StreamsHold, LayoutOwned
  <2>5. NoRemains'
    BY DEF NoRemains
  <2> QED
    BY <2>1, <2>2, <2>3, <2>4, <2>5
<1>13. ASSUME NEW t \in Stream, EnableStream(t) PROVE SystemIInv'
  <2> USE <1>13 DEF EnableStream, CanPublish
  <2>1. SystemTypeOK'
    OBVIOUS
  <2>2. LayoutOwned'
    BY SMTT(30) DEF LayoutOwned, StreamsHold, EntriesOwned
  <2>3. StreamsHold'
    BY SMTT(30) DEF StreamsHold
  <2>4. EntriesOwned'
    BY SMTT(30) DEF EntriesOwned, StreamsHold, LayoutOwned
  <2>5. NoRemains'
    BY SMTT(30) DEF NoRemains
  <2> QED
    BY <2>1, <2>2, <2>3, <2>4, <2>5
<1>14. ASSUME NEW t \in Stream, DisableStream(t) PROVE SystemIInv'
  <2> USE <1>14 DEF DisableStream, RemoveDirectory
  <2>1. SystemTypeOK'
    OBVIOUS
  <2>2. LayoutOwned'
    BY SMTT(30) DEF LayoutOwned
  <2>3. StreamsHold'
    BY SMTT(30) DEF StreamsHold
  <2>4. EntriesOwned'
    BY SMTT(30) DEF EntriesOwned, StreamsHold, LayoutOwned
  <2>5. NoRemains'
    BY SMTT(30) DEF NoRemains, EntriesOwned, StreamsHold, LayoutOwned
  <2> QED
    BY <2>1, <2>2, <2>3, <2>4, <2>5
<1>15. ASSUME NEW t \in Stream, CloneFactory(t) PROVE SystemIInv'
  <2> USE <1>15 DEF CloneFactory
  <2>1. SystemTypeOK'
    BY SMTT(30)
  <2>2. LayoutOwned'
    BY DEF LayoutOwned
  <2>3. StreamsHold'
    BY SMTT(30) DEF StreamsHold
  <2>4. EntriesOwned'
    BY DEF EntriesOwned
  <2>5. NoRemains'
    BY DEF NoRemains
  <2> QED
    BY <2>1, <2>2, <2>3, <2>4, <2>5
<1>16. ASSUME NEW t \in Stream, CreatePublisher(t) PROVE SystemIInv'
  <2> USE <1>16 DEF CreatePublisher
  <2>1. SystemTypeOK'
    BY SMTT(30)
  <2>2. LayoutOwned'
    BY DEF LayoutOwned
  <2>3. StreamsHold'
    BY SMTT(30) DEF StreamsHold
  <2>4. EntriesOwned'
    BY DEF EntriesOwned
  <2>5. NoRemains'
    BY DEF NoRemains
  <2> QED
    BY <2>1, <2>2, <2>3, <2>4, <2>5
<1>17. ASSUME NEW t \in Stream, DropFactory(t) PROVE SystemIInv'
  <2> USE <1>17 DEF DropFactory, AfterLastHandle
  <2>1. SystemTypeOK'
    BY SMTT(30)
  <2>2. LayoutOwned'
    BY DEF LayoutOwned
  <2>3. StreamsHold'
    BY SMTT(30) DEF StreamsHold
  <2>4. EntriesOwned'
    BY SMTT(30) DEF EntriesOwned
  <2>5. NoRemains'
    BY SMTT(30) DEF NoRemains, EntriesOwned, StreamsHold, LayoutOwned
  <2> QED
    BY <2>1, <2>2, <2>3, <2>4, <2>5
<1>18. ASSUME NEW t \in Stream, DropPublisher(t) PROVE SystemIInv'
  <2> USE <1>18 DEF DropPublisher, AfterLastHandle
  <2>1. SystemTypeOK'
    BY SMTT(30)
  <2>2. LayoutOwned'
    BY SMTT(30) DEF LayoutOwned
  <2>3. StreamsHold'
    BY SMTT(30) DEF StreamsHold
  <2>4. EntriesOwned'
    BY SMTT(30) DEF EntriesOwned
  <2>5. NoRemains'
    BY SMTT(30) DEF NoRemains, EntriesOwned, StreamsHold, LayoutOwned
  <2> QED
    BY <2>1, <2>2, <2>3, <2>4, <2>5
<1>19. ASSUME NEW t \in Stream, DropQueue(t) PROVE SystemIInv'
  <2> USE <1>19 DEF DropQueue, RemoveDirectory
  <2>1. SystemTypeOK'
    BY DEF StreamsHold
  <2>2. LayoutOwned'
    BY SMTT(30) DEF LayoutOwned
  <2>3. StreamsHold'
    BY SMTT(30) DEF StreamsHold
  <2>4. EntriesOwned'
    BY SMTT(30) DEF EntriesOwned, StreamsHold, LayoutOwned
  <2>5. NoRemains'
    BY SMTT(30) DEF NoRemains, EntriesOwned, StreamsHold, LayoutOwned
  <2> QED
    BY <2>1, <2>2, <2>3, <2>4, <2>5
<1>20. ASSUME NEW t \in Stream, ReleaseDirectory(t) PROVE SystemIInv'
  <2> USE <1>20 DEF ReleaseDirectory, Holding
  <2>1. SystemTypeOK'
    BY SMTT(30) DEF StreamsHold
  <2>2. LayoutOwned'
    BY SMTT(30) DEF LayoutOwned, StreamsHold, EntriesOwned
  <2>3. StreamsHold'
    BY SMTT(30) DEF StreamsHold
  <2>4. EntriesOwned'
    BY SMTT(30) DEF EntriesOwned
  <2>5. NoRemains'
    <3>1. UNCHANGED <<tmp, streams, dirs, litter>> /\ stream[t] = "layout"
      BY DEF disk
    <3>2. \A s \in System : spc'[s] = spc[s] \/ spc'[s] = "drop_tmp"
      OBVIOUS
    <3>3. \A u \in Stream : u # t => stream'[u] = stream[u]
      OBVIOUS
    <3>4. NoRemains
      OBVIOUS
    <3> HIDE <1>20 DEF SystemIInv
    <3>5. ASSUME ~litter', NEW s \in System
          PROVE  /\ tmp' = s => spc'[s] \in {"tmp", "rollback", "live", "drop_tmp"}
                 /\ streams' = s =>
                       spc'[s] \in {"live", "drop_tmp", "drop_streams", "drop_entries"}
      BY <3>1, <3>2, <3>4, <3>5 DEF NoRemains
    <3>6. ASSUME ~litter', NEW n \in Name, NEW u \in Stream, dirs'[n] = u
          PROVE  stream'[u] \in {"on", "queue"}
      BY <3>1, <3>3, <3>4, <3>6 DEF NoRemains
    <3> QED
      BY <3>5, <3>6 DEF NoRemains
  <2> QED
    BY <2>1, <2>2, <2>3, <2>4, <2>5
<1>21. CASE UNCHANGED systemVars
  <2> USE <1>21 DEF systemVars
  <2>1. SystemTypeOK'
    OBVIOUS
  <2>2. LayoutOwned'
    BY DEF LayoutOwned
  <2>3. StreamsHold'
    BY DEF StreamsHold
  <2>4. EntriesOwned'
    BY DEF EntriesOwned
  <2>5. NoRemains'
    BY DEF NoRemains
  <2> QED
    BY <2>1, <2>2, <2>3, <2>4, <2>5
<1> QED
  BY <1>1, <1>2, <1>3, <1>4, <1>5, <1>6, <1>7, <1>8, <1>9, <1>10, <1>11,
     <1>12, <1>13, <1>14, <1>15, <1>16, <1>17, <1>18, <1>19, <1>20, <1>21 DEF
     SystemNext

\* SystemIInv holds in every reachable state.
THEOREM SystemIInvAlways == SystemSpec => []SystemIInv
  BY SystemInitIInv, SystemNextIInv, PTL DEF SystemSpec

(* As long as any value of an event system exists, the layout at its path is *)
(* its own and every enabled stream has its directory in it.                 *)
THEOREM LayoutKept == SystemSpec => []LayoutKeptWhileInUse
<1>1. SystemIInv => LayoutKeptWhileInUse
  BY SMTT(30) DEF SystemIInv, SystemTypeOK, LayoutOwned, StreamsHold, EntriesOwned, LayoutKeptWhileInUse, InUse
<1> QED
  BY <1>1, SystemIInvAlways, PTL

(* Without crashes and failed removals the directory ends up empty, and can  *)
(* be used by a later EventSystem::new.                                      *)
THEOREM NothingLeft == SystemSpec => []NothingLeftWhenDropped
<1>1. SystemIInv => NothingLeftWhenDropped
  BY LifetimeAssumption, SMTT(30)
     DEF SystemIInv, SystemTypeOK, LayoutOwned, StreamsHold, NoRemains, NothingLeftWhenDropped
<1> QED
  BY <1>1, SystemIInvAlways, PTL

(* Every directory is removed by the event system that created it.           *)
THEOREM OwnersRemove == SystemSpec => OnlyOwnersRemove
<1>1. ASSUME SystemIInv, SystemIInv', [SystemNext]_systemVars PROVE [RemovedByOwner]_systemVars
  <2> USE LifetimeAssumption
  <2>1. dirs \in [Name -> Stream \cup {None}]
    BY <1>1 DEF SystemIInv, SystemTypeOK
  <2>2. ASSUME tmp' = tmp \/ tmp = None,
               streams' = streams \/ streams = None,
               \A m \in Name : dirs'[m] = dirs[m] \/ dirs[m] = None
        PROVE  RemovedByOwner
    BY <2>2 DEF RemovedByOwner
  <2>3. ASSUME NEW s \in System, CreateTmp(s) \/ CreateStreams(s) PROVE RemovedByOwner
    BY <2>2, <2>3 DEF CreateTmp, CreateStreams
  <2>4. ASSUME NEW s \in System, Rollback(s) \/ RemoveTmp(s) PROVE RemovedByOwner
    <3>1. /\ tmp = s /\ spc[s] \in {"rollback", "drop_tmp"}
          /\ UNCHANGED <<streams, dirs>>
      BY <1>1, <2>4 DEF Rollback, RemoveTmp, SystemIInv, LayoutOwned
    <3> QED
      BY <3>1 DEF RemovedByOwner
  <2>5. ASSUME NEW s \in System, EmptyStreams(s) PROVE RemovedByOwner
    <3>1. spc[s] = "drop_streams" /\ streams = s /\ UNCHANGED <<tmp, streams>>
      BY <1>1, <2>5 DEF EmptyStreams, SystemIInv, LayoutOwned
    <3>2. EntriesOwned
      BY <1>1 DEF SystemIInv
    <3>3. \A n \in Name, t \in Stream : dirs[n] = t => owner[t] = s
      BY <3>1, <3>2 DEF EntriesOwned
    <3> QED
      BY <3>1, <3>3 DEF RemovedByOwner
  <2>6. ASSUME NEW s \in System, RemoveStreams(s) PROVE RemovedByOwner
    <3>1. spc[s] = "drop_entries" /\ streams = s /\ UNCHANGED <<tmp, dirs>>
      BY <1>1, <2>6 DEF RemoveStreams, SystemIInv, LayoutOwned
    <3> QED
      BY <3>1 DEF RemovedByOwner
  <2>7. ASSUME NEW s \in System, NEW t \in Stream, NEW n \in Name, CreateStream(s, t, n)
        PROVE  RemovedByOwner
    <3>1. \A m \in Name : dirs'[m] = dirs[m] \/ dirs[m] = None
      BY <2>7, <2>1 DEF CreateStream, CanPublish
    <3> QED
      BY <2>7, <2>2, <3>1 DEF CreateStream, NewFactory
  <2>8. ASSUME NEW t \in Stream, EnableStream(t) PROVE RemovedByOwner
    <3>1. \A m \in Name : dirs'[m] = dirs[m] \/ dirs[m] = None
      BY <2>8, <2>1 DEF EnableStream, CanPublish
    <3> QED
      BY <2>8, <2>2, <3>1 DEF EnableStream
  <2>9. ASSUME NEW t \in Stream, DisableStream(t) \/ DropQueue(t) PROVE RemovedByOwner
    <3>1. /\ UNCHANGED <<tmp, streams>>
          /\ \/ stream[t] = "on" /\ stream' = [stream EXCEPT ![t] = "off"]
             \/ stream[t] = "queue" /\ stream' = [stream EXCEPT ![t] = "layout"]
          /\ \A m \in Name : dirs'[m] = dirs[m] \/ m = sname[t]
      BY <2>9, <2>1 DEF DisableStream, DropQueue, RemoveDirectory
    <3>2. stream \in [Stream -> StreamState] /\ dirs[sname[t]] = t
      BY <1>1, <3>1 DEF SystemIInv, SystemTypeOK, EntriesOwned
    <3>3. \/ stream[t] = "on" /\ stream'[t] = "off"
          \/ stream[t] = "queue" /\ stream'[t] = "layout"
      BY <3>1, <3>2
    <3> QED
      BY <3>1, <3>2, <3>3 DEF RemovedByOwner
  <2>10. ASSUME UNCHANGED disk PROVE RemovedByOwner
    BY <2>10 DEF disk, RemovedByOwner
  <2>11. ASSUME NEW s \in System, Stub(s) \/ CloneSystem(s) \/ DropSystem(s) \/ Crash(s)
         PROVE  UNCHANGED disk
    BY <2>11 DEF Stub, CloneSystem, DropSystem, Crash, disk
  <2>12. ASSUME NEW s \in System, NEW t \in Stream, NEW n \in Name,
                CreateStubStream(s, t, n)
         PROVE  UNCHANGED disk
    BY <2>12 DEF CreateStubStream, NewFactory, disk
  <2>13. ASSUME NEW t \in Stream,
                \/ CloneFactory(t) \/ CreatePublisher(t) \/ DropFactory(t)
                \/ DropPublisher(t) \/ ReleaseDirectory(t)
         PROVE  UNCHANGED disk
    BY <2>13 DEF CloneFactory, CreatePublisher, DropFactory, DropPublisher,
                 ReleaseDirectory, disk
  <2>14. CASE SystemNext
    BY <2>14, <2>3, <2>4, <2>5, <2>6, <2>7, <2>8, <2>9, <2>10, <2>11, <2>12, <2>13
       DEF SystemNext
  <2> QED
    BY <1>1, <2>14
<1> QED
  BY <1>1, SystemIInvAlways, PTL DEF SystemSpec, OnlyOwnersRemove

=============================================================================
