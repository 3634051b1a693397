----------------------------- MODULE EventStream -----------------------------
(***************************************************************************)
(* One event stream of the event system and the publishers on it           *)
(* (event-system/src/backend/linux.rs and backend/linux/publisher.rs).     *)
(*                                                                         *)
(* A stream has a queue only while the stream policy enables it.  Enabling *)
(* and disabling bump queue_generation under the write lock of `state`.    *)
(* Publishers cache the generation and a producer (a lane of the queue),   *)
(* compare the cached generation with an unlocked Relaxed load on every    *)
(* call, and swap producers themselves under the read lock.                *)
(*                                                                         *)
(* A section under the lock of `state` is one action: the only accesses    *)
(* outside the lock are the Relaxed loads of queue_generation, which may   *)
(* return an older value anyway, and the releases of a producer, which are *)
(* actions of their own.                                                   *)
(*                                                                         *)
(* A queue is named by the generation that created it, so `queue` is an    *)
(* Option<StreamQueue>: NoQueue, or the name of the current queue.         *)
(***************************************************************************)
EXTENDS Integers, FiniteSets

CONSTANTS
    Publisher,        \* identities of Publisher handles; a dropped one can be created again
    PublisherSlots,   \* StreamConfig::publisher_slots
    MaxGeneration     \* bound on the number of policy changes that take effect

ASSUME PublisherAssumption == IsFiniteSet(Publisher)
ASSUME SlotsAssumption == PublisherSlots \in Nat
ASSUME MaxGenerationAssumption == MaxGeneration \in Nat

VARIABLES
    queue,            \* StreamState::queue
    queue_generation, \* EventStream::queue_generation
    remaining,        \* StreamState::remaining_publisher_slots
    pc,               \* where each Publisher is in its current call
    generation,       \* Publisher::queue_generation
    producer,         \* Publisher::producer, as the queue it is a lane of
    known             \* newest generation that the publisher's thread is bound to see

streamVars == <<queue, queue_generation, remaining>>
vars == <<queue, queue_generation, remaining, pc, generation, producer, known>>

NoQueue == 0

\* The queue that was current while queue_generation had the value g: the
\* generation counts creations and drops, which alternate from "no queue".
QueueOf(g) == IF g % 2 = 1 THEN g ELSE NoQueue

Live == {p \in Publisher : pc[p] # "absent"}

Holders(q) == {p \in Publisher : producer[p] = q}

\* StreamState::create_producer.  A queue has publisher_slots producer lanes
\* (BroadcastConfig::producer_slots); without a free one `.ok()` gives None.
CreateProducer ==
    IF queue # NoQueue /\ Cardinality(Holders(queue)) < PublisherSlots
    THEN queue
    ELSE NoQueue

Init ==
    /\ queue = NoQueue
    /\ queue_generation = 0
    /\ remaining = PublisherSlots
    /\ pc = [p \in Publisher |-> "absent"]
    /\ generation = [p \in Publisher |-> 0]
    /\ producer = [p \in Publisher |-> NoQueue]
    /\ known = [p \in Publisher |-> 0]

-----------------------------------------------------------------------------
(* The policy side: EventStream::apply_stream_rule.                        *)

\* (StreamRule::On, None): the queue is created and published.
Enable ==
    /\ queue = NoQueue
    /\ queue_generation < MaxGeneration
    /\ queue' = queue_generation + 1
    /\ queue_generation' = queue_generation + 1
    /\ UNCHANGED <<remaining, pc, generation, producer, known>>

\* Mutant: the generation is not bumped when a queue is dropped.
DisableWithoutBump ==
    /\ queue # NoQueue
    /\ queue' = NoQueue
    /\ UNCHANGED <<queue_generation, remaining, pc, generation, producer, known>>

\* (StreamRule::Off, Some): the stream's own reference to the queue goes away;
\* the lanes of its publishers stay until they notice.
Disable ==
    /\ queue # NoQueue
    /\ queue_generation < MaxGeneration
    /\ queue' = NoQueue
    /\ queue_generation' = queue_generation + 1
    /\ UNCHANGED <<remaining, pc, generation, producer, known>>

\* The rule already holds, or StreamQueue::create fails and `?` returns before
\* the generation changes: nothing happens (both are the stuttering step).

-----------------------------------------------------------------------------
(* PublisherFactory::try_create_publisher                                  *)

TryCreatePublisher(p) ==
    /\ pc[p] = "absent"
    /\ remaining > 0
    /\ remaining' = remaining - 1
    /\ pc' = [pc EXCEPT ![p] = "idle"]
    /\ producer' = [producer EXCEPT ![p] = CreateProducer]
    /\ generation' = [generation EXCEPT ![p] = queue_generation]
    /\ known' = [known EXCEPT ![p] = queue_generation]
    /\ UNCHANGED <<queue, queue_generation>>

-----------------------------------------------------------------------------
(* Publisher::publish, publish_batch and is_enabled all start with         *)
(* Publisher::producer, which loads queue_generation without the lock.     *)

\* Mutant: a publisher that has a producer does not compare generations.
LoadSkippedWithProducer(p) ==
    /\ pc[p] = "idle"
    /\ producer[p] # NoQueue
    /\ pc' = [pc EXCEPT ![p] = "ready"]
    /\ UNCHANGED <<streamVars, generation, producer, known>>

\* The load returns any generation from the newest the thread is bound to see
\* up to the current one; seeing the cached generation keeps the producer.
LoadUnchanged(p) ==
    /\ pc[p] = "idle"
    /\ generation[p] \in known[p]..queue_generation
    /\ pc' = [pc EXCEPT ![p] = "ready"]
    /\ UNCHANGED <<streamVars, generation, producer, known>>

\* Seeing another one enters replace_producer, which first releases the
\* producer on the previous queue.
LoadChanged(p) ==
    /\ pc[p] = "idle"
    /\ \E g \in known[p]..queue_generation :
          /\ g # generation[p]
          /\ known' = [known EXCEPT ![p] = g]
    /\ pc' = [pc EXCEPT ![p] = "replacing"]
    /\ producer' = [producer EXCEPT ![p] = NoQueue]
    /\ UNCHANGED <<streamVars, generation>>

\* Mutant: the generation is loaded before the read lock is taken.
GenerationBeforeLock(p) ==
    /\ pc[p] = "replacing"
    /\ pc' = [pc EXCEPT ![p] = "ready"]
    /\ generation' = [generation EXCEPT ![p] = known[p]]
    /\ producer' = [producer EXCEPT ![p] = CreateProducer]
    /\ UNCHANGED <<streamVars, known>>

\* Mutant: the queue is picked without the lock, as of any generation the
\* thread may still see.
ProducerWithoutLock(p) ==
    /\ pc[p] = "replacing"
    /\ pc' = [pc EXCEPT ![p] = "ready"]
    /\ \E g \in known[p]..queue_generation :
          /\ generation' = [generation EXCEPT ![p] = g]
          /\ producer' = [producer EXCEPT ![p] = QueueOf(g)]
    /\ UNCHANGED <<streamVars, known>>

\* replace_producer under the read lock.
ReplaceProducer(p) ==
    /\ pc[p] = "replacing"
    /\ pc' = [pc EXCEPT ![p] = "ready"]
    /\ generation' = [generation EXCEPT ![p] = queue_generation]
    /\ producer' = [producer EXCEPT ![p] = CreateProducer]
    /\ known' = [known EXCEPT ![p] = queue_generation]
    /\ UNCHANGED streamVars

\* The call ends: an event is written to the lane (see PublishLanes for what
\* happens there), the stream is disabled and nothing is written, or
\* is_enabled reports whether there is a producer.
Return(p) ==
    /\ pc[p] = "ready"
    /\ pc' = [pc EXCEPT ![p] = "idle"]
    /\ UNCHANGED <<streamVars, generation, producer, known>>

\* Between calls the thread synchronises with the one that changed the policy,
\* or the store of the generation simply becomes visible to it.
Learn(p) ==
    /\ pc[p] = "idle"
    /\ known[p] # queue_generation
    /\ known' = [known EXCEPT ![p] = queue_generation]
    /\ UNCHANGED <<streamVars, pc, generation, producer>>

-----------------------------------------------------------------------------
(* Drop for Publisher: the lane is released first, without the lock.       *)

DropProducer(p) ==
    /\ pc[p] = "idle"
    /\ pc' = [pc EXCEPT ![p] = "dropping"]
    /\ producer' = [producer EXCEPT ![p] = NoQueue]
    /\ UNCHANGED <<streamVars, generation, known>>

\* Mutant: the slot is not given back.
DropWithoutSlot(p) ==
    /\ pc[p] = "dropping"
    /\ pc' = [pc EXCEPT ![p] = "absent"]
    /\ UNCHANGED <<streamVars, generation, producer, known>>

DropSlot(p) ==
    /\ pc[p] = "dropping"
    /\ pc' = [pc EXCEPT ![p] = "absent"]
    /\ remaining' = remaining + 1
    /\ UNCHANGED <<queue, queue_generation, generation, producer, known>>

-----------------------------------------------------------------------------

Next ==
    \/ Enable
    \/ Disable
    \/ \E p \in Publisher :
          \/ TryCreatePublisher(p)
          \/ LoadUnchanged(p)
          \/ LoadChanged(p)
          \/ ReplaceProducer(p)
          \/ Return(p)
          \/ Learn(p)
          \/ DropProducer(p)
          \/ DropSlot(p)

Spec == Init /\ [][Next]_vars

\* A publisher that is called again and again, whose calls return, and to
\* which a store of the generation eventually becomes visible.
Fairness ==
    \A p \in Publisher :
        /\ WF_vars(LoadUnchanged(p) \/ LoadChanged(p))
        /\ WF_vars(ReplaceProducer(p))
        /\ WF_vars(Return(p))
        /\ SF_vars(Learn(p))
        /\ WF_vars(DropSlot(p))

FairSpec == Spec /\ Fairness

-----------------------------------------------------------------------------

\* Types of the state.
TypeOK ==
    /\ queue \in Nat
    /\ queue_generation \in 0..MaxGeneration
    /\ remaining \in 0..PublisherSlots
    /\ pc \in [Publisher -> {"absent", "idle", "replacing", "ready", "dropping"}]
    /\ generation \in [Publisher -> Nat]
    /\ producer \in [Publisher -> Nat]
    /\ known \in [Publisher -> Nat]

\* Every slot that try_create_publisher has taken belongs to exactly one
\* publisher that has not yet given it back: the count neither leaks slots nor
\* lends the same one twice, whether or not the stream has a queue.
SlotAccounting == remaining + Cardinality(Live) = PublisherSlots

\* Whenever a publisher is about to use its producer, it is the producer of
\* the queue its cached generation stands for.  With the generation of an
\* enabled stream this says that it really got a lane: create_producer cannot
\* run out of lanes, so a publisher is never silently "disabled" on an enabled
\* stream, and never writes to one queue believing it to be another.
ProducerMatchesGeneration ==
    \A p \in Publisher :
        pc[p] \in {"idle", "ready"} => producer[p] = QueueOf(generation[p])

\* The queue a call works on was current at some moment since the newest policy
\* change that its thread already knew of when it made the call; in particular
\* a call made after set_stream_policy returned on the same thread follows it.
NoStaleUse ==
    \A p \in Publisher :
        pc[p] = "ready" =>
            \E g \in known[p]..queue_generation : producer[p] = QueueOf(g)

\* A queue that was disabled only loses producers: no publisher can join it
\* afterwards, so once all have noticed nothing is ever written to it again.
RetiredQueuesOnlyLoseProducers ==
    [][\A q \in 1..MaxGeneration :
          q # queue => Holders(q)' \subseteq Holders(q)]_vars

\* Once the policy settles, every publisher that keeps publishing ends up on
\* the current queue for good (or without a producer if there is none).
PublishersFollowPolicy ==
    \A p \in Publisher :
        <>[](pc[p] = "ready" => producer[p] = queue)
=============================================================================
