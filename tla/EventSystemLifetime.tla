------------------------- MODULE EventSystemLifetime -------------------------
(***************************************************************************)
(* Who owns the directory of an event system, and for how long             *)
(* (event-system/src: event_system.rs, publisher_factory.rs, publisher.rs, *)
(* backend/stub.rs, and EventSystemDirectory, EventSystem and EventStream  *)
(* in backend/linux.rs).                                                   *)
(*                                                                         *)
(* Several event systems, each in a process of its own, are created at one *)
(* path.  The layout, the directories tmp and event-streams, belongs to an *)
(* Arc that the EventSystem values and the streams share; streams in turn  *)
(* live as long as their factories and publishers.  The steps in which one *)
(* queue is published or unpublished are in StreamFiles; here each is one  *)
(* step.  A stub is an event system without any of this.                   *)
(*                                                                         *)
(* The reference that the policy manager upgrades while it works on a      *)
(* stream is not kept apart: if it is the last one, the stream is torn     *)
(* down by the same steps a little later, while an EventSystem exists.     *)
(***************************************************************************)
EXTENDS Integers, FiniteSets

CONSTANTS
    System,          \* calls of EventSystem::new and EventSystem::stub
    Stream,          \* calls of create_stream that return a factory
    Name,            \* stream names
    SlotsPerStream,  \* StreamConfig::publisher_slots
    MaxHandles,      \* bound on the clones of one value
    None             \* no owner

ASSUME LifetimeAssumption ==
    /\ None \notin System \cup Stream
    /\ SlotsPerStream \in Nat
    /\ MaxHandles \in Nat \ {0}

VARIABLES
    backend,     \* Backend::Platform or Backend::Stub of each event system
    spc,         \* how far the creation or the removal of its layout is
    systems,     \* EventSystem values, clones included
    owner,       \* the event system of each stream
    sname,       \* its name
    stream,      \* its EventStream: "off" and "on" are alive
    factories,   \* PublisherFactory values of each stream
    publishers,  \* Publisher values of each stream
    tmp,         \* whose directory is at tmp
    streams,     \* whose directory is at event-streams
    dirs,        \* the stream whose directory is at event-streams/<name>
    litter       \* a process died, or a removal failed

disk == <<tmp, streams, dirs>>
handles == <<systems, factories, publishers>>
systemVars == <<backend, spc, systems, owner, sname, stream, factories, publishers,
          tmp, streams, dirs, litter>>

SystemInit ==
    /\ backend = [s \in System |-> "none"]
    /\ spc = [s \in System |-> "unused"]
    /\ systems = [s \in System |-> 0]
    /\ owner = [t \in Stream |-> None]
    /\ sname = [t \in Stream |-> None]
    /\ stream = [t \in Stream |-> "unused"]
    /\ factories = [t \in Stream |-> 0]
    /\ publishers = [t \in Stream |-> 0]
    /\ tmp = None /\ streams = None
    /\ dirs = [n \in Name |-> None]
    /\ litter = FALSE

-----------------------------------------------------------------------------
(* EventSystem::new and EventSystem::stub.                                 *)

\* EventSystemDirectory::create up to create_dir on tmp; the directory itself
\* may exist already, tmp must not.  Any step may fail, and nothing is undone.
CreateTmp(s) ==
    /\ spc[s] = "unused"
    /\ backend' = [backend EXCEPT ![s] = "platform"]
    /\ \/ /\ tmp = None
          /\ tmp' = s
          /\ spc' = [spc EXCEPT ![s] = "tmp"]
       \/ /\ spc' = [spc EXCEPT ![s] = "failed"]
          /\ UNCHANGED tmp
    /\ UNCHANGED <<handles, owner, sname, stream, streams, dirs, litter>>

\* create_dir on event-streams, and the first EventSystem value; on an error,
\* the existence of the directory included, tmp is to be removed.
CreateStreams(s) ==
    /\ spc[s] = "tmp"
    /\ \/ /\ streams = None
          /\ streams' = s
          /\ spc' = [spc EXCEPT ![s] = "live"]
          /\ systems' = [systems EXCEPT ![s] = 1]
       \/ /\ spc' = [spc EXCEPT ![s] = "rollback"]
          /\ UNCHANGED <<streams, systems>>
    /\ UNCHANGED <<backend, owner, sname, stream, factories, publishers, tmp,
                   dirs, litter>>

\* Mutant: the error is returned at once.
ReturnError(s) ==
    /\ spc[s] = "rollback"
    /\ spc' = [spc EXCEPT ![s] = "failed"]
    /\ UNCHANGED <<backend, handles, owner, sname, stream, disk, litter>>

\* Mutant: the whole layout is removed, like in Drop.
RemoveBoth(s) ==
    /\ spc[s] = "rollback"
    /\ tmp' = None /\ streams' = None
    /\ dirs' = [n \in Name |-> None]
    /\ spc' = [spc EXCEPT ![s] = "failed"]
    /\ UNCHANGED <<backend, handles, owner, sname, stream, litter>>

\* remove_dir on tmp, which is whatever is at that path, before the error is
\* returned.  A removal may fail, here and below, and that is ignored.
Rollback(s) ==
    /\ spc[s] = "rollback"
    /\ spc' = [spc EXCEPT ![s] = "failed"]
    /\ \/ tmp' = None /\ UNCHANGED litter
       \/ litter' = TRUE /\ UNCHANGED tmp
    /\ UNCHANGED <<backend, handles, owner, sname, stream, streams, dirs>>

Stub(s) ==
    /\ spc[s] = "unused"
    /\ backend' = [backend EXCEPT ![s] = "stub"]
    /\ spc' = [spc EXCEPT ![s] = "live"]
    /\ systems' = [systems EXCEPT ![s] = 1]
    /\ UNCHANGED <<owner, sname, stream, factories, publishers, disk, litter>>

-----------------------------------------------------------------------------
(* Streams, factories and publishers.                                      *)

Alive(t) == stream[t] \in {"off", "on"}

\* register_new_stream: a live stream of this event system has the name.
NameInUse(s, n) == \E t \in Stream : owner[t] = s /\ sname[t] = n /\ Alive(t)

\* StreamQueue::create needs both directories, and cannot replace a directory
\* that still has its files.
CanPublish(n) == tmp # None /\ streams # None /\ dirs[n] = None

NewFactory(s, t, n) ==
    /\ systems[s] > 0
    /\ stream[t] = "unused"
    /\ owner' = [owner EXCEPT ![t] = s]
    /\ sname' = [sname EXCEPT ![t] = n]
    /\ factories' = [factories EXCEPT ![t] = 1]
    /\ UNCHANGED <<backend, spc, systems, publishers, tmp, streams, litter>>

\* create_stream on the platform backend.  With an error, of a name in use or
\* of a queue that cannot be published, the new stream is dropped on the spot.
CreateStream(s, t, n) ==
    /\ backend[s] = "platform"
    /\ ~NameInUse(s, n)
    /\ NewFactory(s, t, n)
    /\ \/ /\ stream' = [stream EXCEPT ![t] = "off"]
          /\ UNCHANGED dirs
       \/ /\ CanPublish(n)
          /\ stream' = [stream EXCEPT ![t] = "on"]
          /\ dirs' = [dirs EXCEPT ![n] = t]

\* create_stream of a stub: any name, as often as one likes.
CreateStubStream(s, t, n) ==
    /\ backend[s] = "stub"
    /\ NewFactory(s, t, n)
    /\ stream' = [stream EXCEPT ![t] = "stub"]
    /\ UNCHANGED dirs

\* Drop for StreamQueue: remove_dir_all on whatever is at the path.  One that
\* fails leaves a directory that is not empty.
RemoveDirectory(t) ==
    \/ dirs' = [dirs EXCEPT ![sname[t]] = None] /\ UNCHANGED litter
    \/ litter' = TRUE /\ UNCHANGED dirs

\* set_stream_policy, as far as one stream is concerned; an error leaves the
\* stream off, and a stub ignores the policy.
EnableStream(t) ==
    /\ stream[t] = "off"
    /\ systems[owner[t]] > 0
    /\ CanPublish(sname[t])
    /\ stream' = [stream EXCEPT ![t] = "on"]
    /\ dirs' = [dirs EXCEPT ![sname[t]] = t]
    /\ UNCHANGED <<backend, spc, handles, owner, sname, tmp, streams, litter>>

DisableStream(t) ==
    /\ stream[t] = "on"
    /\ systems[owner[t]] > 0
    /\ stream' = [stream EXCEPT ![t] = "off"]
    /\ RemoveDirectory(t)
    /\ UNCHANGED <<backend, spc, handles, owner, sname, tmp, streams>>

\* Clone for EventSystem and for PublisherFactory.
CloneSystem(s) ==
    /\ systems[s] \in 1 .. MaxHandles - 1
    /\ systems' = [systems EXCEPT ![s] = @ + 1]
    /\ UNCHANGED <<backend, spc, owner, sname, stream, factories, publishers,
                   disk, litter>>

CloneFactory(t) ==
    /\ factories[t] \in 1 .. MaxHandles - 1
    /\ factories' = [factories EXCEPT ![t] = @ + 1]
    /\ UNCHANGED <<backend, spc, systems, owner, sname, stream, publishers,
                   disk, litter>>

\* try_create_publisher: within the slots, or any number for a stub, which
\* MaxHandles bounds.
CreatePublisher(t) ==
    /\ factories[t] > 0
    /\ publishers[t] < (IF stream[t] = "stub" THEN MaxHandles ELSE SlotsPerStream)
    /\ publishers' = [publishers EXCEPT ![t] = @ + 1]
    /\ UNCHANGED <<backend, spc, systems, owner, sname, stream, factories,
                   disk, litter>>

-----------------------------------------------------------------------------
(* Drop.                                                                   *)

\* The streams of s that still have their Arc<EventSystemDirectory>.
Holding(s) ==
    {t \in Stream : owner[t] = s /\ stream[t] \in {"off", "on", "queue", "layout"}}

\* What an EventStream goes through once its last handle is gone: the field
\* state with its queue is dropped before event_system_directory.
AfterLastHandle(t) ==
    CASE stream[t] = "on" -> "queue"
      [] stream[t] = "off" -> "layout"
      [] OTHER -> "gone"

DropFactory(t) ==
    /\ factories[t] > 0
    /\ factories' = [factories EXCEPT ![t] = @ - 1]
    /\ stream' = [stream EXCEPT ![t] = IF factories[t] + publishers[t] = 1
                                       THEN AfterLastHandle(t) ELSE @]
    /\ UNCHANGED <<backend, spc, systems, owner, sname, publishers, disk, litter>>

DropPublisher(t) ==
    /\ publishers[t] > 0
    /\ publishers' = [publishers EXCEPT ![t] = @ - 1]
    /\ stream' = [stream EXCEPT ![t] = IF factories[t] + publishers[t] = 1
                                       THEN AfterLastHandle(t) ELSE @]
    /\ UNCHANGED <<backend, spc, systems, owner, sname, factories, disk, litter>>

DropQueue(t) ==
    /\ stream[t] = "queue"
    /\ stream' = [stream EXCEPT ![t] = "layout"]
    /\ RemoveDirectory(t)
    /\ UNCHANGED <<backend, spc, handles, owner, sname, tmp, streams>>

\* The EventStream gives up its reference; the last reference drops the layout.
ReleaseDirectory(t) ==
    /\ stream[t] = "layout"
    /\ stream' = [stream EXCEPT ![t] = "gone"]
    /\ spc' = [spc EXCEPT ![owner[t]] =
                  IF systems[owner[t]] = 0 /\ Holding(owner[t]) = {t}
                  THEN "drop_tmp" ELSE @]
    /\ UNCHANGED <<backend, handles, owner, sname, disk, litter>>

\* Mutant: only EventSystem values keep the layout.
DropLayout(s) == IF backend[s] = "stub" THEN "gone" ELSE "drop_tmp"

\* The last EventSystem value is dropped; streams may keep the layout.
AfterLastSystem(s) ==
    IF backend[s] = "stub" THEN "gone"
    ELSE IF Holding(s) = {} THEN "drop_tmp" ELSE spc[s]

DropSystem(s) ==
    /\ systems[s] > 0
    /\ systems' = [systems EXCEPT ![s] = @ - 1]
    /\ spc' = [spc EXCEPT ![s] = IF systems[s] = 1 THEN AfterLastSystem(s) ELSE @]
    /\ UNCHANGED <<backend, owner, sname, stream, factories, publishers, disk, litter>>

\* Drop for EventSystemDirectory, first tmp and then event-streams with all
\* that is in it.
RemoveTmp(s) ==
    /\ spc[s] = "drop_tmp"
    /\ spc' = [spc EXCEPT ![s] = "drop_streams"]
    /\ \/ tmp' = None /\ UNCHANGED litter
       \/ litter' = TRUE /\ UNCHANGED tmp
    /\ UNCHANGED <<backend, handles, owner, sname, stream, streams, dirs>>

\* remove_dir_all on event-streams empties the directory before it removes it,
\* and stops at the first error.
EmptyStreams(s) ==
    /\ spc[s] = "drop_streams"
    /\ \/ /\ dirs' = [n \in Name |-> None]
          /\ spc' = [spc EXCEPT ![s] = "drop_entries"]
          /\ UNCHANGED litter
       \/ /\ litter' = TRUE
          /\ spc' = [spc EXCEPT ![s] = "gone"]
          /\ UNCHANGED dirs
    /\ UNCHANGED <<backend, handles, owner, sname, stream, tmp, streams>>

RemoveStreams(s) ==
    /\ spc[s] = "drop_entries"
    /\ spc' = [spc EXCEPT ![s] = "gone"]
    /\ \/ streams' = None /\ UNCHANGED litter
       \/ litter' = TRUE /\ UNCHANGED streams
    /\ UNCHANGED <<backend, handles, owner, sname, stream, tmp, dirs>>

\* The process of an event system is killed.
Crash(s) ==
    /\ backend[s] = "platform"
    /\ spc[s] \notin {"failed", "gone", "dead"}
    /\ spc' = [spc EXCEPT ![s] = "dead"]
    /\ systems' = [systems EXCEPT ![s] = 0]
    /\ stream' = [t \in Stream |-> IF owner[t] = s THEN "gone" ELSE stream[t]]
    /\ factories' = [t \in Stream |-> IF owner[t] = s THEN 0 ELSE factories[t]]
    /\ publishers' = [t \in Stream |-> IF owner[t] = s THEN 0 ELSE publishers[t]]
    /\ litter' = TRUE
    /\ UNCHANGED <<backend, owner, sname, disk>>

SystemNext ==
    \/ \E s \in System :
          \/ CreateTmp(s) \/ CreateStreams(s) \/ Rollback(s) \/ Stub(s)
          \/ CloneSystem(s) \/ DropSystem(s)
          \/ RemoveTmp(s) \/ EmptyStreams(s) \/ RemoveStreams(s)
          \/ Crash(s)
          \/ \E t \in Stream, n \in Name : CreateStream(s, t, n) \/ CreateStubStream(s, t, n)
    \/ \E t \in Stream :
          \/ EnableStream(t) \/ DisableStream(t)
          \/ CloneFactory(t) \/ CreatePublisher(t)
          \/ DropFactory(t) \/ DropPublisher(t)
          \/ DropQueue(t) \/ ReleaseDirectory(t)

SystemSpec == SystemInit /\ [][SystemNext]_systemVars

-----------------------------------------------------------------------------
\* Something of the event system can still be used, or is still cleaning up
\* after itself.
InUse(s) ==
    \/ systems[s] > 0
    \/ \E t \in Stream : owner[t] = s /\ stream[t] \in {"off", "on", "queue"}

(* As long as any value of an event system exists, if it is only a publisher *)
(* that outlived the rest, the layout at the path is that of this event      *)
(* system and every enabled stream has its directory in it, whatever other   *)
(* processes try to create, or remove as the last owners of an earlier       *)
(* layout, at the same path.                                                 *)
LayoutKeptWhileInUse ==
    \A s \in System :
        backend[s] = "platform" /\ InUse(s) =>
            /\ tmp = s /\ streams = s
            /\ \A t \in Stream :
                  owner[t] = s /\ stream[t] \in {"on", "queue"} => dirs[sname[t]] = t

(* Unless a process was killed or a removal failed, the directory is empty   *)
(* again when the last value of the last event system is gone, and a failed  *)
(* creation leaves nothing that would keep a later EventSystem::new from     *)
(* using the directory.                                                      *)
NothingLeftWhenDropped ==
    ~litter /\ (\A s \in System : backend[s] = "platform" => spc[s] \in {"failed", "gone"}) =>
        tmp = None /\ streams = None /\ (\A n \in Name : dirs[n] = None)

\* A step in which tmp, event-streams or the directory of a stream loses its
\* owner is one of the owner's own removals.
RemovedByOwner ==
    /\ \A s \in System :
          /\ tmp = s /\ tmp' # s => spc[s] \in {"rollback", "drop_tmp"}
          /\ streams = s /\ streams' # s => spc[s] = "drop_entries"
    /\ \A n \in Name, t \in Stream :
          dirs[n] = t /\ dirs'[n] # t =>
              \/ stream[t] = "on" /\ stream'[t] = "off"
              \/ stream[t] = "queue" /\ stream'[t] = "layout"
              \/ spc[owner[t]] = "drop_streams"

(* What lies at the path is only ever removed by the event system that       *)
(* created it: neither the rollback of a creation that lost the race, nor    *)
(* the tail of another Drop, nor a stub removes what belongs to someone      *)
(* else, the remains of a killed process included.                           *)
OnlyOwnersRemove == [][RemovedByOwner]_systemVars
=============================================================================
