----------------------------- MODULE StreamFiles -----------------------------
(***************************************************************************)
(* How the queues of an event system appear in and disappear from the file *)
(* system (StreamQueue::create, its Drop, create_sealed_queue and          *)
(* StagingDirectory in event-system/src/backend/linux.rs).                 *)
(*                                                                         *)
(* A queue is an anonymous file.  It is published as a directory           *)
(* event-streams/<name> that holds a schema file and a symbolic link       *)
(* queue-<identifier> to /proc/<pid>/fd/<number>.  Explorers in other      *)
(* processes see every step on its own, so each system call they can       *)
(* observe is an action; what happens in the staging directory, where they *)
(* do not look, is merged.                                                 *)
(*                                                                         *)
(* A directory object, its schema and its queue file all belong to one     *)
(* StreamQueue::create call, so a member of Queue names all of them; it is *)
(* also the random identifier, which is taken to be unique.                *)
(***************************************************************************)
EXTENDS Integers, FiniteSets

CONSTANTS
    Queue,      \* the StreamQueue::create calls that get as far as a staging directory
    Name,       \* stream names, of this event system or of one in another directory
    MaxFd,      \* descriptor numbers of the publishing process are 1..MaxFd
    None,       \* no queue, no name, no directory
    Other       \* a file of the publishing process that is not a queue

ASSUME FilesAssumption ==
    /\ None \notin Queue
    /\ Other \notin Queue
    /\ None # Other
    /\ MaxFd \in Nat

VARIABLES
    qpc,        \* how far the creation or the removal of each queue is
    qname,      \* the name each queue is created for
    entries,    \* what is in the directory object of each queue
    opened,     \* the directory object that a removal has opened
    path,       \* event-streams/<name>: the directory object with that name
    fds,        \* descriptor table of the publishing process
    fdOf,       \* the descriptor number of each queue, also the link's target
    crashed,    \* the publishing process was killed (and started again) once
    memory      \* what was done to the anonymous file of each queue: nothing
                \* undoes it, and an explorer that has the file open sees it

fileVars == <<qpc, qname, entries, opened, path, fds, fdOf, crashed, memory>>

Fd == 1..MaxFd

Creating == {"staged", "allocated", "initialised", "sealed", "linked"}
Removing == {"opening", "unlinking", "closing"}

\* The file holds a broadcast header; it has the seals that F_GET_SEALS returns.
Initialised(q) == "header" \in memory[q]
Sealed(q) == "seals" \in memory[q]

FilesInit ==
    /\ qpc = [q \in Queue |-> "unused"]
    /\ qname = [q \in Queue |-> None]
    /\ entries = [q \in Queue |-> {}]
    /\ opened = [q \in Queue |-> None]
    /\ path = [n \in Name |-> None]
    /\ fds = [f \in Fd |-> None]
    /\ fdOf = [q \in Queue |-> 0]
    /\ crashed = FALSE
    /\ memory = [q \in Queue |-> {}]

-----------------------------------------------------------------------------
(* StreamQueue::create                                                     *)

\* The staging directory and its schema file.  Creations run one at a time,
\* under the mutex of the policy manager, and only for a stream without a
\* queue; a queue of a dead stream with the same name may still be on its way
\* out.  What a killed process left behind blocks its event system directory,
\* so the names in it are not used again.
Stage(q, n) ==
    /\ qpc[q] = "unused"
    /\ \A r \in Queue :
          /\ qpc[r] \notin Creating
          /\ qname[r] = n => qpc[r] # "published"
    /\ path[n] # None => qpc[path[n]] # "gone"
    /\ qpc' = [qpc EXCEPT ![q] = "staged"]
    /\ qname' = [qname EXCEPT ![q] = n]
    /\ entries' = [entries EXCEPT ![q] = {"schema"}]
    /\ UNCHANGED <<opened, path, fds, fdOf, crashed, memory>>

\* memfd_create takes the lowest free descriptor number.
Allocate(q) ==
    /\ qpc[q] = "staged"
    /\ \E f \in Fd :
          /\ fds[f] = None
          /\ \A g \in Fd : g < f => fds[g] # None
          /\ fds' = [fds EXCEPT ![f] = q]
          /\ fdOf' = [fdOf EXCEPT ![q] = f]
    /\ qpc' = [qpc EXCEPT ![q] = "allocated"]
    /\ UNCHANGED <<qname, entries, opened, path, crashed, memory>>

\* Broadcast::create_with_identifier writes the header ...
InitialiseQueue(q) ==
    /\ qpc[q] = "allocated"
    /\ qpc' = [qpc EXCEPT ![q] = "initialised"]
    /\ memory' = [memory EXCEPT ![q] = @ \cup {"header"}]
    /\ UNCHANGED <<qname, entries, opened, path, fds, fdOf, crashed>>

\* ... and F_ADD_SEALS follows.
Seal(q) ==
    /\ qpc[q] = "initialised"
    /\ qpc' = [qpc EXCEPT ![q] = "sealed"]
    /\ memory' = [memory EXCEPT ![q] = @ \cup {"seals"}]
    /\ UNCHANGED <<qname, entries, opened, path, fds, fdOf, crashed>>

Link(q) ==
    /\ qpc[q] = "sealed"
    /\ qpc' = [qpc EXCEPT ![q] = "linked"]
    /\ entries' = [entries EXCEPT ![q] = @ \cup {"link"}]
    /\ UNCHANGED <<qname, opened, path, fds, fdOf, crashed, memory>>

\* Mutant: the destination is cleared first, so the rename always succeeds.
PublishOverOldDirectory(q) ==
    /\ qpc[q] = "linked"
    /\ qpc' = [qpc EXCEPT ![q] = "published"]
    /\ path' = [path EXCEPT ![qname[q]] = q]
    /\ UNCHANGED <<qname, entries, opened, fds, fdOf, crashed, memory>>

\* StagingDirectory::publish: rename replaces nothing but an empty directory.
Publish(q) ==
    /\ qpc[q] = "linked"
    /\ path[qname[q]] # None => entries[path[qname[q]]] = {}
    /\ qpc' = [qpc EXCEPT ![q] = "published"]
    /\ path' = [path EXCEPT ![qname[q]] = q]
    /\ UNCHANGED <<qname, entries, opened, fds, fdOf, crashed, memory>>

\* Any step of the creation fails, the rename onto a directory that is not
\* empty included: the staging directory is removed and the file closed, as
\* far as it had been initialised and sealed by then.
CreateFails(q) ==
    /\ qpc[q] \in Creating
    /\ qpc' = [qpc EXCEPT ![q] = "gone"]
    /\ entries' = [entries EXCEPT ![q] = {}]
    /\ fds' = [f \in Fd |-> IF fds[f] = q THEN None ELSE fds[f]]
    /\ UNCHANGED <<qname, opened, path, fdOf, crashed, memory>>

-----------------------------------------------------------------------------
(* Drop for StreamQueue: remove_dir_all on the path, then the descriptor.  *)

BeginDrop(q) ==
    /\ qpc[q] = "published"
    /\ qpc' = [qpc EXCEPT ![q] = "opening"]
    /\ UNCHANGED <<qname, entries, opened, path, fds, fdOf, crashed, memory>>

\* remove_dir_all opens whatever directory is at the path ...
OpenForRemoval(q) ==
    /\ qpc[q] = "opening"
    /\ opened' = [opened EXCEPT ![q] = path[qname[q]]]
    /\ qpc' = [qpc EXCEPT ![q] = IF path[qname[q]] = None THEN "closing" ELSE "unlinking"]
    /\ UNCHANGED <<qname, entries, path, fds, fdOf, crashed, memory>>

\* ... unlinks its entries through the descriptor, in any order ...
Unlink(q) ==
    /\ qpc[q] = "unlinking"
    /\ \E e \in entries[opened[q]] :
          entries' = [entries EXCEPT ![opened[q]] = @ \ {e}]
    /\ UNCHANGED <<qpc, qname, opened, path, fds, fdOf, crashed, memory>>

\* Mutant: the directory itself is left in place.
RemoveEntriesOnly(q) ==
    /\ qpc[q] = "unlinking"
    /\ entries[opened[q]] = {}
    /\ qpc' = [qpc EXCEPT ![q] = "closing"]
    /\ UNCHANGED <<qname, entries, opened, path, fds, fdOf, crashed, memory>>

\* ... and removes the path, which fails if it now names another directory
\* that is not empty.  The outcome is ignored.
RemoveDirectory(q) ==
    /\ qpc[q] = "unlinking"
    /\ entries[opened[q]] = {}
    /\ LET n == qname[q] IN
       path' = [path EXCEPT ![n] = IF @ # None /\ entries[@] # {} THEN @ ELSE None]
    /\ qpc' = [qpc EXCEPT ![q] = "closing"]
    /\ UNCHANGED <<qname, entries, opened, fds, fdOf, crashed, memory>>

\* The fields are dropped after Drop::drop: the number can be reused from here.
CloseQueueFile(q) ==
    /\ qpc[q] = "closing"
    /\ qpc' = [qpc EXCEPT ![q] = "gone"]
    /\ fds' = [fds EXCEPT ![fdOf[q]] = None]
    /\ UNCHANGED <<qname, entries, opened, path, fdOf, crashed, memory>>

-----------------------------------------------------------------------------
(* The rest of the publishing process.                                     *)

OpenOther ==
    /\ \E f \in Fd :
          /\ fds[f] = None
          /\ \A g \in Fd : g < f => fds[g] # None
          /\ fds' = [fds EXCEPT ![f] = Other]
    /\ UNCHANGED <<qpc, qname, entries, opened, path, fdOf, crashed, memory>>

CloseOther ==
    /\ \E f \in Fd :
          /\ fds[f] = Other
          /\ fds' = [fds EXCEPT ![f] = None]
    /\ UNCHANGED <<qpc, qname, entries, opened, path, fdOf, crashed, memory>>

\* The process is killed: its descriptors are gone, the directories stay, and
\* the process that takes its place may get the same pid.
Crash ==
    /\ ~crashed
    /\ crashed' = TRUE
    /\ qpc' = [q \in Queue |-> IF qpc[q] = "unused" THEN "unused" ELSE "gone"]
    /\ fds' = [f \in Fd |-> None]
    /\ UNCHANGED <<qname, entries, opened, path, fdOf, memory>>

FilesNext ==
    \/ \E q \in Queue :
          \/ \E n \in Name : Stage(q, n)
          \/ Allocate(q)
          \/ InitialiseQueue(q)
          \/ Seal(q)
          \/ Link(q)
          \/ Publish(q)
          \/ CreateFails(q)
          \/ BeginDrop(q)
          \/ OpenForRemoval(q)
          \/ Unlink(q)
          \/ RemoveDirectory(q)
          \/ CloseQueueFile(q)
    \/ OpenOther
    \/ CloseOther
    \/ Crash

-----------------------------------------------------------------------------

\* A published queue stays discoverable until its own stream drops it: neither
\* the removal of an older queue of the same name that is still under way, nor
\* another creation, takes away its directory, an entry or its descriptor.
PublishedStaysDiscoverable ==
    \A q \in Queue :
        qpc[q] = "published" =>
            /\ path[qname[q]] = q
            /\ entries[q] = {"schema", "link"}
            /\ fds[fdOf[q]] = q

\* A directory is left under event-streams only while its queue, or an older
\* one of the same name, is still being dropped: nothing is leaked even though
\* several removals of one path may overlap and every failure is ignored.
NothingLeftBehind ==
    \A n \in Name :
        (path[n] # None /\ ~crashed) =>
            \E q \in Queue : qname[q] = n /\ qpc[q] \in {"published", "opening", "unlinking"}
=============================================================================
