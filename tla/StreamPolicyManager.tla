------------------------- MODULE StreamPolicyManager -------------------------
(***************************************************************************)
(* The streams of one event system and the policy that enables and         *)
(* disables them (StreamPolicyManager in event-system/src/backend/linux/   *)
(* stream_policy.rs, EventSystem::create_stream and set_stream_policy and  *)
(* EventStream::apply_stream_rule in backend/linux.rs).                    *)
(*                                                                         *)
(* The manager works under one mutex, but it only has weak references:     *)
(* other threads clone and drop the handles of a stream (its factory and   *)
(* publishers) at any time, and the last one to go tears the stream down   *)
(* without the mutex, removing its directory in steps.  The manager's own  *)
(* upgraded reference can be that last one.                                *)
(*                                                                         *)
(* The references are kept in a vector.  Here they are a set, which is     *)
(* visited in any order: the rules of two streams do not depend on each    *)
(* other, and what holds for every order holds for that of the vector.     *)
(***************************************************************************)
EXTENDS Integers

CONSTANTS
    Stream,       \* the EventStreams that create_stream makes
    ManagedName,  \* their names
    MaxHandles,   \* bound on the handles of one stream
    MaxPolicies,  \* bound on the calls of set_stream_policy
    Nil

ASSUME ManagerAssumption ==
    /\ Nil \notin Stream
    /\ MaxHandles \in Nat
    /\ MaxPolicies \in Nat

VARIABLES
    spc,        \* life of each stream
    sname,      \* EventStream::stream_name
    handles,    \* strong references to a stream outside the manager
    queue,      \* whether StreamState::queue is Some
    failed,     \* the last attempt to create the stream's queue failed
    dirAt,      \* event-streams/<name>: the stream whose directory is there
    emptied,    \* streams whose directory has no entries left
    streams,    \* StreamPolicyManager::streams, the weak references
    policy,     \* StreamPolicyManager::stream_policy, as the names that are on
    mutex,      \* what the holder of the manager's mutex is doing
    current,    \* the stream it is working on, to which it holds a reference
    todo,       \* the streams set_stream_policy has yet to visit
    sets        \* calls of set_stream_policy so far

streamState == <<spc, sname, handles, queue, failed, dirAt, emptied>>
managerState == <<streams, policy, mutex, current, todo, sets>>
vars == <<spc, sname, handles, queue, failed, dirAt, emptied,
          streams, policy, mutex, current, todo, sets>>

Init ==
    /\ spc = [s \in Stream |-> "unused"]
    /\ sname = [s \in Stream |-> Nil]
    /\ handles = [s \in Stream |-> 0]
    /\ queue = [s \in Stream |-> FALSE]
    /\ failed = [s \in Stream |-> FALSE]
    /\ dirAt = [n \in ManagedName |-> Nil]
    /\ emptied = {}
    /\ streams = {}
    /\ policy = {}                 \* StreamPolicy::default, all off
    /\ mutex = "free"
    /\ current = Nil
    /\ todo = {}
    /\ sets = 0

\* Arc::strong_count
StrongCount(s) == handles[s] + (IF current = s THEN 1 ELSE 0)

\* Mutant: a stream with a single handle counts as dead.
StillReferenced(s) == StrongCount(s) > 1

\* Mutant: the names of the registered streams are not compared.
NoNameInUse(n) == FALSE

\* Weak::upgrade succeeds, and prune_dead_streams keeps the stream.
Alive(s) == StrongCount(s) > 0

\* prune_dead_streams
Pruned == {s \in streams : Alive(s)}

NameInUse(n) == \E s \in streams : Alive(s) /\ sname[s] = n

\* The directory at a name can be replaced by rename.
Vacant(n) == dirAt[n] = Nil \/ dirAt[n] \in emptied

-----------------------------------------------------------------------------
(* EventStream::apply_stream_rule, for the stream `s` with reference held. *)

\* Creating the queue ends in the rename, and can fail for other reasons too.
\* Dropping it removes the directory; the streams the policy applies to are
\* alive, so nobody else is removing that one.
ApplyStreamRule(s) ==
    \/ /\ sname[s] \in policy /\ ~queue[s] /\ Vacant(sname[s])
       /\ queue' = [queue EXCEPT ![s] = TRUE]
       /\ dirAt' = [dirAt EXCEPT ![sname[s]] = s]
       /\ emptied' = emptied \ {s}
       /\ failed' = [failed EXCEPT ![s] = FALSE]
    \/ /\ sname[s] \in policy /\ ~queue[s]
       /\ failed' = [failed EXCEPT ![s] = TRUE]
       /\ UNCHANGED <<queue, dirAt, emptied>>
    \/ /\ sname[s] \notin policy /\ queue[s]
       /\ queue' = [queue EXCEPT ![s] = FALSE]
       /\ dirAt' = [dirAt EXCEPT ![sname[s]] = Nil]
       /\ UNCHANGED <<emptied, failed>>
    \/ /\ (sname[s] \in policy) = queue[s]
       /\ UNCHANGED <<queue, dirAt, emptied, failed>>

-----------------------------------------------------------------------------
(* EventSystem::create_stream and register_new_stream                      *)

CreateStream(s, n) ==
    /\ spc[s] = "unused"
    /\ mutex = "free"
    /\ streams' = Pruned
    /\ IF NameInUse(n)
       THEN /\ spc' = [spc EXCEPT ![s] = "gone"]   \* StreamNameAlreadyInUse
            /\ UNCHANGED <<sname, mutex, current>>
       ELSE /\ spc' = [spc EXCEPT ![s] = "new"]
            /\ sname' = [sname EXCEPT ![s] = n]
            /\ mutex' = "registering"
            /\ current' = s
    /\ UNCHANGED <<handles, queue, failed, dirAt, emptied, policy, todo, sets>>

\* `?` drops the stream when the rule cannot be applied; otherwise the caller
\* gets its first handle.
RegisterStream ==
    /\ mutex = "registering"
    /\ ApplyStreamRule(current)
    /\ IF failed'[current]
       THEN /\ spc' = [spc EXCEPT ![current] = "gone"]
            /\ UNCHANGED <<streams, handles>>
       ELSE /\ spc' = [spc EXCEPT ![current] = "live"]
            /\ handles' = [handles EXCEPT ![current] = 1]
            /\ streams' = streams \cup {current}
    /\ mutex' = "free"
    /\ current' = Nil
    /\ UNCHANGED <<sname, policy, todo, sets>>

-----------------------------------------------------------------------------
(* StreamPolicyManager::set_stream_policy                                  *)

\* The streams are visited as pruned here.
SetStreamPolicy(names) ==
    /\ mutex = "free"
    /\ sets < MaxPolicies
    /\ sets' = sets + 1
    /\ streams' = Pruned
    /\ todo' = Pruned
    /\ policy' = names
    /\ mutex' = "setting"
    /\ UNCHANGED <<streamState, current>>

\* Weak::upgrade of the next stream.
VisitStream ==
    /\ mutex = "setting"
    /\ current = Nil
    /\ \E s \in todo :
          /\ todo' = todo \ {s}
          /\ current' = IF Alive(s) THEN s ELSE Nil
    /\ UNCHANGED <<streamState, streams, policy, mutex, sets>>

\* The rule is applied (the outcome is ignored) and the reference dropped,
\* which tears the stream down if all handles went away meanwhile.
UpdateStream ==
    /\ mutex = "setting"
    /\ current # Nil
    /\ ApplyStreamRule(current)
    /\ spc' = [spc EXCEPT ![current] = IF handles[current] = 0 THEN "dying" ELSE @]
    /\ current' = Nil
    /\ UNCHANGED <<sname, handles, streams, policy, mutex, todo, sets>>

PolicyIsSet ==
    /\ mutex = "setting"
    /\ current = Nil
    /\ todo = {}
    /\ mutex' = "free"
    /\ UNCHANGED <<streamState, streams, policy, current, todo, sets>>

-----------------------------------------------------------------------------
(* The holders of PublisherFactory and Publisher handles.                  *)

CloneHandle(s) ==
    /\ handles[s] \in 1..(MaxHandles - 1)
    /\ handles' = [handles EXCEPT ![s] = @ + 1]
    /\ UNCHANGED <<spc, sname, queue, failed, dirAt, emptied, managerState>>

DropHandle(s) ==
    /\ handles[s] > 0
    /\ handles' = [handles EXCEPT ![s] = @ - 1]
    /\ spc' = [spc EXCEPT ![s] = IF StrongCount(s) = 1 THEN "dying" ELSE @]
    /\ UNCHANGED <<sname, queue, failed, dirAt, emptied, managerState>>

\* Mutant: the stream goes away without removing its directory.
LeaveDirectory(s) ==
    /\ spc[s] = "dying"
    /\ spc' = [spc EXCEPT ![s] = "gone"]
    /\ UNCHANGED <<sname, handles, queue, failed, dirAt, emptied, managerState>>

\* Drop for StreamQueue, in whatever thread dropped the last reference:
\* remove_dir_all first empties the directory ...
EmptyDirectory(s) ==
    /\ spc[s] = "dying"
    /\ IF queue[s]
       THEN /\ emptied' = emptied \cup {s}
            /\ spc' = [spc EXCEPT ![s] = "removing"]
       ELSE /\ spc' = [spc EXCEPT ![s] = "gone"]
            /\ UNCHANGED emptied
    /\ UNCHANGED <<sname, handles, queue, failed, dirAt, managerState>>

\* Mutant: whatever has the path is removed.
RemoveWhatIsThere(s) ==
    /\ spc[s] = "removing"
    /\ spc' = [spc EXCEPT ![s] = "gone"]
    /\ queue' = [queue EXCEPT ![s] = FALSE]
    /\ dirAt' = [dirAt EXCEPT ![sname[s]] = Nil]
    /\ UNCHANGED <<sname, handles, failed, emptied, managerState>>

\* ... and then removes what is at its path, unless that is not empty.
RemoveStreamDirectory(s) ==
    /\ spc[s] = "removing"
    /\ spc' = [spc EXCEPT ![s] = "gone"]
    /\ queue' = [queue EXCEPT ![s] = FALSE]
    /\ dirAt' = [dirAt EXCEPT ![sname[s]] = IF Vacant(sname[s]) THEN Nil ELSE @]
    /\ UNCHANGED <<sname, handles, failed, emptied, managerState>>

-----------------------------------------------------------------------------

\* The program has dropped every stream it will make.
AllDropped ==
    /\ mutex = "free"
    /\ \A s \in Stream : spc[s] = "gone"
    /\ UNCHANGED vars

Next ==
    \/ \E s \in Stream, n \in ManagedName : CreateStream(s, n)
    \/ RegisterStream
    \/ \E names \in SUBSET ManagedName : SetStreamPolicy(names)
    \/ VisitStream
    \/ UpdateStream
    \/ PolicyIsSet
    \/ \E s \in Stream :
          \/ CloneHandle(s)
          \/ DropHandle(s)
          \/ EmptyDirectory(s)
          \/ RemoveStreamDirectory(s)
    \/ AllDropped

Spec == Init /\ [][Next]_vars

-----------------------------------------------------------------------------

\* Two streams that can both be used never have the same name, although a name
\* is free again as soon as the last handle is dropped, before its directory
\* is removed.
LiveNamesUnique ==
    \A s, t \in Stream :
        spc[s] = "live" /\ spc[t] = "live" /\ sname[s] = sname[t] => s = t

\* Between calls on the manager every usable stream follows the current policy:
\* none that is off has a queue, and one that is on has a queue unless the last
\* attempt to create it failed.  No stream misses a policy because it was
\* created, pruned or half dropped while another call was under way.
StreamsFollowPolicy ==
    mutex = "free" =>
        \A s \in Stream :
            spc[s] = "live" =>
                IF sname[s] \in policy THEN queue[s] \/ failed[s] ELSE ~queue[s]

\* The directory of an enabled stream stays in place while the stream can be
\* used: a dead stream of the same name that is still being torn down, or the
\* failed creation of another one, does not take it away.
EnabledStreamsArePublished ==
    \A s \in Stream :
        spc[s] = "live" /\ queue[s] => dirAt[sname[s]] = s /\ s \notin emptied

\* Creating the queue of a usable stream fails for good only by a failure of
\* the system: a name is blocked by a dead stream no longer than that stream
\* takes to be torn down.
NamesAreFreedAgain ==
    \A n \in ManagedName :
        dirAt[n] # Nil => spc[dirAt[n]] \in {"live", "dying", "removing"}
=============================================================================
