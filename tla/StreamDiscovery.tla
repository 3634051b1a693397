--------------------------- MODULE StreamDiscovery ---------------------------
(***************************************************************************)
(* Explorers that discover streams while they are created and dropped      *)
(* (StreamExplorer::available_streams, AvailableStream::try_new,           *)
(* read_schema and open_queue in event-system/src/backend/linux/           *)
(* subscriber.rs) and connect to them (try_connect_dynamic and             *)
(* try_connect_typed in event-system/src/subscriber.rs), composed with     *)
(* StreamFiles.  Each system call is one action; following the link takes  *)
(* two, the kernel reads it and then looks the descriptor number up.       *)
(***************************************************************************)
EXTENDS StreamFiles

CONSTANTS
    Explorer,
    Type,       \* event types
    TypeOf      \* the event type of the stream that each queue is created for

ASSUME TypeAssumption == TypeOf \in [Queue -> Type]

VARIABLES
    epc,        \* where each explorer is in try_new
    ename,      \* the stream name it got from the directory listing
    dir,        \* the directory object it has opened
    schema,     \* the queue whose schema it has read
    expected,   \* identifier in the name of the link it found
    number,     \* descriptor number that the link leads to
    file,       \* the file it has opened
    decoded     \* the type it decodes messages to

explorerVars == <<epc, ename, dir, schema, expected, number, file, decoded>>
discoveryVars == <<fileVars, explorerVars>>

DiscoveryInit ==
    /\ FilesInit
    /\ epc = [x \in Explorer |-> "idle"]
    /\ ename = [x \in Explorer |-> None]
    /\ dir = [x \in Explorer |-> None]
    /\ schema = [x \in Explorer |-> None]
    /\ expected = [x \in Explorer |-> None]
    /\ number = [x \in Explorer |-> 0]
    /\ file = [x \in Explorer |-> None]
    /\ decoded = [x \in Explorer |-> None]

\* try_new returns; an error only drops this stream from the iterator.
Goto(x, l) == epc' = [epc EXCEPT ![x] = l]

\* read_dir yields the name of a directory.  A name that was listed may be
\* gone, or name another directory, when it is used.
ListStream(x) ==
    /\ epc[x] = "idle"
    /\ \E n \in Name :
          /\ path[n] # None
          /\ ename' = [ename EXCEPT ![x] = n]
    /\ Goto(x, "listed")
    /\ UNCHANGED <<fileVars, dir, schema, expected, number, file, decoded>>

\* Dir::open; the descriptor is used for all further lookups.
OpenDirectory(x) ==
    /\ epc[x] = "listed"
    /\ dir' = [dir EXCEPT ![x] = path[ename[x]]]
    /\ Goto(x, IF path[ename[x]] = None THEN "failed" ELSE "opened")
    /\ UNCHANGED <<fileVars, ename, schema, expected, number, file, decoded>>

\* read_schema
ReadSchema(x) ==
    /\ epc[x] = "opened"
    /\ IF "schema" \in entries[dir[x]]
       THEN /\ schema' = [schema EXCEPT ![x] = dir[x]]
            /\ Goto(x, "schema")
       ELSE Goto(x, "failed") /\ UNCHANGED schema
    /\ UNCHANGED <<fileVars, ename, dir, expected, number, file, decoded>>

\* open_queue: the entry whose name starts with queue-; the rest of the name
\* is the identifier that the queue must have.
FindQueueFile(x) ==
    /\ epc[x] = "schema"
    /\ IF "link" \in entries[dir[x]]
       THEN /\ expected' = [expected EXCEPT ![x] = dir[x]]
            /\ Goto(x, "found")
       ELSE Goto(x, "failed") /\ UNCHANGED expected
    /\ UNCHANGED <<fileVars, ename, dir, schema, number, file, decoded>>

\* openat, first half: the link is still there and is read.
ReadLink(x) ==
    /\ epc[x] = "found"
    /\ IF "link" \in entries[dir[x]]
       THEN /\ number' = [number EXCEPT ![x] = fdOf[dir[x]]]
            /\ Goto(x, "resolving")
       ELSE Goto(x, "failed") /\ UNCHANGED number
    /\ UNCHANGED <<fileVars, ename, dir, schema, expected, file, decoded>>

\* openat, second half: whatever file has that number now, if any.
FollowLink(x) ==
    /\ epc[x] = "resolving"
    /\ file' = [file EXCEPT ![x] = fds[number[x]]]
    /\ Goto(x, IF fds[number[x]] = None THEN "failed" ELSE "followed")
    /\ UNCHANGED <<fileVars, ename, dir, schema, expected, number, decoded>>

\* Mutant: the seals are not looked at.
SkipSealCheck(x) ==
    /\ epc[x] = "followed"
    /\ Goto(x, IF file[x] = Other THEN "failed" ELSE "joining")
    /\ UNCHANGED <<fileVars, ename, dir, schema, expected, number, file, decoded>>

\* F_GET_SEALS.  The queue may have failed or been dropped since the link was
\* followed; its file is what its creation had made of it by then.
CheckSeals(x) ==
    /\ epc[x] = "followed"
    /\ Goto(x, IF file[x] # Other /\ Sealed(file[x]) THEN "joining" ELSE "failed")
    /\ UNCHANGED <<fileVars, ename, dir, schema, expected, number, file, decoded>>

\* Mutant: any queue will do.
JoinAnyQueue(x) ==
    /\ epc[x] = "joining"
    /\ Goto(x, "available")
    /\ UNCHANGED <<fileVars, ename, dir, schema, expected, number, file, decoded>>

\* Broadcast::join_untyped and the comparison of the identifiers.
JoinQueue(x) ==
    /\ epc[x] = "joining"
    /\ Goto(x, IF file[x] = expected[x] THEN "available" ELSE "failed")
    /\ UNCHANGED <<fileVars, ename, dir, schema, expected, number, file, decoded>>

\* try_connect takes one of the subscriber slots of the queue, if there is one.
Connect(x, t) ==
    \/ Goto(x, "failed") /\ UNCHANGED decoded
    \/ Goto(x, "connected") /\ decoded' = [decoded EXCEPT ![x] = t]

\* try_connect_dynamic: messages are decoded with the schema of the stream.
TryConnectDynamic(x) ==
    /\ epc[x] = "available"
    /\ Connect(x, TypeOf[schema[x]])
    /\ UNCHANGED <<fileVars, ename, dir, schema, expected, number, file>>

\* Mutant: the schemas are not compared.
TryConnectUnchecked(x, t) ==
    /\ epc[x] = "available"
    /\ Connect(x, t)
    /\ UNCHANGED <<fileVars, ename, dir, schema, expected, number, file>>

\* try_connect_typed: the schema of the type must be that of the stream.
TryConnectTyped(x, t) ==
    /\ epc[x] = "available"
    /\ IF t # TypeOf[schema[x]]
       THEN Goto(x, "failed") /\ UNCHANGED decoded
       ELSE Connect(x, t)
    /\ UNCHANGED <<fileVars, ename, dir, schema, expected, number, file>>

\* Mutant: the first stream that does not validate ends the listing.
ListingStopsAtError(x) ==
    /\ epc[x] \in {"available", "connected"}
    /\ epc' = [epc EXCEPT ![x] = "idle"]
    /\ ename' = [ename EXCEPT ![x] = None]
    /\ dir' = [dir EXCEPT ![x] = None]
    /\ schema' = [schema EXCEPT ![x] = None]
    /\ expected' = [expected EXCEPT ![x] = None]
    /\ number' = [number EXCEPT ![x] = 0]
    /\ file' = [file EXCEPT ![x] = None]
    /\ decoded' = [decoded EXCEPT ![x] = None]
    /\ UNCHANGED fileVars

\* The iterator goes on with the next entry, or the listing is made again.
NextStream(x) ==
    /\ epc[x] \in {"available", "connected", "failed"}
    /\ epc' = [epc EXCEPT ![x] = "idle"]
    /\ ename' = [ename EXCEPT ![x] = None]
    /\ dir' = [dir EXCEPT ![x] = None]
    /\ schema' = [schema EXCEPT ![x] = None]
    /\ expected' = [expected EXCEPT ![x] = None]
    /\ number' = [number EXCEPT ![x] = 0]
    /\ file' = [file EXCEPT ![x] = None]
    /\ decoded' = [decoded EXCEPT ![x] = None]
    /\ UNCHANGED fileVars

TryNew(x) ==
    \/ OpenDirectory(x)
    \/ ReadSchema(x)
    \/ FindQueueFile(x)
    \/ ReadLink(x)
    \/ FollowLink(x)
    \/ CheckSeals(x)
    \/ JoinQueue(x)

DiscoveryNext ==
    \/ FilesNext /\ UNCHANGED explorerVars
    \/ \E x \in Explorer :
          \/ ListStream(x) \/ TryNew(x) \/ NextStream(x)
          \/ TryConnectDynamic(x) \/ \E t \in Type : TryConnectTyped(x, t)

DiscoverySpec == DiscoveryInit /\ [][DiscoveryNext]_discoveryVars

\* Explorers run, and list every name again and again.
DiscoveryFairness ==
    \A x \in Explorer :
        /\ WF_discoveryVars(TryNew(x))
        /\ WF_discoveryVars(NextStream(x))
        /\ \A n \in Name : SF_discoveryVars(ListStream(x) /\ ename'[x] = n)

FairDiscoverySpec == DiscoverySpec /\ DiscoveryFairness

-----------------------------------------------------------------------------

\* An AvailableStream pairs the schema, the queue and the name of one and the
\* same stream, however often streams were dropped and created under that name
\* and descriptor numbers were reused while try_new was running; a subscriber
\* decodes the messages of that queue to the type they were written from.
SchemaBelongsToQueue ==
    \A x \in Explorer :
        /\ epc[x] \in {"available", "connected"} =>
              /\ schema[x] = file[x]
              /\ qname[file[x]] = ename[x]
        /\ epc[x] = "connected" => decoded[x] = TypeOf[file[x]]

\* join_untyped only ever maps a queue that was initialised and sealed against
\* resizing, its safety condition, even when the link leads to the descriptor
\* of a queue that is just being created, and whether that creation goes on,
\* fails or is cut short by a crash while the explorer has its file open.
JoinsOnlySealedQueues ==
    \A x \in Explorer :
        epc[x] \in {"joining", "available", "connected"} =>
            file[x] \in Queue /\ Initialised(file[x]) /\ Sealed(file[x])

\* A stream that stays published is found: no history of earlier streams of
\* that name and no reuse of descriptors hides it from an explorer for good.
PublishedStreamsAreFound ==
    \A x \in Explorer, q \in Queue :
        []<>(qpc[q] # "published" \/ (epc[x] = "available" /\ file[x] = q))
=============================================================================
