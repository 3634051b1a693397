---------------------------- MODULE SessionLayout ----------------------------
(***************************************************************************)
(* Setting up the two sides of a scheduling session: ClientLogon::validate *)
(* and its helpers in scheduler-handshake/src/shared.rs,                   *)
(* Server::setup_session in server.rs and client::setup_session in         *)
(* client.rs.  The two sides agree on nothing but the logon and the order  *)
(* of the files, which carry no label: the client takes a file for what    *)
(* its position says it is.                                                *)
(*                                                                         *)
(* Integers are as wide as UsizeMax and U32Max say, an Option<usize> is a  *)
(* number or None.                                                         *)
(***************************************************************************)
EXTENDS Integers, Sequences

CONSTANTS
    Logon,          \* the logons a client may send
    UsizeMax,       \* usize::MAX
    U32Max,         \* u32::MAX
    OffsetLimit,    \* POINTER_OFFSET_LIMIT, isize::MAX
    StandardPage,   \* STANDARD_PAGE_SIZE
    HugePage,       \* HUGE_PAGE_SIZE
    MaxWorkers,     \* MAX_WORKERS
    QueueHeader,    \* bytes of a queue before its cells (shaq)
    CellSize        \* bytes of a cell (shaq); the message types differ only in it

ASSUME WidthAssumption ==
    /\ UsizeMax \in Nat /\ U32Max \in 0..UsizeMax /\ OffsetLimit \in 0..UsizeMax
    /\ StandardPage \in Nat \ {0}
    /\ HugePage \in Nat /\ HugePage >= StandardPage /\ HugePage % StandardPage = 0
    /\ MaxWorkers \in Nat
    /\ QueueHeader \in Nat /\ CellSize \in Nat

Queues == {"tpu_to_pack", "progress_tracker", "pack_to_worker", "worker_to_pack",
           "pack_to_check_worker", "check_worker_to_pack",
           "pack_to_simulate_worker", "simulate_worker_to_pack"}

GLOBAL_SHMEM == 3
WORKER_SHMEM == 2
CHECK_SHMEM == 2
SIMULATE_SHMEM == 2
CMSG_MAX_FILES == GLOBAL_SHMEM + MaxWorkers * WORKER_SHMEM + CHECK_SHMEM + SIMULATE_SHMEM

ASSUME LogonAssumption ==
    /\ CMSG_MAX_FILES =< UsizeMax       \* a constant of type usize
    /\ Logon \subseteq [worker_count : 0..UsizeMax, check_worker_count : 0..UsizeMax,
                        simulate_worker_count : 0..UsizeMax, allocator_size : 0..UsizeMax,
                        allocator_handles : 0..UsizeMax, queue : [Queues -> 0..UsizeMax]]

None == -1

Checked(n) == IF n \in 0..UsizeMax THEN n ELSE None

VARIABLES
    logon,      \* the client's logon
    phase,      \* what is being done
    files,      \* what the server has created, in protocol order
    capacity,   \* handles the allocator was created for
    handles,    \* handles the server has taken
    joined      \* the client's endpoints: what it takes each file for

setupVars == <<logon, phase, files, capacity, handles, joined>>

-----------------------------------------------------------------------------
(* shared.rs                                                               *)

\* Rounds up to a page boundary, within the limit.
CheckedFileSize(size, page) ==
    LET n == Checked(((size + page - 1) \div page) * page)
    IN  IF n =< OffsetLimit THEN n ELSE None

\* shaq's try_minimum_file_size: the capacity is rounded up to a power of two.
MinimumFileSize(cap) ==
    LET cells == CHOOSE n \in {2^k : k \in 0..cap} : n >= cap /\ (n = 1 \/ n \div 2 < cap)
    IN  Checked(QueueHeader + cells * CellSize)

ExpectedFileCount(l) ==
    Checked(l.worker_count * WORKER_SHMEM + GLOBAL_SHMEM
            + (IF l.check_worker_count > 0 THEN CHECK_SHMEM ELSE 0)
            + (IF l.simulate_worker_count > 0 THEN SIMULATE_SHMEM ELSE 0))

\* Mutant: the handle of the TPU is forgotten.
AllocatorCountWithoutTpu(l) ==
    LET n == Checked(l.worker_count + l.check_worker_count + l.simulate_worker_count
                     + l.allocator_handles)
    IN  IF l.allocator_handles = 0 \/ n > U32Max THEN None ELSE n

\* One handle for each worker, for the external process and one for the TPU.
AllocatorCount(l) ==
    LET n == Checked(l.worker_count + l.check_worker_count + l.simulate_worker_count
                     + l.allocator_handles + 1)
    IN  IF l.allocator_handles = 0 \/ n > U32Max THEN None ELSE n

ValidQueue(l, q, page) ==
    /\ MinimumFileSize(l.queue[q]) # None
    /\ CheckedFileSize(MinimumFileSize(l.queue[q]), page) # None

\* Mutant: the queues of the simulate workers are not looked at.
ValidateWithoutSimulate(l) ==
    /\ l.worker_count \in 1..MaxWorkers
    /\ l.check_worker_count =< MaxWorkers
    /\ l.simulate_worker_count =< MaxWorkers
    /\ AllocatorCount(l) # None
    /\ CheckedFileSize(l.allocator_size, HugePage) # None
    /\ ValidQueue(l, "progress_tracker", StandardPage)
    /\ \A q \in {"tpu_to_pack", "pack_to_worker", "worker_to_pack"} :
          ValidQueue(l, q, HugePage)
    /\ l.check_worker_count > 0 =>
          \A q \in {"pack_to_check_worker", "check_worker_to_pack"} : ValidQueue(l, q, HugePage)

\* Mutant: any number of workers.
ValidateAnyWorkers(l) ==
    /\ l.worker_count > 0
    /\ AllocatorCount(l) # None
    /\ CheckedFileSize(l.allocator_size, HugePage) # None
    /\ \A q \in Queues : ValidQueue(l, q, HugePage)

Validate(l) ==
    /\ l.worker_count \in 1..MaxWorkers
    /\ l.check_worker_count =< MaxWorkers
    /\ l.simulate_worker_count =< MaxWorkers
    /\ AllocatorCount(l) # None
    /\ CheckedFileSize(l.allocator_size, HugePage) # None
    /\ ValidQueue(l, "progress_tracker", StandardPage)
    /\ \A q \in {"tpu_to_pack", "pack_to_worker", "worker_to_pack"} :
          ValidQueue(l, q, HugePage)
    /\ l.check_worker_count > 0 =>
          \A q \in {"pack_to_check_worker", "check_worker_to_pack"} : ValidQueue(l, q, HugePage)
    /\ l.simulate_worker_count > 0 =>
          \A q \in {"pack_to_simulate_worker", "simulate_worker_to_pack"} :
              ValidQueue(l, q, HugePage)

-----------------------------------------------------------------------------
(* server.rs                                                               *)

SetupInit ==
    /\ logon \in Logon
    /\ phase = "validating"
    /\ files = <<>>
    /\ capacity = 0
    /\ handles = 0
    /\ joined = <<>>

ValidateLogon ==
    /\ phase = "validating"
    /\ phase' = IF Validate(logon) THEN "allocator" ELSE "rejected"
    /\ UNCHANGED <<logon, files, capacity, handles, joined>>

\* A file whose size was rounded to huge pages, or else to standard ones.
SizeFits(size) ==
    /\ size # None
    /\ CheckedFileSize(size, HugePage) # None \/ CheckedFileSize(size, StandardPage) # None

\* create_allocator, whose first handle is that of the TPU.
CreateAllocator ==
    /\ phase = "allocator"
    /\ IF AllocatorCount(logon) = None
       THEN phase' = "panic" /\ UNCHANGED <<files, capacity, handles>>
       ELSE IF ~SizeFits(logon.allocator_size)
       THEN phase' = "unrepresentable" /\ UNCHANGED <<files, capacity, handles>>
       ELSE /\ phase' = "global"
            /\ files' = <<[queue |-> "allocator", worker |-> 0, side |-> "allocator"]>>
            /\ capacity' = AllocatorCount(logon)
            /\ handles' = 1
    /\ UNCHANGED <<logon, joined>>

File(q, w, s) == [queue |-> q, worker |-> w, side |-> s]

\* Creates the files fs and takes n allocator handles (join_from_existing).
Create(fs, n, next) ==
    /\ IF \E i \in DOMAIN fs : ~SizeFits(MinimumFileSize(logon.queue[fs[i].queue]))
       THEN phase' = "unrepresentable" /\ UNCHANGED <<files, handles>>
       ELSE IF handles + n > capacity
       THEN phase' = "no handles" /\ UNCHANGED <<files, handles>>
       ELSE /\ phase' = next
            /\ files' = files \o fs
            /\ handles' = handles + n
    /\ UNCHANGED <<logon, capacity, joined>>

CreateGlobalQueues ==
    /\ phase = "global"
    /\ Create(<<File("tpu_to_pack", 0, "producer"), File("progress_tracker", 0, "producer")>>,
              0, "workers")

\* Mutant: the two queues of a worker are sent in the other order.
CreateWorkerSwapped ==
    /\ phase = "workers"
    /\ LET w == (Len(files) - GLOBAL_SHMEM) \div WORKER_SHMEM IN
       IF w < logon.worker_count
       THEN Create(<<File("worker_to_pack", w + 1, "producer"),
                     File("pack_to_worker", w + 1, "consumer")>>, 1, "workers")
       ELSE Create(<<>>, 0, "check")

\* The try_fold over the workers, one at a time.
CreateWorker ==
    /\ phase = "workers"
    /\ LET w == (Len(files) - GLOBAL_SHMEM) \div WORKER_SHMEM IN
       IF w < logon.worker_count
       THEN Create(<<File("pack_to_worker", w + 1, "consumer"),
                     File("worker_to_pack", w + 1, "producer")>>, 1, "workers")
       ELSE Create(<<>>, 0, "check")

\* All check workers share one pair of MPMC queues.
CreateCheckQueues ==
    /\ phase = "check"
    /\ IF logon.check_worker_count = 0
       THEN Create(<<>>, 0, "simulate")
       ELSE Create(<<File("pack_to_check_worker", 0, "consumer"),
                     File("check_worker_to_pack", 0, "producer")>>,
                   logon.check_worker_count, "simulate")

CreateSimulateQueues ==
    /\ phase = "simulate"
    /\ IF logon.simulate_worker_count = 0
       THEN Create(<<>>, 0, "sent")
       ELSE Create(<<File("pack_to_simulate_worker", 0, "consumer"),
                     File("simulate_worker_to_pack", 0, "producer")>>,
                   logon.simulate_worker_count, "sent")

\* Any creation can fail for want of resources; what exists is dropped.
SetupFails ==
    /\ phase \in {"allocator", "global", "workers", "check", "simulate"}
    /\ phase' = "failed"
    /\ files' = <<>>
    /\ handles' = 0
    /\ UNCHANGED <<logon, capacity, joined>>

-----------------------------------------------------------------------------
(* client.rs                                                               *)

\* What the client takes the k-th file of its part for.
JoinGlobal(k) ==
    CASE k = 1 -> File("allocator", 0, "allocator")
      [] k = 2 -> File("tpu_to_pack", 0, "consumer")
      [] k = 3 -> File("progress_tracker", 0, "consumer")

JoinWorker(k) ==
    IF k % 2 = 1 THEN File("pack_to_worker", (k + 1) \div 2, "producer")
                 ELSE File("worker_to_pack", k \div 2, "consumer")

JoinCheck(k) ==
    IF k = 1 THEN File("pack_to_check_worker", 0, "producer")
             ELSE File("check_worker_to_pack", 0, "consumer")

JoinSimulate(k) ==
    IF k = 1 THEN File("pack_to_simulate_worker", 0, "producer")
             ELSE File("simulate_worker_to_pack", 0, "consumer")

\* The list is split by the counts in the logon, and a part of two files is a
\* pair of queues.
JoinAt(k) ==
    LET workers == logon.worker_count * WORKER_SHMEM
        check == IF logon.check_worker_count > 0 THEN CHECK_SHMEM ELSE 0
    IN  IF k =< GLOBAL_SHMEM THEN JoinGlobal(k)
        ELSE IF k =< GLOBAL_SHMEM + workers THEN JoinWorker(k - GLOBAL_SHMEM)
        ELSE IF k =< GLOBAL_SHMEM + workers + check THEN JoinCheck(k - GLOBAL_SHMEM - workers)
        ELSE JoinSimulate(k - GLOBAL_SHMEM - workers - check)

\* setup_session, in client.rs.
ClientSetup ==
    /\ phase = "sent"
    /\ IF Len(files) # ExpectedFileCount(logon)
       THEN phase' = "protocol violation" /\ UNCHANGED joined
       ELSE phase' = "session" /\ joined' = [k \in DOMAIN files |-> JoinAt(k)]
    /\ UNCHANGED <<logon, files, capacity, handles>>

\* Both sides have returned.
Finished ==
    /\ phase \in {"session", "rejected", "failed"}
    /\ UNCHANGED setupVars

SetupNext ==
    \/ ValidateLogon
    \/ CreateAllocator
    \/ CreateGlobalQueues
    \/ CreateWorker
    \/ CreateCheckQueues
    \/ CreateSimulateQueues
    \/ SetupFails
    \/ ClientSetup
    \/ Finished

SetupSpec == SetupInit /\ [][SetupNext]_setupVars

-----------------------------------------------------------------------------

\* A logon that passes validate can be set up as far as arithmetic goes: the
\* expect in create_allocator does not fire, no size turns out not to be
\* representable, the allocator has a handle for every worker, and the client
\* finds as many files as it expects.
ValidatedMeansRepresentable ==
    phase \notin {"panic", "unrepresentable", "no handles", "protocol violation"}

\* The handles that the external process was promised are still free when the
\* server has taken all of its own.
PromisedHandlesAreFree ==
    phase \in {"sent", "session"} => capacity - handles >= logon.allocator_handles

\* Every file fits into the control message buffer that the client provides,
\* so none is cut off.
FilesFitControlMessage == Len(files) =< CMSG_MAX_FILES

\* The client takes every file for what the server made it, for the same
\* worker, and the two are the opposite ends of the queue.
EndpointsMatch ==
    phase = "session" =>
        /\ DOMAIN joined = DOMAIN files
        /\ \A k \in DOMAIN files :
              /\ joined[k].queue = files[k].queue
              /\ joined[k].worker = files[k].worker
              /\ files[k].queue = "allocator" \/ joined[k].side # files[k].side
=============================================================================
