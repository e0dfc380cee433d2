------------------------------ MODULE PoolJobs ------------------------------
(***************************************************************************)
(* One job of the compute pool (PoolService in src/artcb/pool/service.py,  *)
(* served by api/pool_routes.py): its owner cuts a text into chunks, sends *)
(* each to a worker, collects the results and mints one block of them.     *)
(*                                                                         *)
(* Every file is read whole, changed in memory and written whole, and no   *)
(* lock is held in between: a thread's write carries what it read earlier. *)
(* write_text truncates first, so a reader may find the file of a thread   *)
(* that is writing empty, and a crash may leave it so.                     *)
(*                                                                         *)
(* The job is created already (create_job writes it before any chunk is    *)
(* sent); encryption, reasoning and scores are abstracted to "a result".   *)
(***************************************************************************)
EXTENDS Naturals

CONSTANTS
    Chunk,           \* chunks of the job
    PoolNode,        \* nodes of the pool
    Owner,           \* the node that created the job
    WorkerOf,        \* the node each chunk is assigned to
    PoolThread,      \* threads serving requests, on any node
    NoJob,           \* the jobs file was left empty by a crash
    PoolIdle,        \* a thread that serves no request
    MaxBlocks        \* bound on the blocks minted

ASSUME PoolAssumption ==
    /\ Owner \in PoolNode /\ WorkerOf \in [Chunk -> PoolNode] /\ MaxBlocks \in Nat

\* The job as the owner's file has it, and the lines of a worker's file: for
\* each chunk the statuses of its lines (a chunk sent twice to the owner
\* itself has several), and whether they name an owner_callback_base, which
\* receive_incoming_chunk does not require.  The owner itself needs none.
Job      == [status: {"dispatched", "ready_finalize", "completed"}, done: SUBSET Chunk]
Incoming == [Chunk -> [lines: SUBSET {"pending", "done"}, callback: BOOLEAN]]

NoIncoming == [c \in Chunk |-> [lines |-> {}, callback |-> TRUE]]

PoolRequest ==
    [pc: {"queue", "finish", "post", "answer"}, chunk: Chunk, items: Incoming]
        \cup [pc: {"collect"}, chunk: Chunk, items: Incoming, job: Job]
        \cup [pc: {"mint", "complete"}, job: Job]

VARIABLES
    job,         \* jobs.jsonl of the owner
    incoming,    \* incoming[n]: incoming_chunks.jsonl of node n
    delivered,   \* chunks whose result the owner has written once (history)
    minted,      \* blocks made from the job (history)
    request      \* request[t]: what thread t is serving, with what it has read

poolVars == <<job, incoming, delivered, minted, request>>

PoolInit ==
    /\ job = [status |-> "dispatched", done |-> {}]
    /\ incoming = [n \in PoolNode |-> NoIncoming]
    /\ delivered = {} /\ minted = 0
    /\ request = [t \in PoolThread |-> PoolIdle]

-----------------------------------------------------------------------------
\* What a reader finds in a file: empty while a thread is writing it.
WritesJob(t) == request[t] # PoolIdle /\ request[t].pc \in {"collect", "complete"}
WritesIncoming(t, n) ==
    /\ request[t] # PoolIdle /\ request[t].pc \in {"queue", "finish"}
    /\ WorkerOf[request[t].chunk] = n

SeenJob == {job} \cup {NoJob : t \in {u \in PoolThread : WritesJob(u)}}
SeenIncoming(n) ==
    {incoming[n]} \cup {NoIncoming : t \in {u \in PoolThread : WritesIncoming(u, n)}}

Serve(t, r) == request' = [request EXCEPT ![t] = r]

-----------------------------------------------------------------------------
\* dispatch_to_peers, a chunk of the owner itself: a line is appended with
\* the status the chunk had when the job was read, with no look at the file.
DispatchLocal(c) ==
    /\ WorkerOf[c] = Owner
    /\ \E s \in {"pending"} \cup {"done" : d \in {c} \cap delivered} :
           incoming' = [incoming EXCEPT ![Owner][c].lines = @ \cup {s}]
    /\ UNCHANGED <<job, delivered, minted, request>>

\* dispatch_to_peers, a remote chunk, and receive_incoming_chunk: a chunk the
\* worker has already is answered "already_received" and changes nothing.
ReceiveChunk(t, c) ==
    /\ request[t] = PoolIdle /\ WorkerOf[c] # Owner
    /\ \E items \in SeenIncoming(WorkerOf[c]), callback \in BOOLEAN :
           /\ items[c].lines = {}
           /\ Serve(t, [pc |-> "queue", chunk |-> c,
                        items |-> [items EXCEPT ![c] =
                            [lines |-> {"pending"}, callback |-> callback]]])
    /\ UNCHANGED <<job, incoming, delivered, minted>>

\* Its _save_incoming_all, and the one of process_incoming_chunk.
SaveIncoming(t) ==
    /\ request[t] # PoolIdle /\ request[t].pc \in {"queue", "finish"}
    /\ incoming' = [incoming EXCEPT ![WorkerOf[request[t].chunk]] = request[t].items]
    /\ Serve(t, PoolIdle)
    /\ UNCHANGED <<job, delivered, minted>>

-----------------------------------------------------------------------------
\* process_incoming_chunk: the chunk is looked up whatever its status, and
\* reasoned about; the result is then posted to the owner, or to nobody when
\* the owner is another node and the line names no address.
ProcessChunk(t, c) ==
    /\ request[t] = PoolIdle
    /\ \E items \in SeenIncoming(WorkerOf[c]) :
           /\ items[c].lines # {}
           /\ Serve(t, [pc |-> IF items[c].callback THEN "post" ELSE "answer",
                        chunk |-> c, items |-> items])
    /\ UNCHANGED <<job, incoming, delivered, minted>>

\* Seeded fault: the last result to come is taken for the last one missing.
WithResultCounted(j, c) ==
    [status |-> IF Chunk \subseteq (delivered \cup {c}) THEN "ready_finalize" ELSE j.status,
     done |-> j.done \cup {c}]

WithResult(j, c) ==
    LET done == j.done \cup {c} IN
        [status |-> IF done = Chunk THEN "ready_finalize" ELSE j.status, done |-> done]

\* receive_result at the owner: the job is read and the result noted in it.
ReceiveResult(t) ==
    /\ request[t] # PoolIdle /\ request[t].pc = "post"
    /\ \E j \in SeenJob \ {NoJob} :
           Serve(t, [pc |-> "collect", chunk |-> request[t].chunk,
                     items |-> request[t].items, job |-> WithResult(j, request[t].chunk)])
    /\ UNCHANGED <<job, incoming, delivered, minted>>

\* Its _update_job.
SaveResult(t) ==
    /\ request[t] # PoolIdle /\ request[t].pc = "collect"
    /\ job' = request[t].job
    /\ delivered' = delivered \cup {request[t].chunk}
    /\ Serve(t, [pc |-> "answer", chunk |-> request[t].chunk, items |-> request[t].items])
    /\ UNCHANGED <<incoming, minted>>

\* Seeded fault: a failed callback is logged and not raised.
AnsweredOrNot(t) == request[t] # PoolIdle /\ request[t].pc \in {"post", "answer"}

\* process_incoming_chunk goes on when the owner has answered, or was not asked.
Answered(t) == request[t] # PoolIdle /\ request[t].pc = "answer"

MarkDone(t) ==
    /\ Answered(t)
    /\ Serve(t, [pc |-> "finish", chunk |-> request[t].chunk,
                 items |-> [request[t].items EXCEPT ![request[t].chunk].lines = {"done"}]])
    /\ UNCHANGED <<job, incoming, delivered, minted>>

-----------------------------------------------------------------------------
\* finalize_job: refused while a chunk is missing; the status is not looked at.
FinalizeJob(t) ==
    /\ request[t] = PoolIdle
    /\ \E j \in SeenJob \ {NoJob} : j.done = Chunk /\ Serve(t, [pc |-> "mint", job |-> j])
    /\ UNCHANGED <<job, incoming, delivered, minted>>

Mint(t) ==
    /\ request[t] # PoolIdle /\ request[t].pc = "mint" /\ minted < MaxBlocks
    /\ minted' = minted + 1
    /\ Serve(t, [pc |-> "complete", job |-> [request[t].job EXCEPT !.status = "completed"]])
    /\ UNCHANGED <<job, incoming, delivered>>

CompleteJob(t) ==
    /\ request[t] # PoolIdle /\ request[t].pc = "complete"
    /\ job' = request[t].job
    /\ Serve(t, PoolIdle)
    /\ UNCHANGED <<incoming, delivered, minted>>

-----------------------------------------------------------------------------
\* A request or its answer is lost, the callback raises, or the process dies
\* between two steps.
Abandon(t) ==
    /\ request[t] # PoolIdle
    /\ Serve(t, PoolIdle)
    /\ UNCHANGED <<job, incoming, delivered, minted>>

\* The process dies in write_text.
DieWriting(t) ==
    /\ \/ WritesJob(t) /\ job' = NoJob /\ UNCHANGED incoming
       \/ /\ \E n \in PoolNode :
                 WritesIncoming(t, n) /\ incoming' = [incoming EXCEPT ![n] = NoIncoming]
          /\ UNCHANGED job
    /\ Serve(t, PoolIdle)
    /\ UNCHANGED <<delivered, minted>>

PoolNext ==
    \/ \E c \in Chunk : DispatchLocal(c)
    \/ \E t \in PoolThread :
          \/ \E c \in Chunk : ReceiveChunk(t, c) \/ ProcessChunk(t, c)
          \/ SaveIncoming(t) \/ ReceiveResult(t) \/ SaveResult(t) \/ MarkDone(t)
          \/ FinalizeJob(t) \/ Mint(t) \/ CompleteJob(t)
          \/ Abandon(t) \/ DieWriting(t)

PoolSpec == PoolInit /\ [][PoolNext]_poolVars

-----------------------------------------------------------------------------
PoolTypeOK ==
    /\ job \in Job \cup {NoJob} /\ incoming \in [PoolNode -> Incoming]
    /\ delivered \subseteq Chunk /\ minted \in 0 .. MaxBlocks
    /\ request \in [PoolThread -> PoolRequest \cup {PoolIdle}]

\* A line that names its owner's address is "done" only when the owner has
\* written its result: a lost post, a lost answer or a crash leaves a chunk
\* that can be tried again, never one that is done and was not delivered (the
\* raise of process_incoming_chunk before its _save_incoming_all).  A line
\* without an address is done and its result lost to the owner.
DoneWasDelivered ==
    \A n \in PoolNode, c \in Chunk :
        incoming[n][c].callback /\ "done" \in incoming[n][c].lines => c \in delivered

\* However results overwrite one another, a job is offered for finalization,
\* finalized or turned into a block only with every chunk's result in it
\* (receive_result, finalize_job).
OnlyCompleteJobsFinalized ==
    /\ job # NoJob /\ job.status # "dispatched" => job.done = Chunk
    /\ minted > 0 => delivered = Chunk
    /\ \A t \in PoolThread :
           request[t] # PoolIdle /\ request[t].pc \in {"mint", "complete"}
               => request[t].job.done = Chunk
=============================================================================
