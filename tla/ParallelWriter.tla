--------------------------- MODULE ParallelWriter ---------------------------
(***************************************************************************)
(* The pwrite pool behind a pipelined writer (src/write/parallel_writer.rs *)
(* and src/write/pool_failure.rs).  The dispatcher receives the ordered    *)
(* stream, assigns each operation its output offset and sends it to the    *)
(* next worker in turn; workers write at the offsets they are given, in    *)
(* any order.  The ordered stream itself is WritePipeline's.               *)
(***************************************************************************)
EXTENDS FirstFailure, Integers, Sequences

CONSTANTS PoolSize,     \* POOL_SIZE
          Capacity,     \* PER_WORKER_CAPACITY
          MaxOps,       \* bound: operations of the stream
          MaxLen        \* bound: bytes of one operation

VARIABLES
    lens, fails_upstream,   \* each operation's bytes; whether the stream fails
    spawned,                \* the workers that started
    dpc, op,                \* the dispatcher: where, and the operation it sends
    offset, next_worker,    \* PoolDispatch
    senders,                \* the dispatcher holds the workers' senders
    queue, rx,              \* each worker's channel; the receivers alive
    wpc, cur,               \* each worker: where, and its operation
    file,                   \* output position -> operation, 0 the header
    verdict

stream == <<lens, fails_upstream, spawned>>
dispatch == <<dpc, op, offset, next_worker, senders>>
pool == <<queue, rx, wpc, cur>>
vars == <<stream, dispatch, pool, file, first, verdict>>

Pool == 0 .. PoolSize - 1
HeaderLen == 1
Ops == 1 .. Len(lens)
WriteOp(k, at) == [op |-> k, offset |-> at]
NoOp == WriteOp(0, 0)

Init ==
    /\ \E n \in 0 .. MaxOps : lens \in [1 .. n -> 1 .. MaxLen]
    /\ fails_upstream \in BOOLEAN
    /\ spawned \in 0 .. PoolSize
    /\ op = 1 /\ offset = HeaderLen /\ next_worker = 0 /\ senders = TRUE
    /\ queue = [w \in Pool |-> <<>>] /\ rx = 0 .. spawned - 1
    /\ wpc = [w \in Pool |-> IF w < spawned THEN "recv" ELSE "gone"]
    /\ cur = [w \in Pool |-> NoOp]
    /\ file = [p \in {0} |-> 0]
    /\ IF spawned = PoolSize
       THEN dpc = "next" /\ FailureInit
       ELSE dpc = "close" /\ first = "spawn"
    /\ verdict = "none"

-----------------------------------------------------------------------------
(* The dispatcher *)

Ends(e) == dpc' = "close" /\ Record(e)

\* deliver_in_order brings the next operation, the end of a complete stream,
\* or an error; the dispatcher may also panic.
NextOp ==
    /\ dpc = "next"
    /\ \/ op \in Ops /\ dpc' = "send" /\ UNCHANGED first
       \/ op \notin Ops /\ ~fails_upstream /\ dpc' = "close" /\ UNCHANGED first
       \/ op \notin Ops /\ fails_upstream /\ Ends("upstream")
       \/ Ends("panic")
    /\ UNCHANGED <<stream, op, offset, next_worker, senders, pool, file, verdict>>

Advance_Fixed(len) == offset + 1
Advance(len) == offset + len

RoundRobin_NoWrap == next_worker + 1
RoundRobin == (next_worker + 1) % PoolSize

\* PoolDispatch::send blocks on this worker's full queue, and fails once the
\* worker is gone.
Send ==
    LET w == next_worker IN
    /\ dpc = "send"
    /\ \/ /\ w \in rx /\ Len(queue[w]) < Capacity
          /\ queue' = [queue EXCEPT ![w] = Append(queue[w], WriteOp(op, offset))]
          /\ next_worker' = RoundRobin
          /\ offset' = Advance(lens[op])
          /\ op' = op + 1
          /\ dpc' = "after"
          /\ UNCHANGED first
       \/ /\ w \notin rx
          /\ Ends("closed")
          /\ UNCHANGED <<queue, next_worker, offset, op>>
    /\ UNCHANGED <<stream, senders, rx, wpc, cur, file, verdict>>

\* after_drain looks at the pool after an item; the next operation may also
\* belong to the same item, and is sent without looking.
AfterDrain ==
    /\ dpc = "after"
    /\ \/ stopped /\ Ends("stopped")
       \/ ~stopped /\ dpc' = "next" /\ UNCHANGED first
       \/ op \in Ops /\ dpc' = "send" /\ UNCHANGED first
    /\ UNCHANGED <<stream, op, offset, next_worker, senders, pool, file, verdict>>

DropSenders ==
    /\ dpc = "close"
    /\ senders' = FALSE
    /\ dpc' = "join"
    /\ UNCHANGED <<stream, op, offset, next_worker, pool, file, first, verdict>>

\* run_pool joins every worker, whatever failed.
Joined == \A w \in Pool : wpc[w] = "gone"

\* failure.take once the scope is over, then the file's own sync.
Join ==
    /\ dpc = "join" /\ Joined
    /\ dpc' = "done"
    /\ \/ verdict' = IF stopped THEN first ELSE "ok"
       \/ ~stopped /\ verdict' = "sync"
    /\ UNCHANGED <<stream, op, offset, next_worker, senders, pool, file, first>>

-----------------------------------------------------------------------------
(* The workers *)

Goto(w, label) == wpc' = [wpc EXCEPT ![w] = label]

Receive(w) ==
    /\ wpc[w] = "recv"
    /\ \/ /\ queue[w] # <<>>
          /\ cur' = [cur EXCEPT ![w] = Head(queue[w])]
          /\ queue' = [queue EXCEPT ![w] = Tail(queue[w])]
          /\ Goto(w, "check")
       \/ /\ queue[w] = <<>> /\ ~senders
          /\ Goto(w, "exit")
          /\ UNCHANGED <<cur, queue>>
    /\ UNCHANGED <<stream, dispatch, rx, file, first, verdict>>

\* The stop check: the popped operation is not run.
CheckStopped(w) ==
    /\ wpc[w] = "check"
    /\ Goto(w, IF stopped THEN "exit" ELSE "write")
    /\ UNCHANGED <<stream, dispatch, queue, rx, cur, file, first, verdict>>

Region(o) == o.offset .. o.offset + lens[o.op] - 1

\* write_all_at, or the splice at the same offset; either may fail or panic.
Write(w) ==
    /\ wpc[w] = "write"
    /\ \/ /\ file' = [p \in DOMAIN file \union Region(cur[w]) |->
                         IF p \in Region(cur[w]) THEN cur[w].op ELSE file[p]]
          /\ Goto(w, "recv")
       \/ Goto(w, "failed") /\ UNCHANGED file
    /\ UNCHANGED <<stream, dispatch, queue, rx, cur, first, verdict>>

\* The failure is on record before the worker's channel closes.
RecordFailure(w) ==
    /\ wpc[w] = "failed"
    /\ Record("worker")
    /\ Goto(w, "exit")
    /\ UNCHANGED <<stream, dispatch, queue, rx, cur, file, verdict>>

Exit_KeepsReceiver(w) ==
    /\ wpc[w] = "exit"
    /\ Goto(w, "gone")
    /\ UNCHANGED <<stream, dispatch, queue, rx, cur, file, first, verdict>>

Exit(w) ==
    /\ wpc[w] = "exit"
    /\ rx' = rx \ {w}
    /\ queue' = [queue EXCEPT ![w] = <<>>]
    /\ Goto(w, "gone")
    /\ UNCHANGED <<stream, dispatch, cur, file, first, verdict>>

-----------------------------------------------------------------------------
DispatchStep == NextOp \/ Send \/ AfterDrain \/ DropSenders \/ Join
WorkerStep(w) ==
    Receive(w) \/ CheckStopped(w) \/ Write(w) \/ RecordFailure(w) \/ Exit(w)

Next == DispatchStep \/ \E w \in Pool : WorkerStep(w)

Spec == Init /\ [][Next]_vars
FairSpec == Spec /\ WF_vars(DispatchStep) /\ \A w \in Pool : WF_vars(WorkerStep(w))

-----------------------------------------------------------------------------
(* Properties *)

\* Every variable keeps its type.
TypeOK ==
    /\ lens \in Seq(1 .. MaxLen) /\ Len(lens) <= MaxOps /\ fails_upstream \in BOOLEAN
    /\ spawned \in 0 .. PoolSize
    /\ dpc \in {"next", "send", "after", "close", "join", "done"}
    /\ op \in 1 .. Len(lens) + 1
    /\ offset \in HeaderLen .. HeaderLen + MaxOps * MaxLen
    /\ next_worker \in Pool /\ senders \in BOOLEAN /\ rx \subseteq Pool
    /\ queue \in [Pool -> Seq([op : Ops, offset : Nat])]
    /\ \A w \in Pool : Len(queue[w]) <= Capacity
    /\ wpc \in [Pool -> {"recv", "check", "write", "failed", "exit", "gone"}]
    /\ cur \in [Pool -> [op : 0 .. MaxOps, offset : Nat]]
    /\ DOMAIN file \subseteq 0 .. HeaderLen + MaxOps * MaxLen
    /\ \A p \in DOMAIN file : file[p] \in 0 .. MaxOps
    /\ first \in {NoFailure, "spawn", "upstream", "panic", "closed", "stopped", "worker"}
    /\ verdict \in {"none", "ok", "spawn", "upstream", "panic", "closed", "stopped", "worker",
                    "sync"}

\* A successful run wrote the whole stream: every operation's bytes, in
\* stream order, with no hole and nothing after the last.  The reported
\* failure is a cause: a worker records its own before its channel closes, so
\* the dispatcher's consequence never outranks it.  Nothing is still writing
\* to the file once the caller has the result.
ResultIsTrue ==
    /\ verdict = "ok" =>
          /\ ~fails_upstream
          /\ DOMAIN file = 0 .. offset - 1
          /\ \A p \in DOMAIN file : file[p] = 0 <=> p < HeaderLen
          /\ \A p, q \in DOMAIN file : p <= q => file[p] <= file[q]
          /\ \A k \in Ops : \E at \in DOMAIN file :
                {p \in DOMAIN file : file[p] = k} = at .. at + lens[k] - 1
    /\ first \notin {"closed", "stopped"}
    /\ dpc = "done" => \A w \in Pool : wpc[w] = "gone"
=============================================================================
