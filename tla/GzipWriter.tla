----------------------------- MODULE GzipWriter -----------------------------
(***************************************************************************)
(* The parallel gzip writer (src/write/parallel_gzip.rs).  The producer    *)
(* cuts its bytes into chunks and queues them under sequence numbers;      *)
(* workers compress them; a writer thread writes the members in order.     *)
(* flush sends a barrier behind its chunks and waits for its answer.  A    *)
(* reorder permit is held from dispatch to ordered delivery.               *)
(***************************************************************************)
EXTENDS ReorderMap, FirstFailure, Integers, Sequences, FiniteSets

CONSTANTS Workers, RawCap, CompressedCap,
          MaxSeq,       \* bound: sequence numbers dispatched
          MaxCalls      \* bound: calls of the writer's methods

ASSUME GzipAssumption ==
    /\ Workers # {} /\ RawCap \in Nat \ {0} /\ CompressedCap \in Nat \ {0}
    /\ MaxWindow >= RawCap + CompressedCap + 1
    /\ MaxSeq \in Nat /\ MaxCalls \in Nat

VARIABLES
    ppc, call, calls,   \* the producer: where, inside which method, its calls
    current, job,       \* a partial chunk is buffered; the job to dispatch
    seq,                \* `next_seq` of the producer: jobs dispatched
    raw_tx, raw,        \* the raw queue and its sender
    permits, permit_tx, \* free reorder permits; their sender is alive
    wpc, work,          \* each worker: where, and its job or output
    out, out_rx,        \* the compressed channel; its receiver is alive
    tpc,                \* the writer thread (held and next_seq are its buffer)
    file, synced,       \* members written, and how many of them flushed
    ack,                \* the answer to the producer's barrier
    sent,               \* the sequence numbers that carry a chunk
    lost, outcome       \* a chunk was refused; what the last call returned

producer == <<ppc, call, calls, current, job, seq, raw_tx, sent, lost, outcome>>
pool == <<wpc, work>>
writer == <<tpc, rbVars, file, synced, out_rx, permit_tx>>
vars == <<producer, raw, permits, pool, out, writer, ack, first>>

Job(s, k) == [seq |-> s, kind |-> k]
Alive == {w \in Workers : wpc[w] # "gone"}

\* new: workers or the writer thread may fail to start, which is on record.
Init ==
    /\ ppc = "idle" /\ call = "none" /\ calls = 0 /\ current = FALSE /\ job = "none"
    /\ seq = 0 /\ raw_tx = TRUE /\ raw = <<>> /\ permits = MaxWindow
    /\ \E started \in SUBSET Workers, thread \in BOOLEAN :
          /\ started # Workers => first = "spawn"
          /\ ~thread => first = "spawn"
          /\ (started = Workers /\ thread) => FailureInit
          /\ wpc = [w \in Workers |-> IF w \in started THEN "recv" ELSE "gone"]
          /\ tpc = IF thread THEN "recv" ELSE "gone"
          /\ permit_tx = thread /\ out_rx = thread
    /\ work = [w \in Workers |-> Job(0, "none")]
    /\ out = <<>> /\ RBInit /\ file = <<>> /\ synced = 0
    /\ ack = "none" /\ sent = {} /\ lost = FALSE /\ outcome = "none"

-----------------------------------------------------------------------------
(* The producer *)

Answers(o) == ppc' = "idle" /\ call' = "none" /\ outcome' = o

\* pool_error: the recorded failure, or a fallback that should not happen.
PoolError == IF stopped THEN "failed" ELSE "fallback"

\* write: the bytes stay in the partial chunk, or fill it.
WriteCall ==
    /\ ppc = "idle" /\ calls < MaxCalls /\ seq < MaxSeq
    /\ calls' = calls + 1
    /\ \/ current' = TRUE /\ outcome' = "ok" /\ UNCHANGED <<ppc, call, job>>
       \/ /\ current' = FALSE /\ ppc' = "dispatch" /\ call' = "write" /\ job' = "chunk"
          /\ UNCHANGED outcome
    /\ UNCHANGED <<seq, raw_tx, sent, lost, raw, permits, pool, out, writer, ack, first>>

\* flush, finish and Drop first dispatch the partial chunk, if there is one.
CloseCall(c) ==
    /\ ppc = "idle"
    /\ c = "flush" => calls < MaxCalls /\ seq + 1 < MaxSeq
    /\ calls' = IF c = "flush" THEN calls + 1 ELSE calls
    /\ call' = c
    /\ IF current
       THEN ppc' = "dispatch" /\ job' = "chunk"
       ELSE IF c = "flush" THEN ppc' = "dispatch" /\ job' = "barrier"
                           ELSE ppc' = "shutdown" /\ UNCHANGED job
    /\ current' = FALSE
    /\ UNCHANGED <<seq, raw_tx, sent, lost, outcome, raw, permits, pool, out, writer, ack, first>>

\* A dispatch that failed: the chunk in hand is gone, and the call ends, or
\* shuts down.
Refuse ==
    /\ lost' = (lost \/ job = "chunk")
    /\ IF call \in {"finish", "drop"}
       THEN ppc' = "shutdown" /\ outcome' = PoolError /\ UNCHANGED call
       ELSE Answers(PoolError)

\* dispatch: refused at once when the pool has stopped.
Dispatch ==
    /\ ppc = "dispatch"
    /\ IF stopped THEN Refuse ELSE ppc' = "permit" /\ UNCHANGED <<call, lost, outcome>>
    /\ UNCHANGED <<calls, current, job, seq, raw_tx, sent, raw, permits, pool, out, writer, ack,
                   first>>

\* wait_for_reorder_permit: the wait polls the failure state and sees the
\* writer thread go.
WaitPermit ==
    /\ ppc = "permit"
    /\ \/ /\ permits > 0
          /\ permits' = permits - 1
          /\ ppc' = "send"
          /\ UNCHANGED <<call, lost, outcome>>
       \/ (stopped \/ (permits = 0 /\ ~permit_tx)) /\ Refuse /\ UNCHANGED permits
    /\ UNCHANGED <<calls, current, job, seq, raw_tx, sent, raw, pool, out, writer, ack, first>>

RawRoom_OneMore == Len(raw) <= RawCap
\* The raw queue's capacity.
RawRoom == Len(raw) < RawCap

\* The send blocks on a full queue and fails once every worker is gone.
SendJob ==
    /\ ppc = "send"
    /\ \/ /\ Alive # {} /\ RawRoom
          /\ raw' = Append(raw, Job(seq, job))
          /\ seq' = seq + 1
          /\ sent' = IF job = "chunk" THEN sent \union {seq} ELSE sent
          /\ CASE job = "barrier" -> ppc' = "ack" /\ UNCHANGED <<call, job, outcome>>
               [] job = "chunk" /\ call = "write" -> Answers("ok") /\ UNCHANGED job
               [] job = "chunk" /\ call = "flush" ->
                     ppc' = "dispatch" /\ job' = "barrier" /\ UNCHANGED <<call, outcome>>
               [] OTHER -> ppc' = "shutdown" /\ UNCHANGED <<call, job, outcome>>
          /\ ack' = "none"
          /\ UNCHANGED lost
       \/ Alive = {} /\ Refuse /\ UNCHANGED <<raw, seq, sent, job, ack>>
    /\ UNCHANGED <<calls, current, raw_tx, permits, pool, out, writer, first>>

\* The barrier's ack sender still exists somewhere.
BarrierAlive ==
    \/ \E k \in DOMAIN raw : raw[k].kind = "barrier"
    \/ \E w \in Workers : wpc[w] \in {"compress", "send"} /\ work[w].kind = "barrier"
    \/ \E k \in DOMAIN out : out[k].kind = "barrier"
    \/ \E s \in DOMAIN held : held[s] = "barrier"

AckReceived ==
    /\ ppc = "ack"
    /\ \/ ack = "ok" /\ Answers("flushed")
       \/ ack = "err" /\ Answers("failed")
       \/ ack = "none" /\ ~BarrierAlive /\ Answers(PoolError)
    /\ UNCHANGED <<calls, current, job, seq, raw_tx, sent, lost, raw, permits, pool, out, writer,
                   ack, first>>

Shutdown ==
    /\ ppc = "shutdown"
    /\ raw_tx' = FALSE
    /\ ppc' = "join"
    /\ UNCHANGED <<call, calls, current, job, seq, sent, lost, outcome, raw, permits, pool, out,
                   writer, ack, first>>

\* The producer's proof that every sequence number was delivered.
TrailingGap == next_seq # seq

\* finish: the first failure, else the count; Drop reports nothing.
Joined ==
    /\ ppc = "join" /\ Alive = {} /\ tpc = "gone"
    /\ ppc' = "closed"
    /\ outcome' = CASE call = "drop" -> "dropped"
                    [] call = "finish" /\ stopped -> "failed"
                    [] call = "finish" /\ ~stopped /\ TrailingGap -> "gap"
                    [] OTHER -> "finished"
    /\ UNCHANGED <<call, calls, current, job, seq, raw_tx, sent, lost, raw, permits, pool, out,
                   writer, ack, first>>

-----------------------------------------------------------------------------
(* The workers *)

Goto(w, label) == wpc' = [wpc EXCEPT ![w] = label]
Holds(w, j) == work' = [work EXCEPT ![w] = j]

\* The last worker's exit drops the queue and what is in it.
Gone(w) == Goto(w, "gone") /\ raw' = IF Alive = {w} THEN <<>> ELSE raw

Dequeue(w) ==
    /\ wpc[w] = "recv"
    /\ \/ /\ raw # <<>>
          /\ Holds(w, Head(raw))
          /\ raw' = Tail(raw)
          /\ Goto(w, IF Head(raw).kind = "chunk" THEN "compress" ELSE "send")
       \/ raw = <<>> /\ ~raw_tx /\ Gone(w) /\ UNCHANGED work
    /\ UNCHANGED <<producer, permits, out, writer, ack, first>>

\* A chunk that failed or panicked answers its number with a placeholder,
\* after its failure is on record.
FailedChunk(w) ==
    /\ Record("worker")
    /\ Holds(w, Job(work[w].seq, "dropped"))
    /\ Goto(w, "send")

Compress(w) ==
    /\ wpc[w] = "compress"
    /\ \/ stopped /\ Holds(w, Job(work[w].seq, "dropped")) /\ Goto(w, "send") /\ UNCHANGED first
       \/ ~stopped /\ Goto(w, "send") /\ UNCHANGED <<work, first>>
       \/ ~stopped /\ FailedChunk(w)
    /\ UNCHANGED <<producer, raw, permits, out, writer, ack>>

SendOut(w) ==
    /\ wpc[w] = "send"
    /\ \/ /\ out_rx /\ Len(out) < CompressedCap
          /\ out' = Append(out, work[w])
          /\ Goto(w, "recv")
          /\ UNCHANGED raw
       \/ ~out_rx /\ Gone(w) /\ UNCHANGED out
    /\ UNCHANGED <<producer, permits, work, writer, ack, first>>

-----------------------------------------------------------------------------
(* The writer thread *)

GiveBack_Twice(n) == permits' = IF permits + 2 * n > MaxWindow THEN MaxWindow ELSE permits + 2 * n
\* try_send: a full channel needs no replenishment.
GiveBack(n) == permits' = IF permits + n > MaxWindow THEN MaxWindow ELSE permits + n

\* The permits that come back with a discarded buffer, and its barrier.
HeldCount == Cardinality(DOMAIN held)
HeldBarrier == \E s \in DOMAIN held : held[s] = "barrier"

Discard_KeepsHeld(n) == GiveBack(n) /\ UNCHANGED <<rbVars, ack>>
\* discard_pending: the held outputs go, a barrier among them is answered.
Discard(n) ==
    /\ GiveBack(n + HeldCount)
    /\ RBDrain
    /\ ack' = IF HeldBarrier THEN "err" ELSE ack

\* One received output.  After a failure it and everything held is discarded:
\* barriers are answered with the failure, permits go back.
Receive ==
    /\ tpc = "recv" /\ out # <<>>
    /\ out' = Tail(out)
    /\ LET o == Head(out) IN
       IF stopped \/ ~Accepts(o.seq)
       THEN /\ IF stopped THEN UNCHANGED first ELSE Record("rejected")
            /\ IF o.kind = "barrier"
               THEN ack' = "err" /\ GiveBack(1 + HeldCount) /\ RBDrain
               ELSE Discard(1)
            /\ UNCHANGED tpc
       ELSE RBPush(o.seq, o.kind) /\ tpc' = "drain" /\ UNCHANGED <<first, ack, permits>>
    /\ UNCHANGED <<producer, raw, pool, file, synced, out_rx, permit_tx>>

Reply_AlwaysOk == "ok"
\* restate: what the barrier is told, with the flush behind it.
Reply == IF first' = NoFailure THEN "ok" ELSE "err"

\* One ready output: written, or the inner writer fails; a barrier flushes
\* the inner writer and is answered.
Deliver ==
    /\ tpc = "drain"
    /\ \/ /\ RBPop
          /\ LET k == held[next_seq] IN
             CASE k = "dropped" -> UNCHANGED <<file, synced, first, ack>>
               [] k = "chunk" ->
                     /\ \/ ~stopped /\ file' = Append(file, next_seq) /\ UNCHANGED first
                        \/ ~stopped /\ Record("inner") /\ UNCHANGED file
                        \/ stopped /\ UNCHANGED <<file, first>>
                     /\ UNCHANGED <<synced, ack>>
               [] OTHER ->   \* a barrier
                     /\ \/ ~stopped /\ synced' = Len(file) /\ UNCHANGED first
                        \/ ~stopped /\ Record("inner") /\ UNCHANGED synced
                        \/ stopped /\ UNCHANGED <<synced, first>>
                     /\ ack' = Reply
                     /\ UNCHANGED file
          /\ permits < MaxWindow /\ GiveBack(1)
          /\ UNCHANGED tpc
       \/ /\ ~Ready
          /\ tpc' = "recv"
          /\ UNCHANGED <<rbVars, file, synced, first, ack, permits>>
    /\ UNCHANGED <<producer, raw, pool, out, out_rx, permit_tx>>

FinalFlush == \/ synced' = Len(file) /\ UNCHANGED first
              \/ Record("inner") /\ UNCHANGED synced

\* The channel closed: a failed stream is discarded, an interior gap is a
\* failure, a whole stream is flushed.
Finish ==
    /\ tpc = "recv" /\ out = <<>> /\ Alive = {}
    /\ tpc' = "gone" /\ permit_tx' = FALSE /\ out_rx' = FALSE
    /\ IF stopped \/ held # << >>
       THEN /\ IF stopped THEN UNCHANGED first ELSE Record("stranded")
            /\ Discard(0)
            /\ UNCHANGED synced
       ELSE /\ FinalFlush
            /\ UNCHANGED <<ack, permits, rbVars>>
    /\ UNCHANGED <<producer, raw, pool, out, file>>

-----------------------------------------------------------------------------
CallStep == \/ Dispatch \/ WaitPermit \/ SendJob \/ AckReceived \/ Shutdown \/ Joined
WorkerStep(w) == Dequeue(w) \/ Compress(w) \/ SendOut(w)
ThreadStep == Receive \/ Deliver \/ Finish

Next == \/ WriteCall \/ \E c \in {"flush", "finish", "drop"} : CloseCall(c)
        \/ CallStep \/ ThreadStep \/ \E w \in Workers : WorkerStep(w)

Spec == Init /\ [][Next]_vars
FairSpec == /\ Spec /\ WF_vars(CallStep) /\ WF_vars(ThreadStep)
            /\ \A w \in Workers : WF_vars(WorkerStep(w))
-----------------------------------------------------------------------------
(* Properties *)

Kinds == {"chunk", "barrier", "dropped"}
Entries == [seq : 0..MaxSeq, kind : Kinds \cup {"none"}]

\* The variables have their types; queues and permits respect their capacity.
TypeOK ==
    /\ ppc \in {"idle", "dispatch", "permit", "send", "ack", "shutdown", "join", "closed"}
    /\ call \in {"none", "write", "flush", "finish", "drop"}
    /\ calls \in 0..MaxCalls /\ current \in BOOLEAN /\ job \in {"none", "chunk", "barrier"}
    /\ seq \in 0..MaxSeq /\ raw_tx \in BOOLEAN
    /\ raw \in Seq(Entries) /\ Len(raw) <= RawCap
    /\ permits \in 0..MaxWindow /\ permit_tx \in BOOLEAN
    /\ wpc \in [Workers -> {"recv", "compress", "send", "gone"}]
    /\ work \in [Workers -> Entries]
    /\ out \in Seq(Entries) /\ Len(out) <= CompressedCap /\ out_rx \in BOOLEAN
    /\ tpc \in {"recv", "drain", "gone"}
    /\ next_seq \in 0..MaxSeq /\ DOMAIN held \subseteq 0..MaxSeq
    /\ \A s \in DOMAIN held : held[s] \in Kinds
    /\ file \in Seq(0..MaxSeq) /\ synced \in 0..Len(file)
    /\ ack \in {"none", "ok", "err"} /\ sent \subseteq 0..MaxSeq /\ lost \in BOOLEAN

\* file holds every chunk handed to the pool, in order, and none was refused.
Whole ==
    /\ ~lost /\ ~current
    /\ \A i \in DOMAIN file : file[i] \in sent /\ (i > 1 => file[i - 1] < file[i])
    /\ \A s \in sent : \E i \in DOMAIN file : file[i] = s
    /\ synced = Len(file)

\* A flush that returned Ok means it: every byte accepted before it is in the
\* inner writer, in order, and the inner writer was flushed behind it.  finish
\* returns Ok only for the whole stream, whatever failed or panicked, in any
\* thread, and whichever write lost a chunk.  While nothing has failed, a
\* permit is held for exactly the numbers between the producer and the writer
\* thread, so the reorder buffer refuses nothing, strands nothing, the tail
\* check passes, and a producer's error always restates a recorded cause.
OkIsWhole ==
    /\ ((ppc = "idle" /\ outcome = "flushed") \/ outcome = "finished") => Whole
    /\ ~stopped => permits + (seq - next_seq) + (IF ppc = "send" THEN 1 ELSE 0) = MaxWindow
    /\ first \notin {"rejected", "stranded"} /\ outcome \notin {"fallback", "gap"}
=============================================================================
