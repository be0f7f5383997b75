------------------------------ MODULE ParFold -------------------------------
(***************************************************************************)
(* read/reader.rs, par_fold_blobs: ElementReader::par_map_reduce.  The     *)
(* calling thread pumps blobs into batches, charging each blob against a   *)
(* byte budget; worker threads pop batches and fold their blobs into a     *)
(* partial result of their own, which the caller reduces at the end.       *)
(*                                                                         *)
(* A blob is "ok", "other" (no data blob), "bad" (does not decode),        *)
(* "panics" (the map operation panics on it) or "torn" (the reader fails   *)
(* there); it weighs 1 or 2.                                               *)
(***************************************************************************)
EXTENDS Integers, Sequences, FiniteSets, SequencesExt, FiniteSetsExt, TLC

CONSTANTS N, Workers, Cap, BatchMaxBlobs, BatchMaxBytes

VARIABLES world,    \* the blobs, fixed
          pump,     \* the caller: where it is, the next blob, its open batch
          queue,    \* BatchQueue: its batches and whether it is closed
          budget,   \* ByteBudget: the bytes charged and the shutdown flag
          work,     \* worker -> where it is, its batch, the next blob, its answer
          folded    \* worker -> the blobs folded into its partial result

vars == <<world, pump, queue, budget, work, folded>>

Kinds == {"ok", "other", "bad", "panics", "torn"}
Kind(b) == world[b].kind
Ended(b) == b > Len(world)
Weight(b) == world[b].weight
WeightOf(blobs) == MapThenSumSet(Weight, blobs)
Bytes(batch) == WeightOf(Range(batch))
Release(batch) == [budget EXCEPT !.used = @ - Bytes(batch)]

Init ==
    /\ world \in UNION {[1 .. n -> [kind : Kinds, weight : 1 .. 2]] : n \in 0 .. N}
    /\ \A b \in DOMAIN world : /\ Kind(b) = "torn" => b = Len(world)
                               /\ Kind(b) \in {"other", "torn"} => Weight(b) = 1
    /\ pump = [pc |-> "next", blob |-> 1, batch |-> <<>>, result |-> "none"]
    /\ queue = [batches |-> <<>>, closed |-> FALSE]
    /\ budget = [used |-> 0, shutdown |-> FALSE]
    /\ work = [w \in Workers |-> [pc |-> "pop", batch |-> <<>>, at |-> 1, answer |-> "none"]]
    /\ folded = [w \in Workers |-> <<>>]

Fits(used, n) == used = 0 \/ (used <= Cap /\ n <= Cap - used)
Pushed == IF pump.batch = <<>> THEN queue ELSE [queue EXCEPT !.batches = Append(@, pump.batch)]

-----------------------------------------------------------------------------
(* pump_blobs, on the calling thread. *)

\* The next blob: the end of the input flushes the open batch; the reader's
\* error drops it, and its charge with it.
PumpNext ==
    /\ pump.pc = "next"
    /\ \/ /\ Ended(pump.blob) \/ budget.shutdown
          /\ ~Ended(pump.blob) => Kind(pump.blob) # "torn"
          /\ pump' = [pump EXCEPT !.pc = "close", !.batch = <<>>, !.result = "ok"]
          /\ queue' = Pushed /\ UNCHANGED budget
       \/ /\ ~Ended(pump.blob) /\ Kind(pump.blob) = "torn"
          /\ pump' = [pump EXCEPT !.pc = "shut", !.batch = <<>>, !.result = "torn"]
          /\ budget' = Release(pump.batch) /\ UNCHANGED queue
       \/ /\ ~Ended(pump.blob) /\ Kind(pump.blob) = "other" /\ ~budget.shutdown
          /\ pump' = [pump EXCEPT !.blob = @ + 1] /\ UNCHANGED <<queue, budget>>
       \/ /\ ~Ended(pump.blob) /\ Kind(pump.blob) \notin {"torn", "other"} /\ ~budget.shutdown
          /\ pump' = [pump EXCEPT !.pc = "try"] /\ UNCHANGED <<queue, budget>>
    /\ UNCHANGED <<world, work, folded>>

\* A charged blob joins the open batch, which is pushed before it where it
\* would grow too many bytes and after it where it has its number of blobs.
Join ==
    LET first == pump.batch # <<>> /\ Bytes(pump.batch) + Weight(pump.blob) > BatchMaxBytes
        kept  == Append(IF first THEN <<>> ELSE pump.batch, pump.blob)
        full  == Len(kept) >= BatchMaxBlobs
        q1    == IF first THEN Pushed ELSE queue
    IN /\ queue' = IF full THEN [q1 EXCEPT !.batches = Append(@, kept)] ELSE q1
       /\ pump' = [pump EXCEPT !.pc = "next", !.blob = @ + 1,
                               !.batch = IF full THEN <<>> ELSE kept]
       /\ budget' = [budget EXCEPT !.used = @ + Weight(pump.blob)]

TryAcquire_KeepsBatch ==
    /\ pump.pc = "try"
    /\ \/ budget.shutdown /\ pump' = [pump EXCEPT !.pc = "close", !.batch = <<>>, !.result = "ok"]
          /\ queue' = Pushed /\ UNCHANGED budget
       \/ ~budget.shutdown /\ Fits(budget.used, Weight(pump.blob)) /\ Join
       \/ /\ ~budget.shutdown /\ ~Fits(budget.used, Weight(pump.blob))
          /\ pump' = [pump EXCEPT !.pc = "acquire"]
          /\ UNCHANGED <<queue, budget>>
    /\ UNCHANGED <<world, work, folded>>

\* try_acquire; where it would block, the open batch is pushed first, so that
\* a worker can give its charge back.
TryAcquire ==
    /\ pump.pc = "try"
    /\ \/ budget.shutdown /\ pump' = [pump EXCEPT !.pc = "close", !.batch = <<>>, !.result = "ok"]
          /\ queue' = Pushed /\ UNCHANGED budget
       \/ ~budget.shutdown /\ Fits(budget.used, Weight(pump.blob)) /\ Join
       \/ /\ ~budget.shutdown /\ ~Fits(budget.used, Weight(pump.blob))
          /\ queue' = Pushed
          /\ pump' = [pump EXCEPT !.pc = "acquire", !.batch = <<>>]
          /\ UNCHANGED budget
    /\ UNCHANGED <<world, work, folded>>

\* acquire: waits for capacity, or for a shutdown.
Acquire ==
    /\ pump.pc = "acquire"
    /\ \/ budget.shutdown /\ pump' = [pump EXCEPT !.pc = "close", !.batch = <<>>, !.result = "ok"]
          /\ queue' = Pushed /\ UNCHANGED budget
       \/ ~budget.shutdown /\ Fits(budget.used, Weight(pump.blob)) /\ Join
    /\ UNCHANGED <<world, work, folded>>

\* Back in par_fold_blobs: a failed pump shuts the budget down; the queue is
\* closed in either case.
ClosePump ==
    /\ \/ pump.pc = "shut" /\ budget' = [budget EXCEPT !.shutdown = TRUE]
          /\ pump' = [pump EXCEPT !.pc = "close"] /\ UNCHANGED queue
       \/ pump.pc = "close" /\ queue' = [queue EXCEPT !.closed = TRUE]
          /\ pump' = [pump EXCEPT !.pc = "join"] /\ UNCHANGED budget
    /\ UNCHANGED <<world, work, folded>>

-----------------------------------------------------------------------------
(* run_par_worker. *)

Exit(w, answer) == work' = [work EXCEPT ![w].pc = "gone", ![w].batch = <<>>, ![w].answer = answer]

PopBatch(w) ==
    /\ work[w].pc = "pop"
    /\ \/ /\ queue.batches # <<>>
          /\ queue' = [queue EXCEPT !.batches = Tail(@)]
          /\ work' = [work EXCEPT ![w].pc = "check", ![w].batch = Head(queue.batches), ![w].at = 1]
       \/ queue.batches = <<>> /\ queue.closed /\ Exit(w, "ok") /\ UNCHANGED queue
    /\ UNCHANGED <<world, pump, budget, folded>>

\* A batch popped after a shutdown is dropped unread.
CheckShutdown(w) ==
    /\ work[w].pc = "check"
    /\ \/ budget.shutdown /\ budget' = Release(work[w].batch) /\ Exit(w, "ok")
       \/ ~budget.shutdown /\ work' = [work EXCEPT ![w].pc = "fold"] /\ UNCHANGED budget
    /\ UNCHANGED <<world, pump, queue, folded>>

FoldBlob(w) ==
    /\ work[w].pc = "fold"
    /\ \/ /\ work[w].at > Len(work[w].batch)
          /\ budget' = Release(work[w].batch)
          /\ work' = [work EXCEPT ![w].pc = "pop", ![w].batch = <<>>]
          /\ UNCHANGED folded
       \/ /\ work[w].at <= Len(work[w].batch)
          /\ LET b == work[w].batch[work[w].at] IN
             IF Kind(b) = "ok"
             THEN /\ folded' = [folded EXCEPT ![w] = Append(@, b)]
                  /\ work' = [work EXCEPT ![w].at = @ + 1] /\ UNCHANGED budget
             ELSE /\ budget' = IF Kind(b) = "panics" THEN Release(work[w].batch) ELSE budget
                  /\ work' = [work EXCEPT ![w].pc = "fail", ![w].answer = Kind(b),
                                 ![w].batch = IF Kind(b) = "panics" THEN <<>> ELSE @]
                  /\ UNCHANGED folded
    /\ UNCHANGED <<world, pump, queue>>

\* After a decode error the budget is shut down, the queue closed, and only
\* then is the batch dropped; a panic drops the batch first, and its CancelGuard then
\* does the same two things.
FailWorker(w) ==
    /\ work[w].pc = "fail"
    /\ IF queue.closed /\ budget.shutdown
       THEN budget' = Release(work[w].batch) /\ Exit(w, work[w].answer) /\ UNCHANGED queue
       ELSE /\ budget' = [budget EXCEPT !.shutdown = TRUE]
            /\ queue' = IF budget.shutdown THEN [queue EXCEPT !.closed = TRUE] ELSE queue
            /\ UNCHANGED work
    /\ UNCHANGED <<world, pump, folded>>

-----------------------------------------------------------------------------

Answers(a) == {w \in Workers : work[w].answer = a}

Reduce_PumpOnly ==
    /\ pump.pc = "join" /\ \A w \in Workers : work[w].pc = "gone"
    /\ pump' = [pump EXCEPT !.pc = "returned"]
    /\ UNCHANGED <<world, queue, budget, work, folded>>

\* The joins: a worker's panic is resumed, the pump's error comes before any
\* worker's, and the partial results are reduced only when nobody failed.
Reduce ==
    /\ pump.pc = "join" /\ \A w \in Workers : work[w].pc = "gone"
    /\ pump' = [pump EXCEPT !.pc = "returned",
                   !.result = IF Answers("panics") # {} THEN "panics"
                              ELSE IF pump.result = "torn" THEN "torn"
                              ELSE IF Answers("bad") # {} THEN "bad" ELSE "ok"]
    /\ UNCHANGED <<world, queue, budget, work, folded>>

PumpStep == PumpNext \/ TryAcquire \/ Acquire \/ ClosePump \/ Reduce
WorkerStep(w) == PopBatch(w) \/ CheckShutdown(w) \/ FoldBlob(w) \/ FailWorker(w)
Next == PumpStep \/ \E w \in Workers : WorkerStep(w)

\* The caller and each worker run when they can.
Fairness == WF_vars(PumpStep) /\ \A w \in Workers : WF_vars(WorkerStep(w))
Spec == Init /\ [][Next]_vars /\ Fairness

-----------------------------------------------------------------------------
(* Properties. *)

BatchesOut == {pump.batch} \cup Range(queue.batches) \cup {work[w].batch : w \in Workers}

\* Every charged byte belongs to a blob in the open batch, in the queue or in
\* a worker's hands; the charge passes the cap only for a single blob; and the
\* joins leave nothing charged but the batches dropped with the queue.
ChargeIsHeld ==
    /\ budget.used = WeightOf(UNION {Range(q) : q \in BatchesOut})
    /\ budget.used <= Cap \/ Cardinality(UNION {Range(q) : q \in BatchesOut}) = 1

Data == {b \in DOMAIN world : Kind(b) = "ok"}

\* No blob is folded twice; a reduction that answers folded every data blob of
\* an input in which nothing fails; one that fails names a failure the input
\* really has.
FoldIsTrue ==
    /\ \A b \in Data : Cardinality({<<w, i>> \in Workers \X (1 .. N) :
                                       i \in DOMAIN folded[w] /\ folded[w][i] = b}) <= 1
    /\ pump.pc = "returned" =>
          IF pump.result = "ok"
          THEN /\ UNION {Range(folded[w]) : w \in Workers} = Data
               /\ \A b \in DOMAIN world : Kind(b) \in {"ok", "other"}
          ELSE \E b \in DOMAIN world : Kind(b) = pump.result

\* par_map_reduce returns, whichever worker fails and wherever the pump waits.
FoldReturns == <>(pump.pc = "returned")
=============================================================================
