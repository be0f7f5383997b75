--------------------------- MODULE WritePipeline ----------------------------
(***************************************************************************)
(* The pipelined PBF writer (src/write/pipeline.rs, src/write/writer.rs).  *)
(* A producer reserves output positions and either sends a framed blob     *)
(* itself or spawns a framing job for it; jobs run on an executor and send *)
(* their result; a writer thread puts the results back in order and hands  *)
(* them to a sink.  Three bounds hold it together: dispatch permits (jobs  *)
(* in flight), the delivery window (positions reserved and not handed off) *)
(* and the item channel.                                                   *)
(*                                                                         *)
(* The producer may itself be a worker of a one-thread executor: its waits *)
(* are then cooperative, and Self is the thread the jobs run on.           *)
(***************************************************************************)
EXTENDS ReorderMap, Integers, Sequences, TLC

CONSTANTS Runners, Self,    \* the executor's threads; the producer as one
          Permits,          \* PIPELINE_DISPATCH_PERMITS (PIPELINE_DELIVERY_WINDOW is MaxWindow)
          WriteAhead,       \* WRITE_AHEAD, the item channel's capacity
          MaxSeq,           \* bound: positions reserved
          MaxCalls          \* bound: writer methods called

ASSUME PipelineAssumption ==
    /\ Runners # {} /\ Self \notin Runners
    /\ Permits \in Nat \ {0} /\ WriteAhead \in Nat
    /\ WriteAhead >= Permits /\ MaxWindow >= Permits + WriteAhead
    /\ MaxSeq \in Nat /\ MaxCalls \in Nat

VARIABLES
    on_worker,          \* the producer runs on the executor's only thread
    ppc, kind, calls,   \* the producer: where, what it is writing, its calls
    seq, slot,          \* the next position; the producer's own slot, or -1
    permits, taken,     \* free permits; permits the barrier holds
    window,             \* free delivery-window tokens
    jobs,               \* positions whose framing job is queued
    rpc, rseq,          \* each executor thread: where, and its job's position
    chan, tx,           \* the item channel; the pipeline's own sender
    inbox, window_tx,   \* the writer thread's two channel ends are alive
    wpc,                \* the writer thread (held and next_seq are its buffer)
    written, result,    \* positions handed to the sink; the thread's result
    handle,             \* the join handle is still there
    announced,          \* SeqTotal, -1 when unannounced
    writer_gone,        \* the death notice
    session,            \* the output's writing session
    lost,               \* some write method has returned an error
    cancelled, outcome  \* the token; what the last call returned

producer == <<ppc, kind, calls, seq, slot>>
tokens == <<permits, taken, window>>
executor == <<jobs, rpc, rseq>>
thread == <<wpc, rbVars, written, result>>
ends == <<tx, inbox, window_tx, handle>>
report == <<session, lost, outcome>>
vars == <<on_worker, producer, tokens, executor, chan, ends, thread, announced, writer_gone,
          report, cancelled>>

Threads == Runners \union {Self}
NoSlot == -1
Unannounced == -1
Item(s, ok) == [seq |-> s, ok |-> ok]
Positions == 0 .. MaxSeq - 1

NewWindow == MaxWindow    \* new_channels fills the window with tokens

Init ==
    /\ on_worker \in BOOLEAN
    /\ ppc = "idle" /\ kind = "none" /\ calls = 0 /\ seq = 0 /\ slot = NoSlot
    /\ permits = Permits /\ taken = 0 /\ window = NewWindow
    /\ jobs = {} /\ rpc = [r \in Threads |-> "idle"] /\ rseq = [r \in Threads |-> 0]
    /\ chan = <<>> /\ tx = TRUE /\ inbox = TRUE /\ window_tx = TRUE /\ handle = TRUE
    /\ wpc = "recv" /\ RBInit /\ written = <<>> /\ result = "none"
    /\ announced = Unannounced /\ writer_gone = FALSE
    /\ session = "open" /\ lost = FALSE /\ outcome = "none" /\ cancelled = FALSE

-----------------------------------------------------------------------------
(* The item channel *)

\* Every live sender: the pipeline's, the producer's slot, the jobs' slots.
SlotHolders == jobs \union {rseq[r] : r \in {t \in Threads : rpc[t] = "frame"}}
Disconnected == ~tx /\ slot = NoSlot /\ SlotHolders = {}

\* Slot::send from thread code: sent when there is room, refused when the
\* writer thread is gone, blocked otherwise.
CanSend == inbox /\ Len(chan) < WriteAhead
Refused == ~inbox

-----------------------------------------------------------------------------
(* Framing jobs on the executor *)

\* A thread of the executor takes a queued job.  The producer runs one only
\* while it waits cooperatively and finds no token.
Idle(r) ==
    IF r = Self
    THEN /\ on_worker
         /\ \/ ppc = "window" /\ window = 0 /\ window_tx
            \/ ppc = "permit" /\ permits = 0
            \/ ppc = "barrier" /\ permits = 0 /\ taken < Permits
    ELSE ~on_worker

StartJob(r) ==
    /\ rpc[r] = "idle" /\ Idle(r)
    /\ \E s \in jobs :
          /\ jobs' = jobs \ {s}
          /\ rseq' = [rseq EXCEPT ![r] = s]
    /\ rpc' = [rpc EXCEPT ![r] = "frame"]
    /\ UNCHANGED <<on_worker, producer, tokens, chan, ends, thread, announced, writer_gone,
                   report, cancelled>>

\* Drop of an undischarged Slot: an ordered error in the position's place.
SlotDrop(s) == chan' = Append(chan, Item(s, FALSE))

\* FramingJob::run as far as its send: frame, scan or frame with an error, or
\* panic, which drops the slot unsent.
Frame(r) ==
    /\ rpc[r] = "frame"
    /\ \/ /\ CanSend
          /\ \/ \E ok \in BOOLEAN : chan' = Append(chan, Item(rseq[r], ok))
             \/ SlotDrop(rseq[r])
          /\ rpc' = [rpc EXCEPT ![r] = "release"]
       \/ /\ Refused
          /\ rpc' = [rpc EXCEPT ![r] = "notice"]
          /\ UNCHANGED chan
       \/ /\ Refused    \* refused while unwinding: nobody is told
          /\ rpc' = [rpc EXCEPT ![r] = "release"]
          /\ UNCHANGED chan
    /\ UNCHANGED <<on_worker, producer, tokens, jobs, rseq, ends, thread, announced, writer_gone,
                   report, cancelled>>

DeathNotice(r) ==
    /\ rpc[r] = "notice"
    /\ writer_gone' = TRUE
    /\ rpc' = [rpc EXCEPT ![r] = "release"]
    /\ UNCHANGED <<on_worker, producer, tokens, jobs, rseq, chan, ends, thread, announced, report,
                   cancelled>>

\* PermitGuard's drop, the last thing a job does, unwinding or not.
Release(r) ==
    /\ rpc[r] = "release"
    /\ permits' = permits + 1
    /\ rpc' = [rpc EXCEPT ![r] = "idle"]
    /\ rseq' = [rseq EXCEPT ![r] = 0]
    /\ UNCHANGED <<on_worker, producer, taken, window, jobs, chan, ends, thread, announced,
                   writer_gone, report, cancelled>>

-----------------------------------------------------------------------------
(* The writer thread *)

Stop(r) == result' = r /\ wpc' = "dropping"

\* The receive loop; a push the buffer refuses is a panic.
Receive ==
    /\ wpc = "recv"
    /\ \/ /\ chan # <<>>
          /\ chan' = Tail(chan)
          /\ LET item == Head(chan) IN
             IF Accepts(item.seq)
             THEN RBPush(item.seq, item.ok) /\ wpc' = "drain" /\ UNCHANGED result
             ELSE Stop("panic") /\ UNCHANGED rbVars
       \/ /\ chan = <<>> /\ Disconnected
          /\ wpc' = "complete"
          /\ UNCHANGED <<chan, rbVars, result>>
    /\ UNCHANGED <<on_worker, producer, tokens, executor, ends, written, announced, writer_gone,
                   report, cancelled>>

TokenBack_Lost == window
\* One delivery-window token goes back per item, after its whole handoff.
TokenBack == window + 1

\* pop_ready, then hand_off: an ordered error or a failed sink ends the
\* thread; with nothing ready the loop receives again.
Drain ==
    /\ wpc = "drain"
    /\ \/ /\ RBPop
          /\ IF held[next_seq]
             THEN \/ /\ written' = Append(written, next_seq)
                     /\ window' = TokenBack
                     /\ UNCHANGED <<wpc, result>>
                  \/ Stop("sink") /\ UNCHANGED <<written, window>>
             ELSE Stop("item") /\ UNCHANGED <<written, window>>
       \/ /\ ~Ready
          /\ wpc' = "recv"
          /\ UNCHANGED <<rbVars, written, result, window>>
    /\ UNCHANGED <<on_worker, producer, permits, taken, executor, chan, ends, announced,
                   writer_gone, report, cancelled>>

\* check_stream_complete: an interior gap, a missing tail, or a whole stream.
CheckComplete ==
    IF held # << >> \/ (announced # Unannounced /\ next_seq < announced) THEN "gap" ELSE "ok"

\* ... and the sink's finish, which can fail.
Complete ==
    /\ wpc = "complete"
    /\ \/ Stop(CheckComplete)
       \/ CheckComplete = "ok" /\ Stop("sink")
    /\ UNCHANGED <<on_worker, producer, tokens, executor, chan, ends, rbVars, written, announced,
                   writer_gone, report, cancelled>>

\* The Inbox drops: the item receiver, then the window's only sender.
DropItems ==
    /\ wpc = "dropping"
    /\ inbox' = FALSE
    /\ chan' = <<>>
    /\ wpc' = "dropped"
    /\ UNCHANGED <<on_worker, producer, tokens, executor, tx, window_tx, handle, rbVars, written,
                   result, announced, writer_gone, report, cancelled>>

DropWindow ==
    /\ wpc = "dropped"
    /\ window_tx' = FALSE
    /\ wpc' = "gone"
    /\ UNCHANGED <<on_worker, producer, tokens, executor, chan, tx, inbox, handle, rbVars, written,
                   result, announced, writer_gone, report, cancelled>>

-----------------------------------------------------------------------------
(* The producer: the methods of PbfWriter *)

\* Self runs a job inside a cooperative wait; the producer goes on after it.
NotRunningJob == rpc[Self] = "idle"

Fail == session' = "failed"

FinishSession_Anyway == "finished"
FinishSession == IF session = "failed" THEN "failed" ELSE "finished"

Errs(e) == /\ ppc' = "idle" /\ kind' = "none" /\ outcome' = e /\ lost' = TRUE
           /\ Fail

\* A write on a live pipeline: the token, then the death notice, then the
\* window.  After flush the file is gone and every write is refused.
BeginWrite(k) ==
    /\ ppc = "idle" /\ calls < MaxCalls /\ seq < MaxSeq
    /\ calls' = calls + 1
    /\ IF cancelled \/ announced # Unannounced
       THEN /\ Errs(IF cancelled THEN "cancelled" ELSE "consumed")
       ELSE /\ ppc' = IF writer_gone THEN "recover" ELSE "window"
            /\ kind' = k
            /\ UNCHANGED report
    /\ UNCHANGED <<on_worker, seq, slot, tokens, executor, chan, ends, thread, announced,
                   writer_gone, cancelled>>

\* reserve: the window token first, while no permit is held.
TakeWindow ==
    /\ ppc = "window" /\ NotRunningJob
    /\ \/ /\ window > 0
          /\ window' = window - 1
          /\ ppc' = "permit"
       \/ /\ window = 0 /\ ~window_tx
          /\ ppc' = "recover"
          /\ UNCHANGED window
    /\ UNCHANGED <<on_worker, kind, calls, seq, slot, permits, taken, executor, chan, ends, thread,
                   announced, writer_gone, report, cancelled>>

\* ... then the permit and the position; a framed write spawns its job.
TakePermit ==
    /\ ppc = "permit" /\ NotRunningJob
    /\ permits > 0
    /\ permits' = permits - 1
    /\ seq' = seq + 1
    /\ IF kind = "framed"
       THEN /\ jobs' = jobs \union {seq}
            /\ ppc' = "idle" /\ kind' = "none" /\ outcome' = "ok"
            /\ UNCHANGED slot
       ELSE /\ slot' = seq
            /\ ppc' = "send"
            /\ UNCHANGED <<jobs, kind, outcome>>
    /\ UNCHANGED <<on_worker, calls, taken, window, rpc, rseq, chan, ends, thread, announced,
                   writer_gone, session, lost, cancelled>>

RawPermit_Twice == permits + 2
\* send_raw gives its permit back before it recovers the thread's error.
RawPermit == permits + 1

\* send_raw: the send with the permit held, then the permit.
SendRaw ==
    /\ ppc = "send"
    /\ slot' = NoSlot
    /\ \/ /\ CanSend
          /\ chan' = Append(chan, Item(slot, TRUE))
          /\ permits' = permits + 1
          /\ ppc' = "idle" /\ kind' = "none" /\ outcome' = "ok"
       \/ /\ Refused
          /\ permits' = RawPermit
          /\ ppc' = "recover"
          /\ UNCHANGED <<chan, kind, outcome>>
    /\ UNCHANGED <<on_worker, calls, seq, taken, window, executor, ends, thread, announced,
                   writer_gone, session, lost, cancelled>>

\* pipeline_send_error: fail the session, record the death, wait for the
\* jobs, join.
Recover ==
    /\ ppc = "recover"
    /\ Fail
    /\ writer_gone' = TRUE
    /\ ppc' = "barrier" /\ kind' = "recover"
    /\ UNCHANGED <<on_worker, calls, seq, slot, tokens, executor, chan, ends, thread, announced,
                   lost, outcome, cancelled>>

\* flush and Drop, on a live pipeline; flush announces the total first.
BeginFlush ==
    /\ ppc = "idle" /\ calls < MaxCalls
    /\ calls' = calls + 1
    /\ IF announced = Unannounced
       THEN announced' = seq /\ ppc' = "barrier" /\ kind' = "flush" /\ UNCHANGED <<outcome, session>>
       ELSE /\ outcome' = "flushed"    \* nothing left to do
            /\ session' = FinishSession
            /\ UNCHANGED <<ppc, kind, announced>>
    /\ UNCHANGED <<on_worker, seq, slot, tokens, executor, chan, ends, thread, writer_gone, lost,
                   cancelled>>

BeginDrop ==
    /\ ppc = "idle"
    /\ kind' = "drop"
    /\ ppc' = IF announced = Unannounced THEN "barrier" ELSE "dropped"
    /\ Fail \/ UNCHANGED session    \* into_inner fails the session first
    /\ UNCHANGED <<on_worker, calls, seq, slot, tokens, executor, chan, ends, thread, announced,
                   writer_gone, lost, outcome, cancelled>>

BarrierNeeds_First == 1
\* wait_for_framing takes every permit before it returns any.
BarrierNeeds == Permits

TakeBack ==
    /\ ppc = "barrier" /\ NotRunningJob
    /\ taken < BarrierNeeds /\ permits > 0
    /\ permits' = permits - 1 /\ taken' = taken + 1
    /\ UNCHANGED <<on_worker, producer, window, executor, chan, ends, thread, announced,
                   writer_gone, report, cancelled>>

\* All taken: returned, and for flush and Drop the pipeline's sender drops.
BarrierDone ==
    /\ ppc = "barrier" /\ NotRunningJob /\ taken = BarrierNeeds
    /\ permits' = permits + taken /\ taken' = 0
    /\ tx' = (tx /\ kind = "recover")
    /\ ppc' = "join"
    /\ UNCHANGED <<on_worker, kind, calls, seq, slot, window, executor, chan, inbox, window_tx,
                   handle, thread, announced, writer_gone, report, cancelled>>

\* What the joined thread's result becomes for the caller of a write.
JoinError ==
    CASE ~handle -> "terminated"
      [] handle /\ result = "ok" -> "incomplete"
      [] OTHER -> result

Join ==
    /\ ppc = "join" /\ (handle => wpc = "gone")
    /\ handle' = FALSE
    /\ kind' = "none"
    /\ CASE kind = "recover" ->
              /\ ppc' = "idle" /\ outcome' = JoinError /\ lost' = TRUE
              /\ UNCHANGED session
         [] kind = "flush" ->
              /\ ppc' = "idle"
              /\ IF handle /\ result # "ok"
                 THEN outcome' = result /\ session' = "failed"
                 ELSE /\ outcome' = "flushed"
                      /\ session' = FinishSession
              /\ UNCHANGED lost
         [] kind = "drop" ->
              /\ ppc' = "dropped" /\ UNCHANGED report
    /\ UNCHANGED <<on_worker, calls, seq, slot, tokens, executor, chan, tx, inbox, window_tx,
                   thread, announced, writer_gone, cancelled>>

Cancel ==
    /\ ~cancelled /\ ppc # "dropped"
    /\ cancelled' = TRUE
    /\ UNCHANGED <<on_worker, producer, tokens, executor, chan, ends, thread, announced,
                   writer_gone, report>>

-----------------------------------------------------------------------------
JobStep(r) == StartJob(r) \/ Frame(r) \/ DeathNotice(r) \/ Release(r)
ThreadStep == Receive \/ Drain \/ Complete \/ DropItems \/ DropWindow
CallStep == TakeWindow \/ TakePermit \/ SendRaw \/ Recover \/ TakeBack \/ BarrierDone \/ Join
Calls == (\E k \in {"raw", "framed"} : BeginWrite(k)) \/ BeginFlush \/ BeginDrop

Next == \/ \E r \in Threads : JobStep(r)
        \/ ThreadStep \/ CallStep \/ Calls \/ Cancel

Spec == Init /\ [][Next]_vars

\* Threads keep running and framing ends; nobody has to call, and a job
\* need not fail.
FairSpec == /\ Spec /\ WF_vars(ThreadStep) /\ WF_vars(CallStep)
            /\ \A r \in Threads : WF_vars(JobStep(r))

-----------------------------------------------------------------------------
(* Properties *)

\* Every variable keeps its type.
TypeOK ==
    /\ on_worker \in BOOLEAN /\ cancelled \in BOOLEAN /\ lost \in BOOLEAN
    /\ ppc \in {"idle", "window", "permit", "send", "recover", "barrier", "join", "dropped"}
    /\ kind \in {"none", "raw", "framed", "recover", "flush", "drop"}
    /\ calls \in 0 .. MaxCalls /\ seq \in 0 .. MaxSeq /\ slot \in Positions \union {NoSlot}
    /\ permits \in 0 .. Permits /\ taken \in 0 .. Permits /\ window \in Nat
    /\ jobs \subseteq Positions
    /\ rpc \in [Threads -> {"idle", "frame", "notice", "release"}]
    /\ rseq \in [Threads -> Positions]
    /\ chan \in Seq([seq : Positions, ok : BOOLEAN]) /\ Len(chan) <= WriteAhead
    /\ tx \in BOOLEAN /\ inbox \in BOOLEAN /\ window_tx \in BOOLEAN /\ handle \in BOOLEAN
    /\ wpc \in {"recv", "drain", "complete", "dropping", "dropped", "gone"}
    /\ next_seq \in 0 .. MaxSeq /\ DOMAIN held \subseteq Positions
    /\ \A s \in DOMAIN held : held[s] \in BOOLEAN
    /\ written \in Seq(Positions)
    /\ result \in {"none", "ok", "item", "sink", "gap", "panic"}
    /\ announced \in 0 .. MaxSeq \union {Unannounced} /\ writer_gone \in BOOLEAN
    /\ session \in {"open", "finished", "failed"}
    /\ outcome \in {"none", "ok", "flushed", "cancelled", "consumed", "terminated",
                    "incomplete", "item", "sink", "gap", "panic"}

\* A session certified as finished lost nothing: no write failed, and every
\* reserved position reached the sink, once and in order.  Each position gets
\* exactly one result while the writer thread lives, so no gap is ever found
\* at the end of a stream; the delivery window admits nothing past the reorder
\* buffer and no position is sent twice, so the buffer refuses nothing.
FinishedIsComplete ==
    /\ session = "finished" => ~lost /\ written = [k \in 1 .. seq |-> k - 1]
    /\ result \notin {"gap", "panic"}

\* Once a call has recovered the writer thread's error or finished the writer,
\* none of its framing jobs is queued or running.  The writer thread's death
\* reaches the caller with its cause: the first write to notice returns the
\* thread's own error.
JoinedIsOver ==
    [][ppc = "join" /\ ppc' # "join" =>
          /\ jobs' = {} /\ \A r \in Threads : rpc'[r] = "idle"
          /\ kind = "recover" => outcome' \in {"item", "sink"} \/ lost]_vars

\* Every method returns: waits for window tokens, permits, jobs and the
\* thread all end, also on the executor's only thread and after failures.
CallsReturn == ppc # "idle" ~> ppc \in {"idle", "dropped"}

-----------------------------------------------------------------------------
(* Small instances of WritePipeline for TLC. *)

RunnerSymmetry == Permutations(Runners)
=============================================================================
