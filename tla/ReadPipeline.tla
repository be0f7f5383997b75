---------------------------- MODULE ReadPipeline ----------------------------
(***************************************************************************)
(* read/pipeline.rs, read/reader.rs: the three-stage read.  A reader       *)
(* thread numbers the blobs and sends them through a bounded channel; a    *)
(* dispatcher admits each one against a gate and spawns its decoding on a  *)
(* pool; the caller puts the results back in order and consumes them.      *)
(* ElementReader::into_blocks_pipelined runs all of it on a thread of its  *)
(* own, whose consumer sends each block to an iterator's queue.            *)
(*                                                                         *)
(* A blob is what becomes of it: "ok" (decodes), "none" (left out by the   *)
(* filter, or no data blob), "bad" (its decoding fails or panics), "torn"  *)
(* (the reader itself fails there, and the stream ends).                   *)
(***************************************************************************)
EXTENDS Integers, Sequences, FiniteSets, SequencesExt, TLC

CONSTANTS N,            \* at most this many blobs
          ReadAhead,    \* pipeline_config.read_ahead
          DecodeAhead,  \* pipeline_config.decode_ahead
          DecodeThreads, BlockQueue

VARIABLES world,      \* the input and the faults of this read: fixed
          cancelled,
          reader,     \* the reader thread: the next seq, and where it is
          raw,        \* the raw channel: its items and whether it has a receiver
          disp,       \* the dispatcher: where it is, its item, its shutdown flag
          tasks,      \* the spawned decodings: seq -> "queued" or "send"
          decoded,    \* the decoded channel
          permits,    \* the seqs that hold a permit of the gate
          cons,       \* the consumer: where it is, its reorder buffer, its result
          consumed,   \* ghost: the seqs whose block was consumed, in order
          caller      \* the iterator's side: where it is, its queue, what it got

vars == <<world, cancelled, reader, raw, disp, tasks, decoded, permits, cons, consumed, caller>>

Seqs == 0 .. N - 1
Blobs == Len(world.blobs)
What(s) == world.blobs[s + 1]
Channel == [items |-> <<>>, rx |-> TRUE]
Put(chan, x) == [chan EXCEPT !.items = Append(@, x)]
Took(chan) == [chan EXCEPT !.items = Tail(@)]

Worlds ==
    [blobs : {b \in UNION {[1 .. n -> {"ok", "none", "bad", "torn"}] : n \in 0 .. N} :
                 \A i \in DOMAIN b : b[i] = "torn" => i = Len(b)},
     builds : BOOLEAN, refuses : Seqs \cup {-1}, iterates : BOOLEAN]
Sensible(w) ==
    /\ w.refuses # -1 => w.refuses < Len(w.blobs) /\ w.blobs[w.refuses + 1] = "ok" /\ ~w.iterates
    /\ ~w.builds => w.refuses = -1 /\ Len(w.blobs) <= 1

Init ==
    /\ world \in {w \in Worlds : Sensible(w)}
    /\ cancelled = FALSE
    /\ reader = [pc |-> "read", seq |-> 0, what |-> "ok"]
    /\ raw = Channel
    /\ disp = [pc |-> "build", seq |-> 0, what |-> "ok", shutdown |-> FALSE]
    /\ tasks = <<>>
    /\ decoded = Channel
    /\ permits = {}
    /\ cons = [pc |-> "recv", next |-> 0, held |-> <<>>, result |-> <<"none">>]
    /\ consumed = <<>>
    /\ caller = [pc |-> IF world.iterates THEN "next" ELSE "waits", chan |-> Channel,
                 completed |-> FALSE, got |-> <<>>]

-----------------------------------------------------------------------------
(* Stage 1: the reader thread. *)

\* BlobReader::next_blob: an error, the invocation's cancellation among them,
\* is an item like any other, and the last.
NextBlob ==
    /\ reader.pc = "read"
    /\ reader' = IF reader.seq = Blobs THEN [reader EXCEPT !.pc = "gone"]
                 ELSE [reader EXCEPT !.pc = "send",
                                     !.what = IF cancelled THEN "cancel" ELSE What(reader.seq)]
    /\ UNCHANGED <<world, cancelled, raw, disp, tasks, decoded, permits, cons, consumed, caller>>

\* raw_tx.send blocks while the channel is full, and fails once the
\* dispatcher dropped the receiver.
RawSend ==
    /\ reader.pc = "send"
    /\ \/ /\ raw.rx /\ Len(raw.items) < ReadAhead
          /\ raw' = Put(raw, [seq |-> reader.seq, what |-> reader.what])
          /\ reader' = [reader EXCEPT !.seq = @ + 1,
                            !.pc = IF reader.what \in {"torn", "cancel"} THEN "gone" ELSE "read"]
       \/ ~raw.rx /\ reader' = [reader EXCEPT !.pc = "gone"] /\ UNCHANGED raw
    /\ UNCHANGED <<world, cancelled, disp, tasks, decoded, permits, cons, consumed, caller>>

-----------------------------------------------------------------------------
(* Stage 2: the dispatcher and the decode pool. *)

DispGoto(pc) == disp' = [disp EXCEPT !.pc = pc]
DropRaw == raw' = [items |-> <<>>, rx |-> FALSE]

\* A send to the decoded channel: blocked while it is full, refused once the
\* consumer dropped the receiver.
CanSend == decoded.rx /\ Len(decoded.items) < DecodeAhead

\* A pool that cannot be built is answered as the outcome of the first blob.
BuildPool ==
    /\ disp.pc = "build"
    /\ \/ world.builds /\ DispGoto("recv") /\ UNCHANGED <<raw, decoded>>
       \/ /\ ~world.builds /\ CanSend
          /\ decoded' = Put(decoded, [seq |-> 0, what |-> "unbuilt"])
          /\ DispGoto("gone") /\ DropRaw
       \/ ~world.builds /\ ~decoded.rx /\ DispGoto("gone") /\ DropRaw /\ UNCHANGED decoded
    /\ UNCHANGED <<world, cancelled, reader, tasks, permits, cons, consumed, caller>>

\* The dispatcher's loop: the next raw item, unless a task found the consumer
\* gone; leaving the loop drops the raw receiver.
TakeRaw ==
    /\ disp.pc = "recv"
    /\ \/ /\ raw.items # <<>>
          /\ \/ disp.shutdown /\ DispGoto("scope") /\ DropRaw
             \/ /\ ~disp.shutdown /\ raw' = Took(raw)
                /\ disp' = [disp EXCEPT !.seq = Head(raw.items).seq, !.what = Head(raw.items).what,
                                !.pc = IF Head(raw.items).what \in {"torn", "cancel"}
                                       THEN "error" ELSE "admit"]
       \/ raw.items = <<>> /\ reader.pc = "gone" /\ DispGoto("scope") /\ DropRaw
    /\ UNCHANGED <<world, cancelled, reader, tasks, decoded, permits, cons, consumed, caller>>

Admit_Unbounded ==
    /\ disp.pc = "admit"
    /\ permits' = permits \cup {disp.seq}
    /\ tasks' = tasks @@ (disp.seq :> "queued")
    /\ DispGoto("recv")
    /\ UNCHANGED <<world, cancelled, reader, raw, decoded, cons, consumed, caller>>

\* AdmissionGate::acquire waits while every permit is out; the permit rides
\* with the blob from here to its consumption.
Admit ==
    /\ disp.pc = "admit"
    /\ Cardinality(permits) < DecodeAhead
    /\ permits' = permits \cup {disp.seq}
    /\ tasks' = tasks @@ (disp.seq :> "queued")
    /\ DispGoto("recv")
    /\ UNCHANGED <<world, cancelled, reader, raw, decoded, cons, consumed, caller>>

\* send_direct_error: the reader's error takes its place in the sequence,
\* without a permit.
SendError ==
    /\ disp.pc = "error"
    /\ \/ CanSend /\ decoded' = Put(decoded, [seq |-> disp.seq, what |-> disp.what])
          /\ DispGoto("recv") /\ UNCHANGED raw
       \/ ~decoded.rx /\ DispGoto("scope") /\ DropRaw /\ UNCHANGED decoded
    /\ UNCHANGED <<world, cancelled, reader, tasks, permits, cons, consumed, caller>>

\* A pool thread takes a spawned decoding.
StartTask ==
    /\ Cardinality({s \in DOMAIN tasks : tasks[s] = "send"}) < DecodeThreads
    /\ \E s \in DOMAIN tasks :
          tasks[s] = "queued" /\ tasks' = [tasks EXCEPT ![s] = "send"]
    /\ UNCHANGED <<world, cancelled, reader, raw, disp, decoded, permits, cons, consumed, caller>>

\* spawn_decode_task: filtered out, decoded or failed, a panic included, the
\* outcome is sent with its permit; a refused send drops both and tells the
\* dispatcher.
SendDecoded ==
    /\ \E s \in DOMAIN tasks :
          /\ tasks[s] = "send"
          /\ tasks' = Restrict(tasks, DOMAIN tasks \ {s})
          /\ \/ CanSend /\ decoded' = Put(decoded, [seq |-> s, what |-> What(s)])
                /\ UNCHANGED <<disp, permits>>
             \/ ~decoded.rx /\ disp' = [disp EXCEPT !.shutdown = TRUE]
                /\ permits' = permits \ {s} /\ UNCHANGED decoded
    /\ UNCHANGED <<world, cancelled, reader, raw, cons, consumed, caller>>

\* in_place_scope waits for every spawned task; then the sender goes, and the
\* pool's threads are joined.
ScopeEnds ==
    /\ disp.pc = "scope" /\ tasks = <<>>
    /\ DispGoto("gone")
    /\ UNCHANGED <<world, cancelled, reader, raw, tasks, decoded, permits, cons, consumed, caller>>

-----------------------------------------------------------------------------
(* Stage 3: drain_decoded, on the calling thread. *)

Leave(result) == cons' = [cons EXCEPT !.pc = "leaving", !.result = result]

\* The loop's two cancellation checks and the receive between them.
RecvDecoded ==
    /\ cons.pc = "recv"
    /\ \/ cancelled /\ Leave(<<"cancelled">>) /\ UNCHANGED <<decoded, permits>>
       \/ /\ decoded.items # <<>> /\ decoded' = Took(decoded)
          /\ LET item == Head(decoded.items) IN
             IF cancelled
             THEN Leave(<<"cancelled">>) /\ permits' = permits \ {item.seq}
             ELSE /\ cons' = [cons EXCEPT !.held = @ @@ (item.seq :> item.what), !.pc = "pop"]
                  /\ UNCHANGED permits
       \/ /\ decoded.items = <<>> /\ disp.pc = "gone"
          /\ Leave(IF cancelled THEN <<"cancelled">> ELSE <<"ok">>)
          /\ UNCHANGED <<decoded, permits>>
    /\ UNCHANGED <<world, cancelled, reader, raw, disp, tasks, consumed, caller>>

Popped == cons.held[cons.next]
Pop(pc) == cons' = [cons EXCEPT !.pc = pc, !.next = @ + 1,
                                !.held = Restrict(@, DOMAIN @ \ {cons.next})]

PopReady_SkipsBad ==
    /\ cons.pc = "pop"
    /\ \/ /\ cons.next \notin DOMAIN cons.held
          /\ cons' = [cons EXCEPT !.pc = "recv"] /\ UNCHANGED permits
       \/ /\ cons.next \in DOMAIN cons.held /\ Popped = "ok"
          /\ cons' = [cons EXCEPT !.pc = "consume"] /\ UNCHANGED permits
       \/ /\ cons.next \in DOMAIN cons.held /\ Popped \in {"none", "bad"}
          /\ Pop("pop") /\ permits' = permits \ {cons.next}
       \/ /\ cons.next \in DOMAIN cons.held /\ Popped \notin {"ok", "none", "bad"}
          /\ Leave(<<Popped, cons.next>>) /\ UNCHANGED permits
    /\ UNCHANGED <<world, cancelled, reader, raw, disp, tasks, decoded, consumed, caller>>

\* pop_ready, the next in order: its block goes to the consumer, its error ends
\* the read, a blob left out only gives its permit back.
PopReady ==
    /\ cons.pc = "pop"
    /\ \/ /\ cons.next \notin DOMAIN cons.held
          /\ cons' = [cons EXCEPT !.pc = "recv"] /\ UNCHANGED permits
       \/ /\ cons.next \in DOMAIN cons.held /\ Popped = "ok"
          /\ cons' = [cons EXCEPT !.pc = "consume"] /\ UNCHANGED permits
       \/ /\ cons.next \in DOMAIN cons.held /\ Popped = "none"
          /\ Pop("pop") /\ permits' = permits \ {cons.next}
       \/ /\ cons.next \in DOMAIN cons.held /\ Popped \notin {"ok", "none"}
          /\ Leave(<<Popped, cons.next>>) /\ UNCHANGED permits
    /\ UNCHANGED <<world, cancelled, reader, raw, disp, tasks, decoded, consumed, caller>>

\* The caller's closure: it takes the block or refuses it; the permit is
\* dropped either way, before the answer is looked at.
Consume ==
    /\ cons.pc = "consume" /\ ~world.iterates
    /\ permits' = permits \ {cons.next}
    /\ IF world.refuses = cons.next
       THEN Leave(<<"refused", cons.next>>) /\ UNCHANGED consumed
       ELSE Pop("pop") /\ consumed' = Append(consumed, cons.next)
    /\ UNCHANGED <<world, cancelled, reader, raw, disp, tasks, decoded, caller>>

\* into_blocks_pipelined's closure: the block goes to the iterator's queue, or
\* the iterator was dropped.
Deliver ==
    /\ cons.pc = "consume" /\ world.iterates
    /\ \/ /\ caller.chan.rx /\ Len(caller.chan.items) < BlockQueue
          /\ caller' = [caller EXCEPT !.chan = Put(@, <<"block", cons.next>>)]
          /\ consumed' = Append(consumed, cons.next)
          /\ Pop("pop")
       \/ ~caller.chan.rx /\ Leave(<<"refused", cons.next>>) /\ UNCHANGED <<caller, consumed>>
    /\ permits' = permits \ {cons.next}
    /\ UNCHANGED <<world, cancelled, reader, raw, disp, tasks, decoded>>

\* Leaving drain_decoded drops the reorder buffer and the receiver, and with
\* them every permit that waits in either.
LeaveDrain ==
    /\ cons.pc = "leaving"
    /\ decoded' = [items |-> <<>>, rx |-> FALSE]
    /\ permits' = permits \ (DOMAIN cons.held \cup {decoded.items[i].seq : i \in DOMAIN decoded.items})
    /\ cons' = [cons EXCEPT !.pc = "join"]
    /\ UNCHANGED <<world, cancelled, reader, raw, disp, tasks, consumed, caller>>

\* thread::scope joins both threads before run_pipeline returns; the
\* iterator's thread sends an error on and then records that it completed.
JoinStages ==
    /\ cons.pc = "join" /\ reader.pc = "gone" /\ disp.pc = "gone"
    /\ cons' = [cons EXCEPT !.pc = "returned"]
    /\ UNCHANGED <<world, cancelled, reader, raw, disp, tasks, decoded, permits, consumed, caller>>

Complete ==
    /\ cons.pc = "returned" /\ world.iterates /\ ~caller.completed
    /\ \/ /\ cons.result # <<"ok">> /\ caller.chan.rx
          /\ Len(caller.chan.items) < BlockQueue
          /\ caller' = [caller EXCEPT !.completed = TRUE, !.chan = Put(@, cons.result)]
       \/ /\ cons.result = <<"ok">> \/ ~caller.chan.rx
          /\ caller' = [caller EXCEPT !.completed = TRUE]
    /\ UNCHANGED <<world, cancelled, reader, raw, disp, tasks, decoded, permits, cons, consumed>>

-----------------------------------------------------------------------------
(* The iterator's holder, and the invocation's canceller. *)

\* PipelinedBlocks::next.
Next_Block ==
    /\ caller.pc = "next"
    /\ \/ /\ caller.chan.items # <<>>
          /\ caller' = [caller EXCEPT !.chan = Took(@), !.got = Append(@, Head(caller.chan.items))]
       \/ /\ caller.chan.items = <<>> /\ caller.completed
          /\ caller' = [caller EXCEPT !.pc = "ended"]
    /\ UNCHANGED <<world, cancelled, reader, raw, disp, tasks, decoded, permits, cons, consumed>>

\* PipelinedBlocks::drop: the receiver first, then the thread is joined.
DropIterator ==
    /\ \/ /\ caller.pc \in {"next", "ended"}
          /\ caller' = [caller EXCEPT !.pc = "joining", !.chan = [items |-> <<>>, rx |-> FALSE]]
       \/ /\ caller.pc = "joining" /\ caller.completed
          /\ caller' = [caller EXCEPT !.pc = "dropped"]
    /\ UNCHANGED <<world, cancelled, reader, raw, disp, tasks, decoded, permits, cons, consumed>>

Cancel ==
    /\ ~cancelled /\ cancelled' = TRUE
    /\ UNCHANGED <<world, reader, raw, disp, tasks, decoded, permits, cons, consumed, caller>>

ConsumerStep ==
    RecvDecoded \/ PopReady \/ Consume \/ Deliver \/ LeaveDrain \/ JoinStages \/ Complete
ThreadStep ==
    \/ NextBlob \/ RawSend
    \/ BuildPool \/ TakeRaw \/ Admit \/ SendError
    \/ StartTask \/ SendDecoded \/ ScopeEnds
    \/ ConsumerStep
Next == ThreadStep \/ Next_Block \/ DropIterator \/ Cancel

\* Every thread that can go on does; a holder of an iterator drops it in the
\* end, and nobody need cancel.
Fairness ==
    /\ WF_vars(NextBlob \/ RawSend)
    /\ WF_vars(BuildPool \/ TakeRaw \/ Admit \/ SendError \/ ScopeEnds)
    /\ WF_vars(StartTask) /\ WF_vars(SendDecoded)
    /\ WF_vars(ConsumerStep)
    /\ WF_vars(DropIterator)

Spec == Init /\ [][Next]_vars /\ Fairness

-----------------------------------------------------------------------------
(* Properties. *)

\* The state stays in its range, and each channel within its capacity.
TypeOK ==
    /\ reader.pc \in {"read", "send", "gone"} /\ reader.seq \in 0 .. N
    /\ Len(raw.items) <= ReadAhead /\ Len(decoded.items) <= DecodeAhead
    /\ Len(caller.chan.items) <= BlockQueue
    /\ permits \subseteq Seqs /\ DOMAIN tasks \subseteq permits
    /\ cons.pc \in {"recv", "pop", "consume", "leaving", "join", "returned"}
    /\ DOMAIN cons.held \subseteq Seqs

\* What is decoded and not yet consumed never exceeds decode_ahead, the
\* reader's error apart, and no permit outlives the read.
PermitsBounded ==
    /\ Cardinality(permits) <= DecodeAhead
    /\ Cardinality(DOMAIN tasks) + Len(decoded.items) + Cardinality(DOMAIN cons.held)
          <= DecodeAhead + 1
    /\ cons.pc = "returned" => permits = {}

OkBelow(s) == SelectSeq([i \in 1 .. s |-> i - 1], LAMBDA t : What(t) = "ok")
FirstBad(s) == What(s) \in {"bad", "torn"} /\ \A t \in 0 .. s - 1 : What(t) \in {"ok", "none"}

\* The consumer is given the data blobs in file order, without a gap and
\* without a repetition, whatever order the pool decodes them in; a read that
\* answers Ok gave it every one; one that fails names the first blob that
\* fails and had consumed exactly the ones before it; and what the iterator
\* handed out is a prefix of what was consumed, the error last.
ReadIsTrue ==
    /\ consumed = OkBelow(cons.next)
    /\ cons.pc = "returned" =>
          CASE cons.result = <<"ok">> -> cons.next = Blobs /\ world.builds
            [] cons.result[1] \in {"bad", "torn"} ->
                  FirstBad(cons.result[2]) /\ cons.next = cons.result[2]
            [] cons.result[1] = "refused" -> What(cons.next) = "ok"
            [] cons.result[1] = "unbuilt" -> ~world.builds /\ consumed = <<>>
            [] OTHER -> cancelled
    /\ LET blocks == [i \in DOMAIN consumed |-> <<"block", consumed[i]>>]
       IN \/ IsPrefix(caller.got, blocks)
          \/ caller.got = Append(blocks, cons.result) /\ cons.result # <<"ok">>
    /\ caller.pc = "ended" =>
          Len(caller.got) = Len(consumed) + (IF cons.result = <<"ok">> THEN 0 ELSE 1)

\* The read always ends: no failure, cancellation, full channel, spent gate or
\* dropped iterator leaves the reader, the dispatcher, a decoding or the
\* consumer waiting for another.
ReadReturns ==
    <>(cons.pc = "returned" /\ (world.iterates => caller.pc = "dropped"))
=============================================================================
