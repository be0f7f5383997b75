---------------------------- MODULE ClassifyPool ----------------------------
(* scan/classify.rs: the two pools that scan a schedule of blobs and do not   *)
(* keep its order.  A dispatcher thread feeds positions into a bounded        *)
(* channel that the workers share behind a mutex.  run_unordered_per_blob     *)
(* ("each") sends one result per blob to the calling thread, which merges it  *)
(* and may break off; run_accumulate_decoded ("fold") keeps one state per     *)
(* worker and sends it when the positions are used up.  Blobs may fail or     *)
(* panic, the invocation may be cancelled.                                    *)
EXTENDS Integers, Sequences, FiniteSets, SequencesExt

CONSTANTS ScanWorkers,     \* the worker threads
          MaxBlobs,        \* the longest schedule
          DescCap,         \* POOL_DESCRIPTOR_CHANNEL_DEPTH
          ResultCap        \* POOL_RESULT_CHANNEL_DEPTH

VARIABLES sched,           \* [mode, blobs, breaks]: the call; blobs[p] is what a worker meets
          tripped,         \* the invocation's token
          feeder,          \* the dispatcher: next position, 0 when gone
          descs,           \* the descriptor channel
          wk,              \* worker -> [pc, at, held]
          stop,            \* the accumulate pool's stop flag
          results, taker,  \* the result channel; the calling thread [pc, result]
          merged           \* what was merged, in merging order

vars == <<sched, tripped, feeder, descs, wk, stop, results, taker, merged>>

Blobs == Len(sched.blobs)
Fold == sched.mode = "fold"
Gone(w) == wk[w].pc \in {"gone", "dead"}
Listening == \E w \in ScanWorkers : ~Gone(w)
TakerThere == taker.pc = "recv"
ResultRoom == IF Fold THEN Cardinality(ScanWorkers) ELSE ResultCap

Result(why, blobs) == [why |-> why, blobs |-> blobs]

Init ==
    /\ sched \in [mode : {"each", "fold"}, breaks : BOOLEAN,
                  blobs : UNION {[1 .. n -> {"ok", "bad", "panics"}] : n \in 0 .. MaxBlobs}]
    /\ sched.breaks => ~Fold
    /\ tripped \in BOOLEAN
    /\ feeder = 0 /\ descs = <<>> /\ results = <<>> /\ stop = FALSE
    /\ wk = [w \in ScanWorkers |-> [pc |-> "gone", at |-> 0, held |-> Result("ok", {})]]
    /\ taker = [pc |-> "start", result |-> "ok"]
    /\ merged = <<>>

\* The token is looked at before anything starts; an empty schedule is done.
Start ==
    /\ taker.pc = "start"
    /\ IF tripped \/ Blobs = 0
       THEN /\ taker' = [pc |-> "join", result |-> IF tripped THEN "cancelled" ELSE "ok"]
            /\ UNCHANGED <<feeder, wk>>
       ELSE /\ taker' = [taker EXCEPT !.pc = "recv"]
            /\ feeder' = 1 /\ wk' = [w \in ScanWorkers |-> [wk[w] EXCEPT !.pc = "top"]]
    /\ UNCHANGED <<sched, tripped, descs, stop, results, merged>>

----------------------------------------------------------------------------
(* The dispatcher and the workers. *)

\* One position per send; a send to no receiver ends the dispatcher.
Feed ==
    /\ feeder # 0
    /\ \/ /\ Listening /\ Len(descs) < DescCap
          /\ descs' = Append(descs, feeder)
          /\ feeder' = IF feeder = Blobs THEN 0 ELSE feeder + 1
       \/ ~Listening /\ feeder' = 0 /\ UNCHANGED descs
    /\ UNCHANGED <<sched, tripped, wk, stop, results, taker, merged>>

\* The accumulate pool looks at the token and the stop flag before each
\* position; a worker told to stop sends nothing.
CheckStop_SendsPart(w) ==
    /\ wk[w].pc = "top" /\ Fold
    /\ wk' = [wk EXCEPT ![w].pc = IF tripped \/ stop THEN "send" ELSE "next"]
    /\ UNCHANGED <<sched, tripped, feeder, descs, stop, results, taker, merged>>

CheckStop(w) ==
    /\ wk[w].pc = "top" /\ Fold
    /\ wk' = [wk EXCEPT ![w].pc = IF tripped THEN "send" ELSE IF stop THEN "gone" ELSE "next",
                        ![w].held = IF tripped THEN Result("cancelled", {}) ELSE @]
    /\ stop' = (stop \/ tripped)
    /\ UNCHANGED <<sched, tripped, feeder, descs, results, taker, merged>>

\* next_position: a position, or the end once the dispatcher is gone.
NextPosition(w) ==
    /\ wk[w].pc = IF Fold THEN "next" ELSE "top"
    /\ \/ /\ descs # <<>>
          /\ descs' = Tail(descs)
          /\ wk' = [wk EXCEPT ![w].pc = "work", ![w].at = Head(descs)]
       \/ /\ descs = <<>> /\ feeder = 0
          /\ wk' = [wk EXCEPT ![w].pc = IF Fold THEN "send" ELSE "gone"]
          /\ UNCHANGED descs
    /\ UNCHANGED <<sched, tripped, feeder, stop, results, taker, merged>>

\* The blob is read, decompressed and scanned.
Scan(w) ==
    /\ wk[w].pc = "work"
    /\ LET at == wk[w].at  what == sched.blobs[at] IN
       CASE what = "panics" -> wk' = [wk EXCEPT ![w].pc = "dead"] /\ stop' = (stop \/ Fold)
         [] what = "bad" ->
              /\ wk' = [wk EXCEPT ![w].pc = "send", ![w].held = Result("bad", {at})]
              /\ stop' = (stop \/ Fold)
         [] OTHER ->
              /\ wk' = [wk EXCEPT ![w].pc = IF Fold THEN "top" ELSE "send",
                                  ![w].held = Result("ok", {at} \cup IF Fold THEN @.blobs ELSE {})]
              /\ UNCHANGED stop
    /\ UNCHANGED <<sched, tripped, feeder, descs, results, taker, merged>>

\* The result goes to the calling thread; a receiver that is gone ends the
\* worker, and so does the accumulate pool's only send.
SendResult(w) ==
    /\ wk[w].pc = "send"
    /\ \/ /\ TakerThere /\ Len(results) < ResultRoom
          /\ results' = Append(results, wk[w].held)
          /\ wk' = [wk EXCEPT ![w].pc = IF Fold THEN "gone" ELSE "top"]
       \/ ~TakerThere /\ wk' = [wk EXCEPT ![w].pc = "gone"] /\ UNCHANGED results
    /\ UNCHANGED <<sched, tripped, feeder, descs, stop, taker, merged>>

----------------------------------------------------------------------------
(* The calling thread. *)

\* recv_checked_recording_wait looks at the token on both sides of the wait;
\* the accumulate pool's loop does not.  An error ends the loop, a break too;
\* the channel's end, with every worker gone, is success.
TakeResult ==
    /\ taker.pc = "recv"
    /\ \/ /\ ~Fold /\ tripped
          /\ taker' = [pc |-> "join", result |-> "cancelled"]
          /\ results' = <<>> /\ UNCHANGED merged
       \/ /\ Fold \/ ~tripped
          /\ \/ /\ results # <<>> /\ Head(results).why = "ok"
                /\ merged' = Append(merged, Head(results).blobs)
                /\ IF sched.breaks
                   THEN taker' = [taker EXCEPT !.pc = "join"] /\ results' = <<>>
                   ELSE results' = Tail(results) /\ UNCHANGED taker
             \/ /\ results # <<>> /\ Head(results).why # "ok"
                /\ taker' = [pc |-> "join", result |-> Head(results).why]
                /\ results' = <<>> /\ UNCHANGED merged
             \/ /\ results = <<>> /\ ~Listening
                /\ taker' = [taker EXCEPT !.pc = "join"] /\ UNCHANGED <<results, merged>>
    /\ UNCHANGED <<sched, tripped, feeder, descs, wk, stop>>

\* thread::scope joins every thread and raises a worker's panic over whatever
\* the loop answered.
JoinAll ==
    /\ taker.pc = "join" /\ feeder = 0 /\ \A w \in ScanWorkers : Gone(w)
    /\ taker' = [pc |-> "returned",
                 result |-> IF \E w \in ScanWorkers : wk[w].pc = "dead" THEN "panicked" ELSE taker.result]
    /\ UNCHANGED <<sched, tripped, feeder, descs, wk, stop, results, merged>>

\* external: the host trips the token.
Trip ==
    /\ ~tripped /\ taker.pc # "returned" /\ tripped' = TRUE
    /\ UNCHANGED <<sched, feeder, descs, wk, stop, results, taker, merged>>

WorkerStep(w) == CheckStop(w) \/ NextPosition(w) \/ Scan(w) \/ SendResult(w)
Next == Start \/ Feed \/ (\E w \in ScanWorkers : WorkerStep(w)) \/ TakeResult \/ JoinAll \/ Trip
Fairness == WF_vars(Feed) /\ WF_vars(Start \/ TakeResult \/ JoinAll) /\ \A w \in ScanWorkers : WF_vars(WorkerStep(w))
Spec == Init /\ [][Next]_vars /\ Fairness

----------------------------------------------------------------------------
(* Properties. *)

Failing == {p \in 1 .. Blobs : sched.blobs[p] # "ok"}
MergedBlobs == UNION Range(merged)

\* What the phase answers is true: a success that was not broken off merged
\* every blob of the schedule, each once, and none of them failed; a failure
\* has its cause; and nothing a failing blob or a stopped worker held is ever
\* merged (run_unordered_per_blob, run_accumulate_decoded).
PhaseIsTrue ==
    /\ \A i, k \in DOMAIN merged : i # k => merged[i] \cap merged[k] = {}
    /\ MergedBlobs \cap Failing = {}
    /\ taker.pc = "returned" =>
          CASE taker.result = "ok" -> sched.breaks \/ MergedBlobs = 1 .. Blobs
            [] taker.result = "cancelled" -> tripped
            [] taker.result = "bad" -> \E p \in 1 .. Blobs : sched.blobs[p] = "bad"
            [] OTHER -> \E p \in 1 .. Blobs : sched.blobs[p] = "panics"

\* The phase returns, whatever fails, panics, breaks off or is cancelled.
PhaseReturns == <>(taker.pc = "returned")
=============================================================================
