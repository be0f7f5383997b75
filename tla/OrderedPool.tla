---------------------------- MODULE OrderedPool -----------------------------
(***************************************************************************)
(* The ordered worker pool, run_ordered (src/ordered_pool.rs).             *)
(*                                                                         *)
(* Workers claim tasks from a shared counter, wait at an admission gate,   *)
(* run the task and send its result through a bounded channel.  The        *)
(* calling thread puts results in task order with a reorder buffer,        *)
(* consumes them and returns credit to the gate.                           *)
(*                                                                         *)
(* One action is one atomic step of one thread: an atomic load or store, a *)
(* critical section of the gate's mutex, a condition-variable              *)
(* notification, or a channel operation.  Setting a gate field and         *)
(* notifying its waiters are two steps, as in the code.                    *)
(***************************************************************************)
EXTENDS ReorderMap, Sequences, FiniteSets, TLC

CONSTANTS
    Workers,     \* one worker thread per shard
    NTasks,      \* n_tasks
    Depth        \* min(window, POOL_RESULT_CHANNEL_DEPTH)

\* The window is the reorder buffer's max_window: deliver builds it so.
Window == MaxWindow
Tasks == 0 .. NTasks - 1

\* run_ordered_in returns before starting a run without tasks or workers.
ASSUME PoolAssumption ==
    /\ Workers # {}
    /\ NTasks \in Nat \ {0}
    /\ Depth \in 1 .. Window
    /\ Items = [task : Tasks, ok : BOOLEAN]

VARIABLES
    next,        \* the claim counter
    stopped,     \* the gate's lock-free fast-exit flag
    gate,        \* the state under the gate's mutex
    pc,          \* where each worker is
    task,        \* the task each worker claimed last
    chan,        \* the result channel
    rx,          \* the receiver is alive
    cpc,         \* where the calling thread is
    hand,        \* the result it has received or popped
    consumed,    \* results it has finished with
    edge,        \* the last value on_advance announced
    verdict,     \* what deliver returned
    abandoned,   \* consumer.abandon ran
    cancelled,   \* the invocation's token is tripped
    panicked,    \* some worker unwound
    fails        \* the tasks whose work returns an error

poolVars == <<next, stopped, gate, pc, task, chan, rx, cpc, hand, consumed,
              edge, verdict, abandoned, cancelled, panicked, fails>>
vars == <<rbVars, poolVars>>

WorkerPCs == {"idle", "claim", "admit", "parked", "work", "flag", "stop",
              "notify", "send", "flagUnwind", "closeUnwind", "notifyUnwind",
              "gone"}
ConsumerPCs == {"top", "recv", "push", "pop", "item", "advance", "notify",
                "drained", "abandon", "flag", "close", "notifyClose",
                "droprx", "join", "done"}
Verdicts == [kind : {"none", "ok", "cancelled", "consumer", "panic",
                     "internal", "rejected"}]
              \cup [kind : {"task"}, task : Tasks]

Verdict(k) == [kind |-> k]
Smaller(a, b) == IF a < b THEN a ELSE b

TypeOK ==
    /\ next_seq \in 0 .. NTasks
    /\ DOMAIN held \subseteq Tasks
    /\ \A s \in DOMAIN held : held[s] \in Items
    /\ next \in Nat
    /\ stopped \in BOOLEAN
    /\ gate \in [consumed : 0 .. NTasks, stop_claims : BOOLEAN, closed : BOOLEAN]
    /\ pc \in [Workers -> WorkerPCs]
    /\ task \in [Workers -> Nat]
    /\ chan \in Seq(Items)
    /\ rx \in BOOLEAN
    /\ cpc \in ConsumerPCs
    /\ hand \in Items
    /\ consumed \in 0 .. NTasks
    /\ edge \in 0 .. NTasks
    /\ verdict \in Verdicts
    /\ abandoned \in BOOLEAN
    /\ cancelled \in BOOLEAN
    /\ panicked \in BOOLEAN
    /\ fails \subseteq Tasks

\* run_ordered_in up to the delivery loop: on_advance announces the first
\* window, then the workers start.  n_tasks = 0 and an empty pool return
\* before any thread exists and are not part of a run.
Init ==
    /\ RBInit
    /\ next = 0
    /\ stopped = FALSE
    /\ gate = [consumed |-> 0, stop_claims |-> FALSE, closed |-> FALSE]
    /\ pc = [w \in Workers |-> "idle"]
    /\ task = [w \in Workers |-> 0]
    /\ chan = << >>
    /\ rx = TRUE
    /\ cpc = "top"
    /\ hand = [task |-> 0, ok |-> TRUE]
    /\ consumed = 0
    /\ edge = Smaller(Window, NTasks)
    /\ verdict = Verdict("none")
    /\ abandoned = FALSE
    /\ cancelled = FALSE
    /\ panicked = FALSE
    /\ fails \in SUBSET Tasks
-----------------------------------------------------------------------------
(* Workers *)

consumerVars == <<rbVars, rx, cpc, hand, consumed, edge, verdict, abandoned,
                  cancelled, fails>>

Goto(w, label) == pc' = [pc EXCEPT ![w] = label]

\* notify_all: every waiter re-evaluates its predicate under the lock.
Woken == [w \in Workers |-> IF pc[w] = "parked" THEN "admit" ELSE pc[w]]

CheckStopped(w) ==
    /\ pc[w] = "idle"
    /\ Goto(w, IF stopped THEN "gone" ELSE "claim")
    /\ UNCHANGED <<consumerVars, next, stopped, gate, task, chan, panicked>>

Claim(w) ==
    /\ pc[w] = "claim"
    /\ next' = next + 1
    /\ task' = [task EXCEPT ![w] = next]
    /\ Goto(w, IF next >= NTasks THEN "gone" ELSE "admit")
    /\ UNCHANGED <<consumerVars, stopped, gate, chan, panicked>>

\* Variant: one task too many is admitted.
AdmitOutcome_OffByOne(t) ==
    IF gate.closed THEN "gone"
    ELSE IF t <= gate.consumed + Window THEN "work"
    ELSE IF gate.stop_claims THEN "gone"
    ELSE "parked"

\* Variant: stop_claims outranks eligibility.
AdmitOutcome_StopFirst(t) ==
    IF gate.closed \/ gate.stop_claims THEN "gone"
    ELSE IF t < gate.consumed + Window THEN "work"
    ELSE "parked"

\* One pass of admit's loop: closed wins, then eligibility, then stop_claims.
AdmitOutcome(t) ==
    IF gate.closed THEN "gone"
    ELSE IF t < gate.consumed + Window THEN "work"
    ELSE IF gate.stop_claims THEN "gone"
    ELSE "parked"

Admit(w) ==
    /\ pc[w] = "admit"
    /\ Goto(w, AdmitOutcome(task[w]))
    /\ UNCHANGED <<consumerVars, next, stopped, gate, task, chan, panicked>>

\* A condition variable may wake a waiter on its own.
SpuriousWakeup(w) ==
    /\ pc[w] = "parked"
    /\ Goto(w, "admit")
    /\ UNCHANGED <<consumerVars, next, stopped, gate, task, chan, panicked>>

Work(w) ==
    /\ pc[w] = "work"
    /\ Goto(w, IF task[w] \in fails THEN "flag" ELSE "send")
    /\ UNCHANGED <<consumerVars, next, stopped, gate, task, chan, panicked>>

WorkPanics(w) ==
    /\ pc[w] = "work"
    /\ panicked' = TRUE
    /\ Goto(w, "flagUnwind")
    /\ UNCHANGED <<consumerVars, next, stopped, gate, task, chan>>

\* stop_claims(): the flag, the field under the lock, the notification.
StopClaimsFlag(w) ==
    /\ pc[w] = "flag"
    /\ stopped' = TRUE
    /\ Goto(w, "stop")
    /\ UNCHANGED <<consumerVars, next, gate, task, chan, panicked>>

StopClaims(w) ==
    /\ pc[w] = "stop"
    /\ gate' = [gate EXCEPT !.stop_claims = TRUE]
    /\ Goto(w, "notify")
    /\ UNCHANGED <<consumerVars, next, stopped, task, chan, panicked>>

StopClaimsNotify(w) ==
    /\ pc[w] = "notify"
    /\ pc' = [Woken EXCEPT ![w] = "send"]
    /\ UNCHANGED <<consumerVars, next, stopped, gate, task, chan, panicked>>

\* send blocks on a full channel and fails once the receiver is gone.
Send(w) ==
    /\ pc[w] = "send"
    /\ rx
    /\ Len(chan) < Depth
    /\ chan' = Append(chan, [task |-> task[w], ok |-> task[w] \notin fails])
    /\ Goto(w, "idle")
    /\ UNCHANGED <<consumerVars, next, stopped, gate, task, panicked>>

SendDisconnected(w) ==
    /\ pc[w] = "send"
    /\ ~rx
    /\ Goto(w, "gone")
    /\ UNCHANGED <<consumerVars, next, stopped, gate, task, chan, panicked>>

\* CloseOnUnwind: close(), then the unwinding drops the worker's sender.
UnwindFlag(w) ==
    /\ pc[w] = "flagUnwind"
    /\ stopped' = TRUE
    /\ Goto(w, "closeUnwind")
    /\ UNCHANGED <<consumerVars, next, gate, task, chan, panicked>>

UnwindClose(w) ==
    /\ pc[w] = "closeUnwind"
    /\ gate' = [gate EXCEPT !.closed = TRUE]
    /\ Goto(w, "notifyUnwind")
    /\ UNCHANGED <<consumerVars, next, stopped, task, chan, panicked>>

UnwindNotify(w) ==
    /\ pc[w] = "notifyUnwind"
    /\ pc' = [Woken EXCEPT ![w] = "gone"]
    /\ UNCHANGED <<consumerVars, next, stopped, gate, task, chan, panicked>>

\* What a live worker does of itself (a spurious wakeup or a panic is no
\* progress anyone may count on).
WorkerStep(w) ==
    \/ CheckStopped(w) \/ Claim(w) \/ Admit(w) \/ Work(w)
    \/ StopClaimsFlag(w) \/ StopClaims(w) \/ StopClaimsNotify(w)
    \/ Send(w) \/ SendDisconnected(w)
    \/ UnwindFlag(w) \/ UnwindClose(w) \/ UnwindNotify(w)
-----------------------------------------------------------------------------
(* The calling thread *)

workerVars == <<next, task, panicked, fails>>

\* deliver returns: Err goes through consumer.abandon, Ok and an unwind do not.
Return(v, label) ==
    /\ verdict' = v
    /\ cpc' = label
    /\ UNCHANGED <<rbVars, consumed, edge>>

\* `cancel.check()?` in front of what the loop does next.
OrCancelled(A) ==
    \/ cancelled /\ Return(Verdict("cancelled"), "abandon") /\ UNCHANGED hand
    \/ ~cancelled /\ A

localUnchanged == UNCHANGED <<workerVars, stopped, gate, pc, rx, abandoned, cancelled>>

LoopTop ==
    /\ cpc = "top"
    /\ OrCancelled(/\ cpc' = "recv"
                   /\ UNCHANGED <<rbVars, hand, consumed, edge, verdict>>)
    /\ localUnchanged /\ UNCHANGED chan

Recv ==
    /\ cpc = "recv"
    /\ chan # << >>
    /\ hand' = Head(chan)
    /\ chan' = Tail(chan)
    /\ cpc' = "push"
    /\ localUnchanged /\ UNCHANGED <<rbVars, consumed, edge, verdict>>

\* Every sender is gone and the channel is empty.
RecvDisconnected ==
    /\ cpc = "recv"
    /\ chan = << >>
    /\ \A w \in Workers : pc[w] = "gone"
    /\ cpc' = "drained"
    /\ localUnchanged /\ UNCHANGED <<rbVars, hand, chan, consumed, edge, verdict>>

\* reorder.push panics on a rejected position.
PushResult ==
    \/ /\ RBPush(hand.task, hand)
       /\ cpc' = "pop"
       /\ UNCHANGED <<hand, consumed, edge, verdict>>
    \/ /\ ~Accepts(hand.task)
       /\ Return(Verdict("rejected"), "flag")
       /\ UNCHANGED hand

Push ==
    /\ cpc = "push"
    /\ OrCancelled(PushResult)
    /\ localUnchanged /\ UNCHANGED chan

PopReady ==
    /\ cpc = "pop"
    /\ \/ /\ RBPop
          /\ hand' = held[next_seq]
          /\ cpc' = "item"
       \/ /\ ~Ready
          /\ cpc' = "top"
          /\ UNCHANGED <<rbVars, hand>>
    /\ localUnchanged /\ UNCHANGED <<chan, consumed, edge, verdict>>

\* Variant: the announced edge is not clamped to the task count.
ItemOk_EdgeUnclamped ==
    /\ hand.ok
    /\ consumed' = consumed + 1
    /\ edge' = consumed + 1 + Window
    /\ cpc' = "advance"
    /\ UNCHANGED <<rbVars, hand, verdict>>

\* before_item, the result's own error, consume: in that order.  on_advance
\* announces the new edge before the credit reaches the gate.
ItemOk ==
    /\ hand.ok
    /\ consumed' = consumed + 1
    /\ edge' = Smaller(consumed + 1 + Window, NTasks)
    /\ cpc' = "advance"
    /\ UNCHANGED <<rbVars, hand, verdict>>

ItemFailed ==
    /\ ~hand.ok
    /\ Return([kind |-> "task", task |-> hand.task], "abandon")
    /\ UNCHANGED hand

ConsumerFails ==
    /\ Return(Verdict("consumer"), "abandon")
    /\ UNCHANGED hand

ConsumerPanics ==
    /\ Return(Verdict("panic"), "flag")
    /\ UNCHANGED hand

Item ==
    /\ cpc = "item"
    /\ OrCancelled(ItemOk \/ ItemFailed \/ ConsumerFails \/ ConsumerPanics)
    /\ localUnchanged /\ UNCHANGED chan

Advance ==
    /\ cpc = "advance"
    /\ gate' = [gate EXCEPT !.consumed = consumed]
    /\ cpc' = "notify"
    /\ UNCHANGED <<workerVars, rbVars, stopped, pc, chan, rx, hand, consumed,
                   edge, verdict, abandoned, cancelled>>

\* Variant: credit is published without waking the waiters.
AdvanceNotify_Lost ==
    /\ cpc = "notify"
    /\ cpc' = "pop"
    /\ UNCHANGED <<workerVars, rbVars, stopped, gate, pc, chan, rx, hand, consumed,
                   edge, verdict, abandoned, cancelled>>

AdvanceNotify ==
    /\ cpc = "notify"
    /\ pc' = Woken
    /\ cpc' = "pop"
    /\ UNCHANGED <<workerVars, rbVars, stopped, gate, chan, rx, hand, consumed,
                   edge, verdict, abandoned, cancelled>>

DrainedResult ==
    /\ IF consumed = NTasks
       THEN Return(Verdict("ok"), "flag")
       ELSE Return(Verdict("internal"), "abandon")
    /\ UNCHANGED hand

Drained ==
    /\ cpc = "drained"
    /\ OrCancelled(DrainedResult)
    /\ localUnchanged /\ UNCHANGED chan

Abandon ==
    /\ cpc = "abandon"
    /\ abandoned' = TRUE
    /\ cpc' = "flag"
    /\ UNCHANGED <<workerVars, rbVars, stopped, gate, pc, chan, rx, hand,
                   consumed, edge, verdict, cancelled>>

\* CloseOnDrop: close(), and only then the receiver is dropped.
CloseFlag ==
    /\ cpc = "flag"
    /\ stopped' = TRUE
    /\ cpc' = "close"
    /\ UNCHANGED <<workerVars, rbVars, gate, pc, chan, rx, hand, consumed,
                   edge, verdict, abandoned, cancelled>>

Close ==
    /\ cpc = "close"
    /\ gate' = [gate EXCEPT !.closed = TRUE]
    /\ cpc' = "notifyClose"
    /\ UNCHANGED <<workerVars, rbVars, stopped, pc, chan, rx, hand, consumed,
                   edge, verdict, abandoned, cancelled>>

CloseNotify ==
    /\ cpc = "notifyClose"
    /\ pc' = Woken
    /\ cpc' = "droprx"
    /\ UNCHANGED <<workerVars, rbVars, stopped, gate, chan, rx, hand, consumed,
                   edge, verdict, abandoned, cancelled>>

DropReceiver ==
    /\ cpc = "droprx"
    /\ rx' = FALSE
    /\ chan' = << >>
    /\ cpc' = "join"
    /\ UNCHANGED <<workerVars, rbVars, stopped, gate, pc, hand, consumed,
                   edge, verdict, abandoned, cancelled>>

Join ==
    /\ cpc = "join"
    /\ \A w \in Workers : pc[w] = "gone"
    /\ cpc' = "done"
    /\ localUnchanged
    /\ UNCHANGED <<rbVars, chan, hand, consumed, edge, verdict>>

CallerStep ==
    \/ LoopTop \/ Recv \/ RecvDisconnected \/ Push \/ PopReady \/ Item
    \/ Advance \/ AdvanceNotify \/ Drained \/ Abandon
    \/ CloseFlag \/ Close \/ CloseNotify \/ DropReceiver \/ Join

Cancel ==
    /\ ~cancelled
    /\ cancelled' = TRUE
    /\ UNCHANGED <<rbVars, next, stopped, gate, pc, task, chan, rx, cpc, hand,
                   consumed, edge, verdict, abandoned, panicked, fails>>

Finished == cpc = "done" /\ UNCHANGED vars

Next ==
    \/ \E w \in Workers : WorkerStep(w) \/ SpuriousWakeup(w) \/ WorkPanics(w)
    \/ CallerStep
    \/ Cancel
    \/ Finished

\* Every runnable thread is eventually scheduled; nothing else is assumed.
Fairness == /\ \A w \in Workers : WF_vars(WorkerStep(w))
            /\ WF_vars(CallerStep)

Spec == Init /\ [][Next]_vars /\ Fairness
-----------------------------------------------------------------------------
(* Properties *)

\* Tasks past the gate whose results the consumer has not finished with:
\* being worked, on their way into the channel, in it, in the reorder
\* buffer, or in the consumer's hands.
Working(w) == pc[w] \in {"work", "flag", "stop", "notify", "send",
                         "flagUnwind", "closeUnwind", "notifyUnwind"}
InHand == IF cpc \in {"push", "item"} THEN {hand.task} ELSE {}
InFlight == {task[w] : w \in {v \in Workers : Working(v)}}
              \cup {chan[i].task : i \in 1 .. Len(chan)}
              \cup DOMAIN held
              \cup InHand

\* "At most `window` tasks are admitted and not yet consumed", however slow
\* one task is (module docs, "Bounded"): all of them lie in one window that
\* starts at the consumed count.  So deliver's reorder.push, which panics on a
\* stale, duplicate or out-of-window position, is never given one.
Bounded ==
    /\ \A t \in InFlight : consumed <= t /\ t < consumed + Window
    /\ cpc = "push" => Accepts(hand.task)

\* The consumer sees every result once, in task order: the popped item is
\* the result of the task it is consumed as.  "Ordered failures": a reported
\* task error is the lowest failing task's, success means that nothing failed,
\* and the run never ends by losing a task unless a worker died.  A worker's
\* failure on a high task stops new claims, and must not strand a lower one
\* that was already claimed.
InTaskOrder ==
    /\ cpc = "item" => hand.task = consumed /\ next_seq = consumed + 1
    /\ verdict.kind = "task" =>
          verdict.task \in fails /\ \A t \in fails : verdict.task <= t
    /\ verdict.kind = "ok" => fails = {}
    /\ verdict.kind = "internal" => panicked

\* Every run ends: whatever fails, panics or is cancelled, the calling
\* thread returns and every worker has gone.
Termination == <>(cpc = "done")

-----------------------------------------------------------------------------
(* OrderedPool for TLC.  A window smaller than the task count makes workers *)
(* park, a channel shallower than the window makes them block in send.      *)

MCItems == [task : 0 .. NTasks - 1, ok : BOOLEAN]

\* Workers are interchangeable: nothing names one.
WorkerSymmetry == Permutations(Workers)
=============================================================================
