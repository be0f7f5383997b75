---------------------------- MODULE StreamedPool ----------------------------
(***************************************************************************)
(* The streamed runs of the ordered pool, run_streams_core                 *)
(* (src/ordered_pool.rs).  The calling thread pulls tasks from a source,   *)
(* gives each a bounded channel of its own and queues it; workers take     *)
(* tasks from the queue and stream items and one terminal into the task's  *)
(* channel; the calling thread drains the channels in task order.          *)
(*                                                                         *)
(* One action is one atomic step of one thread: a queue or channel         *)
(* operation, a step under the queue's mutex, a flag access, or one call   *)
(* of caller code with the token checks around it.                         *)
(***************************************************************************)
EXTENDS Integers, Sequences

CONSTANTS Workers, NoWorker,
          MaxTasks,     \* the tasks the source can produce
          MaxItems,     \* the items one task can emit
          Window,       \* tasks issued and not yet finished with, at most
          Depth         \* messages one task's channel holds

VARIABLES
    total, source_fails,    \* how many tasks the source has, and how it ends
    items, fails,           \* the items of each task; the tasks that fail
    next_to_issue, state,   \* issuing: the next task, and Open, Done or Failed
    jobs, job_tx, joblock,  \* the job queue, its sender, its receiver's mutex
    pending,                \* the tasks whose receivers are held, in order
    chan, tx,               \* each task's channel; the tasks with a live sender
    spawned,                \* the workers have been started
    abandoned,              \* the abandonment flag
    pc, job, sent,          \* each worker: where, its task, items it emitted
    panicked,               \* some worker unwound
    cpc, task, hand,        \* the calling thread: where, its task, its message
    got, finished,          \* items consumed of each task; tasks finished
    cancelled, verdict      \* the token; what the run returns

plan == <<total, source_fails, items, fails>>
issuing == <<next_to_issue, state, pending>>
queue == <<jobs, job_tx, joblock>>
workers == <<pc, job, sent, panicked>>
calling == <<cpc, task, hand, got, finished, verdict>>
vars == <<plan, issuing, queue, chan, tx, spawned, abandoned, workers, calling, cancelled>>

Tasks == 0 .. MaxTasks - 1

Init ==
    /\ total \in 1 .. MaxTasks /\ source_fails \in BOOLEAN
    /\ items \in [Tasks -> 0 .. MaxItems] /\ fails \in SUBSET (0 .. total - 1)
    /\ \A t \in total .. MaxTasks - 1 : items[t] = 0
    /\ next_to_issue = 0 /\ state = "Open" /\ pending = <<>>
    /\ jobs = <<>> /\ job_tx = TRUE /\ joblock = NoWorker
    /\ chan = [t \in Tasks |-> <<>>] /\ tx = {}
    /\ spawned = FALSE /\ abandoned = FALSE
    /\ pc = [w \in Workers |-> "start"]
    /\ job = [w \in Workers |-> 0] /\ sent = [w \in Workers |-> 0]
    /\ panicked = FALSE
    /\ cpc = "refill" /\ task = 0 /\ hand = "none"
    /\ got = [t \in Tasks |-> 0] /\ finished = {}
    /\ cancelled = FALSE /\ verdict = "none"

\* The receivers of the tasks in `pending` are the live ones.
Receives(t) == \E k \in DOMAIN pending : pending[k] = t

-----------------------------------------------------------------------------
(* Workers *)

Goto(w, label) == pc' = [pc EXCEPT ![w] = label]
Others(w) == {v \in Workers \ {w} : pc[v] # "gone"}

\* A worker's thread ends.  The last one drops the job receiver, and with it
\* the senders of the jobs still queued.
Gone(w, dead) ==
    /\ Goto(w, "gone")
    /\ IF Others(w) = {}
       THEN jobs' = <<>> /\ tx' = tx \ (dead \union {jobs[k] : k \in DOMAIN jobs})
       ELSE tx' = tx \ dead /\ UNCHANGED jobs

Start(w) ==
    /\ pc[w] = "start" /\ spawned
    /\ Goto(w, "top")
    /\ UNCHANGED <<plan, issuing, queue, chan, tx, spawned, abandoned, job, sent, panicked,
                   calling, cancelled>>

CheckAbandoned(w) ==
    /\ pc[w] = "top"
    /\ IF abandoned THEN Gone(w, {}) ELSE Goto(w, "lock") /\ UNCHANGED <<jobs, tx>>
    /\ UNCHANGED <<plan, issuing, job_tx, joblock, chan, spawned, abandoned, job, sent, panicked,
                   calling, cancelled>>

LockQueue(w) ==
    /\ pc[w] = "lock" /\ joblock = NoWorker
    /\ joblock' = w
    /\ Goto(w, "recv")
    /\ UNCHANGED <<plan, issuing, jobs, job_tx, chan, tx, spawned, abandoned, job, sent, panicked,
                   calling, cancelled>>

TakenJob_Newest == Len(jobs)
TakenJob == 1

RemoveJob(k) == SubSeq(jobs, 1, k - 1) \o SubSeq(jobs, k + 1, Len(jobs))

\* next_job, the lock held: the oldest queued job, or the end of a closed queue.
NextJob(w) ==
    /\ pc[w] = "recv"
    /\ joblock' = NoWorker
    /\ \/ /\ jobs # <<>>
          /\ job' = [job EXCEPT ![w] = jobs[TakenJob]]
          /\ sent' = [sent EXCEPT ![w] = 0]
          /\ jobs' = RemoveJob(TakenJob)
          /\ Goto(w, "work")
          /\ UNCHANGED tx
       \/ /\ jobs = <<>> /\ ~job_tx
          /\ Gone(w, {})
          /\ UNCHANGED <<job, sent>>
    /\ UNCHANGED <<plan, issuing, job_tx, chan, spawned, abandoned, panicked, calling, cancelled>>

Deliver(t, msg) == chan' = [chan EXCEPT ![t] = Append(chan[t], msg)]

\* Emitter::send: blocks while the channel is full, fails once its receiver
\* is gone, which latches and ends the worker with the task.
Emit(w) ==
    LET t == job[w] IN
    /\ pc[w] = "work" /\ sent[w] < items[t]
    /\ \/ /\ Receives(t) /\ Len(chan[t]) < Depth
          /\ Deliver(t, "item")
          /\ sent' = [sent EXCEPT ![w] = sent[w] + 1]
          /\ UNCHANGED <<pc, jobs, tx>>
       \/ /\ ~Receives(t)
          /\ Gone(w, {t})
          /\ UNCHANGED <<chan, sent>>
    /\ UNCHANGED <<plan, issuing, job_tx, joblock, spawned, abandoned, job, panicked, calling,
                   cancelled>>

\* The task's work returns; one that polls Emitter::abandoned may stop early.
WorkReturns(w) ==
    /\ pc[w] = "work"
    /\ sent[w] = items[job[w]] \/ abandoned
    /\ Goto(w, "end")
    /\ UNCHANGED <<plan, issuing, queue, chan, tx, spawned, abandoned, job, sent, panicked,
                   calling, cancelled>>

Terminal_AlwaysOk(t) == "ok"
Terminal(t) == IF t \in fails THEN "err" ELSE "ok"

DeliverEnd(w) ==
    LET t == job[w] IN
    /\ pc[w] = "end"
    /\ \/ /\ Receives(t) /\ Len(chan[t]) < Depth
          /\ Deliver(t, Terminal(t))
          /\ Goto(w, "top")
          /\ tx' = tx \ {t}
          /\ UNCHANGED jobs
       \/ ~Receives(t) /\ Gone(w, {t}) /\ UNCHANGED chan
    /\ UNCHANGED <<plan, issuing, job_tx, joblock, spawned, abandoned, job, sent, panicked,
                   calling, cancelled>>

\* Caller code panics: the task's sender drops, then AbandonOnUnwind raises
\* the flag, then the thread is gone.
WorkerPanics(w) ==
    /\ pc[w] \in {"start", "work"} /\ spawned
    /\ panicked' = TRUE
    /\ Goto(w, "unwind")
    /\ tx' = IF pc[w] = "work" THEN tx \ {job[w]} ELSE tx
    /\ UNCHANGED <<plan, issuing, queue, chan, spawned, abandoned, job, sent, calling, cancelled>>

Unwound(w) ==
    /\ pc[w] = "unwind"
    /\ abandoned' = TRUE
    /\ Gone(w, {})
    /\ UNCHANGED <<plan, issuing, job_tx, joblock, chan, spawned, job, sent, panicked, calling,
                   cancelled>>

-----------------------------------------------------------------------------
(* The calling thread *)

Call(label) == cpc' = label
Return(v) == verdict' = v /\ Call("abandon")

HasRoom == Len(pending) < Window

SourceHas_OneMore == next_to_issue <= total
SourceHas == next_to_issue < total

\* refill, one task: the source answers, and issue_job makes the task's
\* channel, keeps its receiver and queues the job.  With every worker gone
\* the queue refuses the job, which drops the task's sender.
Issue ==
    /\ cpc = "refill" /\ state = "Open" /\ HasRoom
    /\ IF SourceHas
       THEN /\ next_to_issue' = next_to_issue + 1
            /\ pending' = Append(pending, next_to_issue)
            /\ IF \E w \in Workers : pc[w] # "gone"
               THEN jobs' = Append(jobs, next_to_issue) /\ tx' = tx \union {next_to_issue}
               ELSE UNCHANGED <<jobs, tx>>
            /\ UNCHANGED state
       ELSE /\ state' = IF source_fails THEN "Failed" ELSE "Done"
            /\ UNCHANGED <<next_to_issue, pending, jobs, tx>>
    /\ UNCHANGED <<plan, job_tx, joblock, chan, spawned, abandoned, workers, calling, cancelled>>

\* The queue closes with the source; the first time the workers start.
Refilled ==
    /\ cpc = "refill" /\ (state # "Open" \/ ~HasRoom)
    /\ job_tx' = (state = "Open")
    /\ spawned' = TRUE
    /\ Call("task")
    /\ UNCHANGED <<plan, issuing, jobs, joblock, chan, tx, abandoned, workers, task, hand, got,
                   finished, verdict, cancelled>>

AllConsumed == pending = <<>>

\* The next pending task, its token check and before_task; or the end.
TaskStarts ==
    /\ cpc = "task"
    /\ \/ /\ cancelled
          /\ Return("cancelled")
       \/ /\ ~cancelled /\ ~AllConsumed
          /\ \/ Call("recv") /\ UNCHANGED verdict
             \/ Return("consumer")
       \/ /\ ~cancelled /\ AllConsumed
          /\ Return(IF state = "Failed" THEN "source" ELSE "ok")
    /\ UNCHANGED <<plan, issuing, queue, chan, tx, spawned, abandoned, workers, task, hand, got,
                   finished, cancelled>>

\* recv on the head task's channel: a message, or every sender gone.
Recv ==
    LET t == Head(pending) IN
    /\ cpc = "recv"
    /\ \/ /\ cancelled
          /\ Return("cancelled")
          /\ UNCHANGED <<chan, hand>>
       \/ /\ ~cancelled /\ chan[t] # <<>>
          /\ hand' = Head(chan[t])
          /\ chan' = [chan EXCEPT ![t] = Tail(chan[t])]
          /\ Call("handle")
          /\ UNCHANGED verdict
       \/ /\ ~cancelled /\ chan[t] = <<>> /\ t \notin tx
          /\ hand' = "closed"
          /\ Call("handle")
          /\ UNCHANGED <<chan, verdict>>
    /\ UNCHANGED <<plan, issuing, queue, tx, spawned, abandoned, workers, task, got, finished,
                   cancelled>>

Handle ==
    /\ cpc = "handle"
    /\ \/ /\ cancelled
          /\ Return("cancelled")
          /\ UNCHANGED <<pending, task, got, finished>>
       \/ /\ ~cancelled /\ hand = "item"
          /\ got' = [got EXCEPT ![task] = got[task] + 1]
          /\ (Call("recv") /\ UNCHANGED verdict) \/ Return("consumer")
          /\ UNCHANGED <<pending, task, finished>>
       \/ /\ ~cancelled /\ hand = "ok"
          /\ \/ /\ finished' = finished \union {task}
                /\ pending' = Tail(pending)
                /\ task' = task + 1
                /\ Call(IF state = "Open" THEN "refill" ELSE "task")
                /\ UNCHANGED verdict
             \/ Return("consumer") /\ UNCHANGED <<pending, task, finished>>
          /\ UNCHANGED got
       \/ /\ ~cancelled /\ hand \in {"err", "closed"}
          /\ Return(IF hand = "err" THEN "task" ELSE "internal")
          /\ UNCHANGED <<pending, task, got, finished>>
    /\ UNCHANGED <<plan, next_to_issue, state, queue, chan, tx, spawned, abandoned, workers, hand,
                   cancelled>>

\* Leaving the scope's closure drops, in order: the abandonment guard, the
\* receivers, the queue's sender.
RaiseFlag ==
    /\ cpc = "abandon"
    /\ abandoned' = TRUE
    /\ Call("droprx")
    /\ UNCHANGED <<plan, issuing, queue, chan, tx, spawned, workers, task, hand, got, finished,
                   verdict, cancelled>>

DropReceivers ==
    /\ cpc = "droprx"
    /\ pending' = <<>>
    /\ Call("droptx")
    /\ UNCHANGED <<plan, next_to_issue, state, queue, chan, tx, spawned, abandoned, workers, task,
                   hand, got, finished, verdict, cancelled>>

DropQueue ==
    /\ cpc = "droptx"
    /\ job_tx' = FALSE
    /\ Call("join")
    /\ UNCHANGED <<plan, issuing, jobs, joblock, chan, tx, spawned, abandoned, workers, task,
                   hand, got, finished, verdict, cancelled>>

\* The scope joins every worker; a panic takes precedence over the result.
Join ==
    /\ cpc = "join" /\ \A w \in Workers : pc[w] = "gone"
    /\ verdict' = IF panicked THEN "panic" ELSE verdict
    /\ Call("done")
    /\ UNCHANGED <<plan, issuing, queue, chan, tx, spawned, abandoned, workers, task, hand, got,
                   finished, cancelled>>

Cancel ==
    /\ ~cancelled /\ cpc # "done"
    /\ cancelled' = TRUE
    /\ UNCHANGED <<plan, issuing, queue, chan, tx, spawned, abandoned, workers, calling>>

Done == cpc = "done" /\ UNCHANGED vars

WorkerStep(w) ==
    \/ Start(w) \/ CheckAbandoned(w) \/ LockQueue(w) \/ NextJob(w)
    \/ Emit(w) \/ WorkReturns(w) \/ DeliverEnd(w) \/ Unwound(w)

CallingStep == \/ Issue \/ Refilled \/ TaskStarts \/ Recv \/ Handle
               \/ RaiseFlag \/ DropReceivers \/ DropQueue \/ Join

Next == \/ \E w \in Workers : WorkerStep(w) \/ WorkerPanics(w)
        \/ CallingStep \/ Cancel \/ Done

Spec == Init /\ [][Next]_vars

-----------------------------------------------------------------------------
(* Properties *)

\* Every variable keeps its type, and queueing a task never blocks the calling
\* thread: the queue, of capacity Window, never has to hold more jobs.
TypeOK ==
    /\ Len(jobs) <= Window
    /\ total \in 1 .. MaxTasks /\ source_fails \in BOOLEAN
    /\ items \in [Tasks -> 0 .. MaxItems] /\ fails \subseteq Tasks
    /\ next_to_issue \in 0 .. total /\ state \in {"Open", "Done", "Failed"}
    /\ pending \in Seq(Tasks) /\ jobs \in Seq(Tasks)
    /\ job_tx \in BOOLEAN /\ joblock \in Workers \union {NoWorker}
    /\ chan \in [Tasks -> Seq({"item", "ok", "err"})] /\ tx \subseteq Tasks
    /\ spawned \in BOOLEAN /\ abandoned \in BOOLEAN /\ panicked \in BOOLEAN
    /\ pc \in [Workers -> {"start", "top", "lock", "recv", "work", "end", "unwind", "gone"}]
    /\ job \in [Workers -> Tasks] /\ sent \in [Workers -> 0 .. MaxItems]
    /\ cpc \in {"refill", "task", "recv", "handle", "abandon", "droprx", "droptx", "join", "done"}
    /\ task \in 0 .. total /\ hand \in {"none", "item", "ok", "err", "closed"}
    /\ got \in [Tasks -> 0 .. MaxItems] /\ finished \subseteq Tasks
    /\ cancelled \in BOOLEAN
    /\ verdict \in {"none", "ok", "cancelled", "consumer", "task", "source", "internal", "panic"}

Whole(t) == t \in finished /\ got[t] = items[t]

\* A run that returns success consumed every item of every task the source
\* had, none of which failed: a task cut short by a dying pool never passes.
\* Failures surface in task order: the reported task failed after every
\* earlier one was consumed whole, and a source error comes after every task.
\* Only a worker's panic can close a channel short of its terminal, so the
\* internal error is never what the caller sees.
ResultInTaskOrder ==
    cpc = "done" =>
        /\ verdict = "ok" =>
              /\ ~source_fails
              /\ \A t \in 0 .. total - 1 : Whole(t) /\ t \notin fails
        /\ verdict = "task" => task \in fails /\ \A t \in 0 .. task - 1 : Whole(t)
        /\ verdict = "source" => source_fails /\ \A t \in 0 .. total - 1 : Whole(t)
        /\ verdict # "internal"

\* Until the run returns some thread of it can move, whatever blocks on full
\* channels, on the queue and on its mutex, whoever failed or panicked, and
\* without anyone cancelling: each run's steps being finitely many, it ends.
NeverStuck ==
    cpc # "done" => ENABLED CallingStep \/ \E w \in Workers : ENABLED WorkerStep(w)
=============================================================================
