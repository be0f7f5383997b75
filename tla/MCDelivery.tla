----------------------------- MODULE MCDelivery -----------------------------
(* The reorder buffer and the streamed pool for TLC, side by side: a window  *)
(* of three over six sequence numbers and two items, or a run of streamed    *)
(* tasks.  The buffer is empty while the streams run, and they stand still   *)
(* while it is used.                                                         *)
EXTENDS ReorderBuffer, TLC

CONSTANTS Workers, NoWorker, MaxTasks, MaxItems, Window, Depth

VARIABLES part,
          total, source_fails, items, fails, next_to_issue, state, jobs, job_tx,
          joblock, issued, chan, tx, spawned, abandoned, pc, job, sent, panicked,
          cpc, task, hand, got, finished, cancelled, verdict

S == INSTANCE StreamedPool WITH pending <- issued

streams == <<total, source_fails, items, fails, next_to_issue, state, jobs, job_tx,
            joblock, issued, chan, tx, spawned, abandoned, pc, job, sent, panicked,
            cpc, task, hand, got, finished, cancelled, verdict>>

BothInit ==
    /\ Init
    /\ \/ part = "streams" /\ S!Init
       \/ /\ part = "buffer"
          /\ total = 0 /\ source_fails = 0 /\ items = 0 /\ fails = 0 /\ next_to_issue = 0 /\ state = 0
          /\ jobs = 0 /\ job_tx = 0 /\ joblock = 0 /\ issued = 0 /\ chan = 0 /\ tx = 0
          /\ spawned = 0 /\ abandoned = 0 /\ pc = 0 /\ job = 0 /\ sent = 0 /\ panicked = 0
          /\ cpc = 0 /\ task = 0 /\ hand = 0 /\ got = 0 /\ finished = 0 /\ cancelled = 0
          /\ verdict = 0

BothNext ==
    \/ part = "buffer" /\ Next /\ UNCHANGED <<part, streams>>
    \/ part = "streams" /\ S!Next /\ UNCHANGED <<part, vars>>

BothSpec == BothInit /\ [][BothNext]_<<part, vars, streams>>

WorkerSymmetry == Permutations(Workers)

\* Failures of streamed tasks surface in task order, and success means every
\* item of every task was consumed (StreamedPool, ordered_pool.rs).
StreamsInTaskOrder == part = "streams" => S!ResultInTaskOrder

\* While a run of streams has not ended, its caller or one of its workers can
\* take a step (StreamedPool, ordered_pool.rs).
StreamsNeverStuck == part = "streams" => S!NeverStuck
=============================================================================
