--------------------------- MODULE MCFileWriters ----------------------------
(* The two pools that write a file for TLC, side by side: the parallel gzip   *)
(* writer and the positioned-write pool.  A behaviour is one of either; the   *)
(* variables of the other stand still.                                        *)
EXTENDS GzipWriter

CONSTANTS PoolSize, Capacity, MaxOps, MaxLen

\* The pool has a worker, and an empty failure slot is no failure.
ASSUME FileWritersAssumption ==
    /\ PoolSize \in Nat \ {0} /\ MaxLen \in Nat
    /\ NoFailure \notin {"spawn", "upstream", "panic", "closed", "stopped", "worker", "inner",
                         "rejected", "stranded", "ok"}

VARIABLES part,
          lens, fails_upstream, spawned, dpc, op, offset, next_worker, senders,
          queue, rx, cur, verdict

P == INSTANCE ParallelWriter

gzip == <<ppc, call, calls, current, job, seq, raw_tx, raw, permits, permit_tx, work,
         out, out_rx, tpc, synced, ack, sent, lost, outcome, next_seq, held>>
pwrite == <<lens, fails_upstream, spawned, dpc, op, offset, next_worker, senders,
           queue, rx, cur, verdict>>
both == <<part, vars, pwrite>>

BothInit ==
    \/ /\ part = "gzip" /\ Init
       /\ lens = 0 /\ fails_upstream = 0 /\ spawned = 0 /\ dpc = 0 /\ op = 0 /\ offset = 0 /\ next_worker = 0
       /\ senders = 0 /\ queue = 0 /\ rx = 0 /\ cur = 0 /\ verdict = 0
    \/ /\ part = "pwrite" /\ P!Init
       /\ ppc = 0 /\ call = 0 /\ calls = 0 /\ current = 0 /\ job = 0 /\ seq = 0 /\ raw_tx = 0
       /\ raw = 0 /\ permits = 0 /\ permit_tx = 0 /\ work = 0 /\ out = 0 /\ out_rx = 0 /\ tpc = 0
       /\ synced = 0 /\ ack = 0 /\ sent = 0 /\ lost = 0 /\ outcome = 0 /\ next_seq = 0 /\ held = 0

BothNext ==
    \/ part = "gzip" /\ Next /\ UNCHANGED <<part, pwrite>>
    \/ part = "pwrite" /\ P!Next /\ UNCHANGED <<part, gzip>>

\* The fairness of each module: every started thread runs when it can.
BothSpec ==
    /\ BothInit /\ [][BothNext]_both
    /\ WF_both(part = "gzip" /\ CallStep /\ UNCHANGED <<part, pwrite>>)
    /\ WF_both(part = "gzip" /\ ThreadStep /\ UNCHANGED <<part, pwrite>>)
    /\ \A w \in Workers : WF_both(part = "gzip" /\ WorkerStep(w) /\ UNCHANGED <<part, pwrite>>)
    /\ WF_both(part = "pwrite" /\ P!DispatchStep /\ UNCHANGED <<part, gzip>>)
    /\ \A w \in 0 .. PoolSize - 1 : WF_both(part = "pwrite" /\ P!WorkerStep(w) /\ UNCHANGED <<part, gzip>>)

\* A flush or a finish of the gzip writer that answered Ok means the whole
\* stream, and none of its impossible failures happens (GzipWriter); a
\* positioned-write run that answered Ok wrote the whole stream, and one that
\* failed reports a cause (ParallelWriter).
FileWritersTellTrue == IF part = "gzip" THEN OkIsWhole ELSE P!ResultIsTrue

\* Every call of the gzip writer returns, and so does a positioned-write run,
\* whatever failed and whatever was full (GzipWriter, ParallelWriter).
FileWritersReturn == ((part = "gzip" /\ ppc # "idle") \/ (part = "pwrite" /\ dpc # "done"))
                        ~> (IF part = "gzip" THEN ppc \in {"idle", "closed"} ELSE dpc = "done")
=============================================================================
