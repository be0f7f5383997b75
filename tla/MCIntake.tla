------------------------------ MODULE MCIntake ------------------------------
(* How data comes in, for TLC: the pipelined read, the parallel fold, the     *)
(* classifying scan, the merge of change files and the scratch directory, side *)
(* by side.  A behaviour is one of them; the variables of the others stand still.*)
EXTENDS Integers, Sequences, TLC

CONSTANTS N, ReadAhead, DecodeAhead, DecodeThreads, BlockQueue,
          Workers, Cap, BatchMaxBlobs, BatchMaxBytes,
          MaxInputs, MaxBatches, MaxTotal, Budget,
          Runs, Scanners, NoRun,
          ScanWorkers, MaxBlobs, DescCap, ResultCap

VARIABLES part, world, cancelled,
          reader, raw, disp, tasks, decoded, permits, cons, consumed, caller,
          pump, queue, budget, work, folded,
          rd, ledger, jobs, chan, st, coord, out,
          run, dir, exists, flock, scan, report,
          sched, tripped, feeder, descs, wk, stop, results, taker, merged

R == INSTANCE ReadPipeline
F == INSTANCE ParFold
M == INSTANCE MergeStream
S == INSTANCE Scratch
C == INSTANCE ClassifyPool

readVars == <<reader, raw, disp, tasks, decoded, permits, cons, consumed, caller>>
foldVars == <<pump, queue, budget, work, folded>>
mergeVars == <<rd, ledger, jobs, chan, st, coord, out>>
scratchVars == <<run, dir, exists, flock, scan, report>>
scanVars == <<sched, tripped, feeder, descs, wk, stop, results, taker, merged>>
all == <<part, world, cancelled, readVars, foldVars, mergeVars, scratchVars, scanVars>>

NoScan ==
    /\ sched = 0 /\ tripped = 0 /\ feeder = 0 /\ descs = 0 /\ wk = 0
    /\ stop = 0 /\ results = 0 /\ taker = 0 /\ merged = 0

Init ==
    \/ /\ part = "read" /\ R!Init
       /\ pump = 0 /\ queue = 0 /\ budget = 0 /\ work = 0 /\ folded = 0 /\ rd = 0 /\ ledger = 0
       /\ jobs = 0 /\ chan = 0 /\ st = 0 /\ coord = 0 /\ out = 0 /\ run = 0 /\ dir = 0
       /\ exists = 0 /\ flock = 0 /\ scan = 0 /\ report = 0
       /\ NoScan
    \/ /\ part = "fold" /\ F!Init
       /\ reader = 0 /\ raw = 0 /\ disp = 0 /\ tasks = 0 /\ decoded = 0 /\ permits = 0 /\ cons = 0
       /\ consumed = 0 /\ caller = 0 /\ rd = 0 /\ ledger = 0 /\ jobs = 0 /\ chan = 0 /\ st = 0
       /\ coord = 0 /\ out = 0 /\ run = 0 /\ dir = 0 /\ exists = 0 /\ flock = 0 /\ scan = 0
       /\ report = 0 /\ cancelled = 0
       /\ NoScan
    \/ /\ part = "merge" /\ M!Init
       /\ reader = 0 /\ raw = 0 /\ disp = 0 /\ tasks = 0 /\ decoded = 0 /\ permits = 0 /\ cons = 0
       /\ consumed = 0 /\ caller = 0 /\ pump = 0 /\ queue = 0 /\ budget = 0 /\ work = 0 /\ folded = 0
       /\ run = 0 /\ dir = 0 /\ exists = 0 /\ flock = 0 /\ scan = 0 /\ report = 0
       /\ NoScan
    \/ /\ part = "scratch" /\ S!Init
       /\ reader = 0 /\ raw = 0 /\ disp = 0 /\ tasks = 0 /\ decoded = 0 /\ permits = 0 /\ cons = 0
       /\ consumed = 0 /\ caller = 0 /\ pump = 0 /\ queue = 0 /\ budget = 0 /\ work = 0 /\ folded = 0
       /\ rd = 0 /\ ledger = 0 /\ jobs = 0 /\ chan = 0 /\ st = 0 /\ coord = 0 /\ out = 0
       /\ world = 0 /\ cancelled = 0
       /\ NoScan
    \/ /\ part = "scan" /\ C!Init
       /\ reader = 0 /\ raw = 0 /\ disp = 0 /\ tasks = 0 /\ decoded = 0 /\ permits = 0 /\ cons = 0
       /\ consumed = 0 /\ caller = 0 /\ pump = 0 /\ queue = 0 /\ budget = 0 /\ work = 0 /\ folded = 0
       /\ rd = 0 /\ ledger = 0 /\ jobs = 0 /\ chan = 0 /\ st = 0 /\ coord = 0 /\ out = 0
       /\ run = 0 /\ dir = 0 /\ exists = 0 /\ flock = 0 /\ scan = 0 /\ report = 0
       /\ world = 0 /\ cancelled = 0

Next ==
    \/ part = "read" /\ R!Next /\ UNCHANGED <<part, foldVars, mergeVars, scratchVars, scanVars>>
    \/ part = "fold" /\ F!Next /\ UNCHANGED <<part, readVars, mergeVars, scratchVars, scanVars, cancelled>>
    \/ part = "merge" /\ M!Next /\ UNCHANGED <<part, readVars, foldVars, scratchVars, scanVars>>
    \/ part = "scratch" /\ S!Next /\ UNCHANGED <<part, readVars, foldVars, mergeVars, scanVars, world, cancelled>>
    \/ part = "scan" /\ C!Next /\ UNCHANGED <<part, readVars, foldVars, mergeVars, scratchVars, world, cancelled>>

ReadStep(A) == part = "read" /\ A /\ UNCHANGED <<part, foldVars, mergeVars, scratchVars, scanVars>>
FoldStep(A) == part = "fold" /\ A /\ UNCHANGED <<part, readVars, mergeVars, scratchVars, scanVars, cancelled>>
MergeStep(A) == part = "merge" /\ A /\ UNCHANGED <<part, readVars, foldVars, scratchVars, scanVars>>
ScanStep(A) == part = "scan" /\ A /\ UNCHANGED <<part, readVars, foldVars, mergeVars, scratchVars, world, cancelled>>

\* The fairness of each module; a scratch directory's runs and scanners may
\* stop anywhere.
Fairness ==
    /\ WF_all(ReadStep(R!NextBlob \/ R!RawSend))
    /\ WF_all(ReadStep(R!BuildPool \/ R!TakeRaw \/ R!Admit \/ R!SendError \/ R!ScopeEnds))
    /\ WF_all(ReadStep(R!StartTask)) /\ WF_all(ReadStep(R!SendDecoded))
    /\ WF_all(ReadStep(R!ConsumerStep))
    /\ WF_all(ReadStep(R!DropIterator))
    /\ WF_all(FoldStep(F!PumpStep))
    /\ \A w \in Workers : WF_all(FoldStep(F!WorkerStep(w)))
    /\ WF_all(MergeStep(M!CoordStep))
    /\ \A i \in 0 .. MaxInputs - 1 : WF_all(MergeStep(i \in M!Inputs /\ M!ReaderStep(i)))
    /\ WF_all(MergeStep(\E b \in jobs : M!Encode(b)))
    /\ WF_all(ScanStep(C!Feed)) /\ WF_all(ScanStep(C!Start \/ C!TakeResult \/ C!JoinAll))
    /\ \A w \in ScanWorkers : WF_all(ScanStep(C!WorkerStep(w)))

Spec == Init /\ [][Next]_all /\ Fairness

\* What is in memory stays within its bound, and the bound is accounted for:
\* the decode permits (ReadPipeline), the byte budget (ParFold) and the credit
\* ledger (MergeStream) are held by exactly what they were given out for.
IntakeBounded ==
    CASE part = "read" -> R!PermitsBounded
      [] part = "fold" -> F!ChargeIsHeld
      [] part = "merge" -> M!CreditBounds
      [] OTHER -> TRUE

\* The pipelined read delivers the file's blocks in order, all of them or up to
\* the first failure it names (ReadPipeline, read/pipeline.rs).
ReadDeliversTrue == part = "read" => R!ReadIsTrue

\* The parallel fold counts every blob once or fails with a cause (ParFold,
\* read/reader.rs).
FoldCountsTrue == part = "fold" => F!FoldIsTrue

\* The merged change file is the inputs in order, whole or a named failure
\* (MergeStream, commands/merge_changes/stream.rs).
MergeWritesTrue == part = "merge" => M!MergeIsTrue

\* A scan phase answers what its blobs came to: every blob merged once, or a
\* failure with its cause (ClassifyPool, scan/classify.rs).
ScanIsTrue == part = "scan" => C!PhaseIsTrue

\* A live run's scratch directory is never reported as stale, and looking for
\* stale ones never disturbs a starting run (Scratch, scratch.rs).
ScratchLiveNeverStale == part = "scratch" => S!LiveNeverStale

\* Every read, fold, merge and scan returns: whatever fails, is cancelled, dropped or
\* full, no thread of theirs waits for another for ever.
IntakeReturns ==
    <>CASE part = "read" -> cons.pc = "returned" /\ (world.iterates => caller.pc = "dropped")
        [] part = "fold" -> pump.pc = "returned"
        [] part = "merge" -> coord.pc = "returned"
        [] part = "scan" -> taker.pc = "returned"
        [] OTHER -> TRUE
=============================================================================
