------------------------------ MODULE Scratch -------------------------------
(***************************************************************************)
(* Run directories (scratch.rs): a run creates its directory, takes the    *)
(* LOCK, marks it READY, works and cleans up; it may be killed at any      *)
(* point.  A scanner (find_stale) looks at the directories meanwhile and   *)
(* reports the ones whose lock it could take.                              *)
(***************************************************************************)
EXTENDS FiniteSets, Naturals

CONSTANTS Runs, Scanners, NoRun

VARIABLES
    run,      \* where each run stands in create, work and cleanup
    dir,      \* the names present in each run's directory; {} when it is gone
    exists,   \* whether the directory itself exists
    flock,    \* who holds the flock on each directory's LOCK file
    scan,     \* each scanner: its place in probe_lock and what it looks at
    report    \* the observations find_stale returned
vars == <<run, dir, exists, flock, scan, report>>

Nobody == "nobody"
Owner == "owner"
RunPCs == {"new", "made", "opened", "locked", "working", "refused", "leaving",
           "emptied", "unready", "unlocked", "removed", "released", "dead"}
ScanPCs == {"idle", "ready", "lock", "open", "flock", "took"}
Names == {"LOCK", "READY", "file"}

TypeOK ==
    /\ run \in [Runs -> RunPCs]
    /\ dir \in [Runs -> SUBSET Names]
    /\ exists \in [Runs -> BOOLEAN]
    /\ flock \in [Runs -> {Nobody, Owner} \cup Scanners]
    /\ scan \in [Scanners -> [pc : ScanPCs, at : Runs \cup {NoRun}]]
    /\ report \subseteq [at : Runs, what : {"LockAvailable", "LockMissing"}, live : BOOLEAN]

\* A live run: its guard exists and its process does.
Live(r) == run[r] \notin {"new", "released", "dead"}

Init ==
    /\ run = [r \in Runs |-> "new"]
    /\ dir = [r \in Runs |-> {}]
    /\ exists = [r \in Runs |-> FALSE]
    /\ flock = [r \in Runs |-> Nobody]
    /\ scan = [s \in Scanners |-> [pc |-> "idle", at |-> NoRun]]
    /\ report = {}

----------------------------------------------------------------------------
(* The run *)

Goto(r, from, to) == run[r] = from /\ run' = [run EXCEPT ![r] = to]

\* RunScratch::create: the name holds 128 random bits, so the directory is new.
Create(r) ==
    /\ Goto(r, "new", "made")
    /\ exists' = [exists EXCEPT ![r] = TRUE]
    /\ UNCHANGED <<dir, flock, scan, report>>

OpenLock_ReadyToo(r) ==
    /\ Goto(r, "made", "opened")
    /\ dir' = [dir EXCEPT ![r] = @ \cup {"LOCK", "READY"}]
    /\ UNCHANGED <<exists, flock, scan, report>>

\* initialise: LOCK is created exclusively ...
OpenLock(r) ==
    /\ Goto(r, "made", "opened")
    /\ dir' = [dir EXCEPT ![r] = @ \cup {"LOCK"}]
    /\ UNCHANGED <<exists, flock, scan, report>>

\* ... locked without waiting (a held lock refuses the run) ...
TakeLock(r) ==
    /\ IF flock[r] = Nobody
       THEN Goto(r, "opened", "locked") /\ flock' = [flock EXCEPT ![r] = Owner]
       ELSE Goto(r, "opened", "refused") /\ UNCHANGED flock
    /\ UNCHANGED <<dir, exists, scan, report>>

\* ... and only then marked READY.
MarkReady(r) ==
    /\ Goto(r, "locked", "working")
    /\ dir' = [dir EXCEPT ![r] = @ \cup {"READY"}]
    /\ UNCHANGED <<exists, flock, scan, report>>

\* The command writes scratch files and removes some again.
Work(r) ==
    /\ run[r] = "working"
    /\ \E d \in {dir[r] \cup {"file"}, dir[r] \ {"file"}} : dir' = [dir EXCEPT ![r] = d]
    /\ UNCHANGED <<run, exists, flock, scan, report>>

\* The guard drops: the command returned, or initialise failed somewhere.
Leave(r) ==
    /\ run[r] \in {"made", "opened", "locked", "refused", "working"}
    /\ run' = [run EXCEPT ![r] = "leaving"]
    /\ UNCHANGED <<dir, exists, flock, scan, report>>

\* cleanup: remove_contents spares READY and LOCK; a failure leaves the rest
\* of the sequence undone but still gives the lock up.
RemoveContents(r) ==
    /\ Goto(r, "leaving", "emptied")
    /\ dir' = [dir EXCEPT ![r] = @ \ {"file"}]
    /\ UNCHANGED <<exists, flock, scan, report>>

RemoveReady(r) ==
    /\ Goto(r, "emptied", "unready")
    /\ dir' = [dir EXCEPT ![r] = @ \ {"READY"}]
    /\ UNCHANGED <<exists, flock, scan, report>>

RemoveLock(r) ==
    /\ Goto(r, "unready", "unlocked")
    /\ dir' = [dir EXCEPT ![r] = @ \ {"LOCK"}]
    /\ UNCHANGED <<exists, flock, scan, report>>

RemoveDir(r) ==
    /\ Goto(r, "unlocked", "removed")
    /\ exists' = [exists EXCEPT ![r] = FALSE]
    /\ UNCHANGED <<dir, flock, scan, report>>

\* The lock is closed last, whether or not the removal got this far.
Unlock(r) == flock' = [flock EXCEPT ![r] = IF @ = Owner THEN Nobody ELSE @]

Release(r) ==
    /\ run[r] \in {"leaving", "emptied", "unready", "unlocked", "removed"}
    /\ run' = [run EXCEPT ![r] = "released"]
    /\ Unlock(r)
    /\ UNCHANGED <<dir, exists, scan, report>>

\* A kill: the kernel drops the lock, the files stay.
Kill(r) ==
    /\ Live(r)
    /\ run' = [run EXCEPT ![r] = "dead"]
    /\ Unlock(r)
    /\ UNCHANGED <<dir, exists, scan, report>>

RunStep(r) ==
    \/ Create(r) \/ OpenLock(r) \/ TakeLock(r) \/ MarkReady(r) \/ Work(r)
    \/ Leave(r) \/ RemoveContents(r) \/ RemoveReady(r) \/ RemoveLock(r) \/ RemoveDir(r) \/ Release(r)
    \/ Kill(r)

----------------------------------------------------------------------------
(* The scanner: find_stale lists the directory, probe_lock looks inside *)

\* A crate::StaleScratch entry; live records whether the owner was alive.
Entry(r, what) == [at |-> r, what |-> what, live |-> Live(r)]

At(s, pc) == scan[s].pc = pc
ScanGoto(s, pc) == scan' = [scan EXCEPT ![s].pc = pc]
ScanDone(s) == scan' = [scan EXCEPT ![s] = [pc |-> "idle", at |-> NoRun]]

\* scan_dir met a run directory's name.
Meet(s) ==
    /\ At(s, "idle")
    /\ \E r \in Runs :
         /\ exists[r]
         /\ scan' = [scan EXCEPT ![s] = [pc |-> "ready", at |-> r]]
    /\ UNCHANGED <<run, dir, exists, flock, report>>

\* READY, then LOCK, must be there; either missing is LockMissing.
Present(s, name, from, to) ==
    /\ At(s, from)
    /\ IF name \in dir[scan[s].at]
       THEN ScanGoto(s, to) /\ UNCHANGED report
       ELSE ScanDone(s) /\ report' = report \cup {Entry(scan[s].at, "LockMissing")}
    /\ UNCHANGED <<run, dir, exists, flock>>

StatReady(s) == Present(s, "READY", "ready", "lock")
StatLock(s) == Present(s, "LOCK", "lock", "open")
Open(s) == Present(s, "LOCK", "open", "flock")

\* flock(LOCK_EX | LOCK_NB) on the opened file, which may have been unlinked
\* since: taken, or the run is live (or another scanner is looking).
TryFlock(s) ==
    /\ At(s, "flock")
    /\ IF flock[scan[s].at] = Nobody
       THEN /\ flock' = [flock EXCEPT ![scan[s].at] = s]
            /\ ScanGoto(s, "took")
       ELSE ScanDone(s) /\ UNCHANGED flock
    /\ UNCHANGED <<run, dir, exists, report>>

\* The descriptor closes when probe_lock returns, before the walk.
Took(s) ==
    /\ At(s, "took")
    /\ flock' = [flock EXCEPT ![scan[s].at] = Nobody]
    /\ report' = report \cup {Entry(scan[s].at, "LockAvailable")}
    /\ ScanDone(s)
    /\ UNCHANGED <<run, dir, exists>>

ScanStep(s) == Meet(s) \/ StatReady(s) \/ StatLock(s) \/ Open(s) \/ TryFlock(s) \/ Took(s)

Next == (\E r \in Runs : RunStep(r)) \/ (\E s \in Scanners : ScanStep(s))
Spec == Init /\ [][Next]_vars

----------------------------------------------------------------------------
\* A lock that could be taken is evidence that its owner is gone, and looking
\* does no harm: no live run's directory is ever reported as LockAvailable,
\* wherever the run was when the scanner looked, and no starting run finds the
\* lock file it has just created held (scratch.rs, "Liveness").
LiveNeverStale ==
    /\ \A e \in report : e.what = "LockAvailable" => ~e.live
    /\ \A r \in Runs : run[r] # "refused"
=============================================================================
