---------------------------- MODULE Publication -----------------------------
(***************************************************************************)
(* The execution of one authorized publication (src/output.rs): `execute` *)
(* installs every member of an output, rolls the installed ones back in    *)
(* reverse when one fails, otherwise syncs the changed directories and     *)
(* commits; the targets are dropped afterwards.                            *)
(*                                                                         *)
(* One action is one system call, which may fail wherever the code handles *)
(* a failure, so a killed process is any reachable state.  The filesystem  *)
(* is two functions from names to what they hold: `view`, what processes   *)
(* see, and `disk`, what the last sync of each name's directory recorded.  *)
(* A power loss leaves every directory, independently, at one of the two.  *)
(***************************************************************************)
EXTENDS Integers, FiniteSets

CONSTANTS N,              \* the members of the largest output set
          Interference    \* another process may create a free destination

ASSUME PublicationAssumption == N \in Nat \ {0} /\ Interference \in BOOLEAN

VARIABLES count,      \* the members of this output
          shape,      \* "File" or "Dir"; a directory is always alone
          overwrite,  \* "Refuse" or "Replace"
          placement,  \* where staging and backups go (`Staging`)
          had,        \* the members whose destination existed before
          view, disk, \* the names, as seen and as durable
          synced,     \* the members whose new contents are durable
          state,      \* the state of each target
          moved,      \* the transitions of each target (`Moved`)
          linked,     \* the members installed by link(2)
          pc, at,     \* the step of `execute`, and its member
          present,    \* what install_replacing read of the destination
          upto,       \* the member whose installation failed
          todo,       \* the directories still to be synced
          unsynced,   \* a changed directory failed to sync
          named,      \* the members the returned error names
          warned,     \* the members with a cleanup warning pending
          result      \* what `execute` returned

config == <<count, shape, overwrite, placement, had>>
names == <<view, disk, synced>>
report == <<named, warned, result>>
loop == <<present, upto, todo, unsynced>>
vars == <<config, names, state, moved, linked, pc, at, loop, report>>

-----------------------------------------------------------------------------
(* Names and directories. *)

Members == 1 .. count

Dest(m) == <<"dest", m>>
Write(m) == <<"tmp", m>>
StagingBox(m) == <<"stg", m>>
Backup(m) == <<"bak", m>>
Entry(m) == <<"entry", m>>
Names == {"dest", "tmp", "stg", "bak", "entry"} \X Members

DestDir(m) == <<"parent", m>>
StageDir == <<"stage", 0>>
StagingParent(m) == IF placement = "Beside" THEN DestDir(m) ELSE StageDir
SourceDir(m) == IF shape = "Dir" THEN <<"inside", m>> ELSE StagingParent(m)
BackupDir(m) == IF placement = "DirWithBackups" THEN StageDir ELSE DestDir(m)
Container(m) == <<"container", m>>

DirOf(n) ==
    CASE n[1] = "dest"  -> DestDir(n[2])
      [] n[1] = "tmp"   -> SourceDir(n[2])
      [] n[1] = "stg"   -> StagingParent(n[2])
      [] n[1] = "bak"   -> BackupDir(n[2])
      [] n[1] = "entry" -> Container(n[2])

Dirs == {DirOf(n) : n \in Names}

Rename(from, to) == view' = [view EXCEPT ![to] = view[from], ![from] = "none"]
Remove(gone) == view' = [n \in Names |-> IF n \in gone THEN "none" ELSE view[n]]

(* sync_dir: the names of one directory become durable as they are seen. *)
Durable(d) == disk' = [n \in Names |-> IF DirOf(n) = d THEN view[n] ELSE disk[n]]

(* changed_dirs *)
ChangedDirs(ms) == UNION {{DestDir(m), SourceDir(m)} : m \in ms}

(* Target::effect *)
Effect(m) ==
    CASE moved[m].new_at_dest -> "Installed"
      [] ~moved[m].new_at_dest /\ moved[m].aside /\ moved[m].put_back -> "Restored"
      [] ~moved[m].new_at_dest /\ moved[m].aside /\ ~moved[m].put_back -> "Displaced"
      [] OTHER -> "None"

Placed(m, s) == state' = [state EXCEPT ![m] = s]
Arrived(m) == moved' = [moved EXCEPT ![m] = [@ EXCEPT !.new_at_dest = TRUE]]

Go(step, m) == pc' = step /\ at' = m

-----------------------------------------------------------------------------
(* The staged, finished and reserved targets publication starts from.      *)

Before == [n \in Names |-> CASE n[1] = "dest" /\ n[2] \in had -> "old"
                             [] n[1] = "tmp" -> "new"
                             [] n[1] = "stg" /\ shape = "Dir" -> "box"
                             [] OTHER -> "none"]

Init ==
    /\ count \in 1 .. N
    /\ shape \in IF count = 1 THEN {"File", "Dir"} ELSE {"File"}
    /\ overwrite \in {"Refuse", "Replace"}
    /\ placement \in {"Beside", "Dir", "DirWithBackups"}
    /\ had \in SUBSET Members
    /\ overwrite = "Refuse" => had = {}
    /\ view = Before /\ disk = Before
    /\ synced = {}
    /\ state = [m \in Members |-> "Staged"]
    /\ moved = [m \in Members |-> [aside |-> FALSE, put_back |-> FALSE, new_at_dest |-> FALSE]]
    /\ linked = {}
    /\ pc = "hooks" /\ at = 1
    /\ present = FALSE /\ upto = 0 /\ todo = {} /\ unsynced = FALSE
    /\ named = {} /\ warned = {} /\ result = "none"

Return(r) ==
    /\ result' = r
    /\ Go("drop", 1)

-----------------------------------------------------------------------------
(* Before anything is installed. *)

(* The before_publish hooks; a panic unwinds out of `execute`. *)
RunHooks ==
    /\ pc = "hooks"
    /\ \/ Go("recheck", 1) /\ UNCHANGED result
       \/ Return("panicked")
    /\ UNCHANGED <<config, names, state, moved, linked, loop, named, warned>>

(* check_ready and recheck of one target: an unfinished session, a replaced *)
(* staging entry or a destination against the rules refuses.                *)
Recheck ==
    /\ pc = "recheck"
    /\ \/ /\ overwrite = "Refuse" => view[Dest(at)] = "none"
          /\ IF at < count THEN Go("recheck", at + 1) ELSE Go("sync", 1)
          /\ UNCHANGED result
       \/ Return("error")
    /\ UNCHANGED <<config, names, state, moved, linked, loop, named, warned>>

SyncStaged_Unchecked ==
    /\ pc = "sync"
    /\ synced' \in {synced, synced \union {at}}
    /\ IF at < count THEN Go("sync", at + 1) ELSE Go("install", 1)
    /\ UNCHANGED <<config, view, disk, state, moved, linked, loop, report>>

SyncStaged ==
    /\ pc = "sync"
    /\ \/ /\ synced' = synced \union {at}
          /\ IF at < count THEN Go("sync", at + 1) ELSE Go("install", 1)
          /\ UNCHANGED result
       \/ Return("error") /\ UNCHANGED synced
    /\ UNCHANGED <<config, view, disk, state, moved, linked, loop, named, warned>>

-----------------------------------------------------------------------------
(* Installing one member. *)

UseBackup == count > 1 \/ shape = "Dir"

Installed_OffByOne(m) ==
    IF m <= count
    THEN Go("install", m + 1) /\ UNCHANGED todo
    ELSE Go("dirs", m) /\ todo' = ChangedDirs(Members)

Installed(m) ==
    IF m < count
    THEN Go("install", m + 1) /\ UNCHANGED todo
    ELSE Go("dirs", m) /\ todo' = ChangedDirs(Members)

(* The first failure rolls back this member and the ones before it. *)
Failed(m) == Go("rollback", m) /\ upto' = m

(* rename_noreplace, and what its errors lead to. *)
InstallExclusive ==
    /\ pc = "install" /\ overwrite = "Refuse"
    /\ \/ /\ view[Dest(at)] = "none"
          /\ Rename(Write(at), Dest(at))
          /\ Placed(at, "InstalledNothing") /\ Arrived(at) /\ Installed(at)
          /\ UNCHANGED upto
       \/ Failed(at) /\ UNCHANGED <<view, state, moved, todo>>
       \/ /\ shape = "File"
          /\ Go("link", at)
          /\ UNCHANGED <<view, state, moved, upto, todo>>
    /\ UNCHANGED <<config, disk, synced, linked, present, unsynced, report>>

InstallByLink ==
    /\ pc = "link"
    /\ \/ /\ view[Dest(at)] = "none"
          /\ view' = [view EXCEPT ![Dest(at)] = "new"]
          /\ Placed(at, "InstalledNothing") /\ Arrived(at)
          /\ linked' = linked \union {at}
          /\ Go("unlink", at)
          /\ UNCHANGED upto
       \/ Failed(at) /\ UNCHANGED <<view, state, moved, linked>>
    /\ UNCHANGED <<config, disk, synced, present, todo, unsynced, report>>

(* Removing the staging name after a link is cleanup, and may fail. *)
UnlinkStaging ==
    /\ pc = "unlink"
    /\ Remove({Write(at)}) \/ UNCHANGED view
    /\ Installed(at)
    /\ UNCHANGED <<config, disk, synced, state, moved, linked, present, upto, unsynced, report>>

InspectPresent ==
    /\ pc = "install" /\ overwrite = "Replace"
    /\ \/ /\ present' = (view[Dest(at)] # "none")
          /\ Go(IF present' /\ UseBackup THEN "reserve" ELSE "rename", at)
          /\ UNCHANGED upto
       \/ Failed(at) /\ UNCHANGED present
    /\ UNCHANGED <<config, names, state, moved, linked, todo, unsynced, report>>

ReserveBackup ==
    /\ pc = "reserve"
    /\ \/ /\ view' = [view EXCEPT ![Backup(at)] = "box"]
          /\ Go("aside", at)
          /\ UNCHANGED upto
       \/ Failed(at) /\ UNCHANGED view
    /\ UNCHANGED <<config, disk, synced, state, moved, linked, present, todo, unsynced, report>>

MoveAside ==
    /\ pc = "aside"
    /\ \/ /\ Rename(Dest(at), Entry(at))
          /\ Placed(at, "BackedUp")
          /\ moved' = [moved EXCEPT ![at] = [@ EXCEPT !.aside = TRUE]]
          /\ Go("container", at)
       \/ Go("unreserve", at) /\ UNCHANGED <<view, state, moved>>
    /\ UNCHANGED <<config, disk, synced, linked, loop, report>>

Unreserve ==
    /\ pc = "unreserve"
    /\ \/ Remove({Backup(at)}) /\ UNCHANGED warned
       \/ warned' = warned \union {at} /\ UNCHANGED view
    /\ Failed(at)
    /\ UNCHANGED <<config, disk, synced, state, moved, linked, present, todo, unsynced, named,
                   result>>

(* The backup's durability chain, in order: the container, the staging     *)
(* directory that holds it if one does, the destination's directory.       *)
ChainDir == CASE pc = "container" -> Container(at)
              [] pc = "holder"    -> BackupDir(at)
              [] pc = "vacated"   -> DestDir(at)

AfterChain_SkipsHolder == CASE pc = "container" -> "vacated"
                            [] pc = "holder"    -> "vacated"
                            [] pc = "vacated"   -> "rename"

AfterChain == CASE pc = "container" /\ placement = "DirWithBackups" -> "holder"
                [] pc = "container" /\ placement # "DirWithBackups" -> "vacated"
                [] pc = "holder"  -> "vacated"
                [] pc = "vacated" -> "rename"

SyncBackup ==
    /\ pc \in {"container", "holder", "vacated"}
    /\ \/ /\ Durable(ChainDir)
          /\ IF AfterChain = "rename" THEN Placed(at, "Staged") ELSE UNCHANGED state
          /\ Go(AfterChain, at)
          /\ UNCHANGED upto
       \/ Failed(at) /\ UNCHANGED <<disk, state>>
    /\ UNCHANGED <<config, view, synced, moved, linked, present, todo, unsynced, report>>

(* Displaced::after_rename: a backup was made exactly when one was wanted. *)
AfterRename == CASE present /\ UseBackup  -> "InstalledBackup"
                 [] present /\ ~UseBackup -> "InstalledUnbacked"
                 [] ~present              -> "InstalledNothing"

RenameIntoPlace ==
    /\ pc = "rename"
    /\ \/ /\ Rename(Write(at), Dest(at))
          /\ Placed(at, AfterRename) /\ Arrived(at) /\ Installed(at)
          /\ UNCHANGED upto
       \/ /\ IF AfterRename = "InstalledBackup" THEN Placed(at, "BackedUp") ELSE UNCHANGED state
          /\ Failed(at)
          /\ UNCHANGED <<view, moved, todo>>
    /\ UNCHANGED <<config, disk, synced, linked, present, unsynced, report>>

-----------------------------------------------------------------------------
(* Rolling back, from the member that failed down to the first. *)

(* sync_after_rollback: kept backups and their holders, changed directories. *)
RollbackDirs ==
    LET touched == 1 .. upto
        kept == {m \in touched : state'[m] \in {"BackedUp", "InstalledBackup"}}
    IN  ChangedDirs(touched) \union {Container(m) : m \in kept}
                             \union {BackupDir(m) : m \in kept}

RolledBack(m) ==
    IF m > 1
    THEN Go("rollback", m - 1) /\ UNCHANGED todo
    ELSE Go("resync", m) /\ todo' = RollbackDirs

NothingToUndo ==
    /\ pc = "rollback"
    /\ state[at] \in {"Staged", "InstalledUnbacked"}
    /\ UNCHANGED state
    /\ RolledBack(at)
    /\ UNCHANGED <<config, names, moved, linked, present, upto, unsynced, report>>

(* restore, once its rename succeeded *)
Restored(m) == moved' = [moved EXCEPT ![m] = [@ EXCEPT !.put_back = TRUE, !.new_at_dest = FALSE]]

Restore(m) ==
    /\ Rename(Entry(m), Dest(m))
    /\ Restored(m)
    /\ Placed(m, "Staged")
    /\ Go("emptied", m)

(* What could not be undone stays, and the error names it. *)
Keep(m, s) ==
    /\ Placed(m, s)
    /\ named' = named \union {m}
    /\ RolledBack(m)

RollbackBackedUp ==
    /\ pc = "rollback" /\ state[at] = "BackedUp"
    /\ \/ /\ view[Dest(at)] = "none"
          /\ Restore(at)
          /\ UNCHANGED <<todo, named>>
       \/ Keep(at, "BackedUp") /\ UNCHANGED <<view, moved>>
    /\ UNCHANGED <<config, disk, synced, linked, present, upto, unsynced, warned, result>>

TakenOut(m) == moved' = [moved EXCEPT ![m] = [@ EXCEPT !.new_at_dest = FALSE]]

(* Installed with nothing displaced: the file is removed, if it is still   *)
(* the one installed.  Only a member of a group is ever uninstalled, and   *)
(* a directory is never one: it is published alone.                        *)
UninstallLone ==
    /\ pc = "rollback" /\ state[at] = "InstalledNothing"
    /\ \/ /\ view[Dest(at)] = "new"
          /\ Remove({Dest(at)})
          /\ TakenOut(at)
          /\ Placed(at, "Staged")
          /\ RolledBack(at)
          /\ UNCHANGED named
       \/ Keep(at, "InstalledNothing") /\ UNCHANGED <<view, moved>>
    /\ UNCHANGED <<config, disk, synced, linked, present, upto, unsynced, warned, result>>

(* Installed over a backup: restored by one rename over the new file.      *)
UninstallBacked ==
    /\ pc = "rollback" /\ state[at] = "InstalledBackup"
    /\ \/ /\ view[Dest(at)] = "new"
          /\ Restore(at)
          /\ UNCHANGED <<todo, named>>
       \/ Keep(at, "InstalledBackup") /\ UNCHANGED <<view, moved>>
    /\ UNCHANGED <<config, disk, synced, linked, present, upto, unsynced, warned, result>>

RemoveEmptyBackup_Silent ==
    /\ pc = "emptied"
    /\ Remove({Backup(at)}) \/ UNCHANGED view
    /\ UNCHANGED state
    /\ RolledBack(at)
    /\ UNCHANGED <<config, disk, synced, moved, linked, present, upto, unsynced, report>>

(* remove_empty_backup *)
RemoveEmptyBackup ==
    /\ pc = "emptied"
    /\ \/ Remove({Backup(at)}) /\ UNCHANGED warned
       \/ warned' = warned \union {at} /\ UNCHANGED view
    /\ UNCHANGED state
    /\ RolledBack(at)
    /\ UNCHANGED <<config, disk, synced, moved, linked, present, upto, unsynced, named, result>>

SyncAfterRollback ==
    /\ pc = "resync"
    /\ \/ \E d \in todo : /\ Durable(d) \/ UNCHANGED disk
                          /\ todo' = todo \ {d}
          /\ UNCHANGED <<pc, at, result>>
       \/ /\ todo = {}
          /\ Return(IF named = {} THEN "error" ELSE "incomplete")
          /\ UNCHANGED <<disk, todo>>
    /\ UNCHANGED <<config, view, synced, state, moved, linked, present, upto, unsynced, named,
                   warned>>

-----------------------------------------------------------------------------
(* Every member installed: make the renames durable, then commit. *)

SyncChangedDirs ==
    /\ pc = "dirs"
    /\ \/ \E d \in todo : /\ \/ Durable(d) /\ UNCHANGED unsynced
                             \/ unsynced' = TRUE /\ UNCHANGED disk
                          /\ todo' = todo \ {d}
          /\ UNCHANGED <<pc, at>>
       \/ todo = {} /\ Go("commit", 1) /\ UNCHANGED <<disk, todo, unsynced>>
    /\ UNCHANGED <<config, view, synced, state, moved, linked, present, upto, report>>

(* The backup is removed whole; kept because of what it holds; or removed  *)
(* in part by a removal that fails.                                        *)
RemoveBackup(m) ==
    \/ Remove({Backup(m), Entry(m)}) /\ UNCHANGED <<named, warned>>
    \/ /\ view' \in {view, [view EXCEPT ![Entry(m)] = "part"]}
       /\ warned' = warned \union {m}
       /\ UNCHANGED named

KeepBackup(m) == named' = named \union {m} /\ UNCHANGED <<view, warned>>

CommitBackup(m) ==
    CASE state[m] = "InstalledBackup" /\ ~unsynced -> RemoveBackup(m)
      [] state[m] = "InstalledBackup" /\ unsynced  -> KeepBackup(m)
      [] OTHER -> UNCHANGED <<view, named, warned>>

Committed(m) ==
    IF m < count
    THEN Go("commit", m + 1) /\ UNCHANGED <<todo, result>>
    ELSE IF unsynced
         THEN Go("kept", m) /\ todo' = {Container(k) : k \in named'} /\ UNCHANGED result
         ELSE Return("ok") /\ UNCHANGED todo

Commit ==
    /\ pc = "commit"
    /\ CommitBackup(at)
    /\ Placed(at, "Committed")
    /\ IF shape = "Dir" THEN Go("emptystg", at) /\ UNCHANGED <<todo, result>> ELSE Committed(at)
    /\ UNCHANGED <<config, disk, synced, moved, linked, present, upto, unsynced>>

(* The emptied staging container of a directory output. *)
RemoveStaging ==
    /\ pc = "emptystg"
    /\ \/ Remove({StagingBox(at)}) /\ UNCHANGED warned
       \/ warned' = warned \union {at} /\ UNCHANGED view
    /\ UNCHANGED named
    /\ Committed(at)
    /\ UNCHANGED <<config, disk, synced, state, moved, linked, present, upto, unsynced>>

SyncKept ==
    /\ pc = "kept"
    /\ \/ \E d \in todo : /\ Durable(d) \/ UNCHANGED disk
                          /\ todo' = todo \ {d}
          /\ UNCHANGED <<pc, at, result>>
       \/ todo = {} /\ Return("unsynced") /\ UNCHANGED <<disk, todo>>
    /\ UNCHANGED <<config, view, synced, state, moved, linked, present, upto, unsynced, named,
                   warned>>

-----------------------------------------------------------------------------
(* Dropping the targets. *)

(* What Drop removes: the staging entry, whole, unless committed; a        *)
(* link-installed file's staging name once more.                           *)
DropRemoves(m) ==
    CASE state[m] # "Committed" /\ shape = "Dir"  -> {Write(m), StagingBox(m)}
      [] state[m] # "Committed" /\ shape = "File" -> {Write(m)}
      [] state[m] = "Committed" /\ m \in linked   -> {Write(m)}
      [] OTHER -> {}

(* A removal that fails, or finds what is never deleted, is reported. *)
DropTarget ==
    /\ pc = "drop"
    /\ \/ Remove(DropRemoves(at)) /\ UNCHANGED warned
       \/ /\ \E n \in DropRemoves(at) : view[n] # "none"
          /\ warned' = warned \union {at}
          /\ UNCHANGED view
    /\ IF at < count THEN Go("drop", at + 1) ELSE Go("ended", at)
    /\ UNCHANGED <<config, disk, synced, state, moved, linked, loop, named, result>>

-----------------------------------------------------------------------------
(* Another process creates an exclusive output's destination. *)
Foreign ==
    /\ Interference /\ overwrite = "Refuse" /\ pc # "ended"
    /\ \E m \in Members : /\ view[Dest(m)] = "none"
                          /\ view' = [view EXCEPT ![Dest(m)] = "foreign"]
    /\ UNCHANGED <<config, disk, synced, state, moved, linked, pc, at, loop, report>>

Ended == pc = "ended" /\ UNCHANGED vars

Install == \/ InstallExclusive \/ InstallByLink \/ UnlinkStaging
           \/ InspectPresent \/ ReserveBackup \/ MoveAside \/ Unreserve
           \/ SyncBackup \/ RenameIntoPlace

Rollback == \/ NothingToUndo \/ RollbackBackedUp \/ UninstallLone
            \/ UninstallBacked \/ RemoveEmptyBackup
            \/ SyncAfterRollback

Finish == SyncChangedDirs \/ Commit \/ RemoveStaging \/ SyncKept \/ DropTarget

Next == \/ RunHooks \/ Recheck \/ SyncStaged
        \/ Install \/ Rollback \/ Finish
        \/ Foreign \/ Ended

Spec == Init /\ [][Next]_vars

-----------------------------------------------------------------------------
(* Properties. *)

States == {"Staged", "BackedUp", "InstalledNothing", "InstalledBackup", "InstalledUnbacked",
           "Committed"}

(* Every variable of a publication keeps its type. *)
TypeOK ==
    /\ count \in 1 .. N /\ shape \in {"File", "Dir"} /\ overwrite \in {"Refuse", "Replace"}
    /\ placement \in {"Beside", "Dir", "DirWithBackups"}
    /\ had \subseteq Members
    /\ {view, disk} \subseteq [Names -> {"none", "old", "new", "part", "box", "foreign"}]
    /\ synced \subseteq Members /\ linked \subseteq Members
    /\ state \in [Members -> States]
    /\ moved \in [Members -> [aside : BOOLEAN, put_back : BOOLEAN, new_at_dest : BOOLEAN]]
    /\ at \in 0 .. count /\ upto \in 0 .. count
    /\ todo \subseteq Dirs
    /\ present \in BOOLEAN /\ unsynced \in BOOLEAN
    /\ named \subseteq Members /\ warned \subseteq Members
    /\ result \in {"none", "ok", "error", "incomplete", "unsynced", "panicked"}

(* What one choice, per directory, of the seen or the durable names holds. *)
Crash(lost, n) == IF DirOf(n) \in lost THEN disk[n] ELSE view[n]

(* A process killed at any step leaves every destination that existed with *)
(* its previous output or the new one, or with nothing while the previous  *)
(* output is whole in its backup.  Once a new output stands where a        *)
(* previous one stood, a power loss, whatever unsynced directory changes   *)
(* it loses, leaves one generation recoverable with its contents: at the   *)
(* destination or in the backup.                                           *)
GenerationKept ==
    \A m \in had :
        /\ \/ view[Dest(m)] \in {"old", "new"}
           \/ view[Dest(m)] = "none" /\ view[Backup(m)] = "box" /\ view[Entry(m)] = "old"
        /\ view[Dest(m)] = "new" =>
              \A lost \in SUBSET {DirOf(n) : n \in {Dest(m), Backup(m), Entry(m)}} :
                  \/ Crash(lost, Dest(m)) = "old"
                  \/ Crash(lost, Dest(m)) = "new" /\ m \in synced
                  \/ Crash(lost, Backup(m)) = "box" /\ Crash(lost, Entry(m)) = "old"

EffectIsTrue ==
    \A m \in Members :
        CASE Effect(m) = "Installed" -> view[Dest(m)] = "new"
          [] Effect(m) = "Restored"  -> view[Dest(m)] = "old"
          [] Effect(m) = "Displaced" -> view[Dest(m)] = "none" /\ view[Entry(m)] = "old"
          [] Effect(m) = "None"      -> view[Dest(m)] \in IF m \in had THEN {"old"}
                                                           ELSE {"none", "foreign"}

LeftoversReported ==
    pc = "ended" => \A m \in Members :
        /\ (\E n \in {Write(m), StagingBox(m), Backup(m)} : view[n] # "none")
               => m \in named \union warned
        /\ view[Entry(m)] = "old" /\ view[Dest(m)] = "none" => m \in named

(* What a publication tells its caller is true.  The effect read from the  *)
(* recorded transitions is what happened to the destination's name, at     *)
(* every step and so after any unwinding.  Success installed every member; *)
(* a plain error left every one as it was; an incomplete rollback names    *)
(* every member that is not as it was.  Nothing is left behind silently: a *)
(* staging entry or a backup that outlives the output is named by the      *)
(* error or by a cleanup warning, and a previous output that is only in a  *)
(* backup is named by the error.                                           *)
ResultIsTrue ==
    /\ EffectIsTrue /\ LeftoversReported
    /\ pc \in {"drop", "ended"} => \A m \in Members :
          /\ result \in {"ok", "unsynced"} => Effect(m) = "Installed"
          /\ result \in {"error", "panicked"} => Effect(m) \in {"None", "Restored"}
          /\ result = "incomplete" => (Effect(m) \in {"Installed", "Displaced"} <=> m \in named)

(* No destination changes before every member's new contents are durable:  *)
(* a delayed write error stops a publication that changed nothing.  Under  *)
(* Refuse what another process put at the destination is never replaced,   *)
(* removed or taken for this run's own.                                    *)
DestinationStep ==
    \A m \in Members :
        /\ view'[Dest(m)] # view[Dest(m)] => synced = Members \/ view'[Dest(m)] = "foreign"
        /\ view[Dest(m)] = "foreign" => view'[Dest(m)] = "foreign"
=============================================================================
