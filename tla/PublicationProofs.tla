------------------------- MODULE PublicationProofs --------------------------
(***************************************************************************)
(* Proofs about one output's publication, for any number of members: where *)
(* each member stands at every step of `execute` (its destination, its     *)
(* backup and its staged file, what of them is durable, and what it has    *)
(* recorded), and what that says of the generations and of the answer.     *)
(***************************************************************************)
EXTENDS Publication, TLAPS

-----------------------------------------------------------------------------
(* One publication: where each member of the output stands. *)

Contents == {"none", "old", "new", "part", "box", "foreign"}
Early == {"hooks", "recheck", "sync"}
Chain == {"container", "holder", "vacated"}
Backing == {"reserve", "aside", "unreserve"} \cup Chain
Installing == {"install", "link", "unlink", "rename"} \cup Backing
Rolling == {"rollback", "emptied"}
Closing == {"drop", "ended"}
Steps == Early \cup Installing \cup Rolling \cup Closing
             \cup {"resync", "dirs", "commit", "emptystg", "kept"}

\* The transitions a member may have behind it.
Trails == [aside : BOOLEAN, put_back : BOOLEAN, new_at_dest : BOOLEAN]
Unmoved(m) == ~moved[m].aside /\ ~moved[m].put_back /\ ~moved[m].new_at_dest
MovedAside(m) == moved[m].aside /\ ~moved[m].put_back /\ ~moved[m].new_at_dest
MovedOver(m) == moved[m].aside /\ ~moved[m].put_back /\ moved[m].new_at_dest
MovedBack(m) == moved[m].aside /\ moved[m].put_back /\ ~moved[m].new_at_dest
MovedIn(m) == ~moved[m].aside /\ ~moved[m].put_back /\ moved[m].new_at_dest

\* Its backup is gone or reported; its backup is whole, as seen and durably.
Tidy(m) == view[Backup(m)] = "none" \/ m \in named \/ m \in warned
Whole(m) == view[Backup(m)] = "box" /\ view[Entry(m)] = "old"
WholeOnDisk(m) == disk[Backup(m)] = "box" /\ disk[Entry(m)] = "old"

Untouched(m) ==
    /\ Unmoved(m) /\ state[m] = "Staged" /\ view[Entry(m)] = "none"
    /\ m \in had => view[Dest(m)] = "old" /\ disk[Dest(m)] = "old"
    /\ m \notin had => \/ view[Dest(m)] = "none"
                       \/ view[Dest(m)] = "foreign" /\ overwrite = "Refuse"
Clean(m) == Untouched(m) /\ Tidy(m)
Aside(m) == MovedAside(m) /\ m \in had /\ view[Dest(m)] = "none" /\ Whole(m)
Displaced(m) == Aside(m) /\ state[m] = "BackedUp"
Over(m) ==
    /\ MovedOver(m) /\ m \in had /\ m \in synced /\ state[m] = "InstalledBackup"
    /\ view[Dest(m)] = "new" /\ Whole(m) /\ WholeOnDisk(m)
Alone(m) ==
    /\ MovedIn(m) /\ m \notin had /\ state[m] = "InstalledNothing"
    /\ view[Dest(m)] = "new" /\ view[Entry(m)] = "none" /\ Tidy(m)
Unbacked(m) ==
    /\ MovedIn(m) /\ m \in had /\ m \in synced /\ state[m] = "InstalledUnbacked"
    /\ view[Dest(m)] = "new" /\ disk[Dest(m)] \in {"old", "new"} /\ Tidy(m)
Back(m) ==
    /\ MovedBack(m) /\ m \in had /\ state[m] = "Staged"
    /\ view[Dest(m)] = "old" /\ view[Entry(m)] = "none"
Done(m) ==
    /\ MovedIn(m) \/ MovedOver(m)
    /\ state[m] = "Committed" /\ view[Dest(m)] = "new" /\ Tidy(m)
    /\ m \in had => m \in synced /\ (disk[Dest(m)] \in {"old", "new"} \/ (Whole(m) /\ WholeOnDisk(m)))

Standing(m) == Over(m) \/ Alone(m) \/ Unbacked(m)
Resolved(m) ==
    \/ m \notin named /\ Tidy(m) /\ (Untouched(m) \/ Back(m))
    \/ m \in named /\ (Displaced(m) \/ Over(m) \/ Alone(m))

\* The member in hand while the output is being installed.
Handled(m) ==
    /\ pc \in {"install", "link", "reserve"} => Clean(m)
    /\ pc = "unlink" => Alone(m)
    /\ pc = "aside" => Untouched(m) /\ view[Backup(m)] = "box"
    /\ pc = "unreserve" => Untouched(m)
    /\ pc \in Chain => /\ Displaced(m)
                       /\ pc # "container" => disk[Entry(m)] = "old"
                       /\ pc = "vacated" /\ placement = "DirWithBackups" => disk[Backup(m)] = "box"
    /\ pc = "rename" => IF m \in had /\ UseBackup
                        THEN Aside(m) /\ state[m] = "Staged" /\ WholeOnDisk(m)
                        ELSE Clean(m)

\* Where a member stands at each step of `execute`.
Place(m) ==
    /\ pc \in Early => Clean(m)
    /\ pc \in Installing => /\ m < at => Over(m) \/ Alone(m)
                            /\ m = at => Handled(m)
                            /\ m > at => Clean(m)
    /\ pc \in Rolling => /\ m < at => Over(m) \/ Alone(m)
                         /\ m = at /\ pc = "emptied" => Back(m)
                         /\ m = at /\ pc = "rollback" =>
                                Clean(m) \/ Over(m) \/ Alone(m) \/ Displaced(m)
                         /\ m <= at => m \notin named
                         /\ m > at => Resolved(m)
    /\ pc = "resync" => Resolved(m)
    /\ pc = "dirs" => Standing(m) /\ (unsynced \/ DestDir(m) \in todo \/ disk[Dest(m)] = "new")
    /\ pc = "commit" => /\ m < at => Done(m)
                        /\ m >= at => Standing(m) /\ (unsynced \/ disk[Dest(m)] = "new")
    /\ pc \in {"emptystg", "kept"} => Done(m)
    /\ pc \in Closing => IF result \in {"ok", "unsynced"} THEN Done(m) ELSE Resolved(m)

\* What the step says of the run.
Course ==
    /\ overwrite = "Refuse" => had = {}
    /\ shape = "Dir" => count = 1
    /\ pc \in Early \cup Installing \cup {"dirs"} => named = {}
    /\ pc = "sync" => 1 .. at - 1 \subseteq synced
    /\ pc \in Installing \cup Rolling => synced = Members
    /\ pc \in {"link", "unlink"} => overwrite = "Refuse" /\ shape = "File"
    /\ pc \in Backing \cup {"rename"} => overwrite = "Replace" /\ (present <=> at \in had)
    /\ pc \in Backing => at \in had /\ UseBackup
    /\ pc = "holder" => placement = "DirWithBackups"
    /\ pc = "emptystg" => at = count
    /\ pc \in Closing /\ result \in {"error", "panicked"} => named = {}
    /\ pc \in Closing => result \in {"ok", "unsynced", "error", "panicked", "incomplete"}

\* What is left of a member's staging.
Waiting(m) == \/ pc \in Early
              \/ pc \in Installing /\ m > at
              \/ pc \in Installing /\ m = at /\ pc # "unlink"
Dropped(m) == pc = "ended" \/ (pc = "drop" /\ m < at)
Staging(m) ==
    /\ Waiting(m) => view[Write(m)] = "new"
    /\ moved[m].new_at_dest => m \in linked \/ view[Write(m)] = "none"
    /\ shape = "File" => view[StagingBox(m)] = "none"
    /\ state[m] = "Committed" => view[StagingBox(m)] = "none" \/ m \in warned \/ pc = "emptystg"
    /\ Dropped(m) => m \in warned \/ (view[Write(m)] = "none" /\ view[StagingBox(m)] = "none")

PubType ==
    /\ count \in Nat /\ at \in Members /\ had \subseteq Members /\ synced \subseteq Members
    /\ shape \in {"File", "Dir"} /\ overwrite \in {"Refuse", "Replace"}
    /\ placement \in {"Beside", "Dir", "DirWithBackups"}
    /\ view \in [Names -> Contents] /\ disk \in [Names -> Contents]
    /\ state \in [Members -> States] /\ pc \in Steps
    /\ moved \in [Members -> Trails]
    /\ named \subseteq Members /\ unsynced \in BOOLEAN /\ present \in BOOLEAN

PubInv == PubType /\ Course /\ \A m \in Members : Place(m) /\ Staging(m)

-----------------------------------------------------------------------------
(* Names. *)

LEMMA Tags ==
    /\ \A m \in Members : {Dest(m), Write(m), StagingBox(m), Backup(m), Entry(m)} \subseteq Names
    /\ \A m, k \in Members : m # k => /\ Dest(m) # Dest(k) /\ Write(m) # Write(k) /\ Entry(m) # Entry(k)
                                      /\ StagingBox(m) # StagingBox(k) /\ Backup(m) # Backup(k)
    /\ \A m, k \in Members : /\ Dest(m) # Write(k) /\ Dest(m) # StagingBox(k) /\ Dest(m) # Backup(k)
                             /\ Dest(m) # Entry(k) /\ Write(m) # StagingBox(k) /\ Write(m) # Backup(k)
                             /\ Write(m) # Entry(k) /\ StagingBox(m) # Backup(k) /\ StagingBox(m) # Entry(k)
                             /\ Backup(m) # Entry(k)
  BY DEF Dest, Write, StagingBox, Backup, Entry, Names

\* The names of the members in turn.
Own(m) == {Dest(m), Write(m), StagingBox(m), Backup(m), Entry(m)}

LEMMA OwnNames ==
    /\ \A m \in Members : Own(m) \subseteq Names
    /\ \A m, k \in Members : m # k => Own(m) \cap Own(k) = {}
  <1>1. \A m \in Members : Own(m) \subseteq Names
    BY Tags, Zenon DEF Own
  <1>2. ASSUME NEW m \in Members, NEW k \in Members, m # k, NEW n \in Own(m), n \in Own(k)
        PROVE  FALSE
    BY <1>2, Tags DEF Own
  <1> QED
    BY <1>1, <1>2, Zenon

LEMMA DirsOf ==
    ASSUME NEW m
    PROVE  /\ DirOf(Dest(m)) = DestDir(m) /\ DirOf(Backup(m)) = BackupDir(m) /\ DirOf(Entry(m)) = Container(m)
  BY DEF DirOf, Dest, Backup, Entry

LEMMA RenameIs ==
    ASSUME view \in [Names -> Contents], NEW from \in Names, NEW to \in Names, from # to, Rename(from, to)
    PROVE  /\ view' \in [Names -> Contents] /\ view'[to] = view[from] /\ view'[from] = "none"
           /\ \A n \in Names : n # from /\ n # to => view'[n] = view[n]
  BY DEF Rename, Contents

LEMMA RemoveIs ==
    ASSUME view \in [Names -> Contents], NEW gone, Remove(gone)
    PROVE  /\ view' \in [Names -> Contents]
           /\ \A n \in Names : n \in gone => view'[n] = "none"
           /\ \A n \in Names : n \notin gone => view'[n] = view[n]
  BY DEF Remove, Contents

LEMMA PutIs ==
    ASSUME view \in [Names -> Contents], NEW n \in Names, NEW c \in Contents, view' = [view EXCEPT ![n] = c]
    PROVE  /\ view' \in [Names -> Contents] /\ view'[n] = c
           /\ \A k \in Names : k # n => view'[k] = view[k]
  BY Zenon

LEMMA DurableIs ==
    ASSUME view \in [Names -> Contents], disk \in [Names -> Contents], NEW d, Durable(d)
    PROVE  /\ disk' \in [Names -> Contents]
           /\ \A n \in Names : DirOf(n) = d => disk'[n] = view[n]
           /\ \A n \in Names : disk'[n] = disk[n] \/ disk'[n] = view[n]
  BY Zenon DEF Durable

LEMMA MovedIs ==
    ASSUME moved \in [Members -> Trails], NEW m \in Members, NEW r \in Trails, moved' = [moved EXCEPT ![m] = r]
    PROVE  moved' \in [Members -> Trails] /\ moved'[m] = r /\ \A k \in Members : k # m => moved'[k] = moved[k]
  BY Zenon

LEMMA TrailIs ==
    ASSUME NEW r \in Trails
    PROVE  /\ [r EXCEPT !.aside = TRUE] \in Trails /\ [r EXCEPT !.new_at_dest = TRUE] \in Trails
           /\ [r EXCEPT !.new_at_dest = FALSE] \in Trails
           /\ [r EXCEPT !.put_back = TRUE, !.new_at_dest = FALSE] \in Trails
           /\ [r EXCEPT !.aside = TRUE].aside
           /\ [r EXCEPT !.aside = TRUE].put_back = r.put_back
           /\ [r EXCEPT !.aside = TRUE].new_at_dest = r.new_at_dest
           /\ [r EXCEPT !.new_at_dest = TRUE].new_at_dest
           /\ [r EXCEPT !.new_at_dest = TRUE].aside = r.aside
           /\ [r EXCEPT !.new_at_dest = TRUE].put_back = r.put_back
           /\ ~[r EXCEPT !.new_at_dest = FALSE].new_at_dest
           /\ [r EXCEPT !.new_at_dest = FALSE].aside = r.aside
           /\ [r EXCEPT !.new_at_dest = FALSE].put_back = r.put_back
           /\ [r EXCEPT !.put_back = TRUE, !.new_at_dest = FALSE].put_back
           /\ ~[r EXCEPT !.put_back = TRUE, !.new_at_dest = FALSE].new_at_dest
           /\ [r EXCEPT !.put_back = TRUE, !.new_at_dest = FALSE].aside = r.aside
  BY Zenon DEF Trails

LEMMA StateIs ==
    ASSUME state \in [Members -> States], NEW m \in Members, NEW s \in States, Placed(m, s)
    PROVE  state' \in [Members -> States] /\ state'[m] = s /\ \A k \in Members : k # m => state'[k] = state[k]
  BY Zenon DEF Placed

-----------------------------------------------------------------------------
(* Members a step leaves alone, but for directories that become durable and *)
(* warnings that are added.                                                 *)

Stands(m) ==
    /\ view'[Dest(m)] = view[Dest(m)] /\ view'[Entry(m)] = view[Entry(m)] /\ view'[Backup(m)] = view[Backup(m)]
    /\ disk'[Dest(m)] = disk[Dest(m)] \/ disk'[Dest(m)] = view[Dest(m)]
    /\ disk'[Entry(m)] = disk[Entry(m)] \/ disk'[Entry(m)] = view[Entry(m)]
    /\ disk'[Backup(m)] = disk[Backup(m)] \/ disk'[Backup(m)] = view[Backup(m)]
    /\ state'[m] = state[m] /\ moved'[m] = moved[m]
    /\ (m \in named' <=> m \in named) /\ (m \in warned => m \in warned') /\ (m \in synced => m \in synced')

Given == UNCHANGED <<count, shape, overwrite, placement, had>>

LEMMA GivenKeeps ==
    ASSUME Given
    PROVE  Members' = Members /\ Names' = Names /\ (UseBackup' <=> UseBackup)
  BY Zenon DEF Given, Members, Names, UseBackup

LEMMA StandsKeeps ==
    ASSUME NEW m, Given, Stands(m)
    PROVE  /\ Untouched(m) => Untouched(m)'
           /\ Tidy(m) => Tidy(m)'
           /\ Clean(m) => Clean(m)'
           /\ Aside(m) => Aside(m)'
           /\ Displaced(m) => Displaced(m)'
           /\ Over(m) => Over(m)'
           /\ Alone(m) => Alone(m)'
           /\ Unbacked(m) => Unbacked(m)'
           /\ Back(m) => Back(m)'
           /\ Done(m) => Done(m)'
           /\ Standing(m) => Standing(m)'
           /\ Resolved(m) => Resolved(m)'
  <1>1. Tidy(m) => Tidy(m)'
    BY Zenon DEF Stands, Tidy
  <1>2. Untouched(m) => Untouched(m)'
    BY Zenon DEF Stands, Given, Untouched, Unmoved
  <1>3. Clean(m) => Clean(m)'
    BY <1>1, <1>2, Zenon DEF Clean
  <1>4. (Whole(m) => Whole(m)') /\ (Whole(m) /\ WholeOnDisk(m) => WholeOnDisk(m)')
    BY Zenon DEF Stands, Whole, WholeOnDisk
  <1>5. Aside(m) => Aside(m)'
    BY <1>4, Zenon DEF Stands, Given, Aside, MovedAside
  <1>6. Displaced(m) => Displaced(m)'
    BY <1>5, Zenon DEF Displaced, Stands
  <1>7. Over(m) => Over(m)'
    BY <1>4, Zenon DEF Stands, Given, Over, MovedOver
  <1>8. Alone(m) => Alone(m)'
    BY <1>1, Zenon DEF Stands, Given, Alone, MovedIn
  <1>9. Unbacked(m) => Unbacked(m)'
    BY <1>1, Zenon DEF Stands, Given, Unbacked, MovedIn
  <1>10. Back(m) => Back(m)'
    BY Zenon DEF Stands, Given, Back, MovedBack
  <1>11. Done(m) => Done(m)'
    <2>1. (MovedIn(m) => MovedIn(m)') /\ (MovedOver(m) => MovedOver(m)')
      BY Zenon DEF Stands, MovedIn, MovedOver
    <2>2. view[Dest(m)] = "new" /\ disk[Dest(m)] \in {"old", "new"} => disk'[Dest(m)] \in {"old", "new"}
      BY Zenon DEF Stands
    <2> QED
      BY <1>1, <1>4, <2>1, <2>2, Zenon DEF Done, Stands, Given
  <1>12. Standing(m) => Standing(m)'
    BY <1>7, <1>8, <1>9, Zenon DEF Standing
  <1>13. Resolved(m) => Resolved(m)'
    BY <1>1, <1>2, <1>6, <1>7, <1>8, <1>10, Zenon DEF Resolved, Stands
  <1> QED
    BY <1>1, <1>2, <1>3, <1>5, <1>6, <1>7, <1>8, <1>9, <1>10, <1>11, <1>12, <1>13, Zenon

-----------------------------------------------------------------------------
(* The steps of `execute`, told apart. *)

LEMMA Classes ==
    ASSUME NEW p
    PROVE  /\ p \in Early => p \notin Installing /\ p \notin Rolling /\ p \notin Closing
           /\ p \in Installing => p \notin Early /\ p \notin Rolling /\ p \notin Closing
           /\ p \in Rolling => p \notin Early /\ p \notin Installing /\ p \notin Closing
           /\ p \in Closing => p \notin Early /\ p \notin Installing /\ p \notin Rolling
           /\ p \in {"resync", "dirs", "commit", "emptystg", "kept"} =>
                  p \notin Early /\ p \notin Installing /\ p \notin Rolling /\ p \notin Closing
           /\ p \in Early \cup Installing \cup Rolling \cup Closing =>
                  p # "resync" /\ p # "dirs" /\ p # "commit" /\ p # "emptystg" /\ p # "kept"
           /\ p \in Backing => p \in Installing
           /\ p \in Chain => p \in Backing
           /\ p \in Chain <=> p = "container" \/ p = "holder" \/ p = "vacated"
           /\ p \in Backing <=> p \in Chain \/ p = "reserve" \/ p = "aside" \/ p = "unreserve"
           /\ p \in Installing <=> p \in Backing \/ p = "install" \/ p = "link" \/ p = "unlink" \/ p = "rename"
           /\ p \in Early <=> p = "hooks" \/ p = "recheck" \/ p = "sync"
           /\ p \in Rolling <=> p = "rollback" \/ p = "emptied"
           /\ p \in Closing <=> p = "drop" \/ p = "ended"
  BY DEF Early, Chain, Backing, Installing, Rolling, Closing

LEMMA PlaceEarly ==
    ASSUME NEW m, pc' \in Early, Clean(m)'
    PROVE  Place(m)'
  <1>1. /\ pc' \notin Installing /\ pc' \notin Rolling /\ pc' \notin Closing
        /\ pc' # "resync" /\ pc' # "dirs" /\ pc' # "commit" /\ pc' # "emptystg" /\ pc' # "kept"
    BY Classes
  <1> QED
    BY <1>1, Zenon DEF Place

LEMMA PlaceInstalling ==
    ASSUME NEW m, pc' \in Installing, m < at' => Over(m)' \/ Alone(m)', m = at' => Handled(m)', m > at' => Clean(m)'
    PROVE  Place(m)'
  <1>1. /\ pc' \notin Early /\ pc' \notin Rolling /\ pc' \notin Closing
        /\ pc' # "resync" /\ pc' # "dirs" /\ pc' # "commit" /\ pc' # "emptystg" /\ pc' # "kept"
    BY Classes
  <1> QED
    BY <1>1, Zenon DEF Place

LEMMA PlaceRolling ==
    ASSUME NEW m, pc' \in Rolling, m < at' => Over(m)' \/ Alone(m)',
           m = at' /\ pc' = "emptied" => Back(m)',
           m = at' /\ pc' = "rollback" => Clean(m)' \/ Over(m)' \/ Alone(m)' \/ Displaced(m)',
           m <= at' => m \notin named', m > at' => Resolved(m)'
    PROVE  Place(m)'
  <1>1. /\ pc' \notin Early /\ pc' \notin Installing /\ pc' \notin Closing
        /\ pc' # "resync" /\ pc' # "dirs" /\ pc' # "commit" /\ pc' # "emptystg" /\ pc' # "kept"
    BY Classes
  <1> QED
    BY <1>1, Zenon DEF Place

LEMMA PlaceClosing ==
    ASSUME NEW m, pc' \in Closing, result' \in {"ok", "unsynced"} => Done(m)',
           result' \notin {"ok", "unsynced"} => Resolved(m)'
    PROVE  Place(m)'
  <1>1. /\ pc' \notin Early /\ pc' \notin Installing /\ pc' \notin Rolling
        /\ pc' # "resync" /\ pc' # "dirs" /\ pc' # "commit" /\ pc' # "emptystg" /\ pc' # "kept"
    BY Classes
  <1> QED
    BY <1>1, Zenon DEF Place

LEMMA PlaceLater ==
    ASSUME NEW m, pc' \in {"resync", "dirs", "commit", "emptystg", "kept"},
           pc' = "resync" => Resolved(m)',
           pc' = "dirs" => Standing(m)' /\ (unsynced' \/ DestDir(m) \in todo' \/ disk'[Dest(m)] = "new"),
           pc' = "commit" /\ m < at' => Done(m)',
           pc' = "commit" /\ m >= at' => Standing(m)' /\ (unsynced' \/ disk'[Dest(m)] = "new"),
           pc' \in {"emptystg", "kept"} => Done(m)'
    PROVE  Place(m)'
  <1>1. pc' \notin Early /\ pc' \notin Installing /\ pc' \notin Rolling /\ pc' \notin Closing
    BY Classes, Zenon
  <1> QED
    BY <1>1, Zenon DEF Place

LEMMA AllStand ==
    ASSUME UNCHANGED <<view, disk, state, moved, named>>, synced \subseteq synced', warned \subseteq warned'
    PROVE  \A m : Stands(m)
  BY Zenon DEF Stands

StagingStands(m) ==
    /\ view'[Write(m)] = view[Write(m)] /\ view'[StagingBox(m)] = view[StagingBox(m)]
    /\ moved'[m].new_at_dest => moved[m].new_at_dest
    /\ state'[m] = "Committed" => state[m] = "Committed"
    /\ m \in linked => m \in linked'
    /\ m \in warned => m \in warned'

LEMMA StagingKeeps ==
    ASSUME NEW m, Given, Staging(m), StagingStands(m),
           Waiting(m)' => Waiting(m), Dropped(m)' => Dropped(m), pc # "emptystg" \/ pc' = "emptystg"
    PROVE  Staging(m)'
  BY Zenon DEF Staging, StagingStands, Given

LEMMA TypeKeeps ==
    ASSUME PubType, Given, at' \in Members, pc' \in Steps, synced' \subseteq Members, named' \subseteq Members,
           view' \in [Names -> Contents], disk' \in [Names -> Contents], state' \in [Members -> States],
           moved' \in [Members -> Trails], unsynced' \in BOOLEAN, present' \in BOOLEAN
    PROVE  PubType'
  BY GivenKeeps, Zenon DEF PubType, Given

LEMMA Conclude ==
    ASSUME Given, PubType', Course', \A m \in Members : Place(m)' /\ Staging(m)'
    PROVE  PubInv'
  <1>1. Members' = Members
    BY GivenKeeps, Zenon
  <1>2. \A m \in Members' : Place(m)' /\ Staging(m)'
    BY <1>1, Zenon
  <1> QED
    BY <1>2, Zenon DEF PubInv

LEMMA MembersAre ==
    ASSUME PubType
    PROVE  /\ count \in Nat /\ count >= 1 /\ at \in Nat /\ at \in 1 .. count /\ 1 \in Members /\ count \in Members
           /\ \A m \in Members : m \in Nat /\ m >= 1 /\ m <= count
           /\ at < count => at + 1 \in Members
           /\ at > 1 => at - 1 \in Members
  BY DEF PubType, Members

-----------------------------------------------------------------------------
(* Before anything is installed. *)

Unseen == UNCHANGED <<view, disk, state, moved, linked, named, warned>>

\* A refusal: nothing was touched.
LEMMA EarlyRefuses ==
    ASSUME PubInv, pc \in Early, Given, Unseen, UNCHANGED <<synced, present, unsynced>>,
           pc' = "drop", at' = 1, result' \in {"error", "panicked"}
    PROVE  PubInv'
  <1>1. PubType /\ Course /\ 1 \in Members
    BY MembersAre, Zenon DEF PubInv
  <1>2. pc \notin Closing /\ pc # "emptystg" /\ pc' \in Steps /\ pc' \in Closing /\ pc' \notin Early /\ pc' \notin Installing
    BY DEF Early, Steps, Closing, Installing, Backing, Chain
  <1>3. PubType'
    BY <1>1, <1>2, TypeKeeps, Zenon DEF PubType, Unseen
  <1>4. named = {}
    BY <1>1, Zenon DEF Course
  <1>5. Course'
    BY <1>1, <1>4 DEF Course, Given, Unseen, Early, Installing, Backing, Chain, Rolling, Closing
  <1>6. ASSUME NEW m \in Members
        PROVE  Place(m)' /\ Staging(m)'
    <2>1. Clean(m) /\ Stands(m) /\ m \notin named' /\ Staging(m)
      BY <1>4, <1>6, AllStand, Zenon DEF PubInv, Place, Unseen
    <2>2. Clean(m)'
      BY <2>1, StandsKeeps, Zenon
    <2>3. Resolved(m)'
      BY <2>1, <2>2, Zenon DEF Resolved, Clean
    <2>4. result' \notin {"ok", "unsynced"}
      OBVIOUS
    <2>5. Place(m)'
      BY <1>2, <2>3, <2>4, PlaceClosing, Zenon
    <2>6. ~Waiting(m)'
      BY <1>2, Zenon DEF Waiting
    <2>7. ~Dropped(m)'
      BY <1>1, <1>6, MembersAre DEF Dropped
    <2>8. Staging(m)'
      BY <1>2, <2>1, <2>6, <2>7, StagingKeeps, Zenon DEF Unseen, StagingStands
    <2> QED
      BY <2>5, <2>8, Zenon
  <1> QED
    BY <1>3, <1>5, <1>6, Conclude, Zenon

\* A step on to the next check, the next sync or the first installation.
LEMMA EarlyGoesOn ==
    ASSUME PubInv, pc \in Early, Given, Unseen, UNCHANGED <<present, unsynced>>, at' \in Members,
           synced \subseteq synced', synced' \subseteq Members,
           \/ pc' = "recheck"
           \/ pc' = "sync" /\ 1 .. at' - 1 \subseteq synced'
           \/ pc' = "install" /\ at' = 1 /\ synced' = Members
    PROVE  PubInv'
  <1>1. PubType /\ Course
    BY Zenon DEF PubInv
  <1>2. /\ pc # "emptystg" /\ pc' \in Steps /\ pc' # "drop" /\ pc' # "ended"
        /\ pc' \in Early \/ (pc' \in Installing /\ pc' = "install" /\ at' = 1)
    BY DEF Early, Steps, Closing, Installing
  <1>3. PubType'
    BY <1>1, <1>2, TypeKeeps, Zenon DEF PubType, Unseen
  <1>4. named = {}
    BY <1>1, Zenon DEF Course
  <1>5. Course'
    <2>1. Members' = Members
      BY GivenKeeps, Zenon
    <2> QED
      BY <1>1, <1>4, <2>1 DEF Course, Given, Unseen, Early, Installing, Backing, Chain, Rolling, Closing
  <1>6. ASSUME NEW m \in Members
        PROVE  Place(m)' /\ Staging(m)'
    <2>1. Clean(m) /\ Stands(m) /\ Staging(m) /\ Waiting(m)
      BY <1>6, AllStand, Zenon DEF PubInv, Place, Unseen, Waiting
    <2>2. Clean(m)'
      BY <2>1, StandsKeeps, Zenon
    <2>3. Place(m)'
      <3>1. CASE pc' \in Early
        BY <2>2, <3>1, PlaceEarly, Zenon
      <3>2. CASE pc' \in Installing /\ pc' = "install" /\ at' = 1
        <4>1. Handled(m)'
          BY <2>2, <3>2 DEF Handled, Chain
        <4>2. ~(m < at')
          BY <1>1, <1>6, <3>2, MembersAre
        <4> QED
          BY <2>2, <3>2, <4>1, <4>2, PlaceInstalling, Zenon
      <3> QED
        BY <1>2, <3>1, <3>2, Zenon
    <2>5. ~Dropped(m)'
      BY <1>2, Zenon DEF Dropped
    <2>6. Staging(m)'
      BY <1>2, <2>1, <2>5, StagingKeeps, Zenon DEF Unseen, StagingStands
    <2> QED
      BY <2>3, <2>6, Zenon
  <1> QED
    BY <1>3, <1>5, <1>6, Conclude, Zenon

LEMMA EarlySteps ==
    ASSUME PubInv, RunHooks \/ Recheck \/ SyncStaged
    PROVE  PubInv'
  <1>1. PubType /\ Course /\ 1 \in Members /\ at \in Members /\ (at < count => at + 1 \in Members)
    BY MembersAre, Zenon DEF PubInv, PubType
  <1>2. synced \subseteq Members
    BY <1>1, Zenon DEF PubType
  <1>3. CASE RunHooks
    <2>1. /\ pc = "hooks" /\ Given /\ Unseen /\ at' = 1 /\ UNCHANGED <<synced, present, unsynced>>
          /\ pc' = "recheck" \/ (pc' = "drop" /\ result' = "panicked")
      BY <1>3, Zenon DEF RunHooks, Given, Unseen, config, names, loop, Go, Return
    <2>2. pc \in Early /\ "panicked" \in {"error", "panicked"}
      BY <2>1 DEF Early
    <2> QED
      BY <1>1, <1>2, <2>1, <2>2, EarlyRefuses, EarlyGoesOn, Zenon
  <1>4. CASE Recheck
    <2>1. /\ pc = "recheck" /\ Given /\ Unseen /\ UNCHANGED <<synced, present, unsynced>>
          /\ \/ at < count /\ pc' = "recheck" /\ at' = at + 1
             \/ pc' = "sync" /\ at' = 1
             \/ pc' = "drop" /\ at' = 1 /\ result' = "error"
      BY <1>4, Zenon DEF Recheck, Given, Unseen, config, names, loop, Go, Return
    <2>2. pc \in Early /\ "error" \in {"error", "panicked"} /\ 1 .. 1 - 1 \subseteq synced
      BY <2>1 DEF Early
    <2> QED
      BY <1>1, <1>2, <2>1, <2>2, EarlyRefuses, EarlyGoesOn, Zenon
  <1>5. CASE SyncStaged
    <2>1. /\ pc = "sync" /\ Given /\ Unseen /\ UNCHANGED <<present, unsynced>>
          /\ \/ /\ synced' = synced \cup {at}
                /\ IF at < count THEN pc' = "sync" /\ at' = at + 1 ELSE pc' = "install" /\ at' = 1
             \/ pc' = "drop" /\ at' = 1 /\ result' = "error" /\ synced' = synced
      BY <1>5, Zenon DEF SyncStaged, Given, Unseen, config, loop, Go, Return
    <2>2. pc \in Early /\ "error" \in {"error", "panicked"}
      BY <2>1 DEF Early
    <2>3. 1 .. at - 1 \subseteq synced
      BY <1>1, <2>1, Zenon DEF Course
    <2>4. CASE synced' = synced \cup {at} /\ at < count /\ pc' = "sync" /\ at' = at + 1
      <3>1. 1 .. at' - 1 \subseteq synced'
        BY <1>1, <2>3, <2>4, MembersAre
      <3>2. synced \subseteq synced' /\ synced' \subseteq Members
        BY <1>1, <1>2, <2>4, Zenon
      <3> QED
        BY <1>1, <2>1, <2>2, <2>4, <3>1, <3>2, EarlyGoesOn, Zenon
    <2>5. CASE synced' = synced \cup {at} /\ ~(at < count) /\ pc' = "install" /\ at' = 1
      <3>1. synced \subseteq synced' /\ synced' \subseteq Members
        BY <1>1, <1>2, <2>5, Zenon
      <3>2. Members \subseteq synced'
        BY <1>1, <2>3, <2>5, MembersAre DEF Members
      <3>3. synced' = Members
        BY <3>1, <3>2, Zenon
      <3> QED
        BY <1>1, <2>1, <2>2, <2>5, <3>1, <3>3, EarlyGoesOn, Zenon
    <2> QED
      BY <2>1, <2>2, <2>4, <2>5, EarlyRefuses, Zenon
  <1> QED
    BY <1>3, <1>4, <1>5, Zenon

-----------------------------------------------------------------------------
(* Installing the member in hand: what its step leaves of the others. *)

Others == \A m \in Members : m # at => Stands(m) /\ StagingStands(m)
Typed == /\ view' \in [Names -> Contents] /\ disk' \in [Names -> Contents]
         /\ state' \in [Members -> States] /\ moved' \in [Members -> Trails]

LEMMA InstallingFacts ==
    ASSUME PubInv, pc \in Installing
    PROVE  /\ PubType /\ Course /\ at \in Members /\ named = {} /\ synced = Members
           /\ pc # "emptystg" /\ ~(pc \in Closing)
           /\ \A m \in Members : Staging(m)
           /\ \A m \in Members : m < at => Over(m) \/ Alone(m)
           /\ \A m \in Members : m > at => Clean(m)
           /\ Handled(at)
  <1>1. PubType /\ Course /\ at \in Members
    BY Zenon DEF PubInv, PubType
  <1>2. pc # "emptystg" /\ ~(pc \in Closing)
    BY Classes
  <1>3. named = {} /\ synced = Members
    BY <1>1, Zenon DEF Course
  <1>4. \A m \in Members : Place(m) /\ Staging(m)
    BY Zenon DEF PubInv
  <1> QED
    BY <1>1, <1>2, <1>3, <1>4, Zenon DEF Place

\* The member in hand fails.
LEMMA InstallFails ==
    ASSUME PubInv, pc \in Installing, Given, Others, Typed, UNCHANGED <<named, synced, unsynced, present>>,
           pc' = "rollback", at' = at,
           Clean(at)' \/ Over(at)' \/ Alone(at)' \/ Displaced(at)', StagingStands(at)
    PROVE  PubInv'
  <1> USE DEF Typed
  <1>1. /\ PubType /\ Course /\ at \in Members /\ named = {} /\ synced = Members
        /\ pc # "emptystg" /\ ~(pc \in Closing)
        /\ \A m \in Members : Staging(m)
        /\ \A m \in Members : m < at => Over(m) \/ Alone(m)
        /\ \A m \in Members : m > at => Clean(m)
    BY InstallingFacts, Zenon
  <1>2. /\ pc' \in Steps /\ pc' \in Rolling /\ pc' \notin Early /\ pc' \notin Installing /\ pc' # "drop" /\ pc' # "ended"
        /\ pc' # "emptied"
    BY DEF Steps, Rolling, Early, Installing, Backing, Chain
  <1>3. PubType'
    BY <1>1, <1>2, TypeKeeps, Zenon DEF PubType
  <1>4. Course'
    <2>1. Members' = Members
      BY GivenKeeps, Zenon
    <2> QED
      BY <1>1, <2>1 DEF Course, Given, Early, Installing, Backing, Chain, Rolling, Closing
  <1>5. PICK a \in Members : a = at
    BY <1>1, Zenon
  <1>6. Clean(a)' \/ Over(a)' \/ Alone(a)' \/ Displaced(a)'
    BY <1>5
  <1>7. ASSUME NEW m \in Members
        PROVE  Place(m)' /\ Staging(m)'
    <2>1. m \notin named'
      BY <1>1, Zenon
    <2>2. m # a => Stands(m)
      BY <1>5, <1>7, Zenon DEF Others
    <2>3. m < a => Over(m)' \/ Alone(m)'
      <3>1. m < a => m # a
        BY <1>1, MembersAre
      <3> QED
        BY <1>1, <1>5, <1>7, <2>2, <3>1, StandsKeeps, Zenon
    <2>4. m > a => Resolved(m)'
      <3>1. m > a => m # a
        BY <1>1, MembersAre
      <3>2. m > a => Clean(m)'
        BY <1>1, <1>5, <1>7, <2>2, <3>1, StandsKeeps, Zenon
      <3> QED
        BY <2>1, <3>2, Zenon DEF Resolved, Clean
    <2>5. m = a => Clean(m)' \/ Over(m)' \/ Alone(m)' \/ Displaced(m)'
      BY <1>6
    <2>6. Place(m)'
      BY <1>2, <1>5, <2>1, <2>3, <2>4, <2>5, PlaceRolling, Zenon
    <2>7. StagingStands(m)
      BY <1>7, Zenon DEF Others
    <2>8. ~Waiting(m)' /\ ~Dropped(m)'
      BY <1>2, Zenon DEF Waiting, Dropped
    <2>9. Staging(m)'
      BY <1>1, <1>7, <2>7, <2>8, StagingKeeps, Zenon
    <2> QED
      BY <2>6, <2>9, Zenon
  <1> QED
    BY <1>3, <1>4, <1>7, Conclude, Zenon

\* The member in hand is taken one step further.
LEMMA InstallGoesOn ==
    ASSUME PubInv, pc \in Installing, Given, Others, Typed, UNCHANGED <<named, synced, unsynced>>,
           pc' \in Installing, at' = at, pc # "unlink", present' \in BOOLEAN, Course', Handled(at)',
           moved'[at].new_at_dest => at \in linked' \/ view'[Write(at)] = "none",
           pc' # "unlink" => view'[Write(at)] = view[Write(at)],
           view'[StagingBox(at)] = view[StagingBox(at)], state'[at] # "Committed"
    PROVE  PubInv'
  <1> USE DEF Typed
  <1>1. /\ PubType /\ Course /\ at \in Members
        /\ pc # "emptystg" /\ ~(pc \in Closing)
        /\ \A m \in Members : Staging(m)
        /\ \A m \in Members : m < at => Over(m) \/ Alone(m)
        /\ \A m \in Members : m > at => Clean(m)
    BY InstallingFacts, Zenon
  <1>2. /\ pc' \in Steps /\ pc' \notin Early /\ pc' # "drop" /\ pc' # "ended"
    BY Classes DEF Steps
  <1>3. PubType'
    BY <1>1, <1>2, TypeKeeps, Zenon DEF PubType
  <1>4. PICK a \in Members : a = at
    BY <1>1, Zenon
  <1>5. Handled(a)'
    BY <1>4
  <1>6. ASSUME NEW m \in Members
        PROVE  Place(m)' /\ Staging(m)'
    <2>1. m # a => Stands(m) /\ StagingStands(m)
      BY <1>4, <1>6, Zenon DEF Others
    <2>2. (m < a => m # a) /\ (m > a => m # a)
      BY <1>1, MembersAre
    <2>3. m < a => Over(m)' \/ Alone(m)'
      BY <1>1, <1>4, <1>6, <2>1, <2>2, StandsKeeps, Zenon
    <2>4. m > a => Clean(m)'
      BY <1>1, <1>4, <1>6, <2>1, <2>2, StandsKeeps, Zenon
    <2>5. m = a => Handled(m)'
      BY <1>5
    <2>6. Place(m)'
      BY <1>4, <2>3, <2>4, <2>5, PlaceInstalling, Zenon
    <2>7. ~Dropped(m)'
      BY <1>2, Zenon DEF Dropped
    <2>8. Staging(m)'
      <3>1. CASE m # a
        <4>1. Waiting(m)' => Waiting(m)
          BY <1>2, <1>4, <3>1, Zenon DEF Waiting
        <4> QED
          BY <1>1, <1>6, <2>1, <2>7, <3>1, <4>1, StagingKeeps, Zenon
      <3>2. CASE m = a
        <4>1. view[Write(m)] = "new" /\ (shape = "File" => view[StagingBox(m)] = "none")
          BY <1>1, <1>4, <1>6, <3>2, Zenon DEF Staging, Waiting
        <4>2. Waiting(m)' => view'[Write(m)] = "new"
          <5>1. ~(m > at')
            BY <1>1, <1>4, <3>2, MembersAre
          <5>2. Waiting(m)' => pc' # "unlink"
            BY <1>2, <5>1, Zenon DEF Waiting
          <5> QED
            BY <1>4, <3>2, <4>1, <5>2, Zenon
        <4> QED
          BY <1>4, <2>7, <3>2, <4>1, <4>2, Zenon DEF Staging, Given
      <3> QED
        BY <3>1, <3>2, Zenon
    <2> QED
      BY <2>6, <2>8, Zenon
  <1> QED
    BY <1>3, <1>6, Conclude, Zenon

\* The member in hand is installed.
LEMMA MemberInstalled ==
    ASSUME PubInv, pc \in Installing, Given, Others, Typed, UNCHANGED <<named, synced, unsynced, present>>,
           NEW a \in Members, a = at, Installed(a), Standing(a)', ~Unbacked(a)' \/ a = count,
           moved'[a].new_at_dest => a \in linked' \/ view'[Write(a)] = "none",
           view'[StagingBox(a)] = view[StagingBox(a)]
    PROVE  PubInv'
  <1> USE DEF Typed
  <1>1. /\ PubType /\ Course /\ at \in Members /\ named = {} /\ synced = Members
        /\ pc # "emptystg" /\ ~(pc \in Closing)
        /\ \A m \in Members : Staging(m)
        /\ \A m \in Members : m < at => Over(m) \/ Alone(m)
        /\ \A m \in Members : m > at => Clean(m)
    BY InstallingFacts, Zenon
  <1>2. Members' = Members
    BY GivenKeeps, Zenon
  <1>3. a = at
    OBVIOUS
  <1>4. /\ Standing(a)' /\ (~Unbacked(a)' \/ a = count)
        /\ moved'[a].new_at_dest => a \in linked' \/ view'[Write(a)] = "none"
        /\ view'[StagingBox(a)] = view[StagingBox(a)]
    OBVIOUS
  <1>5. state'[a] # "Committed"
    BY <1>4 DEF Standing, Over, Alone, Unbacked
  <1>6. \A m \in Members : m # a => Stands(m) /\ StagingStands(m)
    BY <1>3, Zenon DEF Others
  <1>7. CASE a < count /\ pc' = "install" /\ at' = a + 1
    <2>1. /\ pc' \in Steps /\ pc' \in Installing /\ pc' \notin Early /\ pc' \notin Rolling /\ pc' \notin Closing
          /\ pc' # "unlink" /\ pc' # "drop" /\ pc' # "ended"
      BY <1>7 DEF Steps, Rolling, Early, Installing, Closing
    <2>2. at' \in Members /\ a # count
      BY <1>1, <1>3, <1>7, MembersAre
    <2>3. PubType'
      BY <1>1, <2>1, <2>2, TypeKeeps, Zenon DEF PubType
    <2>4. Course'
      BY <1>1, <1>2, <1>7 DEF Course, Given, Early, Installing, Backing, Chain, Rolling, Closing
    <2>5. Over(a)' \/ Alone(a)'
      BY <1>4, <2>2, Zenon DEF Standing
    <2>6. ASSUME NEW m \in Members
          PROVE  Place(m)' /\ Staging(m)'
      <3>1. /\ m < at' => m = a \/ m < a
            /\ m = at' => m > a
            /\ m > at' => m > a
            /\ m < a => m # a
            /\ m > a => m # a
        BY <1>1, <1>7, MembersAre
      <3>2. m < at' => Over(m)' \/ Alone(m)'
        <4>1. CASE m = a
          BY <2>5, <4>1
        <4>2. CASE m < a
          BY <1>1, <1>3, <1>6, <2>6, <3>1, <4>2, StandsKeeps, Zenon
        <4> QED
          BY <3>1, <4>1, <4>2, Zenon
      <3>3. m > a => Clean(m)'
        BY <1>1, <1>3, <1>6, <2>6, <3>1, StandsKeeps, Zenon
      <3>4. m > a => Handled(m)'
        BY <1>7, <3>3 DEF Handled, Chain
      <3>5. Place(m)'
        BY <2>1, <3>1, <3>2, <3>3, <3>4, PlaceInstalling, Zenon
      <3>6. ~Dropped(m)'
        BY <2>1, Zenon DEF Dropped
      <3>7. Waiting(m)' => m > a
        BY <2>1, <3>1, Zenon DEF Waiting
      <3>8. m > a => Waiting(m)
        BY <1>3, Zenon DEF Waiting
      <3>9. Staging(m)'
        <4>1. CASE m # a
          BY <1>1, <1>6, <2>6, <3>6, <3>7, <3>8, <4>1, StagingKeeps, Zenon
        <4>2. CASE m = a
          <5>1. ~Waiting(m)'
            BY <3>1, <3>7, <4>2, Zenon
          <5> QED
            BY <1>1, <1>4, <1>5, <2>6, <3>6, <4>2, <5>1, Zenon DEF Staging, Given
        <4> QED
          BY <4>1, <4>2, Zenon
      <3> QED
        BY <3>5, <3>9, Zenon
    <2> QED
      BY <2>3, <2>4, <2>6, Conclude, Zenon
  <1>8. CASE ~(a < count) /\ pc' = "dirs" /\ at' = a /\ todo' = ChangedDirs(Members)
    <2>1. /\ pc' \in Steps /\ pc' \notin Installing /\ pc' \notin Early /\ pc' # "drop" /\ pc' # "ended"
          /\ pc' \in {"resync", "dirs", "commit", "emptystg", "kept"}
          /\ pc' # "resync" /\ pc' # "commit" /\ pc' \notin {"emptystg", "kept"}
      BY <1>8 DEF Steps, Rolling, Early, Installing, Closing, Backing, Chain
    <2>2. at' \in Members
      BY <1>8, Zenon
    <2>3. PubType'
      BY <1>1, <2>1, <2>2, TypeKeeps, Zenon DEF PubType
    <2>4. Course'
      BY <1>1, <1>2, <1>8 DEF Course, Given, Early, Installing, Backing, Chain, Rolling, Closing
    <2>5. ASSUME NEW m \in Members
          PROVE  Place(m)' /\ Staging(m)'
      <3>1. m = a \/ (m < a /\ m # a)
        BY <1>1, <1>8, MembersAre
      <3>2. Standing(m)'
        <4>1. CASE m = a
          BY <1>4, <4>1
        <4>2. CASE m < a /\ m # a
          BY <1>1, <1>3, <1>6, <2>5, <4>2, StandsKeeps, Zenon DEF Standing
        <4> QED
          BY <3>1, <4>1, <4>2, Zenon
      <3>3. DestDir(m) \in todo'
        BY <1>8, <2>5 DEF ChangedDirs
      <3>4. Place(m)'
        BY <2>1, <3>2, <3>3, PlaceLater
      <3>5. ~Waiting(m)' /\ ~Dropped(m)'
        BY <2>1, Zenon DEF Waiting, Dropped
      <3>6. Staging(m)'
        <4>1. CASE m # a
          BY <1>1, <1>6, <2>5, <3>5, <4>1, StagingKeeps, Zenon
        <4>2. CASE m = a
          BY <1>1, <1>4, <1>5, <2>5, <3>5, <4>2, Zenon DEF Staging, Given
        <4> QED
          BY <4>1, <4>2, Zenon
      <3> QED
        BY <3>4, <3>6, Zenon
    <2> QED
      BY <2>3, <2>4, <2>5, Conclude, Zenon
  <1> QED
    BY <1>3, <1>7, <1>8, Zenon DEF Installed, Go

\* What the recorded transitions become.
LEMMA TrailSteps ==
    ASSUME moved \in [Members -> Trails], NEW a \in Members
    PROVE  /\ Arrived(a) => /\ moved' \in [Members -> Trails] /\ \A k \in Members : k # a => moved'[k] = moved[k]
                            /\ moved'[a].new_at_dest /\ moved'[a].aside = moved[a].aside
                            /\ moved'[a].put_back = moved[a].put_back
           /\ Restored(a) => /\ moved' \in [Members -> Trails] /\ \A k \in Members : k # a => moved'[k] = moved[k]
                             /\ moved'[a].put_back /\ ~moved'[a].new_at_dest /\ moved'[a].aside = moved[a].aside
           /\ TakenOut(a) => /\ moved' \in [Members -> Trails] /\ \A k \in Members : k # a => moved'[k] = moved[k]
                             /\ ~moved'[a].new_at_dest /\ moved'[a].aside = moved[a].aside
                             /\ moved'[a].put_back = moved[a].put_back
           /\ moved' = [moved EXCEPT ![a] = [@ EXCEPT !.aside = TRUE]] =>
                 /\ moved' \in [Members -> Trails] /\ \A k \in Members : k # a => moved'[k] = moved[k]
                 /\ moved'[a].aside /\ moved'[a].put_back = moved[a].put_back
                 /\ moved'[a].new_at_dest = moved[a].new_at_dest
  <1>1. PICK r \in Trails : r = moved[a]
    BY Zenon
  <1>2. ASSUME Arrived(a)
        PROVE  /\ moved' \in [Members -> Trails] /\ \A k \in Members : k # a => moved'[k] = moved[k]
               /\ moved'[a].new_at_dest /\ moved'[a].aside = moved[a].aside
               /\ moved'[a].put_back = moved[a].put_back
    <2>1. moved' = [moved EXCEPT ![a] = [r EXCEPT !.new_at_dest = TRUE]]
      BY <1>1, <1>2, Zenon DEF Arrived
    <2>2. [r EXCEPT !.new_at_dest = TRUE] \in Trails
      BY TrailIs, Zenon
    <2>3. /\ moved' \in [Members -> Trails] /\ \A k \in Members : k # a => moved'[k] = moved[k]
          /\ moved'[a] = [r EXCEPT !.new_at_dest = TRUE]
      BY <2>1, <2>2, MovedIs, Zenon
    <2> QED
      BY <1>1, <2>3 DEF Trails
  <1>3. ASSUME Restored(a)
        PROVE  /\ moved' \in [Members -> Trails] /\ \A k \in Members : k # a => moved'[k] = moved[k]
               /\ moved'[a].put_back /\ ~moved'[a].new_at_dest /\ moved'[a].aside = moved[a].aside
    <2>1. moved' = [moved EXCEPT ![a] = [r EXCEPT !.put_back = TRUE, !.new_at_dest = FALSE]]
      BY <1>1, <1>3, Zenon DEF Restored
    <2>2. [r EXCEPT !.put_back = TRUE, !.new_at_dest = FALSE] \in Trails
      BY TrailIs, Zenon
    <2>3. /\ moved' \in [Members -> Trails] /\ \A k \in Members : k # a => moved'[k] = moved[k]
          /\ moved'[a] = [r EXCEPT !.put_back = TRUE, !.new_at_dest = FALSE]
      BY <2>1, <2>2, MovedIs, Zenon
    <2> QED
      BY <1>1, <2>3 DEF Trails
  <1>4. ASSUME TakenOut(a)
        PROVE  /\ moved' \in [Members -> Trails] /\ \A k \in Members : k # a => moved'[k] = moved[k]
               /\ ~moved'[a].new_at_dest /\ moved'[a].aside = moved[a].aside
               /\ moved'[a].put_back = moved[a].put_back
    <2>1. moved' = [moved EXCEPT ![a] = [r EXCEPT !.new_at_dest = FALSE]]
      BY <1>1, <1>4, Zenon DEF TakenOut
    <2>2. [r EXCEPT !.new_at_dest = FALSE] \in Trails
      BY TrailIs, Zenon
    <2>3. /\ moved' \in [Members -> Trails] /\ \A k \in Members : k # a => moved'[k] = moved[k]
          /\ moved'[a] = [r EXCEPT !.new_at_dest = FALSE]
      BY <2>1, <2>2, MovedIs, Zenon
    <2> QED
      BY <1>1, <2>3 DEF Trails
  <1>5. ASSUME moved' = [moved EXCEPT ![a] = [@ EXCEPT !.aside = TRUE]]
        PROVE  /\ moved' \in [Members -> Trails] /\ \A k \in Members : k # a => moved'[k] = moved[k]
               /\ moved'[a].aside /\ moved'[a].put_back = moved[a].put_back
               /\ moved'[a].new_at_dest = moved[a].new_at_dest
    <2>1. moved' = [moved EXCEPT ![a] = [r EXCEPT !.aside = TRUE]]
      BY <1>1, <1>5, Zenon
    <2>2. [r EXCEPT !.aside = TRUE] \in Trails
      BY TrailIs, Zenon
    <2>3. /\ moved' \in [Members -> Trails] /\ \A k \in Members : k # a => moved'[k] = moved[k]
          /\ moved'[a] = [r EXCEPT !.aside = TRUE]
      BY <2>1, <2>2, MovedIs, Zenon
    <2> QED
      BY <1>1, <2>3 DEF Trails
  <1> QED
    BY <1>2, <1>3, <1>4, <1>5, Zenon

\* A step that touches the names and the record of one member.
OnlyMine(a) ==
    /\ \A n \in Names : n \notin Own(a) => view'[n] = view[n]
    /\ \A n \in Names : disk'[n] = disk[n] \/ disk'[n] = view[n]
    /\ \A k \in Members : k # a => state'[k] = state[k] /\ moved'[k] = moved[k] /\ (k \in named' <=> k \in named)
    /\ synced' = synced /\ warned \subseteq warned' /\ linked \subseteq linked'

LEMMA OthersStand ==
    ASSUME NEW a \in Members, OnlyMine(a)
    PROVE  \A m \in Members : m # a => Stands(m) /\ StagingStands(m)
  <1> SUFFICES ASSUME NEW m \in Members, m # a
               PROVE  Stands(m) /\ StagingStands(m)
    BY Zenon
  <1>1. /\ Dest(m) \in Names /\ Write(m) \in Names /\ StagingBox(m) \in Names /\ Backup(m) \in Names /\ Entry(m) \in Names
        /\ Dest(m) \notin Own(a) /\ Write(m) \notin Own(a) /\ StagingBox(m) \notin Own(a) /\ Backup(m) \notin Own(a)
        /\ Entry(m) \notin Own(a)
    <2>1. /\ Dest(m) \in Own(m) /\ Write(m) \in Own(m) /\ StagingBox(m) \in Own(m) /\ Backup(m) \in Own(m)
          /\ Entry(m) \in Own(m)
      BY DEF Own
    <2>2. Own(m) \subseteq Names /\ Own(m) \cap Own(a) = {}
      BY OwnNames, Zenon
    <2> QED
      BY <2>1, <2>2, Zenon
  <1>2. /\ view'[Dest(m)] = view[Dest(m)] /\ view'[Write(m)] = view[Write(m)] /\ view'[Backup(m)] = view[Backup(m)]
        /\ view'[StagingBox(m)] = view[StagingBox(m)] /\ view'[Entry(m)] = view[Entry(m)]
    BY <1>1, Zenon DEF OnlyMine
  <1>3. Stands(m)
    BY <1>1, <1>2, Zenon DEF OnlyMine, Stands
  <1>4. StagingStands(m)
    BY <1>1, <1>2, Zenon DEF OnlyMine, StagingStands
  <1> QED
    BY <1>3, <1>4, Zenon

\* The names of one member, and a change of some of them.
LEMMA OwnAre ==
    ASSUME NEW a \in Members
    PROVE  /\ Dest(a) \in Names /\ Write(a) \in Names /\ StagingBox(a) \in Names /\ Backup(a) \in Names /\ Entry(a) \in Names
           /\ Dest(a) \in Own(a) /\ Write(a) \in Own(a) /\ StagingBox(a) \in Own(a) /\ Backup(a) \in Own(a)
           /\ Entry(a) \in Own(a)
           /\ Dest(a) # Write(a) /\ Dest(a) # StagingBox(a) /\ Dest(a) # Backup(a) /\ Dest(a) # Entry(a)
           /\ Write(a) # StagingBox(a) /\ Write(a) # Backup(a) /\ Write(a) # Entry(a)
           /\ StagingBox(a) # Backup(a) /\ StagingBox(a) # Entry(a) /\ Backup(a) # Entry(a)
  <1>1. /\ Dest(a) \in Own(a) /\ Write(a) \in Own(a) /\ StagingBox(a) \in Own(a) /\ Backup(a) \in Own(a) /\ Entry(a) \in Own(a)
    BY DEF Own
  <1> QED
    BY <1>1, Tags, OwnNames, Zenon

-----------------------------------------------------------------------------
(* The steps of an installation. *)

\* A failure that leaves every name and record as it was.
LEMMA FailsAsIs ==
    ASSUME PubInv, pc \in Installing, Given, Unseen, UNCHANGED <<synced, unsynced, present>>,
           pc' = "rollback", at' = at, NEW a \in Members, a = at,
           Clean(a) \/ Over(a) \/ Alone(a) \/ Displaced(a)
    PROVE  PubInv'
  <1>1. PubType
    BY Zenon DEF PubInv
  <1>2. Typed
    BY <1>1, Zenon DEF PubType, Typed, Unseen
  <1>3. \A m : Stands(m) /\ StagingStands(m)
    BY AllStand, Zenon DEF Unseen, StagingStands
  <1>4. Others
    BY <1>3, Zenon DEF Others
  <1>5. Clean(a)' \/ Over(a)' \/ Alone(a)' \/ Displaced(a)'
    BY <1>3, StandsKeeps, Zenon
  <1>6. Clean(at)' \/ Over(at)' \/ Alone(at)' \/ Displaced(at)'
    BY <1>5
  <1>7. StagingStands(at)
    BY <1>3, Zenon
  <1> QED
    BY <1>2, <1>4, <1>6, <1>7, InstallFails, Zenon DEF Unseen

LEMMA InstallExclusiveKeeps ==
    ASSUME PubInv, InstallExclusive
    PROVE  PubInv'
  <1>1. /\ PubType /\ Course /\ at \in Members /\ named = {} /\ synced = Members
        /\ \A m \in Members : Staging(m)
        /\ Handled(at)
        /\ pc = "install" /\ pc \in Installing /\ overwrite = "Refuse"
    <2>1. pc = "install"
      BY Zenon DEF InstallExclusive
    <2>2. pc \in Installing
      BY <2>1 DEF Installing
    <2> QED
      BY <2>1, <2>2, InstallingFacts, Zenon DEF InstallExclusive
  <1>2. PICK a \in Members : a = at
    BY <1>1, Zenon
  <1>3. Clean(a) /\ a \notin had
    <2>1. pc \in {"install", "link", "reserve"}
      BY <1>1
    <2> QED
      BY <1>1, <1>2, <2>1, Zenon DEF Handled, Course
  <1>4. /\ Given /\ UNCHANGED <<disk, synced, linked, present, unsynced, named, warned, result>>
    BY Zenon DEF InstallExclusive, config, Given, report
  <1>5. /\ view \in [Names -> Contents] /\ disk \in [Names -> Contents] /\ state \in [Members -> States]
        /\ moved \in [Members -> Trails]
    BY <1>1, Zenon DEF PubType
  <1>6. ASSUME view[Dest(a)] = "none", Rename(Write(a), Dest(a)), Placed(a, "InstalledNothing"), Arrived(a), Installed(a)
        PROVE  PubInv'
    <2>1. /\ view' \in [Names -> Contents] /\ view'[Dest(a)] = view[Write(a)] /\ view'[Write(a)] = "none"
          /\ \A n \in Names : n # Write(a) /\ n # Dest(a) => view'[n] = view[n]
      BY <1>5, <1>6, OwnAre, RenameIs, Zenon
    <2>2. "InstalledNothing" \in States
      BY DEF States
    <2>3. state' \in [Members -> States] /\ state'[a] = "InstalledNothing" /\ \A k \in Members : k # a => state'[k] = state[k]
      BY <1>5, <1>6, <2>2, StateIs, Zenon
    <2>4. /\ moved' \in [Members -> Trails] /\ \A k \in Members : k # a => moved'[k] = moved[k]
          /\ moved'[a].new_at_dest /\ moved'[a].aside = moved[a].aside /\ moved'[a].put_back = moved[a].put_back
      BY <1>5, <1>6, TrailSteps, Zenon
    <2>5. Typed
      BY <1>4, <1>5, <2>1, <2>3, <2>4, Zenon DEF Typed
    <2>6. OnlyMine(a)
      BY <1>4, <2>1, <2>3, <2>4, OwnAre, Zenon DEF OnlyMine
    <2>7. Others
      BY <1>2, <2>6, OthersStand, Zenon DEF Others
    <2>8. view[Write(a)] = "new"
      BY <1>1, <1>2 DEF Staging, Waiting
    <2>9. view'[Backup(a)] = view[Backup(a)] /\ view'[Entry(a)] = view[Entry(a)] /\ view'[StagingBox(a)] = view[StagingBox(a)]
      BY <2>1, OwnAre, Zenon
    <2>10. Alone(a)'
      <3>1. MovedIn(a)'
        BY <1>3, <2>4, Zenon DEF MovedIn, Clean, Untouched, Unmoved
      <3>2. Tidy(a)'
        BY <1>3, <1>4, <2>9, Zenon DEF Tidy, Clean
      <3>3. view'[Dest(a)] = "new" /\ view'[Entry(a)] = "none" /\ state'[a] = "InstalledNothing" /\ a \notin had'
        BY <1>3, <1>4, <2>1, <2>3, <2>8, <2>9, Zenon DEF Given, Clean, Untouched
      <3> QED
        BY <3>1, <3>2, <3>3, Zenon DEF Alone
    <2>11. Standing(a)' /\ ~Unbacked(a)'
      BY <2>10 DEF Standing, Unbacked, Alone
    <2> QED
      BY <1>1, <1>2, <1>4, <1>6, <2>1, <2>5, <2>7, <2>9, <2>11, MemberInstalled, Zenon
  <1>7. ASSUME Failed(a), UNCHANGED <<view, state, moved>>
        PROVE  PubInv'
    <2>1. pc' = "rollback" /\ at' = at
      BY <1>2, <1>7, Zenon DEF Failed, Go
    <2> QED
      BY <1>1, <1>2, <1>3, <1>4, <1>7, <2>1, FailsAsIs, Zenon DEF Unseen
  <1>8. ASSUME shape = "File", Go("link", a), UNCHANGED <<view, state, moved>>
        PROVE  PubInv'
    <2>1. pc' = "link" /\ at' = at
      BY <1>2, <1>8, Zenon DEF Go
    <2>2. pc' \in Installing /\ pc' # "unlink" /\ pc # "unlink" /\ pc' \notin Backing \cup {"rename"} /\ pc' \notin Early /\ pc' \notin Closing
          /\ pc' \notin Chain
      BY <1>1, <2>1 DEF Installing, Backing, Chain, Early, Closing
    <2>3. Course'
      <3>1. Members' = Members
        BY <1>4, GivenKeeps, Zenon
      <3> QED
        BY <1>1, <1>4, <1>8, <2>1, <2>2, <3>1 DEF Course, Given
    <2>4. \A m : Stands(m) /\ StagingStands(m)
      BY <1>4, <1>8, AllStand, Zenon DEF StagingStands
    <2>5. Others /\ Typed
      BY <1>4, <1>5, <1>8, <2>4, Zenon DEF Others, Typed
    <2>6. Clean(a)'
      BY <1>3, <1>4, <2>4, StandsKeeps, Zenon
    <2>7. Handled(a)'
      BY <2>1, <2>2, <2>6 DEF Handled
    <2>8. Handled(at)'
      BY <1>2, <2>1, <2>7
    <2>9. ~moved'[at].new_at_dest /\ state'[at] = "Staged"
      BY <1>2, <1>3, <1>8, Zenon DEF Clean, Untouched, Unmoved
    <2>10. present' \in BOOLEAN
      BY <1>1, <1>4, Zenon DEF PubType
    <2>11. "Staged" # "Committed"
      OBVIOUS
    <2> QED
      BY <1>1, <1>4, <1>8, <2>1, <2>2, <2>3, <2>5, <2>8, <2>9, <2>10, <2>11, InstallGoesOn, Zenon
  <1> QED
    BY <1>2, <1>6, <1>7, <1>8, Zenon DEF InstallExclusive

LEMMA InstallByLinkKeeps ==
    ASSUME PubInv, InstallByLink
    PROVE  PubInv'
  <1>1. /\ PubType /\ Course /\ at \in Members /\ named = {} /\ synced = Members
        /\ \A m \in Members : Staging(m)
        /\ Handled(at)
        /\ pc = "link" /\ pc \in Installing
    <2>1. pc = "link"
      BY Zenon DEF InstallByLink
    <2>2. pc \in Installing
      BY <2>1 DEF Installing
    <2> QED
      BY <2>1, <2>2, InstallingFacts, Zenon
  <1>2. PICK a \in Members : a = at
    BY <1>1, Zenon
  <1>3. Clean(a) /\ a \notin had /\ overwrite = "Refuse" /\ shape = "File"
    <2>1. pc \in {"install", "link", "reserve"} /\ pc \in {"link", "unlink"}
      BY <1>1
    <2> QED
      BY <1>1, <1>2, <2>1, Zenon DEF Handled, Course
  <1>4. /\ Given /\ UNCHANGED <<disk, synced, present, unsynced, named, warned, result>>
    BY Zenon DEF InstallByLink, config, Given, report
  <1>5. /\ view \in [Names -> Contents] /\ disk \in [Names -> Contents] /\ state \in [Members -> States]
        /\ moved \in [Members -> Trails]
    BY <1>1, Zenon DEF PubType
  <1>6. ASSUME view' = [view EXCEPT ![Dest(a)] = "new"], Placed(a, "InstalledNothing"), Arrived(a),
               linked' = linked \cup {a}, Go("unlink", a)
        PROVE  PubInv'
    <2>1. /\ view' \in [Names -> Contents] /\ view'[Dest(a)] = "new"
          /\ \A n \in Names : n # Dest(a) => view'[n] = view[n]
      <3>1. "new" \in Contents
        BY DEF Contents
      <3> QED
        BY <1>5, <1>6, <3>1, OwnAre, PutIs, Zenon
    <2>2. "InstalledNothing" \in States
      BY DEF States
    <2>3. state' \in [Members -> States] /\ state'[a] = "InstalledNothing" /\ \A k \in Members : k # a => state'[k] = state[k]
      BY <1>5, <1>6, <2>2, StateIs, Zenon
    <2>4. /\ moved' \in [Members -> Trails] /\ \A k \in Members : k # a => moved'[k] = moved[k]
          /\ moved'[a].new_at_dest /\ moved'[a].aside = moved[a].aside /\ moved'[a].put_back = moved[a].put_back
      BY <1>5, <1>6, TrailSteps, Zenon
    <2>5. Typed
      BY <1>4, <1>5, <2>1, <2>3, <2>4, Zenon DEF Typed
    <2>6. OnlyMine(a)
      BY <1>4, <1>6, <2>1, <2>3, <2>4, OwnAre, Zenon DEF OnlyMine
    <2>7. Others
      BY <1>2, <2>6, OthersStand, Zenon DEF Others
    <2>8. view'[Backup(a)] = view[Backup(a)] /\ view'[Entry(a)] = view[Entry(a)] /\ view'[StagingBox(a)] = view[StagingBox(a)]
      BY <2>1, OwnAre, Zenon
    <2>9. Alone(a)'
      <3>1. MovedIn(a)'
        BY <1>3, <2>4, Zenon DEF MovedIn, Clean, Untouched, Unmoved
      <3>2. Tidy(a)'
        BY <1>3, <1>4, <2>8, Zenon DEF Tidy, Clean
      <3>3. view'[Dest(a)] = "new" /\ view'[Entry(a)] = "none" /\ state'[a] = "InstalledNothing" /\ a \notin had'
        BY <1>3, <1>4, <2>1, <2>3, <2>8, Zenon DEF Given, Clean, Untouched
      <3> QED
        BY <3>1, <3>2, <3>3, Zenon DEF Alone
    <2>10. pc' = "unlink" /\ at' = at
      BY <1>2, <1>6, Zenon DEF Go
    <2>11. pc' \in Installing /\ pc # "unlink" /\ pc' \notin Backing \cup {"rename"} /\ pc' \notin Early /\ pc' \notin Closing
           /\ pc' \notin Chain
      BY <1>1, <2>10 DEF Installing, Backing, Chain, Early, Closing
    <2>12. Course'
      <3>1. Members' = Members
        BY <1>4, GivenKeeps, Zenon
      <3> QED
        BY <1>1, <1>3, <1>4, <2>10, <2>11, <3>1 DEF Course, Given
    <2>13. Handled(a)'
      BY <2>9, <2>10, <2>11 DEF Handled
    <2>14. Handled(at)'
      BY <1>2, <2>10, <2>13
    <2>15. present' \in BOOLEAN
      BY <1>1, <1>4, Zenon DEF PubType
    <2>16. state'[at] # "Committed"
      BY <1>2, <2>3
    <2>17. at \in linked' /\ view'[StagingBox(at)] = view[StagingBox(at)]
      BY <1>2, <1>6, <2>8, Zenon
    <2> QED
      BY <1>1, <1>4, <2>5, <2>7, <2>10, <2>11, <2>12, <2>14, <2>15, <2>16, <2>17, InstallGoesOn, Zenon
  <1>7. ASSUME Failed(a), UNCHANGED <<view, state, moved, linked>>
        PROVE  PubInv'
    <2>1. pc' = "rollback" /\ at' = at
      BY <1>2, <1>7, Zenon DEF Failed, Go
    <2> QED
      BY <1>1, <1>2, <1>3, <1>4, <1>7, <2>1, FailsAsIs, Zenon DEF Unseen
  <1> QED
    BY <1>2, <1>6, <1>7, Zenon DEF InstallByLink

LEMMA UnlinkStagingKeeps ==
    ASSUME PubInv, UnlinkStaging
    PROVE  PubInv'
  <1>1. /\ PubType /\ Course /\ at \in Members /\ named = {} /\ synced = Members
        /\ \A m \in Members : Staging(m)
        /\ Handled(at)
        /\ pc = "unlink" /\ pc \in Installing
    <2>1. pc = "unlink"
      BY Zenon DEF UnlinkStaging
    <2>2. pc \in Installing
      BY <2>1 DEF Installing
    <2> QED
      BY <2>1, <2>2, InstallingFacts, Zenon
  <1>2. PICK a \in Members : a = at
    BY <1>1, Zenon
  <1>3. Alone(a)
    BY <1>1, <1>2, Zenon DEF Handled
  <1>4. /\ Given /\ UNCHANGED <<disk, synced, present, unsynced, named, warned, result, state, moved, linked>>
        /\ Installed(a) /\ (Remove({Write(a)}) \/ UNCHANGED view)
    BY <1>2, Zenon DEF UnlinkStaging, config, Given, report
  <1>5. /\ view \in [Names -> Contents] /\ disk \in [Names -> Contents] /\ state \in [Members -> States]
        /\ moved \in [Members -> Trails]
    BY <1>1, Zenon DEF PubType
  <1>6. /\ view' \in [Names -> Contents]
        /\ \A n \in Names : n # Write(a) => view'[n] = view[n]
        /\ view'[Write(a)] = "none" \/ view'[Write(a)] = view[Write(a)]
    <2>1. CASE Remove({Write(a)})
      <3>1. /\ view' \in [Names -> Contents]
            /\ \A n \in Names : n \in {Write(a)} => view'[n] = "none"
            /\ \A n \in Names : n \notin {Write(a)} => view'[n] = view[n]
        BY <1>5, <2>1, RemoveIs, Zenon
      <3> QED
        BY <3>1, OwnAre, Zenon
    <2>2. CASE UNCHANGED view
      BY <1>5, <2>2, Zenon
    <2> QED
      BY <1>4, <2>1, <2>2, Zenon
  <1>7. Typed
    BY <1>4, <1>5, <1>6, Zenon DEF Typed
  <1>8. OnlyMine(a)
    BY <1>4, <1>6, OwnAre, Zenon DEF OnlyMine
  <1>9. Others
    BY <1>2, <1>8, OthersStand, Zenon DEF Others
  <1>10. /\ view'[Dest(a)] = view[Dest(a)] /\ view'[Backup(a)] = view[Backup(a)] /\ view'[Entry(a)] = view[Entry(a)]
         /\ view'[StagingBox(a)] = view[StagingBox(a)]
    BY <1>6, OwnAre, Zenon
  <1>11. Alone(a)'
    BY <1>3, <1>4, <1>10, Zenon DEF Alone, Tidy, MovedIn, Given
  <1>12. Standing(a)' /\ ~Unbacked(a)'
    BY <1>11 DEF Standing, Unbacked, Alone
  <1>13. moved'[a].new_at_dest => a \in linked' \/ view'[Write(a)] = "none"
    BY <1>1, <1>4, <1>6, Zenon DEF Staging
  <1> QED
    BY <1>1, <1>2, <1>4, <1>7, <1>9, <1>10, <1>12, <1>13, MemberInstalled, Zenon

LEMMA InspectPresentKeeps ==
    ASSUME PubInv, InspectPresent
    PROVE  PubInv'
  <1>1. /\ PubType /\ Course /\ at \in Members /\ named = {} /\ synced = Members
        /\ \A m \in Members : Staging(m)
        /\ Handled(at)
        /\ pc = "install" /\ pc \in Installing /\ overwrite = "Replace"
    <2>1. pc = "install"
      BY Zenon DEF InspectPresent
    <2>2. pc \in Installing
      BY <2>1 DEF Installing
    <2> QED
      BY <2>1, <2>2, InstallingFacts, Zenon DEF InspectPresent
  <1>2. PICK a \in Members : a = at
    BY <1>1, Zenon
  <1>3. Clean(a) /\ (view[Dest(a)] # "none" <=> a \in had)
    <2>1. pc \in {"install", "link", "reserve"}
      BY <1>1
    <2>2. Clean(a)
      BY <1>1, <1>2, <2>1, Zenon DEF Handled
    <2>3. view[Dest(a)] # "none" <=> a \in had
      BY <1>1, <2>2 DEF Clean, Untouched
    <2> QED
      BY <2>2, <2>3, Zenon
  <1>4. Given /\ Unseen /\ UNCHANGED <<disk, synced, unsynced, named, warned, result, state, moved, linked>>
    BY Zenon DEF InspectPresent, config, Given, report, names, Unseen
  <1>5. /\ view \in [Names -> Contents] /\ disk \in [Names -> Contents] /\ state \in [Members -> States]
        /\ moved \in [Members -> Trails]
    BY <1>1, Zenon DEF PubType
  <1>6. ASSUME present' = (view[Dest(a)] # "none"), Go(IF present' /\ UseBackup THEN "reserve" ELSE "rename", a)
        PROVE  PubInv'
    <2>1. /\ pc' = "reserve" \/ pc' = "rename"
          /\ pc' = "reserve" => a \in had /\ UseBackup
          /\ pc' = "rename" => ~(a \in had /\ UseBackup)
      BY <1>2, <1>3, <1>6, Zenon DEF Go
    <2>2. at' = at /\ (present' <=> a \in had) /\ present' \in BOOLEAN
      BY <1>2, <1>3, <1>6, Zenon DEF Go
    <2>3. pc' \in Installing /\ pc' # "unlink" /\ pc' # "link" /\ pc # "unlink" /\ pc' \notin Early /\ pc' \notin Closing
          /\ pc' \notin Chain /\ pc' # "holder" /\ pc' # "sync" /\ pc' # "emptystg"
      BY <1>1, <2>1 DEF Installing, Backing, Chain, Early, Closing
    <2>4. Course'
      <3>1. Members' = Members /\ (UseBackup' <=> UseBackup)
        BY <1>4, GivenKeeps, Zenon
      <3>2. pc' \in Backing => pc' = "reserve"
        BY <2>1 DEF Backing, Chain
      <3>3. pc' \notin {"link", "unlink"}
        BY <2>3
      <3>4. /\ overwrite' = "Replace" /\ (present' <=> at' \in had') /\ (pc' \in Backing => at' \in had' /\ UseBackup')
        BY <1>1, <1>2, <1>4, <2>1, <2>2, <3>1, <3>2, Zenon DEF Given
      <3>5. /\ overwrite' = "Refuse" => had' = {}
            /\ shape' = "Dir" => count' = 1
            /\ named' = {} /\ synced' = Members'
        BY <1>1, <1>4, <3>1, Zenon DEF Course, Given
      <3> QED
        BY <2>3, <3>3, <3>4, <3>5, Zenon DEF Course
    <2>5. \A m : Stands(m) /\ StagingStands(m)
      BY <1>4, AllStand, Zenon DEF StagingStands, Unseen
    <2>6. Others /\ Typed
      BY <1>4, <1>5, <2>5, Zenon DEF Others, Typed, Unseen
    <2>7. Clean(a)'
      BY <1>3, <1>4, <2>5, StandsKeeps, Zenon
    <2>8. Handled(a)'
      <3>1. pc' = "rename" => ~(a \in had' /\ UseBackup')
        BY <1>4, <2>1, GivenKeeps, Zenon DEF Given
      <3>2. pc' # "aside" /\ pc' # "unreserve"
        BY <2>1
      <3> QED
        BY <2>3, <2>7, <3>1, <3>2, Zenon DEF Handled
    <2>9. Handled(at)'
      BY <1>2, <2>2, <2>8
    <2>10. ~moved'[at].new_at_dest /\ state'[at] = "Staged"
      BY <1>2, <1>3, <1>4, Zenon DEF Clean, Untouched, Unmoved
    <2>11. "Staged" # "Committed"
      OBVIOUS
    <2> QED
      BY <1>1, <1>4, <2>2, <2>3, <2>4, <2>6, <2>9, <2>10, <2>11, InstallGoesOn, Zenon DEF Unseen
  <1>7. ASSUME Failed(a), UNCHANGED present
        PROVE  PubInv'
    <2>1. pc' = "rollback" /\ at' = at
      BY <1>2, <1>7, Zenon DEF Failed, Go
    <2> QED
      BY <1>1, <1>2, <1>3, <1>4, <1>7, <2>1, FailsAsIs, Zenon
  <1> QED
    BY <1>2, <1>6, <1>7, Zenon DEF InspectPresent

LEMMA ReserveBackupKeeps ==
    ASSUME PubInv, ReserveBackup
    PROVE  PubInv'
  <1>1. /\ PubType /\ Course /\ at \in Members /\ named = {} /\ synced = Members
        /\ Handled(at)
        /\ pc = "reserve" /\ pc \in Installing /\ pc \in Backing
    <2>1. pc = "reserve"
      BY Zenon DEF ReserveBackup
    <2>2. pc \in Installing /\ pc \in Backing
      BY <2>1 DEF Installing, Backing
    <2> QED
      BY <2>1, <2>2, InstallingFacts, Zenon
  <1>2. PICK a \in Members : a = at
    BY <1>1, Zenon
  <1>3. Clean(a)
    <2>1. pc \in {"install", "link", "reserve"}
      BY <1>1
    <2> QED
      BY <1>1, <1>2, <2>1, Zenon DEF Handled
  <1>4. Given /\ UNCHANGED <<disk, synced, present, unsynced, named, warned, result, state, moved, linked>>
    BY Zenon DEF ReserveBackup, config, Given, report
  <1>5. /\ view \in [Names -> Contents] /\ disk \in [Names -> Contents] /\ state \in [Members -> States]
        /\ moved \in [Members -> Trails]
    BY <1>1, Zenon DEF PubType
  <1>6. ASSUME view' = [view EXCEPT ![Backup(a)] = "box"], Go("aside", a)
        PROVE  PubInv'
    <2>1. /\ view' \in [Names -> Contents] /\ view'[Backup(a)] = "box"
          /\ \A n \in Names : n # Backup(a) => view'[n] = view[n]
      <3>1. "box" \in Contents
        BY DEF Contents
      <3> QED
        BY <1>5, <1>6, <3>1, OwnAre, PutIs, Zenon
    <2>2. Typed
      BY <1>4, <1>5, <2>1, Zenon DEF Typed
    <2>3. OnlyMine(a)
      BY <1>4, <2>1, OwnAre, Zenon DEF OnlyMine
    <2>4. Others
      BY <1>2, <2>3, OthersStand, Zenon DEF Others
    <2>5. /\ view'[Dest(a)] = view[Dest(a)] /\ view'[Entry(a)] = view[Entry(a)]
          /\ view'[StagingBox(a)] = view[StagingBox(a)] /\ view'[Write(a)] = view[Write(a)]
      BY <2>1, OwnAre, Zenon
    <2>6. Untouched(a)'
      BY <1>3, <1>4, <2>5, Zenon DEF Clean, Untouched, Unmoved, Given
    <2>7. pc' = "aside" /\ at' = at
      BY <1>2, <1>6, Zenon DEF Go
    <2>8. pc' \in Installing /\ pc # "unlink" /\ pc' # "link" /\ pc' # "unlink" /\ pc' \in Backing /\ pc' \notin Early /\ pc' \notin Closing
          /\ pc' \notin Chain /\ pc' \notin {"install", "link", "reserve"}
      BY <1>1, <2>7 DEF Installing, Backing, Chain, Early, Closing
    <2>9. Course'
      <3>1. Members' = Members /\ (UseBackup' <=> UseBackup)
        BY <1>4, GivenKeeps, Zenon
      <3> QED
        BY <1>1, <1>4, <2>7, <2>8, <3>1 DEF Course, Given
    <2>10. Handled(a)'
      BY <2>1, <2>6, <2>7, <2>8 DEF Handled
    <2>11. Handled(at)'
      BY <1>2, <2>7, <2>10
    <2>12. present' \in BOOLEAN
      BY <1>1, <1>4, Zenon DEF PubType
    <2>13. ~moved'[at].new_at_dest /\ state'[at] = "Staged"
      BY <1>2, <1>3, <1>4, Zenon DEF Clean, Untouched, Unmoved
    <2>14. state'[at] # "Committed"
      BY <2>13
    <2>15. view'[StagingBox(at)] = view[StagingBox(at)] /\ view'[Write(at)] = view[Write(at)]
      BY <1>2, <2>5
    <2> QED
      BY <1>1, <1>4, <2>2, <2>4, <2>7, <2>8, <2>9, <2>11, <2>12, <2>13, <2>14, <2>15, InstallGoesOn, Zenon
  <1>7. ASSUME Failed(a), UNCHANGED view
        PROVE  PubInv'
    <2>1. pc' = "rollback" /\ at' = at
      BY <1>2, <1>7, Zenon DEF Failed, Go
    <2> QED
      BY <1>1, <1>2, <1>3, <1>4, <1>7, <2>1, FailsAsIs, Zenon DEF Unseen
  <1> QED
    BY <1>2, <1>6, <1>7, Zenon DEF ReserveBackup

LEMMA MoveAsideKeeps ==
    ASSUME PubInv, MoveAside
    PROVE  PubInv'
  <1>1. /\ PubType /\ Course /\ at \in Members /\ named = {} /\ synced = Members
        /\ Handled(at)
        /\ pc = "aside" /\ pc \in Installing /\ pc \in Backing
    <2>1. pc = "aside"
      BY Zenon DEF MoveAside
    <2>2. pc \in Installing /\ pc \in Backing
      BY <2>1 DEF Installing, Backing
    <2> QED
      BY <2>1, <2>2, InstallingFacts, Zenon
  <1>2. PICK a \in Members : a = at
    BY <1>1, Zenon
  <1>3. Untouched(a) /\ view[Backup(a)] = "box" /\ a \in had
    BY <1>1, <1>2, Zenon DEF Handled, Course
  <1>4. Given /\ UNCHANGED <<disk, synced, present, unsynced, named, warned, result, linked>>
    BY Zenon DEF MoveAside, config, Given, report, loop
  <1>5. /\ view \in [Names -> Contents] /\ disk \in [Names -> Contents] /\ state \in [Members -> States]
        /\ moved \in [Members -> Trails] /\ present' \in BOOLEAN
    BY <1>1, <1>4, Zenon DEF PubType
  <1>6. ASSUME Rename(Dest(a), Entry(a)), Placed(a, "BackedUp"), Go("container", a),
               moved' = [moved EXCEPT ![a] = [@ EXCEPT !.aside = TRUE]]
        PROVE  PubInv'
    <2>1. /\ view' \in [Names -> Contents] /\ view'[Entry(a)] = view[Dest(a)] /\ view'[Dest(a)] = "none"
          /\ \A n \in Names : n # Dest(a) /\ n # Entry(a) => view'[n] = view[n]
      BY <1>5, <1>6, OwnAre, RenameIs, Zenon
    <2>2. "BackedUp" \in States
      BY DEF States
    <2>3. state' \in [Members -> States] /\ state'[a] = "BackedUp" /\ \A k \in Members : k # a => state'[k] = state[k]
      BY <1>5, <1>6, <2>2, StateIs, Zenon
    <2>4. /\ moved' \in [Members -> Trails] /\ \A k \in Members : k # a => moved'[k] = moved[k]
          /\ moved'[a].aside /\ moved'[a].put_back = moved[a].put_back /\ moved'[a].new_at_dest = moved[a].new_at_dest
      BY <1>5, <1>6, TrailSteps, Zenon
    <2>5. Typed
      BY <1>4, <1>5, <2>1, <2>3, <2>4, Zenon DEF Typed
    <2>6. OnlyMine(a)
      BY <1>4, <2>1, <2>3, <2>4, OwnAre, Zenon DEF OnlyMine
    <2>7. Others
      BY <1>2, <2>6, OthersStand, Zenon DEF Others
    <2>8. /\ view'[Backup(a)] = view[Backup(a)] /\ view'[StagingBox(a)] = view[StagingBox(a)]
          /\ view'[Write(a)] = view[Write(a)]
      BY <2>1, OwnAre, Zenon
    <2>9. Displaced(a)'
      <3>1. MovedAside(a)'
        BY <1>3, <2>4, Zenon DEF MovedAside, Untouched, Unmoved
      <3>2. view'[Entry(a)] = "old" /\ view'[Backup(a)] = "box"
        BY <1>3, <2>1, <2>8, Zenon DEF Untouched
      <3> QED
        BY <1>3, <1>4, <2>1, <2>3, <3>1, <3>2, Zenon DEF Displaced, Aside, Whole, Given
    <2>10. pc' = "container" /\ at' = at
      BY <1>2, <1>6, Zenon DEF Go
    <2>11. pc' \in Installing /\ pc # "unlink" /\ pc' # "link" /\ pc' # "unlink" /\ pc' \in Backing /\ pc' \notin Early /\ pc' \notin Closing
          /\ pc' \notin {"install", "link", "reserve"}
      BY <1>1, <2>10 DEF Installing, Backing, Chain, Early, Closing
    <2>12. Course'
      <3>1. Members' = Members /\ (UseBackup' <=> UseBackup)
        BY <1>4, GivenKeeps, Zenon
      <3> QED
        BY <1>1, <1>4, <2>10, <2>11, <3>1 DEF Course, Given
    <2>13. Handled(a)'
      BY <2>9, <2>10, <2>11 DEF Handled
    <2>14. Handled(at)'
      BY <1>2, <2>10, <2>13
    <2>15. ~moved'[at].new_at_dest
      BY <1>2, <1>3, <2>4, Zenon DEF Untouched, Unmoved
    <2>16. state'[at] # "Committed"
      BY <1>2, <2>3
    <2>17. view'[StagingBox(at)] = view[StagingBox(at)] /\ view'[Write(at)] = view[Write(at)]
      BY <1>2, <2>8
    <2> QED
      BY <1>1, <1>4, <1>5, <2>5, <2>7, <2>10, <2>11, <2>12, <2>14, <2>15, <2>16, <2>17, InstallGoesOn, Zenon
  <1>7. ASSUME Go("unreserve", a), UNCHANGED <<view, state, moved>>
        PROVE  PubInv'
    <2>1. pc' = "unreserve" /\ at' = at
      BY <1>2, <1>7, Zenon DEF Go
    <2>2. pc' \in Installing /\ pc # "unlink" /\ pc' # "link" /\ pc' # "unlink" /\ pc' \in Backing /\ pc' \notin Early /\ pc' \notin Closing
          /\ pc' \notin {"install", "link", "reserve"} /\ pc' \notin Chain
      BY <1>1, <2>1 DEF Installing, Backing, Chain, Early, Closing
    <2>3. Course'
      <3>1. Members' = Members /\ (UseBackup' <=> UseBackup)
        BY <1>4, GivenKeeps, Zenon
      <3> QED
        BY <1>1, <1>4, <2>1, <2>2, <3>1 DEF Course, Given
    <2>4. \A m : Stands(m) /\ StagingStands(m)
      BY <1>4, <1>7, AllStand, Zenon DEF StagingStands
    <2>5. Others /\ Typed
      BY <1>4, <1>5, <1>7, <2>4, Zenon DEF Others, Typed
    <2>6. Untouched(a)'
      BY <1>3, <1>4, <2>4, StandsKeeps, Zenon
    <2>7. Handled(a)'
      BY <2>1, <2>2, <2>6 DEF Handled
    <2>8. Handled(at)'
      BY <1>2, <2>1, <2>7
    <2>9. ~moved'[at].new_at_dest /\ state'[at] = "Staged"
      BY <1>2, <1>3, <1>7, Zenon DEF Untouched, Unmoved
    <2>10. state'[at] # "Committed"
      BY <2>9
    <2> QED
      BY <1>1, <1>4, <1>5, <1>7, <2>1, <2>2, <2>3, <2>5, <2>8, <2>9, <2>10, InstallGoesOn, Zenon
  <1> QED
    BY <1>2, <1>6, <1>7, Zenon DEF MoveAside

LEMMA UnreserveKeeps ==
    ASSUME PubInv, Unreserve
    PROVE  PubInv'
  <1>1. /\ PubType /\ Course /\ at \in Members /\ named = {} /\ synced = Members
        /\ Handled(at)
        /\ pc = "unreserve" /\ pc \in Installing
    <2>1. pc = "unreserve"
      BY Zenon DEF Unreserve
    <2>2. pc \in Installing
      BY <2>1 DEF Installing, Backing
    <2> QED
      BY <2>1, <2>2, InstallingFacts, Zenon
  <1>2. PICK a \in Members : a = at
    BY <1>1, Zenon
  <1>3. Untouched(a)
    BY <1>1, <1>2, Zenon DEF Handled
  <1>4. Given /\ UNCHANGED <<disk, synced, present, unsynced, named, result, state, moved, linked>>
        /\ pc' = "rollback" /\ at' = at
        /\ \/ Remove({Backup(a)}) /\ UNCHANGED warned
           \/ warned' = warned \cup {a} /\ UNCHANGED view
    BY <1>2, Zenon DEF Unreserve, config, Given, report, Failed, Go
  <1>5. /\ view \in [Names -> Contents] /\ disk \in [Names -> Contents] /\ state \in [Members -> States]
        /\ moved \in [Members -> Trails]
    BY <1>1, Zenon DEF PubType
  <1>6. /\ view' \in [Names -> Contents]
        /\ \A n \in Names : n # Backup(a) => view'[n] = view[n]
        /\ warned \subseteq warned' /\ (view'[Backup(a)] = "none" \/ a \in warned')
    <2>1. CASE Remove({Backup(a)}) /\ UNCHANGED warned
      <3>1. /\ view' \in [Names -> Contents]
            /\ \A n \in Names : n \in {Backup(a)} => view'[n] = "none"
            /\ \A n \in Names : n \notin {Backup(a)} => view'[n] = view[n]
        BY <1>5, <2>1, RemoveIs, Zenon
      <3> QED
        BY <2>1, <3>1, OwnAre, Zenon
    <2>2. CASE warned' = warned \cup {a} /\ UNCHANGED view
      BY <1>5, <2>2, Zenon
    <2> QED
      BY <1>4, <2>1, <2>2, Zenon
  <1>7. Typed
    BY <1>4, <1>5, <1>6, Zenon DEF Typed
  <1>8. OnlyMine(a)
    BY <1>4, <1>6, OwnAre, Zenon DEF OnlyMine
  <1>9. Others
    BY <1>2, <1>8, OthersStand, Zenon DEF Others
  <1>10. /\ view'[Dest(a)] = view[Dest(a)] /\ view'[Entry(a)] = view[Entry(a)]
         /\ view'[StagingBox(a)] = view[StagingBox(a)] /\ view'[Write(a)] = view[Write(a)]
    BY <1>6, OwnAre, Zenon
  <1>11. Clean(a)'
    BY <1>3, <1>4, <1>6, <1>10, Zenon DEF Untouched, Clean, Tidy, Unmoved, Given
  <1>12. Clean(at)'
    BY <1>2, <1>4, <1>11
  <1>13. StagingStands(at)
    BY <1>2, <1>4, <1>6, <1>10, Zenon DEF StagingStands
  <1> QED
    BY <1>1, <1>4, <1>7, <1>9, <1>12, <1>13, InstallFails, Zenon

\* The chain: which directory is synced, and what its sync leads to.
LEMMA ChainIs ==
    ASSUME PubType, Course, NEW a \in Members, a = at, pc \in Chain, Displaced(a), Durable(ChainDir),
           pc # "container" => disk[Entry(a)] = "old",
           pc = "vacated" /\ placement = "DirWithBackups" => disk[Backup(a)] = "box"
    PROVE  /\ AfterChain \in {"holder", "vacated", "rename"}
           /\ disk' \in [Names -> Contents] /\ \A n \in Names : disk'[n] = disk[n] \/ disk'[n] = view[n]
           /\ disk'[Entry(a)] = "old"
           /\ AfterChain = "holder" => placement = "DirWithBackups"
           /\ AfterChain = "vacated" /\ placement = "DirWithBackups" => disk'[Backup(a)] = "box"
           /\ AfterChain = "rename" => disk'[Backup(a)] = "box"
  <1>1. view \in [Names -> Contents] /\ disk \in [Names -> Contents]
    BY Zenon DEF PubType
  <1>2. /\ disk' \in [Names -> Contents]
        /\ \A n \in Names : DirOf(n) = ChainDir => disk'[n] = view[n]
        /\ \A n \in Names : disk'[n] = disk[n] \/ disk'[n] = view[n]
    BY <1>1, DurableIs, Zenon
  <1>3. view[Backup(a)] = "box" /\ view[Entry(a)] = "old" /\ Backup(a) \in Names /\ Entry(a) \in Names
    BY OwnAre, Zenon DEF Displaced, Aside, Whole
  <1>4. DirOf(Backup(a)) = BackupDir(a) /\ DirOf(Entry(a)) = Container(a)
    BY DirsOf, Zenon
  <1>5. CASE pc = "container"
    <2>1. ChainDir = Container(a) /\ AfterChain = IF placement = "DirWithBackups" THEN "holder" ELSE "vacated"
      BY <1>5 DEF ChainDir, AfterChain
    <2>2. disk'[Entry(a)] = "old"
      BY <1>2, <1>3, <1>4, <2>1, Zenon
    <2> QED
      BY <1>2, <2>1, <2>2
  <1>6. CASE pc = "holder"
    <2>1. ChainDir = BackupDir(a) /\ AfterChain = "vacated"
      BY <1>6 DEF ChainDir, AfterChain
    <2>2. disk'[Backup(a)] = "box"
      BY <1>2, <1>3, <1>4, <2>1, Zenon
    <2>3. disk'[Entry(a)] = "old"
      <3>1. pc # "container"
        BY <1>6
      <3> QED
        BY <1>2, <1>3, <3>1, Zenon
    <2> QED
      BY <1>2, <2>1, <2>2, <2>3
  <1>7. CASE pc = "vacated"
    <2>1. ChainDir = DestDir(a) /\ AfterChain = "rename"
      BY <1>7 DEF ChainDir, AfterChain
    <2>2. disk'[Entry(a)] = "old"
      <3>1. pc # "container"
        BY <1>7
      <3> QED
        BY <1>2, <1>3, <3>1, Zenon
    <2>3. disk'[Backup(a)] = "box"
      <3>1. CASE placement = "DirWithBackups"
        BY <1>2, <1>3, <1>7, <3>1, Zenon
      <3>2. CASE placement # "DirWithBackups"
        BY <1>2, <1>3, <1>4, <2>1, <3>2, Zenon DEF BackupDir
      <3> QED
        BY <3>1, <3>2, Zenon
    <2> QED
      BY <1>2, <2>1, <2>2, <2>3
  <1> QED
    BY <1>5, <1>6, <1>7 DEF Chain

LEMMA SyncBackupKeeps ==
    ASSUME PubInv, SyncBackup
    PROVE  PubInv'
  <1>1. /\ PubType /\ Course /\ at \in Members /\ named = {} /\ synced = Members
        /\ Handled(at)
        /\ pc \in Chain /\ pc \in Installing /\ pc \in Backing
    <2>1. pc \in Chain
      BY Zenon DEF SyncBackup, Chain
    <2>2. pc \in Installing /\ pc \in Backing
      BY <2>1, Classes, Zenon
    <2> QED
      BY <2>1, <2>2, InstallingFacts, Zenon
  <1>2. PICK a \in Members : a = at
    BY <1>1, Zenon
  <1>4. Given /\ UNCHANGED <<view, synced, present, unsynced, named, warned, result, moved, linked>>
    BY Zenon DEF SyncBackup, config, Given, report
  <1>5. /\ view \in [Names -> Contents] /\ disk \in [Names -> Contents] /\ state \in [Members -> States]
        /\ moved \in [Members -> Trails] /\ present' \in BOOLEAN
    BY <1>1, <1>4, Zenon DEF PubType
  <1>6. Displaced(a)
    BY <1>1, <1>2, Zenon DEF Handled
  <1>7. ASSUME Durable(ChainDir), IF AfterChain = "rename" THEN Placed(a, "Staged") ELSE UNCHANGED state, Go(AfterChain, a)
        PROVE  PubInv'
    <2>1. /\ pc' \in {"holder", "vacated", "rename"} /\ at' = at /\ pc' = AfterChain
          /\ disk' \in [Names -> Contents] /\ \A n \in Names : disk'[n] = disk[n] \/ disk'[n] = view[n]
          /\ disk'[Entry(a)] = "old"
          /\ pc' = "holder" => placement = "DirWithBackups"
          /\ pc' = "vacated" /\ placement = "DirWithBackups" => disk'[Backup(a)] = "box"
          /\ pc' = "rename" => disk'[Backup(a)] = "box"
      <3>1. pc = "vacated" /\ placement = "DirWithBackups" => disk[Backup(a)] = "box"
        BY <1>1, <1>2, Zenon DEF Handled
      <3>2. pc # "container" => disk[Entry(a)] = "old"
        BY <1>1, <1>2, Zenon DEF Handled
      <3>3. pc' = AfterChain /\ at' = at
        BY <1>2, <1>7, Zenon DEF Go
      <3> QED
        BY <1>1, <1>2, <1>6, <1>7, <3>1, <3>2, <3>3, ChainIs, Zenon
    <2>2. "Staged" \in States
      BY DEF States
    <2>3. /\ state' \in [Members -> States] /\ \A k \in Members : k # a => state'[k] = state[k]
          /\ pc' = "rename" => state'[a] = "Staged"
          /\ pc' # "rename" => state'[a] = state[a]
      BY <1>5, <1>7, <2>1, <2>2, StateIs, Zenon
    <2>4. Typed
      BY <1>4, <1>5, <2>1, <2>3, Zenon DEF Typed
    <2>5. OnlyMine(a)
      BY <1>4, <2>1, <2>3, Zenon DEF OnlyMine
    <2>6. Others
      BY <1>2, <2>5, OthersStand, Zenon DEF Others
    <2>7. Aside(a)'
      BY <1>4, <1>6, Zenon DEF Displaced, Aside, MovedAside, Whole, Given
    <2>8. pc' # "rename" => Displaced(a)'
      BY <1>6, <2>3, <2>7, Zenon DEF Displaced
    <2>9. pc' \in Installing /\ pc # "unlink" /\ pc' # "link" /\ pc' # "unlink" /\ pc' \in Backing \cup {"rename"} /\ pc' \notin Early
          /\ pc' \notin Closing /\ pc' \notin {"install", "link", "reserve"}
      BY <1>1, <2>1 DEF Installing, Backing, Chain, Early, Closing
    <2>10. Members' = Members /\ (UseBackup' <=> UseBackup)
      BY <1>4, GivenKeeps, Zenon
    <2>11. Course'
      <3>1. overwrite = "Replace" /\ (present <=> at \in had) /\ at \in had /\ UseBackup
        BY <1>1, Zenon DEF Course
      <3> QED
        BY <1>1, <1>4, <2>1, <2>9, <2>10, <3>1 DEF Course, Given
    <2>12. Handled(a)'
      <3>1. pc' = "rename" => Aside(a)' /\ state'[a] = "Staged" /\ WholeOnDisk(a)'
        BY <2>1, <2>3, <2>7, Zenon DEF WholeOnDisk
      <3>2. a \in had' /\ UseBackup'
        BY <1>1, <1>2, <1>4, <2>10, Zenon DEF Course, Given
      <3>3. pc' # "aside" /\ pc' # "unreserve" /\ (pc' \in Chain => pc' # "rename")
        BY <2>1 DEF Chain
      <3>4. placement' = placement
        BY <1>4, Zenon DEF Given
      <3> QED
        BY <2>1, <2>8, <2>9, <3>1, <3>2, <3>3, <3>4, Zenon DEF Handled
    <2>13. Handled(at)'
      BY <1>2, <2>1, <2>12
    <2>14. ~moved'[at].new_at_dest
      BY <1>2, <1>6, <1>4, Zenon DEF Displaced, Aside, MovedAside
    <2>15. state'[at] # "Committed"
      BY <1>2, <1>6, <2>3 DEF Displaced
    <2> QED
      BY <1>1, <1>4, <1>5, <2>1, <2>4, <2>6, <2>9, <2>11, <2>13, <2>14, <2>15, InstallGoesOn, Zenon
  <1>8. ASSUME Failed(a), UNCHANGED <<disk, state>>
        PROVE  PubInv'
    <2>1. pc' = "rollback" /\ at' = at
      BY <1>2, <1>8, Zenon DEF Failed, Go
    <2> QED
      BY <1>1, <1>2, <1>4, <1>6, <1>8, <2>1, FailsAsIs, Zenon DEF Unseen
  <1> QED
    BY <1>2, <1>7, <1>8, Zenon DEF SyncBackup

LEMMA RenameIntoPlaceKeeps ==
    ASSUME PubInv, RenameIntoPlace
    PROVE  PubInv'
  <1>1. /\ PubType /\ Course /\ at \in Members /\ named = {} /\ synced = Members
        /\ \A m \in Members : Staging(m)
        /\ Handled(at)
        /\ pc = "rename" /\ pc \in Installing
    <2>1. pc = "rename"
      BY Zenon DEF RenameIntoPlace
    <2>2. pc \in Installing
      BY <2>1 DEF Installing
    <2> QED
      BY <2>1, <2>2, InstallingFacts, Zenon
  <1>2. PICK a \in Members : a = at
    BY <1>1, Zenon
  <1>3. /\ IF a \in had /\ UseBackup THEN Aside(a) /\ state[a] = "Staged" /\ WholeOnDisk(a) ELSE Clean(a)
        /\ overwrite = "Replace" /\ (present <=> a \in had)
    BY <1>1, <1>2, Zenon DEF Handled, Course
  <1>4. Given /\ UNCHANGED <<disk, synced, present, unsynced, named, warned, result, linked>>
    BY Zenon DEF RenameIntoPlace, config, Given, report
  <1>5. /\ view \in [Names -> Contents] /\ disk \in [Names -> Contents] /\ state \in [Members -> States]
        /\ moved \in [Members -> Trails]
    BY <1>1, Zenon DEF PubType
  <1>6. /\ AfterRename = "InstalledBackup" <=> a \in had /\ UseBackup
        /\ AfterRename = "InstalledUnbacked" <=> a \in had /\ ~UseBackup
        /\ AfterRename = "InstalledNothing" <=> a \notin had
        /\ AfterRename \in States
    BY <1>3 DEF AfterRename, States
  <1>7. ASSUME Rename(Write(a), Dest(a)), Placed(a, AfterRename), Arrived(a), Installed(a)
        PROVE  PubInv'
    <2>1. /\ view' \in [Names -> Contents] /\ view'[Dest(a)] = view[Write(a)] /\ view'[Write(a)] = "none"
          /\ \A n \in Names : n # Write(a) /\ n # Dest(a) => view'[n] = view[n]
      BY <1>5, <1>7, OwnAre, RenameIs, Zenon
    <2>2. state' \in [Members -> States] /\ state'[a] = AfterRename /\ \A k \in Members : k # a => state'[k] = state[k]
      BY <1>5, <1>6, <1>7, StateIs, Zenon
    <2>3. /\ moved' \in [Members -> Trails] /\ \A k \in Members : k # a => moved'[k] = moved[k]
          /\ moved'[a].new_at_dest /\ moved'[a].aside = moved[a].aside /\ moved'[a].put_back = moved[a].put_back
      BY <1>5, <1>7, TrailSteps, Zenon
    <2>4. Typed
      BY <1>4, <1>5, <2>1, <2>2, <2>3, Zenon DEF Typed
    <2>5. OnlyMine(a)
      BY <1>4, <2>1, <2>2, <2>3, OwnAre, Zenon DEF OnlyMine
    <2>6. Others
      BY <1>2, <2>5, OthersStand, Zenon DEF Others
    <2>7. view'[Dest(a)] = "new"
      <3>1. Waiting(a)
        BY <1>1, <1>2 DEF Waiting
      <3> QED
        BY <1>1, <2>1, <3>1, Zenon DEF Staging
    <2>8. view'[Backup(a)] = view[Backup(a)] /\ view'[Entry(a)] = view[Entry(a)] /\ view'[StagingBox(a)] = view[StagingBox(a)]
      BY <2>1, OwnAre, Zenon
    <2>9. a \in synced' /\ had' = had
      BY <1>1, <1>4, Zenon DEF Given
    <2>10. CASE a \in had /\ UseBackup
      <3>1. Aside(a) /\ WholeOnDisk(a) /\ state'[a] = "InstalledBackup"
        BY <1>3, <1>6, <2>2, <2>10, Zenon
      <3>2. MovedOver(a)'
        BY <2>3, <3>1, Zenon DEF Aside, MovedAside, MovedOver
      <3>3. Whole(a)' /\ WholeOnDisk(a)'
        BY <1>4, <2>8, <3>1, Zenon DEF Aside, Whole, WholeOnDisk
      <3>4. Over(a)'
        BY <2>7, <2>9, <2>10, <3>1, <3>2, <3>3, Zenon DEF Over
      <3>5. Standing(a)' /\ ~Unbacked(a)'
        BY <3>4 DEF Standing, Unbacked, Over
      <3> QED
        BY <1>1, <1>2, <1>4, <1>7, <2>1, <2>4, <2>6, <2>8, <3>5, MemberInstalled, Zenon
    <2>11. CASE ~(a \in had /\ UseBackup)
      <3>1. Clean(a)
        BY <1>3, <2>11, Zenon
      <3>2. MovedIn(a)'
        BY <2>3, <3>1, Zenon DEF MovedIn, Clean, Untouched, Unmoved
      <3>3. Tidy(a)'
        BY <1>4, <2>8, <3>1, Zenon DEF Tidy, Clean
      <3>4. CASE a \in had
        <4>1. state'[a] = "InstalledUnbacked" /\ disk'[Dest(a)] = "old"
          BY <1>4, <1>6, <2>2, <2>11, <3>1, <3>4, Zenon DEF Clean, Untouched
        <4>2. Unbacked(a)'
          BY <2>7, <2>9, <3>2, <3>3, <3>4, <4>1, Zenon DEF Unbacked
        <4>3. Standing(a)'
          BY <4>2, Zenon DEF Standing
        <4>4. a = count
          BY <1>1, <2>11, <3>4, MembersAre DEF UseBackup
        <4> QED
          BY <1>1, <1>2, <1>4, <1>7, <2>1, <2>4, <2>6, <2>8, <4>3, <4>4, MemberInstalled, Zenon
      <3>5. CASE a \notin had
        <4>1. state'[a] = "InstalledNothing" /\ view'[Entry(a)] = "none"
          BY <1>6, <2>2, <2>8, <3>1, <3>5, Zenon DEF Clean, Untouched
        <4>2. Alone(a)'
          BY <2>7, <2>9, <3>2, <3>3, <3>5, <4>1, Zenon DEF Alone
        <4>3. Standing(a)' /\ ~Unbacked(a)'
          BY <4>2 DEF Standing, Unbacked, Alone
        <4> QED
          BY <1>1, <1>2, <1>4, <1>7, <2>1, <2>4, <2>6, <2>8, <4>3, MemberInstalled, Zenon
      <3> QED
        BY <3>4, <3>5, Zenon
    <2> QED
      BY <2>10, <2>11, Zenon
  <1>8. ASSUME IF AfterRename = "InstalledBackup" THEN Placed(a, "BackedUp") ELSE UNCHANGED state,
               Failed(a), UNCHANGED <<view, moved>>
        PROVE  PubInv'
    <2>1. pc' = "rollback" /\ at' = at
      BY <1>2, <1>8, Zenon DEF Failed, Go
    <2>2. CASE a \in had /\ UseBackup
      <3>1. Aside(a) /\ Placed(a, "BackedUp") /\ "BackedUp" \in States
        BY <1>3, <1>6, <1>8, <2>2 DEF States
      <3>2. state' \in [Members -> States] /\ state'[a] = "BackedUp" /\ \A k \in Members : k # a => state'[k] = state[k]
        BY <1>5, <3>1, StateIs, Zenon
      <3>3. Typed
        BY <1>4, <1>5, <1>8, <3>2, Zenon DEF Typed
      <3>4. OnlyMine(a)
        BY <1>4, <1>8, <3>2, Zenon DEF OnlyMine
      <3>5. Others
        BY <1>2, <3>4, OthersStand, Zenon DEF Others
      <3>6. Displaced(a)'
        BY <1>4, <1>8, <3>1, <3>2, Zenon DEF Displaced, Aside, MovedAside, Whole, Given
      <3>7. Displaced(at)'
        BY <1>2, <2>1, <3>6
      <3>8. state'[at] # "Committed"
        BY <1>2, <3>2
      <3>9. StagingStands(at)
        BY <1>4, <1>8, <3>8, Zenon DEF StagingStands
      <3> QED
        BY <1>1, <1>4, <2>1, <3>3, <3>5, <3>7, <3>9, InstallFails, Zenon
    <2>3. CASE ~(a \in had /\ UseBackup)
      <3>1. Clean(a) /\ UNCHANGED state
        BY <1>3, <1>6, <1>8, <2>3, Zenon
      <3> QED
        BY <1>1, <1>2, <1>4, <1>8, <2>1, <3>1, FailsAsIs, Zenon DEF Unseen
    <2> QED
      BY <2>2, <2>3, Zenon
  <1> QED
    BY <1>2, <1>7, <1>8, Zenon DEF RenameIntoPlace

-----------------------------------------------------------------------------
(* Rolling back. *)

LEMMA RollingFacts ==
    ASSUME PubInv, pc \in Rolling
    PROVE  /\ PubType /\ Course /\ at \in Members /\ synced = Members
           /\ pc # "emptystg" /\ pc \notin Early /\ pc \notin Installing /\ ~(pc \in Closing)
           /\ \A m \in Members : Staging(m)
           /\ \A m \in Members : m < at => Over(m) \/ Alone(m)
           /\ \A m \in Members : m > at => Resolved(m)
           /\ \A m \in Members : m <= at => m \notin named
           /\ pc = "emptied" => Back(at)
           /\ pc = "rollback" => Clean(at) \/ Over(at) \/ Alone(at) \/ Displaced(at)
           /\ at \notin named
  <1>1. PubType /\ Course /\ at \in Members
    BY Zenon DEF PubInv, PubType
  <1>2. pc # "emptystg" /\ ~(pc \in Closing) /\ pc \notin Early /\ pc \notin Installing
    BY Classes
  <1>3. synced = Members
    BY <1>1, Zenon DEF Course
  <1>4. \A m \in Members : Place(m) /\ Staging(m)
    BY Zenon DEF PubInv
  <1>5. at <= at
    BY <1>1, MembersAre
  <1> QED
    BY <1>1, <1>2, <1>3, <1>4, <1>5, Zenon DEF Place

\* The member in hand is dealt with.
LEMMA MemberRolledBack ==
    ASSUME PubInv, pc \in Rolling, Given, Typed, UNCHANGED <<synced, unsynced, present>>,
           NEW a \in Members, a = at, \A m \in Members : m # a => Stands(m) /\ StagingStands(m),
           named' \subseteq Members, RolledBack(a), Resolved(a)', StagingStands(a)
    PROVE  PubInv'
  <1> USE DEF Typed
  <1>1. /\ PubType /\ Course /\ at \in Members /\ synced = Members /\ pc # "emptystg"
        /\ \A m \in Members : Staging(m)
        /\ \A m \in Members : m < at => Over(m) \/ Alone(m)
        /\ \A m \in Members : m > at => Resolved(m)
        /\ \A m \in Members : m <= at => m \notin named
    BY RollingFacts, Zenon
  <1>2. Members' = Members
    BY GivenKeeps, Zenon
  <1>3. a = at /\ Resolved(a)'
    OBVIOUS
  <1>4. \A m \in Members : StagingStands(m)
    BY Zenon
  <1>5. ASSUME NEW m \in Members, m # a
        PROVE  /\ m < a => Over(m)' \/ Alone(m)'
               /\ m > a => Resolved(m)'
               /\ m <= a => m \notin named'
    <2>1. Stands(m)
      BY <1>5, Zenon
    <2>2. m \in named' <=> m \in named
      BY <2>1, Zenon DEF Stands
    <2> QED
      BY <1>1, <1>3, <1>5, <2>1, <2>2, StandsKeeps, Zenon
  <1>6. CASE a > 1 /\ pc' = "rollback" /\ at' = a - 1
    <2>1. /\ pc' \in Steps /\ pc' \in Rolling /\ pc' \notin Early /\ pc' \notin Installing /\ pc' # "drop" /\ pc' # "ended"
          /\ pc' # "emptied" /\ pc' \notin Closing
      BY <1>6, SMTT(20) DEF Steps, Rolling, Early, Installing, Backing, Chain, Closing
    <2>2. at' \in Members
      BY <1>1, <1>6, MembersAre
    <2>3. PubType'
      BY <1>1, <2>1, <2>2, TypeKeeps, Zenon DEF PubType
    <2>4. Course'
      BY <1>1, <1>2, <1>6, <2>1 DEF Course, Given, Early, Installing, Backing, Chain
    <2>5. ASSUME NEW m \in Members
          PROVE  Place(m)' /\ Staging(m)'
      <3>1. /\ m < at' => m < a /\ m # a
            /\ m = at' => m < a /\ m # a
            /\ m <= at' => m <= a /\ m # a
            /\ m > at' => m = a \/ (m > a /\ m # a)
        BY <1>1, <1>6, MembersAre, SMTT(20)
      <3>2. m > at' => Resolved(m)'
        <4>1. m = a => Resolved(m)'
          BY <1>3
        <4> QED
          BY <1>5, <3>1, <4>1, Zenon
      <3>3. /\ m < at' => Over(m)' \/ Alone(m)'
            /\ m = at' => Over(m)' \/ Alone(m)'
            /\ m <= at' => m \notin named'
        BY <1>5, <3>1, Zenon
      <3>4. Place(m)'
        BY <2>1, <3>2, <3>3, PlaceRolling, Zenon
      <3>5. ~Waiting(m)' /\ ~Dropped(m)'
        BY <2>1, Zenon DEF Waiting, Dropped
      <3>6. Staging(m)'
        BY <1>1, <1>4, <2>5, <3>5, StagingKeeps, Zenon
      <3> QED
        BY <3>4, <3>6, Zenon
    <2> QED
      BY <2>3, <2>4, <2>5, Conclude, Zenon
  <1>7. CASE ~(a > 1) /\ pc' = "resync" /\ at' = a
    <2>1. /\ pc' \in Steps /\ pc' \notin Early /\ pc' \notin Installing /\ pc' # "drop" /\ pc' # "ended" /\ pc' \notin Closing
          /\ pc' \notin Rolling /\ pc' \in {"resync", "dirs", "commit", "emptystg", "kept"}
          /\ pc' # "dirs" /\ pc' # "commit" /\ pc' \notin {"emptystg", "kept"} /\ pc' \notin Backing
      BY <1>7 DEF Steps, Rolling, Early, Installing, Backing, Chain, Closing
    <2>2. at' \in Members
      BY <1>7, Zenon
    <2>3. PubType'
      BY <1>1, <2>1, <2>2, TypeKeeps, Zenon DEF PubType
    <2>4. Course'
      BY <1>1, <1>2, <1>7, <2>1 DEF Course, Given
    <2>5. ASSUME NEW m \in Members
          PROVE  Place(m)' /\ Staging(m)'
      <3>1. m = a \/ (m > a /\ m # a)
        BY <1>1, <1>7, MembersAre, SMTT(20)
      <3>2. Resolved(m)'
        <4>1. m = a => Resolved(m)'
          BY <1>3
        <4> QED
          BY <1>5, <3>1, <4>1, Zenon
      <3>3. Place(m)'
        BY <2>1, <3>2, PlaceLater
      <3>4. ~Waiting(m)' /\ ~Dropped(m)'
        BY <2>1, Zenon DEF Waiting, Dropped
      <3>5. Staging(m)'
        BY <1>1, <1>4, <2>5, <3>4, StagingKeeps, Zenon
      <3> QED
        BY <3>3, <3>5, Zenon
    <2> QED
      BY <2>3, <2>4, <2>5, Conclude, Zenon
  <1> QED
    BY <1>3, <1>6, <1>7, Zenon DEF RolledBack, Go

\* The previous output is put back.
LEMMA Restores ==
    ASSUME PubInv, pc = "rollback", Given, NEW a \in Members, a = at, Displaced(a) \/ Over(a), Restore(a),
           UNCHANGED <<disk, synced, linked, present, unsynced, named, warned>>
    PROVE  PubInv'
  <1>1. pc \in Rolling
    BY DEF Rolling
  <1>2. /\ PubType /\ Course /\ at \in Members /\ synced = Members /\ pc # "emptystg"
        /\ \A m \in Members : Staging(m)
        /\ \A m \in Members : m < at => Over(m) \/ Alone(m)
        /\ \A m \in Members : m > at => Resolved(m)
        /\ \A m \in Members : m <= at => m \notin named
    BY <1>1, RollingFacts, Zenon
  <1>3. /\ view \in [Names -> Contents] /\ disk \in [Names -> Contents] /\ state \in [Members -> States]
        /\ moved \in [Members -> Trails]
    BY <1>2, Zenon DEF PubType
  <1>4. /\ view' \in [Names -> Contents] /\ view'[Dest(a)] = view[Entry(a)] /\ view'[Entry(a)] = "none"
        /\ \A n \in Names : n # Entry(a) /\ n # Dest(a) => view'[n] = view[n]
    BY <1>3, OwnAre, RenameIs, Zenon DEF Restore
  <1>5. state' \in [Members -> States] /\ state'[a] = "Staged" /\ \A k \in Members : k # a => state'[k] = state[k]
    <2>1. "Staged" \in States
      BY DEF States
    <2> QED
      BY <1>3, <2>1, StateIs, Zenon DEF Restore
  <1>6. /\ moved' \in [Members -> Trails] /\ \A k \in Members : k # a => moved'[k] = moved[k]
        /\ moved'[a].put_back /\ ~moved'[a].new_at_dest /\ moved'[a].aside = moved[a].aside
    BY <1>3, TrailSteps, Zenon DEF Restore
  <1>7. OnlyMine(a)
    BY <1>4, <1>5, <1>6, OwnAre, Zenon DEF OnlyMine
  <1>8. \A m \in Members : m # a => Stands(m) /\ StagingStands(m)
    BY <1>7, OthersStand, Zenon
  <1>9. a \in had /\ view[Entry(a)] = "old" /\ moved[a].aside
    BY Zenon DEF Displaced, Aside, Over, Whole, MovedAside, MovedOver
  <1>10. Back(a)'
    BY <1>4, <1>5, <1>6, <1>9, Zenon DEF Back, MovedBack, Given
  <1>11. /\ pc' = "emptied" /\ at' = a
         /\ pc' \in Steps /\ pc' \in Rolling /\ pc' \notin Early /\ pc' \notin Installing /\ pc' # "drop" /\ pc' # "ended"
         /\ pc' # "rollback" /\ pc' \notin Closing
    <2>1. pc' = "emptied" /\ at' = a
      BY Zenon DEF Restore, Go
    <2> QED
      BY <2>1 DEF Steps, Rolling, Early, Installing, Backing, Chain, Closing
  <1>12. PubType'
    BY <1>2, <1>3, <1>4, <1>5, <1>6, <1>11, TypeKeeps, Zenon DEF PubType
  <1>13. Course'
    <2>1. Members' = Members
      BY GivenKeeps, Zenon
    <2> QED
      BY <1>2, <1>11, <2>1 DEF Course, Given, Early, Installing, Backing, Chain
  <1>14. StagingStands(a)
    <2>1. view'[Write(a)] = view[Write(a)] /\ view'[StagingBox(a)] = view[StagingBox(a)]
      BY <1>4, OwnAre, Zenon
    <2>2. state'[a] # "Committed"
      BY <1>5
    <2> QED
      BY <1>6, <2>1, <2>2, Zenon DEF StagingStands
  <1>15. ASSUME NEW m \in Members
         PROVE  Place(m)' /\ Staging(m)'
    <2>1. (m < a => m # a) /\ (m > a => m # a)
      BY <1>2, MembersAre
    <2>2. /\ m < at' => Over(m)' \/ Alone(m)'
          /\ m > at' => Resolved(m)'
      BY <1>2, <1>8, <1>11, <1>15, <2>1, StandsKeeps, Zenon
    <2>3. m = at' => Back(m)'
      BY <1>10, <1>11
    <2>4. m <= at' => m \notin named'
      BY <1>2, <1>11, <1>15, Zenon
    <2>5. Place(m)'
      BY <1>11, <2>2, <2>3, <2>4, PlaceRolling, Zenon
    <2>6. ~Waiting(m)' /\ ~Dropped(m)'
      BY <1>11, Zenon DEF Waiting, Dropped
    <2>7. StagingStands(m)
      BY <1>8, <1>14, <1>15, Zenon
    <2>8. Staging(m)'
      BY <1>2, <1>15, <2>6, <2>7, StagingKeeps, Zenon
    <2> QED
      BY <2>5, <2>8, Zenon
  <1> QED
    BY <1>12, <1>13, <1>15, Conclude, Zenon

\* What could not be undone stays as it is, and is named.
LEMMA Keeps ==
    ASSUME PubInv, pc = "rollback", Given, NEW a \in Members, a = at, Displaced(a) \/ Over(a) \/ Alone(a),
           Keep(a, state[a]), UNCHANGED <<view, moved, disk, synced, linked, present, unsynced, warned>>
    PROVE  PubInv'
  <1>1. pc \in Rolling
    BY DEF Rolling
  <1>2. PubType
    BY Zenon DEF PubInv
  <1>3. state[a] \in States /\ state \in [Members -> States] /\ named \subseteq Members
    BY <1>2, Zenon DEF PubType
  <1>4. state' \in [Members -> States] /\ state'[a] = state[a] /\ \A k \in Members : k # a => state'[k] = state[k]
    BY <1>3, StateIs, Zenon DEF Keep
  <1>5. named' = named \cup {a} /\ RolledBack(a)
    BY Zenon DEF Keep
  <1>6. OnlyMine(a)
    BY <1>4, <1>5, Zenon DEF OnlyMine
  <1>7. \A m \in Members : m # a => Stands(m) /\ StagingStands(m)
    BY <1>6, OthersStand, Zenon
  <1>8. Typed
    BY <1>2, <1>4, Zenon DEF Typed, PubType
  <1>9. Displaced(a)' \/ Over(a)' \/ Alone(a)'
    <2>1. Displaced(a) => Displaced(a)'
      BY <1>4, Zenon DEF Displaced, Aside, MovedAside, Whole, Given
    <2>2. Over(a) => Over(a)'
      BY <1>4, Zenon DEF Over, MovedOver, Whole, WholeOnDisk, Given
    <2>3. Alone(a) => Alone(a)'
      BY <1>4, <1>5, Zenon DEF Alone, MovedIn, Tidy, Given
    <2> QED
      BY <2>1, <2>2, <2>3, Zenon
  <1>10. Resolved(a)'
    BY <1>5, <1>9, Zenon DEF Resolved
  <1>11. StagingStands(a)
    BY <1>4, Zenon DEF StagingStands
  <1>12. named' \subseteq Members
    BY <1>3, <1>5, Zenon
  <1> QED
    BY <1>1, <1>5, <1>7, <1>8, <1>10, <1>11, <1>12, MemberRolledBack, Zenon

LEMMA NothingToUndoKeeps ==
    ASSUME PubInv, NothingToUndo
    PROVE  PubInv'
  <1>1. pc = "rollback" /\ pc \in Rolling
    BY DEF Rolling, NothingToUndo
  <1>2. /\ PubType /\ at \in Members /\ at \notin named
        /\ Clean(at) \/ Over(at) \/ Alone(at) \/ Displaced(at)
    BY <1>1, RollingFacts, Zenon
  <1>3. PICK a \in Members : a = at
    BY <1>2, Zenon
  <1>4. /\ Given /\ RolledBack(a) /\ state[a] \in {"Staged", "InstalledUnbacked"}
        /\ UNCHANGED <<view, disk, synced, state, moved, linked, present, unsynced, named, warned, result>>
    BY <1>3, Zenon DEF NothingToUndo, Given, config, names, report
  <1>5. Clean(a)
    BY <1>2, <1>3, <1>4 DEF Over, Alone, Displaced
  <1>6. \A m : Stands(m) /\ StagingStands(m)
    BY <1>4, AllStand, Zenon DEF StagingStands
  <1>7. Clean(a)'
    BY <1>4, <1>5, <1>6, StandsKeeps, Zenon
  <1>8. Resolved(a)'
    BY <1>2, <1>3, <1>4, <1>7, Zenon DEF Resolved, Clean
  <1>9. Typed /\ named' \subseteq Members
    BY <1>2, <1>4, Zenon DEF PubType, Typed
  <1> QED
    BY <1>1, <1>3, <1>4, <1>6, <1>8, <1>9, MemberRolledBack, Zenon

LEMMA RollbackBackedUpKeeps ==
    ASSUME PubInv, RollbackBackedUp
    PROVE  PubInv'
  <1>1. pc = "rollback" /\ pc \in Rolling
    BY DEF Rolling, RollbackBackedUp
  <1>2. at \in Members /\ (Clean(at) \/ Over(at) \/ Alone(at) \/ Displaced(at))
    BY <1>1, RollingFacts, Zenon
  <1>3. PICK a \in Members : a = at
    BY <1>2, Zenon
  <1>4. /\ Given /\ state[a] = "BackedUp"
        /\ UNCHANGED <<disk, synced, linked, present, unsynced, warned, result>>
        /\ (Restore(a) /\ UNCHANGED named) \/ (Keep(a, "BackedUp") /\ UNCHANGED <<view, moved>>)
    BY <1>3, Zenon DEF RollbackBackedUp, Given, config
  <1>5. Displaced(a)
    BY <1>2, <1>3, <1>4, Zenon DEF Over, Alone, Clean, Untouched
  <1> QED
    BY <1>1, <1>3, <1>4, <1>5, Restores, Keeps, Zenon

LEMMA UninstallBackedKeeps ==
    ASSUME PubInv, UninstallBacked
    PROVE  PubInv'
  <1>1. pc = "rollback" /\ pc \in Rolling
    BY DEF Rolling, UninstallBacked
  <1>2. at \in Members /\ (Clean(at) \/ Over(at) \/ Alone(at) \/ Displaced(at))
    BY <1>1, RollingFacts, Zenon
  <1>3. PICK a \in Members : a = at
    BY <1>2, Zenon
  <1>4. /\ Given /\ state[a] = "InstalledBackup"
        /\ UNCHANGED <<disk, synced, linked, present, unsynced, warned, result>>
        /\ (Restore(a) /\ UNCHANGED named) \/ (Keep(a, "InstalledBackup") /\ UNCHANGED <<view, moved>>)
    BY <1>3, Zenon DEF UninstallBacked, Given, config
  <1>5. Over(a)
    BY <1>2, <1>3, <1>4, Zenon DEF Displaced, Alone, Clean, Untouched
  <1> QED
    BY <1>1, <1>3, <1>4, <1>5, Restores, Keeps, Zenon

LEMMA UninstallLoneKeeps ==
    ASSUME PubInv, UninstallLone
    PROVE  PubInv'
  <1>1. pc = "rollback" /\ pc \in Rolling
    BY DEF Rolling, UninstallLone
  <1>2. /\ PubType /\ at \in Members /\ at \notin named
        /\ Clean(at) \/ Over(at) \/ Alone(at) \/ Displaced(at)
    BY <1>1, RollingFacts, Zenon
  <1>3. PICK a \in Members : a = at
    BY <1>2, Zenon
  <1>4. /\ Given /\ state[a] = "InstalledNothing"
        /\ UNCHANGED <<disk, synced, linked, present, unsynced, warned, result>>
        /\ \/ Remove({Dest(a)}) /\ TakenOut(a) /\ Placed(a, "Staged") /\ RolledBack(a) /\ UNCHANGED named
           \/ Keep(a, "InstalledNothing") /\ UNCHANGED <<view, moved>>
    BY <1>3, Zenon DEF UninstallLone, Given, config
  <1>5. Alone(a)
    BY <1>2, <1>3, <1>4 DEF Displaced, Over, Clean, Untouched
  <1>6. ASSUME Remove({Dest(a)}), TakenOut(a), Placed(a, "Staged"), RolledBack(a), UNCHANGED named
        PROVE  PubInv'
    <2>1. /\ view \in [Names -> Contents] /\ disk \in [Names -> Contents] /\ state \in [Members -> States]
          /\ moved \in [Members -> Trails] /\ named \subseteq Members
      BY <1>2, Zenon DEF PubType
    <2>2. /\ view' \in [Names -> Contents] /\ view'[Dest(a)] = "none"
          /\ \A n \in Names : n # Dest(a) => view'[n] = view[n]
      <3>1. /\ view' \in [Names -> Contents]
            /\ \A n \in Names : n \in {Dest(a)} => view'[n] = "none"
            /\ \A n \in Names : n \notin {Dest(a)} => view'[n] = view[n]
        BY <1>6, <2>1, RemoveIs, Zenon
      <3> QED
        BY <3>1, OwnAre, Zenon
    <2>3. state' \in [Members -> States] /\ state'[a] = "Staged" /\ \A k \in Members : k # a => state'[k] = state[k]
      <3>1. "Staged" \in States
        BY DEF States
      <3> QED
        BY <1>6, <2>1, <3>1, StateIs, Zenon
    <2>4. /\ moved' \in [Members -> Trails] /\ \A k \in Members : k # a => moved'[k] = moved[k]
          /\ ~moved'[a].new_at_dest /\ moved'[a].aside = moved[a].aside /\ moved'[a].put_back = moved[a].put_back
      BY <1>6, <2>1, TrailSteps, Zenon
    <2>5. OnlyMine(a)
      BY <1>4, <1>6, <2>2, <2>3, <2>4, OwnAre, Zenon DEF OnlyMine
    <2>6. \A m \in Members : m # a => Stands(m) /\ StagingStands(m)
      BY <2>5, OthersStand, Zenon
    <2>7. Typed
      BY <1>4, <2>1, <2>2, <2>3, <2>4, Zenon DEF Typed
    <2>8. /\ view'[Backup(a)] = view[Backup(a)] /\ view'[Entry(a)] = view[Entry(a)]
          /\ view'[StagingBox(a)] = view[StagingBox(a)] /\ view'[Write(a)] = view[Write(a)]
      BY <2>2, OwnAre, Zenon
    <2>9. Untouched(a)'
      BY <1>4, <1>5, <2>2, <2>3, <2>4, <2>8, Zenon DEF Untouched, Unmoved, Alone, MovedIn, Given
    <2>10. Tidy(a)'
      BY <1>4, <1>5, <1>6, <2>8, Zenon DEF Alone, Tidy
    <2>11. Resolved(a)'
      BY <1>2, <1>3, <1>6, <2>9, <2>10, Zenon DEF Resolved
    <2>12. StagingStands(a)
      <3>1. state'[a] # "Committed"
        BY <2>3
      <3> QED
        BY <1>4, <2>4, <2>8, <3>1, Zenon DEF StagingStands
    <2> QED
      BY <1>1, <1>3, <1>4, <1>6, <2>1, <2>6, <2>7, <2>11, <2>12, MemberRolledBack, Zenon
  <1> QED
    BY <1>1, <1>3, <1>4, <1>5, <1>6, Keeps, Zenon

LEMMA RemoveEmptyBackupKeeps ==
    ASSUME PubInv, RemoveEmptyBackup
    PROVE  PubInv'
  <1>1. pc = "emptied" /\ pc \in Rolling
    BY DEF Rolling, RemoveEmptyBackup
  <1>2. PubType /\ at \in Members /\ at \notin named /\ Back(at)
    BY <1>1, RollingFacts, Zenon
  <1>3. PICK a \in Members : a = at
    BY <1>2, Zenon
  <1>4. /\ Given /\ RolledBack(a)
        /\ UNCHANGED <<disk, synced, state, moved, linked, present, unsynced, named, result>>
        /\ \/ Remove({Backup(a)}) /\ UNCHANGED warned
           \/ warned' = warned \cup {a} /\ UNCHANGED view
    BY <1>3, Zenon DEF RemoveEmptyBackup, Given, config
  <1>5. /\ view \in [Names -> Contents] /\ disk \in [Names -> Contents] /\ state \in [Members -> States]
        /\ moved \in [Members -> Trails] /\ named \subseteq Members
    BY <1>2, Zenon DEF PubType
  <1>6. /\ view' \in [Names -> Contents]
        /\ \A n \in Names : n # Backup(a) => view'[n] = view[n]
        /\ warned \subseteq warned' /\ (view'[Backup(a)] = "none" \/ a \in warned')
    <2>1. CASE Remove({Backup(a)}) /\ UNCHANGED warned
      <3>1. /\ view' \in [Names -> Contents]
            /\ \A n \in Names : n \in {Backup(a)} => view'[n] = "none"
            /\ \A n \in Names : n \notin {Backup(a)} => view'[n] = view[n]
        BY <1>5, <2>1, RemoveIs, Zenon
      <3> QED
        BY <2>1, <3>1, OwnAre, Zenon
    <2>2. CASE warned' = warned \cup {a} /\ UNCHANGED view
      BY <1>5, <2>2, Zenon
    <2> QED
      BY <1>4, <2>1, <2>2, Zenon
  <1>7. OnlyMine(a)
    BY <1>4, <1>6, OwnAre, Zenon DEF OnlyMine
  <1>8. \A m \in Members : m # a => Stands(m) /\ StagingStands(m)
    BY <1>7, OthersStand, Zenon
  <1>9. Typed
    BY <1>4, <1>5, <1>6, Zenon DEF Typed
  <1>10. /\ view'[Dest(a)] = view[Dest(a)] /\ view'[Entry(a)] = view[Entry(a)]
         /\ view'[StagingBox(a)] = view[StagingBox(a)] /\ view'[Write(a)] = view[Write(a)]
    BY <1>6, OwnAre, Zenon
  <1>11. Resolved(a)'
    BY <1>2, <1>3, <1>4, <1>6, <1>10, Zenon DEF Resolved, Back, MovedBack, Tidy, Given
  <1>12. StagingStands(a)
    BY <1>4, <1>6, <1>10, Zenon DEF StagingStands
  <1> QED
    BY <1>1, <1>3, <1>4, <1>5, <1>8, <1>9, <1>11, <1>12, MemberRolledBack, Zenon

-----------------------------------------------------------------------------
(* Directories synced, and the return. *)

LEMMA Syncs ==
    ASSUME PubType, UNCHANGED <<view, state, moved, named, linked, warned, synced>>, NEW d, Durable(d) \/ UNCHANGED disk
    PROVE  Typed /\ \A m \in Members : Stands(m) /\ StagingStands(m)
  <1>1. /\ view \in [Names -> Contents] /\ disk \in [Names -> Contents] /\ state \in [Members -> States]
        /\ moved \in [Members -> Trails]
    BY Zenon DEF PubType
  <1>2. disk' \in [Names -> Contents] /\ \A n \in Names : disk'[n] = disk[n] \/ disk'[n] = view[n]
    BY <1>1, DurableIs, Zenon
  <1>3. \A m \in Members : Dest(m) \in Names /\ Backup(m) \in Names /\ Entry(m) \in Names
    BY OwnAre, Zenon
  <1>4. \A m \in Members : Stands(m)
    BY <1>2, <1>3, Zenon DEF Stands
  <1>5. \A m \in Members : StagingStands(m)
    BY Zenon DEF StagingStands
  <1> QED
    BY <1>1, <1>2, <1>4, <1>5, Zenon DEF Typed

LEMMA Closes ==
    ASSUME PubInv, Given, Typed, UNCHANGED <<synced, present, unsynced>>, named' \subseteq Members, pc' = "drop", at' = 1,
           result' \in {"ok", "unsynced", "error", "panicked", "incomplete"},
           result' \in {"error", "panicked"} => named' = {},
           \A m \in Members : IF result' \in {"ok", "unsynced"} THEN Done(m)' ELSE Resolved(m)',
           \A m \in Members : ~Waiting(m)' /\ ~Dropped(m)' => Staging(m)'
    PROVE  PubInv'
  <1>1. PubType /\ Course /\ 1 \in Members
    BY MembersAre, Zenon DEF PubInv
  <1>2. pc' \in Steps /\ pc' \in Closing /\ pc' \notin Early /\ pc' \notin Installing /\ pc' \notin Rolling /\ pc' \notin Backing
    BY DEF Early, Steps, Closing, Installing, Backing, Chain, Rolling
  <1>3. PubType'
    BY <1>1, <1>2, TypeKeeps, Zenon DEF PubType, Typed
  <1>4. Course'
    BY <1>1, <1>2 DEF Course, Given
  <1>5. ASSUME NEW m \in Members
        PROVE  Place(m)' /\ Staging(m)'
    <2>1. Place(m)'
      BY <1>2, <1>5, PlaceClosing, Zenon
    <2>2. ~Waiting(m)'
      BY <1>2, Zenon DEF Waiting
    <2>3. ~Dropped(m)'
      BY <1>1, <1>5, MembersAre DEF Dropped
    <2> QED
      BY <1>5, <2>1, <2>2, <2>3, Zenon
  <1> QED
    BY <1>3, <1>4, <1>5, Conclude, Zenon

LEMMA SyncAfterRollbackKeeps ==
    ASSUME PubInv, SyncAfterRollback
    PROVE  PubInv'
  <1>1. /\ pc = "resync" /\ pc \notin Early /\ pc \notin Installing /\ pc \notin Rolling /\ pc \notin Closing
        /\ pc \in {"resync", "dirs", "commit", "emptystg", "kept"}
        /\ pc # "dirs" /\ pc # "commit" /\ pc # "drop" /\ pc # "ended" /\ pc \notin {"emptystg", "kept"} /\ pc # "emptystg"
    BY DEF SyncAfterRollback, Early, Installing, Rolling, Closing, Backing, Chain
  <1>2. PubType /\ Course /\ \A m \in Members : Resolved(m) /\ Staging(m)
    BY <1>1, Zenon DEF PubInv, Place
  <1>3. /\ Given /\ UNCHANGED <<view, synced, state, moved, linked, present, unsynced, named, warned>>
    BY Zenon DEF SyncAfterRollback, Given, config
  <1>4. named' \subseteq Members
    BY <1>2, <1>3, Zenon DEF PubType
  <1>5. ASSUME NEW d, Durable(d) \/ UNCHANGED disk, UNCHANGED <<pc, at, result>>
        PROVE  PubInv'
    <2>1. Typed /\ \A m \in Members : Stands(m) /\ StagingStands(m)
      BY <1>2, <1>3, <1>5, Syncs, Zenon
    <2>2. PubType'
      BY <1>2, <1>3, <1>5, <2>1, TypeKeeps, Zenon DEF PubType, Typed
    <2>3. Course'
      BY <1>1, <1>2, <1>3, <1>5 DEF Course, Given, Backing, Chain
    <2>4. ASSUME NEW m \in Members
          PROVE  Place(m)' /\ Staging(m)'
      <3>1. Resolved(m)'
        BY <1>2, <1>3, <2>1, <2>4, StandsKeeps, Zenon
      <3>2. Place(m)'
        BY <1>1, <1>5, <3>1, PlaceLater
      <3>3. ~Waiting(m)' /\ ~Dropped(m)'
        BY <1>1, <1>5, Zenon DEF Waiting, Dropped
      <3>4. Staging(m)'
        BY <1>1, <1>2, <1>3, <2>1, <2>4, <3>3, StagingKeeps, Zenon
      <3> QED
        BY <3>2, <3>4, Zenon
    <2> QED
      BY <1>3, <2>2, <2>3, <2>4, Conclude, Zenon
  <1>6. ASSUME Return(IF named = {} THEN "error" ELSE "incomplete"), UNCHANGED disk
        PROVE  PubInv'
    <2>1. Typed /\ \A m \in Members : Stands(m) /\ StagingStands(m)
      BY <1>2, <1>3, <1>6, Syncs, Zenon
    <2>2. /\ pc' = "drop" /\ at' = 1 /\ result' \in {"ok", "unsynced", "error", "panicked", "incomplete"}
          /\ result' \in {"error", "panicked"} => named' = {}
          /\ result' \notin {"ok", "unsynced"}
      BY <1>3, <1>6 DEF Return, Go
    <2>3. \A m \in Members : Resolved(m)'
      BY <1>2, <1>3, <2>1, StandsKeeps, Zenon
    <2>4. \A m \in Members : ~Waiting(m)' /\ ~Dropped(m)' => Staging(m)'
      BY <1>1, <1>2, <1>3, <2>1, StagingKeeps, Zenon
    <2> QED
      BY <1>3, <1>4, <2>1, <2>2, <2>3, <2>4, Closes, Zenon
  <1> QED
    BY <1>5, <1>6, Zenon DEF SyncAfterRollback

LEMMA SyncKeptKeeps ==
    ASSUME PubInv, SyncKept
    PROVE  PubInv'
  <1>1. /\ pc = "kept" /\ pc \notin Early /\ pc \notin Installing /\ pc \notin Rolling /\ pc \notin Closing
        /\ pc \in {"resync", "dirs", "commit", "emptystg", "kept"} /\ pc \in {"emptystg", "kept"}
        /\ pc # "dirs" /\ pc # "commit" /\ pc # "drop" /\ pc # "ended" /\ pc # "resync" /\ pc # "emptystg"
    BY DEF SyncKept, Early, Installing, Rolling, Closing, Backing, Chain
  <1>2. PubType /\ Course /\ \A m \in Members : Done(m) /\ Staging(m)
    BY <1>1, Zenon DEF PubInv, Place
  <1>3. /\ Given /\ UNCHANGED <<view, synced, state, moved, linked, present, unsynced, named, warned>>
    BY Zenon DEF SyncKept, Given, config
  <1>4. named' \subseteq Members
    BY <1>2, <1>3, Zenon DEF PubType
  <1>5. ASSUME NEW d, Durable(d) \/ UNCHANGED disk, UNCHANGED <<pc, at, result>>
        PROVE  PubInv'
    <2>1. Typed /\ \A m \in Members : Stands(m) /\ StagingStands(m)
      BY <1>2, <1>3, <1>5, Syncs, Zenon
    <2>2. PubType'
      BY <1>2, <1>3, <1>5, <2>1, TypeKeeps, Zenon DEF PubType, Typed
    <2>3. Course'
      BY <1>1, <1>2, <1>3, <1>5 DEF Course, Given, Backing, Chain
    <2>4. ASSUME NEW m \in Members
          PROVE  Place(m)' /\ Staging(m)'
      <3>1. Done(m)'
        BY <1>2, <1>3, <2>1, <2>4, StandsKeeps, Zenon
      <3>2. Place(m)'
        BY <1>1, <1>5, <3>1, PlaceLater
      <3>3. ~Waiting(m)' /\ ~Dropped(m)'
        BY <1>1, <1>5, Zenon DEF Waiting, Dropped
      <3>4. Staging(m)'
        BY <1>1, <1>2, <1>3, <2>1, <2>4, <3>3, StagingKeeps, Zenon
      <3> QED
        BY <3>2, <3>4, Zenon
    <2> QED
      BY <1>3, <2>2, <2>3, <2>4, Conclude, Zenon
  <1>6. ASSUME Return("unsynced"), UNCHANGED disk
        PROVE  PubInv'
    <2>1. Typed /\ \A m \in Members : Stands(m) /\ StagingStands(m)
      BY <1>2, <1>3, <1>6, Syncs, Zenon
    <2>2. /\ pc' = "drop" /\ at' = 1 /\ result' \in {"ok", "unsynced", "error", "panicked", "incomplete"}
          /\ result' \notin {"error", "panicked"}
          /\ result' \in {"ok", "unsynced"}
      BY <1>3, <1>6 DEF Return, Go
    <2>3. \A m \in Members : Done(m)'
      BY <1>2, <1>3, <2>1, StandsKeeps, Zenon
    <2>4. \A m \in Members : ~Waiting(m)' /\ ~Dropped(m)' => Staging(m)'
      BY <1>1, <1>2, <1>3, <2>1, StagingKeeps, Zenon
    <2> QED
      BY <1>3, <1>4, <2>1, <2>2, <2>3, <2>4, Closes, Zenon
  <1> QED
    BY <1>5, <1>6, Zenon DEF SyncKept

LEMMA SyncChangedDirsKeeps ==
    ASSUME PubInv, SyncChangedDirs
    PROVE  PubInv'
  <1>1. /\ pc = "dirs" /\ pc \notin Early /\ pc \notin Installing /\ pc \notin Rolling /\ pc \notin Closing
        /\ pc \in {"resync", "dirs", "commit", "emptystg", "kept"} /\ pc \notin {"emptystg", "kept"}
        /\ pc # "resync" /\ pc # "commit" /\ pc # "drop" /\ pc # "ended" /\ pc # "emptystg"
    BY DEF SyncChangedDirs, Early, Installing, Rolling, Closing, Backing, Chain
  <1>2. /\ PubType /\ Course
        /\ \A m \in Members : /\ Standing(m) /\ Staging(m)
                              /\ unsynced \/ DestDir(m) \in todo \/ disk[Dest(m)] = "new"
    BY <1>1, Zenon DEF PubInv, Place
  <1>3. /\ Given /\ UNCHANGED <<view, synced, state, moved, linked, present, named, warned, result>>
    BY Zenon DEF SyncChangedDirs, Given, config, report
  <1>4. named' \subseteq Members /\ named = {} /\ unsynced \in BOOLEAN /\ present' \in BOOLEAN /\ synced' \subseteq Members
    BY <1>1, <1>2, <1>3 DEF PubType, Course
  <1>5. ASSUME NEW d \in todo, (Durable(d) /\ UNCHANGED unsynced) \/ (unsynced' = TRUE /\ UNCHANGED disk),
               todo' = todo \ {d}, UNCHANGED <<pc, at>>
        PROVE  PubInv'
    <2>1. Typed /\ \A m \in Members : Stands(m) /\ StagingStands(m)
      BY <1>2, <1>3, <1>5, Syncs, Zenon
    <2>2. unsynced' \in BOOLEAN
      BY <1>4, <1>5, Zenon
    <2>3. PubType'
      BY <1>2, <1>3, <1>4, <1>5, <2>1, <2>2, TypeKeeps, Zenon DEF PubType, Typed
    <2>4. Course'
      BY <1>1, <1>2, <1>3, <1>4, <1>5 DEF Course, Given, Backing, Chain
    <2>5. ASSUME NEW m \in Members
          PROVE  Place(m)' /\ Staging(m)'
      <3>1. Standing(m)'
        BY <1>2, <1>3, <2>1, <2>5, StandsKeeps, Zenon
      <3>2. view[Dest(m)] = "new"
        BY <1>2, <2>5, Zenon DEF Standing, Over, Alone, Unbacked
      <3>3. unsynced' \/ DestDir(m) \in todo' \/ disk'[Dest(m)] = "new"
        <4>1. CASE unsynced' = TRUE
          BY <4>1
        <4>2. CASE Durable(d) /\ UNCHANGED unsynced
          <5>1. Dest(m) \in Names /\ DirOf(Dest(m)) = DestDir(m)
            BY OwnAre, DirsOf, Zenon
          <5>2. /\ DirOf(Dest(m)) = d => disk'[Dest(m)] = view[Dest(m)]
                /\ disk'[Dest(m)] = disk[Dest(m)] \/ disk'[Dest(m)] = view[Dest(m)]
            BY <1>2, <4>2, <5>1, DurableIs, Zenon DEF PubType
          <5> QED
            BY <1>2, <1>5, <2>5, <3>2, <4>2, <5>1, <5>2, Zenon
        <4> QED
          BY <1>5, <4>1, <4>2, Zenon
      <3>4. Place(m)'
        BY <1>1, <1>5, <3>1, <3>3, PlaceLater
      <3>5. ~Waiting(m)' /\ ~Dropped(m)'
        BY <1>1, <1>5, Zenon DEF Waiting, Dropped
      <3>6. Staging(m)'
        BY <1>1, <1>2, <1>3, <2>1, <2>5, <3>5, StagingKeeps, Zenon
      <3> QED
        BY <3>4, <3>6, Zenon
    <2> QED
      BY <1>3, <2>3, <2>4, <2>5, Conclude, Zenon
  <1>6. ASSUME todo = {}, Go("commit", 1), UNCHANGED <<disk, unsynced>>
        PROVE  PubInv'
    <2>1. Typed /\ \A m \in Members : Stands(m) /\ StagingStands(m)
      BY <1>2, <1>3, <1>6, Syncs, Zenon
    <2>2. /\ pc' = "commit" /\ at' = 1 /\ pc' \in Steps /\ pc' \notin Early /\ pc' \notin Installing /\ pc' \notin Rolling
          /\ pc' \notin Closing /\ pc' \in {"resync", "dirs", "commit", "emptystg", "kept"}
          /\ pc' # "drop" /\ pc' # "ended" /\ pc' # "dirs" /\ pc' # "resync" /\ pc' \notin {"emptystg", "kept"}
      BY <1>6 DEF Go, Steps, Early, Installing, Rolling, Closing, Backing, Chain
    <2>3. PubType'
      BY <1>2, <1>3, <1>4, <1>6, <2>1, <2>2, MembersAre, TypeKeeps, Zenon DEF PubType, Typed
    <2>4. Course'
      BY <1>2, <1>3, <1>4, <2>2 DEF Course, Given, Backing, Chain
    <2>5. ASSUME NEW m \in Members
          PROVE  Place(m)' /\ Staging(m)'
      <3>1. Standing(m)'
        BY <1>2, <1>3, <2>1, <2>5, StandsKeeps, Zenon
      <3>2. unsynced' \/ disk'[Dest(m)] = "new"
        BY <1>2, <1>6, <2>5, Zenon
      <3>3. ~(m < at')
        BY <1>2, <2>2, <2>5, MembersAre
      <3>4. Place(m)'
        BY <2>2, <3>1, <3>2, <3>3, PlaceLater
      <3>5. ~Waiting(m)' /\ ~Dropped(m)'
        BY <2>2, Zenon DEF Waiting, Dropped
      <3>6. Staging(m)'
        BY <1>1, <1>2, <1>3, <2>1, <2>5, <3>5, StagingKeeps, Zenon
      <3> QED
        BY <3>4, <3>6, Zenon
    <2> QED
      BY <1>3, <2>3, <2>4, <2>5, Conclude, Zenon
  <1> QED
    BY <1>5, <1>6, Zenon DEF SyncChangedDirs

\* What the commit of one member does to its backup.
LEMMA CommitsBackup ==
    ASSUME PubType, NEW a \in Members, Standing(a), unsynced \/ disk[Dest(a)] = "new", CommitBackup(a), Given,
           Placed(a, "Committed"), UNCHANGED <<disk, synced, moved, linked>>
    PROVE  /\ Typed /\ OnlyMine(a) /\ Done(a)' /\ named' \subseteq Members
           /\ view'[Write(a)] = view[Write(a)] /\ view'[StagingBox(a)] = view[StagingBox(a)]
           /\ state'[a] = "Committed"
  <1>1. /\ view \in [Names -> Contents] /\ disk \in [Names -> Contents] /\ state \in [Members -> States]
        /\ moved \in [Members -> Trails] /\ named \subseteq Members
    BY Zenon DEF PubType
  <1>2. state' \in [Members -> States] /\ state'[a] = "Committed" /\ \A k \in Members : k # a => state'[k] = state[k]
    <2>1. "Committed" \in States
      BY DEF States
    <2> QED
      BY <1>1, <2>1, StateIs, Zenon
  <1>3. view[Dest(a)] = "new" /\ (MovedIn(a) \/ MovedOver(a))
    BY Zenon DEF Standing, Over, Alone, Unbacked
  <1>4. (MovedIn(a)' \/ MovedOver(a)') /\ had' = had
    BY <1>3, Zenon DEF MovedIn, MovedOver, Given
  <1>5. CASE state[a] = "InstalledBackup" /\ ~unsynced
    <2>1. Over(a) /\ RemoveBackup(a) /\ disk[Dest(a)] = "new"
      BY <1>5 DEF Standing, Alone, Unbacked, CommitBackup
    <2>2. /\ view' \in [Names -> Contents] /\ named' = named /\ warned \subseteq warned'
          /\ view'[Backup(a)] = "none" \/ a \in warned'
          /\ \A n \in Names : n # Backup(a) /\ n # Entry(a) => view'[n] = view[n]
      <3>1. CASE Remove({Backup(a), Entry(a)}) /\ UNCHANGED <<named, warned>>
        <4>1. /\ view' \in [Names -> Contents]
              /\ \A n \in Names : n \in {Backup(a), Entry(a)} => view'[n] = "none"
              /\ \A n \in Names : n \notin {Backup(a), Entry(a)} => view'[n] = view[n]
          BY <1>1, <3>1, RemoveIs, Zenon
        <4> QED
          BY <3>1, <4>1, OwnAre, Zenon
      <3>2. CASE warned' = warned \cup {a} /\ UNCHANGED <<named, view>>
        BY <1>1, <3>2, Zenon
      <3>3. CASE warned' = warned \cup {a} /\ UNCHANGED named /\ view' = [view EXCEPT ![Entry(a)] = "part"]
        <4>1. "part" \in Contents
          BY DEF Contents
        <4>2. view' \in [Names -> Contents] /\ \A k \in Names : k # Entry(a) => view'[k] = view[k]
          BY <1>1, <3>3, <4>1, OwnAre, PutIs, Zenon
        <4> QED
          BY <3>3, <4>2, Zenon
      <3> QED
        BY <2>1, <3>1, <3>2, <3>3, Zenon DEF RemoveBackup
    <2>3. /\ view'[Dest(a)] = view[Dest(a)] /\ view'[Write(a)] = view[Write(a)]
          /\ view'[StagingBox(a)] = view[StagingBox(a)]
      BY <2>2, OwnAre, Zenon
    <2>4. Done(a)'
      BY <1>2, <1>3, <1>4, <2>1, <2>2, <2>3, Zenon DEF Done, Tidy, Over
    <2>5. OnlyMine(a)
      BY <1>2, <2>2, OwnAre, Zenon DEF OnlyMine
    <2> QED
      BY <1>1, <1>2, <2>2, <2>3, <2>4, <2>5, Zenon DEF Typed
  <1>6. CASE state[a] = "InstalledBackup" /\ unsynced
    <2>1. Over(a) /\ KeepBackup(a)
      BY <1>6 DEF Standing, Alone, Unbacked, CommitBackup
    <2>2. named' = named \cup {a} /\ UNCHANGED <<view, warned>>
      BY <2>1, Zenon DEF KeepBackup
    <2>3. Done(a)'
      BY <1>2, <1>3, <1>4, <2>1, <2>2, Zenon DEF Done, Tidy, Over, Whole, WholeOnDisk
    <2>4. OnlyMine(a)
      BY <1>2, <2>2, Zenon DEF OnlyMine
    <2>5. named' \subseteq Members
      BY <1>1, <2>2, Zenon
    <2> QED
      BY <1>1, <1>2, <2>2, <2>3, <2>4, <2>5, Zenon DEF Typed
  <1>7. CASE state[a] # "InstalledBackup"
    <2>1. (Alone(a) \/ Unbacked(a)) /\ UNCHANGED <<view, named, warned>>
      BY <1>7, Zenon DEF Standing, Over, CommitBackup
    <2>2. Done(a)'
      BY <1>2, <1>3, <1>4, <2>1, Zenon DEF Done, Tidy, Alone, Unbacked
    <2>3. OnlyMine(a)
      BY <1>2, <2>1, Zenon DEF OnlyMine
    <2> QED
      BY <1>1, <1>2, <2>1, <2>2, <2>3, Zenon DEF Typed
  <1> QED
    BY <1>5, <1>6, <1>7, Zenon

\* A member is committed, and the next one is in turn.
LEMMA MemberCommitted ==
    ASSUME PubInv, Given, Typed, UNCHANGED <<synced, present, unsynced>>, named' \subseteq Members,
           NEW a \in Members, a = at, Committed(a),
           \A m \in Members : m <= a => Done(m)',
           \A m \in Members : m > a => Standing(m)' /\ (unsynced' \/ disk'[Dest(m)] = "new"),
           \A m \in Members : ~Waiting(m)' /\ ~Dropped(m)' /\ pc' # "emptystg" => Staging(m)'
    PROVE  PubInv'
  <1> USE DEF Typed
  <1>1. PubType /\ Course
    BY Zenon DEF PubInv
  <1>2. unsynced \in BOOLEAN
    BY <1>1, Zenon DEF PubType
  <1>3. CASE a < count /\ pc' = "commit" /\ at' = a + 1
    <2>1. /\ pc' \in Steps /\ pc' \notin Early /\ pc' \notin Installing /\ pc' \notin Rolling
          /\ pc' \notin Closing /\ pc' \in {"resync", "dirs", "commit", "emptystg", "kept"}
          /\ pc' # "drop" /\ pc' # "ended" /\ pc' # "dirs" /\ pc' # "resync" /\ pc' \notin {"emptystg", "kept"}
          /\ pc' # "emptystg" /\ pc' \notin Backing
      BY <1>3 DEF Go, Steps, Early, Installing, Rolling, Closing, Backing, Chain
    <2>2. at' \in Members
      BY <1>1, <1>3, MembersAre
    <2>3. PubType'
      BY <1>1, <2>1, <2>2, TypeKeeps, Zenon DEF PubType
    <2>4. Course'
      BY <1>1, <1>3, <2>1 DEF Course, Given
    <2>5. ASSUME NEW m \in Members
          PROVE  Place(m)' /\ Staging(m)'
      <3>1. (m < at' => m <= a) /\ (m >= at' => m > a)
        BY <1>1, <1>3, <2>5, MembersAre
      <3>2. (m < at' => Done(m)') /\ (m >= at' => Standing(m)' /\ (unsynced' \/ disk'[Dest(m)] = "new"))
        BY <2>5, <3>1, Zenon
      <3>3. Place(m)'
        BY <2>1, <3>2, PlaceLater
      <3>4. ~Waiting(m)' /\ ~Dropped(m)'
        BY <2>1, Zenon DEF Waiting, Dropped
      <3> QED
        BY <2>1, <2>5, <3>3, <3>4, Zenon
    <2> QED
      BY <2>3, <2>4, <2>5, Conclude, Zenon
  <1>4. ASSUME ~(a < count)
        PROVE  \A m \in Members : Done(m)'
    <2>1. \A m \in Members : m <= a
      BY <1>1, <1>4, MembersAre
    <2> QED
      BY <2>1, Zenon
  <1>5. CASE ~(a < count) /\ pc' = "kept" /\ at' = a
    <2>1. /\ pc' \in Steps /\ pc' \notin Early /\ pc' \notin Installing /\ pc' \notin Rolling
          /\ pc' \notin Closing /\ pc' \in {"resync", "dirs", "commit", "emptystg", "kept"} /\ pc' \in {"emptystg", "kept"}
          /\ pc' # "drop" /\ pc' # "ended" /\ pc' # "dirs" /\ pc' # "resync" /\ pc' # "commit"
          /\ pc' # "emptystg" /\ pc' \notin Backing
      BY <1>5 DEF Go, Steps, Early, Installing, Rolling, Closing, Backing, Chain
    <2>2. PubType'
      BY <1>1, <1>5, <2>1, TypeKeeps, Zenon DEF PubType
    <2>3. Course'
      BY <1>1, <1>5, <2>1 DEF Course, Given
    <2>4. ASSUME NEW m \in Members
          PROVE  Place(m)' /\ Staging(m)'
      <3>1. Done(m)'
        BY <1>4, <1>5, <2>4, Zenon
      <3>2. Place(m)'
        BY <2>1, <3>1, PlaceLater
      <3>3. ~Waiting(m)' /\ ~Dropped(m)'
        BY <2>1, Zenon DEF Waiting, Dropped
      <3> QED
        BY <2>1, <2>4, <3>2, <3>3, Zenon
    <2> QED
      BY <2>2, <2>3, <2>4, Conclude, Zenon
  <1>6. CASE ~(a < count) /\ pc' = "drop" /\ at' = 1 /\ result' = "ok"
    <2>1. /\ result' \in {"ok", "unsynced", "error", "panicked", "incomplete"} /\ result' \in {"ok", "unsynced"}
          /\ result' \notin {"error", "panicked"} /\ pc' # "emptystg"
      BY <1>6
    <2>2. \A m \in Members : Done(m)'
      BY <1>4, <1>6, Zenon
    <2>3. \A m \in Members : ~Waiting(m)' /\ ~Dropped(m)' => Staging(m)'
      BY <2>1, Zenon
    <2> QED
      BY <1>6, <2>1, <2>2, <2>3, Closes, Zenon
  <1> QED
    BY <1>3, <1>5, <1>6, Zenon DEF Committed, Go, Return

LEMMA CommitKeeps ==
    ASSUME PubInv, Commit
    PROVE  PubInv'
  <1>1. /\ pc = "commit" /\ pc \notin Early /\ pc \notin Installing /\ pc \notin Rolling /\ pc \notin Closing
        /\ pc # "drop" /\ pc # "ended" /\ pc # "emptystg"
    BY DEF Commit, Early, Installing, Rolling, Closing, Backing, Chain
  <1>2. /\ PubType /\ Course /\ at \in Members
        /\ \A m \in Members : /\ Staging(m)
                              /\ m < at => Done(m)
                              /\ m >= at => Standing(m) /\ (unsynced \/ disk[Dest(m)] = "new")
    BY <1>1, Zenon DEF PubInv, Place, PubType
  <1>3. PICK a \in Members : a = at
    BY <1>2, Zenon
  <1>4. /\ Given /\ UNCHANGED <<disk, synced, moved, linked, present, unsynced>>
        /\ CommitBackup(a) /\ Placed(a, "Committed")
    BY <1>3, Zenon DEF Commit, Given, config
  <1>5. Standing(a) /\ (unsynced \/ disk[Dest(a)] = "new")
    <2>1. a >= at
      BY <1>2, <1>3, MembersAre
    <2> QED
      BY <1>2, <2>1, Zenon
  <1>6. /\ Typed /\ OnlyMine(a) /\ Done(a)' /\ named' \subseteq Members
        /\ view'[Write(a)] = view[Write(a)] /\ view'[StagingBox(a)] = view[StagingBox(a)]
        /\ state'[a] = "Committed"
    BY <1>2, <1>4, <1>5, CommitsBackup, Zenon
  <1>7. \A m \in Members : m # a => Stands(m) /\ StagingStands(m)
    BY <1>6, OthersStand, Zenon
  <1>8. ASSUME NEW m \in Members
        PROVE  /\ m <= a => Done(m)'
               /\ m > a => Standing(m)' /\ (unsynced' \/ disk'[Dest(m)] = "new")
    <2>1. CASE m = a
      <3>1. ~(m > a) /\ (Done(a)' => Done(m)')
        BY <1>2, <1>3, <2>1, MembersAre
      <3> QED
        BY <1>6, <3>1, Zenon
    <2>2. CASE m # a
      <3>1. (m <= a => m < at) /\ (m > a => m >= at)
        BY <1>2, <1>3, <1>8, <2>2, MembersAre
      <3>2. Stands(m)
        BY <1>7, <1>8, <2>2, Zenon
      <3>3. (m <= a => Done(m)') /\ (m > a => Standing(m)')
        BY <1>2, <1>4, <1>8, <3>1, <3>2, StandsKeeps, Zenon
      <3> QED
        BY <1>2, <1>4, <1>8, <3>1, <3>3, Zenon
    <2> QED
      BY <2>1, <2>2, Zenon
  <1>9. ASSUME NEW m \in Members, ~Waiting(m)', ~Dropped(m)', pc' = "emptystg" \/ shape = "File"
        PROVE  Staging(m)'
    <2>1. CASE m = a
      BY <1>2, <1>4, <1>6, <1>9, <2>1, Zenon DEF Staging, Given
    <2>2. CASE m # a
      BY <1>1, <1>2, <1>4, <1>7, <1>9, <2>2, StagingKeeps, Zenon
    <2> QED
      BY <2>1, <2>2, Zenon
  <1>10. CASE shape = "Dir"
    <2>1. pc' = "emptystg" /\ at' = a /\ result' = result
      BY <1>3, <1>10, Zenon DEF Commit, Go
    <2>2. /\ pc' \in Steps /\ pc' \notin Early /\ pc' \notin Installing /\ pc' \notin Rolling
          /\ pc' \notin Closing /\ pc' \in {"resync", "dirs", "commit", "emptystg", "kept"} /\ pc' \in {"emptystg", "kept"}
          /\ pc' # "drop" /\ pc' # "ended" /\ pc' # "dirs" /\ pc' # "resync" /\ pc' # "commit" /\ pc' \notin Backing
      BY <2>1 DEF Go, Steps, Early, Installing, Rolling, Closing, Backing, Chain
    <2>3. PubType'
      BY <1>2, <1>4, <1>6, <2>1, <2>2, TypeKeeps, Zenon DEF PubType, Typed
    <2>4. count = 1 /\ a = count /\ \A m \in Members : m <= a
      BY <1>2, <1>10, MembersAre, SMTT(20) DEF Course
    <2>5. Course'
      BY <1>2, <1>4, <2>1, <2>2, <2>4 DEF Course, Given
    <2>6. ASSUME NEW m \in Members
          PROVE  Place(m)' /\ Staging(m)'
      <3>1. Done(m)'
        BY <1>8, <2>4, <2>6, Zenon
      <3>2. Place(m)'
        BY <2>2, <3>1, PlaceLater
      <3>3. ~Waiting(m)' /\ ~Dropped(m)'
        BY <2>2, Zenon DEF Waiting, Dropped
      <3> QED
        BY <1>9, <2>1, <2>6, <3>2, <3>3, Zenon
    <2> QED
      BY <1>4, <2>3, <2>5, <2>6, Conclude, Zenon
  <1>11. CASE shape = "File"
    <2>1. Committed(a)
      BY <1>3, <1>11 DEF Commit
    <2>2. \A m \in Members : ~Waiting(m)' /\ ~Dropped(m)' => Staging(m)'
      BY <1>9, <1>11, Zenon
    <2> QED
      BY <1>3, <1>4, <1>6, <1>8, <2>1, <2>2, MemberCommitted, Zenon
  <1> QED
    BY <1>2, <1>10, <1>11, SMTT(20) DEF PubType

LEMMA RemoveStagingKeeps ==
    ASSUME PubInv, RemoveStaging
    PROVE  PubInv'
  <1>1. /\ pc = "emptystg" /\ pc \in {"emptystg", "kept"} /\ pc \notin Early /\ pc \notin Installing /\ pc \notin Closing
    BY DEF RemoveStaging, Early, Installing, Rolling, Closing, Backing, Chain
  <1>2. PubType /\ Course /\ at \in Members /\ at = count /\ \A m \in Members : Done(m) /\ Staging(m)
    BY <1>1, Zenon DEF PubInv, Place, PubType, Course
  <1>3. PICK a \in Members : a = at
    BY <1>2, Zenon
  <1>4. /\ Given /\ UNCHANGED <<disk, synced, state, moved, linked, present, unsynced, named>> /\ Committed(a)
        /\ \/ Remove({StagingBox(a)}) /\ UNCHANGED warned
           \/ warned' = warned \cup {a} /\ UNCHANGED view
    BY <1>3, Zenon DEF RemoveStaging, Given, config
  <1>5. /\ view \in [Names -> Contents] /\ disk \in [Names -> Contents] /\ state \in [Members -> States]
        /\ moved \in [Members -> Trails] /\ named' \subseteq Members
    BY <1>2, <1>4, Zenon DEF PubType
  <1>6. /\ view' \in [Names -> Contents]
        /\ \A n \in Names : n # StagingBox(a) => view'[n] = view[n]
        /\ view'[StagingBox(a)] = "none" \/ view'[StagingBox(a)] = view[StagingBox(a)]
        /\ warned \subseteq warned' /\ (view'[StagingBox(a)] = "none" \/ a \in warned')
    <2>1. CASE Remove({StagingBox(a)}) /\ UNCHANGED warned
      <3>1. /\ view' \in [Names -> Contents]
            /\ \A n \in Names : n \in {StagingBox(a)} => view'[n] = "none"
            /\ \A n \in Names : n \notin {StagingBox(a)} => view'[n] = view[n]
        BY <1>5, <2>1, RemoveIs, Zenon
      <3> QED
        BY <2>1, <3>1, OwnAre, Zenon
    <2>2. CASE warned' = warned \cup {a} /\ UNCHANGED view
      BY <1>5, <2>2, Zenon
    <2> QED
      BY <1>4, <2>1, <2>2, Zenon
  <1>7. OnlyMine(a)
    BY <1>4, <1>6, OwnAre, Zenon DEF OnlyMine
  <1>8. \A m \in Members : m # a => Stands(m) /\ StagingStands(m)
    BY <1>7, OthersStand, Zenon
  <1>9. Typed
    BY <1>4, <1>5, <1>6, Zenon DEF Typed
  <1>10. view'[Dest(a)] = view[Dest(a)] /\ view'[Entry(a)] = view[Entry(a)] /\ view'[Backup(a)] = view[Backup(a)]
         /\ view'[Write(a)] = view[Write(a)]
    BY <1>6, OwnAre, Zenon
  <1>11. Stands(a)
    BY <1>4, <1>6, <1>10, Zenon DEF Stands
  <1>12. \A m \in Members : Done(m)'
    BY <1>2, <1>4, <1>8, <1>11, StandsKeeps, Zenon
  <1>13. ASSUME NEW m \in Members, ~Waiting(m)', ~Dropped(m)'
         PROVE  Staging(m)'
    <2>1. CASE m = a
      <3>1. view'[Write(m)] = view[Write(m)] /\ (view'[StagingBox(m)] = "none" \/ m \in warned')
            /\ (view[StagingBox(m)] = "none" => view'[StagingBox(m)] = "none") /\ Staging(m)
        BY <1>2, <1>6, <1>10, <2>1
      <3> QED
        BY <1>4, <1>13, <3>1, Zenon DEF Staging, Given
    <2>2. CASE m # a
      <3>1. shape = "File"
        <4>1. shape = "Dir" => m = a
          BY <1>2, <1>13, MembersAre, SMTT(20) DEF Course
        <4> QED
          BY <1>2, <2>2, <4>1, SMTT(20) DEF PubType
      <3>2. Staging(m) /\ StagingStands(m)
        BY <1>2, <1>8, <1>13, <2>2, Zenon
      <3> QED
        BY <1>4, <1>13, <3>1, <3>2, Zenon DEF Staging, StagingStands, Given
    <2> QED
      BY <2>1, <2>2, Zenon
  <1>14. \A m \in Members : ~(m > a)
    BY <1>2, <1>3, MembersAre
  <1> QED
    BY <1>3, <1>4, <1>5, <1>9, <1>12, <1>13, <1>14, MemberCommitted, Zenon

LEMMA DropTargetKeeps ==
    ASSUME PubInv, DropTarget
    PROVE  PubInv'
  <1>1. /\ pc = "drop" /\ pc \in Closing /\ pc # "emptystg" /\ pc \notin Early /\ pc \notin Installing
    BY DEF DropTarget, Closing, Early, Installing, Backing, Chain
  <1>2. /\ PubType /\ Course /\ at \in Members
        /\ \A m \in Members : /\ Staging(m)
                              /\ IF result \in {"ok", "unsynced"} THEN Done(m) ELSE Resolved(m)
    BY <1>1, Zenon DEF PubInv, Place, PubType
  <1>3. PICK a \in Members : a = at
    BY <1>2, Zenon
  <1>4. /\ Given /\ UNCHANGED <<disk, synced, state, moved, linked, present, unsynced, named, result>>
        /\ (Remove(DropRemoves(a)) /\ UNCHANGED warned) \/ (warned' = warned \cup {a} /\ UNCHANGED view)
        /\ (a < count /\ pc' = "drop" /\ at' = a + 1) \/ (~(a < count) /\ pc' = "ended" /\ at' = a)
    BY <1>3, Zenon DEF DropTarget, Given, config, loop, Go
  <1>5. /\ view \in [Names -> Contents] /\ disk \in [Names -> Contents] /\ state \in [Members -> States]
        /\ moved \in [Members -> Trails] /\ named' \subseteq Members
    BY <1>2, <1>4, Zenon DEF PubType
  <1>6. DropRemoves(a) \subseteq {Write(a), StagingBox(a)}
    BY DEF DropRemoves
  <1>7. state[a] = "Committed" => moved[a].new_at_dest
    <2>1. Resolved(a) => state[a] # "Committed"
      BY DEF Resolved, Untouched, Back, Displaced, Over, Alone
    <2>2. Done(a) => moved[a].new_at_dest
      BY Zenon DEF Done, MovedIn, MovedOver
    <2> QED
      BY <1>2, <2>1, <2>2, Zenon
  <1>8. /\ state[a] # "Committed" /\ shape = "Dir" => Write(a) \in DropRemoves(a) /\ StagingBox(a) \in DropRemoves(a)
        /\ state[a] # "Committed" /\ shape = "File" => Write(a) \in DropRemoves(a)
        /\ state[a] = "Committed" /\ a \in linked => Write(a) \in DropRemoves(a)
    BY DEF DropRemoves
  <1>9. /\ view' \in [Names -> Contents] /\ warned \subseteq warned'
        /\ \A n \in Names : n # Write(a) /\ n # StagingBox(a) => view'[n] = view[n]
        /\ view[Write(a)] = "none" => view'[Write(a)] = "none"
        /\ view[StagingBox(a)] = "none" => view'[StagingBox(a)] = "none"
        /\ a \in warned' \/ \A n \in Names : n \in DropRemoves(a) => view'[n] = "none"
    <2>1. CASE Remove(DropRemoves(a)) /\ UNCHANGED warned
      <3>1. /\ view' \in [Names -> Contents]
            /\ \A n \in Names : n \in DropRemoves(a) => view'[n] = "none"
            /\ \A n \in Names : n \notin DropRemoves(a) => view'[n] = view[n]
        BY <1>5, <2>1, RemoveIs, Zenon
      <3>2. Write(a) \in Names /\ StagingBox(a) \in Names
        BY OwnAre, Zenon
      <3> QED
        BY <1>6, <2>1, <3>1, <3>2, Zenon
    <2>2. CASE warned' = warned \cup {a} /\ UNCHANGED view
      BY <1>5, <2>2, Zenon
    <2> QED
      BY <1>4, <2>1, <2>2, Zenon
  <1>10. OnlyMine(a)
    BY <1>4, <1>9, OwnAre, Zenon DEF OnlyMine
  <1>11. \A m \in Members : m # a => Stands(m) /\ StagingStands(m)
    BY <1>10, OthersStand, Zenon
  <1>12. Stands(a)
    <2>1. view'[Dest(a)] = view[Dest(a)] /\ view'[Entry(a)] = view[Entry(a)] /\ view'[Backup(a)] = view[Backup(a)]
      BY <1>9, OwnAre, Zenon
    <2> QED
      BY <1>4, <1>9, <2>1, Zenon DEF Stands
  <1>13. \A m \in Members : IF result' \in {"ok", "unsynced"} THEN Done(m)' ELSE Resolved(m)'
    BY <1>2, <1>4, <1>11, <1>12, StandsKeeps, Zenon
  <1>14. /\ pc' \in Steps /\ pc' \in Closing /\ pc' \notin Early /\ pc' \notin Installing /\ pc' \notin Rolling /\ pc' \notin Backing
         /\ pc' # "emptystg" /\ pc' # "dirs"
    BY <1>4 DEF Early, Steps, Closing, Installing, Backing, Chain, Rolling
  <1>15. at' \in Members
    BY <1>2, <1>3, <1>4, MembersAre
  <1>16. PubType'
    BY <1>2, <1>4, <1>5, <1>9, <1>14, <1>15, TypeKeeps, Zenon DEF PubType
  <1>17. Course'
    BY <1>1, <1>2, <1>4, <1>14 DEF Course, Given
  <1>18. a \in warned' \/ (view'[Write(a)] = "none" /\ view'[StagingBox(a)] = "none")
    <2>1. Write(a) \in Names /\ StagingBox(a) \in Names /\ Staging(a)
      BY <1>2, OwnAre, Zenon
    <2>2. shape = "File" \/ shape = "Dir"
      BY <1>2 DEF PubType
    <2>3. CASE state[a] # "Committed"
      BY <1>8, <1>9, <2>1, <2>2, <2>3, Zenon DEF Staging
    <2>4. CASE state[a] = "Committed"
      <3>1. view[StagingBox(a)] = "none" \/ a \in warned
        BY <1>1, <2>1, <2>4, Zenon DEF Staging
      <3>2. a \in linked \/ view[Write(a)] = "none"
        BY <1>7, <2>1, <2>4, Zenon DEF Staging
      <3> QED
        BY <1>8, <1>9, <2>1, <2>4, <3>1, <3>2, Zenon
    <2> QED
      BY <2>3, <2>4, Zenon
  <1>19. ASSUME NEW m \in Members
         PROVE  Place(m)' /\ Staging(m)'
    <2>1. Place(m)'
      BY <1>13, <1>14, <1>19, PlaceClosing, Zenon
    <2>2. ~Waiting(m)'
      BY <1>14, Zenon DEF Waiting
    <2>3. CASE m = a
      <3>1. /\ view'[Write(m)] = "none" \/ m \in linked' \/ ~moved'[m].new_at_dest
            /\ shape' = "File" => view'[StagingBox(m)] = "none"
        BY <1>2, <1>4, <1>9, <1>19, <2>3, Zenon DEF Staging, Given
      <3>2. state'[m] = "Committed" => view'[StagingBox(m)] = "none" \/ m \in warned'
        BY <1>1, <1>2, <1>4, <1>9, <1>19, <2>3, Zenon DEF Staging
      <3> QED
        BY <1>18, <2>1, <2>2, <2>3, <3>1, <3>2, Zenon DEF Staging
    <2>4. CASE m # a
      <3>1. Dropped(m)' => Dropped(m)
        BY <1>1, <1>2, <1>3, <1>4, <2>4, MembersAre DEF Dropped
      <3> QED
        BY <1>1, <1>2, <1>4, <1>11, <1>19, <2>1, <2>2, <2>4, <3>1, StagingKeeps, Zenon
    <2> QED
      BY <2>3, <2>4, Zenon
  <1> QED
    BY <1>4, <1>16, <1>17, <1>19, Conclude, Zenon

-----------------------------------------------------------------------------
(* Steps of others, and no step. *)

\* A member stands as it did.
Holds(m) ==
    /\ Untouched(m) => Untouched(m)'
    /\ Clean(m) => Clean(m)'
    /\ Aside(m) => Aside(m)'
    /\ Displaced(m) => Displaced(m)'
    /\ Over(m) => Over(m)'
    /\ Alone(m) => Alone(m)'
    /\ Unbacked(m) => Unbacked(m)'
    /\ Back(m) => Back(m)'
    /\ Done(m) => Done(m)'
    /\ Standing(m) => Standing(m)'
    /\ Resolved(m) => Resolved(m)'

LEMMA PlaceSame ==
    ASSUME NEW m, Place(m), Holds(m), Given, UNCHANGED <<disk, state, pc, at, todo, unsynced, named, result>>,
           view'[Backup(m)] = view[Backup(m)]
    PROVE  Place(m)'
  <1>1. Handled(m) => Handled(m)'
    <2>1. UseBackup' <=> UseBackup
      BY GivenKeeps, Zenon
    <2> QED
      BY <2>1, Zenon DEF Handled, Holds, Given, WholeOnDisk
  <1> QED
    BY <1>1, ZenonT(40) DEF Place, Holds

LEMMA ForeignKeeps ==
    ASSUME PubInv, Foreign
    PROVE  PubInv'
  <1>1. PubType /\ Course /\ \A m \in Members : Place(m) /\ Staging(m)
    BY Zenon DEF PubInv
  <1>2. /\ Given /\ UNCHANGED <<disk, synced, state, moved, linked, pc, at, present, todo, unsynced, named, warned, result>>
        /\ overwrite = "Refuse"
    BY Zenon DEF Foreign, Given, config, loop, report
  <1>3. PICK k \in Members : view[Dest(k)] = "none" /\ view' = [view EXCEPT ![Dest(k)] = "foreign"]
    BY Zenon DEF Foreign
  <1>4. /\ view \in [Names -> Contents] /\ disk \in [Names -> Contents] /\ state \in [Members -> States]
        /\ moved \in [Members -> Trails]
    BY <1>1, Zenon DEF PubType
  <1>5. view' \in [Names -> Contents] /\ view'[Dest(k)] = "foreign" /\ \A n \in Names : n # Dest(k) => view'[n] = view[n]
    <2>1. "foreign" \in Contents
      BY DEF Contents
    <2> QED
      BY <1>3, <1>4, <2>1, OwnAre, PutIs, Zenon
  <1>6. OnlyMine(k)
    BY <1>2, <1>5, OwnAre, Zenon DEF OnlyMine
  <1>7. \A m \in Members : m # k => Stands(m) /\ StagingStands(m)
    BY <1>6, OthersStand, Zenon
  <1>8. /\ view'[Entry(k)] = view[Entry(k)] /\ view'[Backup(k)] = view[Backup(k)]
        /\ view'[Write(k)] = view[Write(k)] /\ view'[StagingBox(k)] = view[StagingBox(k)]
    BY <1>5, OwnAre, Zenon
  <1>9. \A m \in Members : Holds(m)
    <2>1. ASSUME NEW m \in Members, m # k
          PROVE  Holds(m)
      BY <1>2, <1>7, <2>1, StandsKeeps, Zenon DEF Holds
    <2>2. Holds(k)
      <3>1. k \notin had
        BY <1>1, <1>2, Zenon DEF Course
      <3>2. ~Over(k) /\ ~Alone(k) /\ ~Unbacked(k) /\ ~Done(k)
        BY <1>3 DEF Over, Alone, Unbacked, Done
      <3>3. ~Aside(k) /\ ~Displaced(k) /\ ~Back(k)
        BY <3>1, Zenon DEF Aside, Displaced, Back
      <3>4. Untouched(k) => Untouched(k)'
        BY <1>2, <1>5, <1>8, <3>1, Zenon DEF Untouched, Unmoved, Given
      <3>5. Tidy(k) => Tidy(k)'
        BY <1>2, <1>8, Zenon DEF Tidy
      <3> QED
        BY <1>2, <3>2, <3>3, <3>4, <3>5, Zenon DEF Holds, Clean, Standing, Resolved
    <2> QED
      BY <2>1, <2>2, Zenon
  <1>10. PubType'
    BY <1>1, <1>2, <1>4, <1>5, TypeKeeps, Zenon DEF PubType
  <1>11. Course'
    <2>1. Members' = Members /\ (UseBackup' <=> UseBackup)
      BY <1>2, GivenKeeps, Zenon
    <2> QED
      BY <1>1, <1>2, <2>1, Zenon DEF Course, Given
  <1>12. ASSUME NEW m \in Members
         PROVE  Place(m)' /\ Staging(m)'
    <2>1. view'[Backup(m)] = view[Backup(m)] /\ StagingStands(m)
      <3>1. StagingStands(k)
        BY <1>2, <1>8, Zenon DEF StagingStands
      <3> QED
        BY <1>7, <1>8, <1>12, <3>1, Zenon DEF Stands
    <2>2. Place(m)'
      BY <1>1, <1>2, <1>9, <1>12, <2>1, PlaceSame, Zenon
    <2>3. (Waiting(m)' => Waiting(m)) /\ (Dropped(m)' => Dropped(m)) /\ (pc # "emptystg" \/ pc' = "emptystg")
      BY <1>2, Zenon DEF Waiting, Dropped
    <2> QED
      BY <1>1, <1>2, <1>12, <2>1, <2>2, <2>3, StagingKeeps, Zenon
  <1> QED
    BY <1>2, <1>10, <1>11, <1>12, Conclude, Zenon

LEMMA StutterKeeps ==
    ASSUME PubInv, UNCHANGED vars
    PROVE  PubInv'
  <1>1. PubType /\ Course /\ \A m \in Members : Place(m) /\ Staging(m)
    BY Zenon DEF PubInv
  <1>2. /\ Given
        /\ UNCHANGED <<view, disk, synced, state, moved, linked, pc, at, present, todo, unsynced, named, warned, result>>
    BY Zenon DEF vars, Given, config, loop, report, names
  <1>3. \A m : Stands(m) /\ StagingStands(m)
    BY <1>2, AllStand, Zenon DEF StagingStands
  <1>4. PubType'
    BY <1>1, <1>2, TypeKeeps, Zenon DEF PubType
  <1>5. Course'
    <2>1. Members' = Members /\ (UseBackup' <=> UseBackup)
      BY <1>2, GivenKeeps, Zenon
    <2> QED
      BY <1>1, <1>2, <2>1, ZenonT(40) DEF Course, Given
  <1>6. ASSUME NEW m \in Members
        PROVE  Place(m)' /\ Staging(m)'
    <2>1. Holds(m)
      BY <1>2, <1>3, StandsKeeps, Zenon DEF Holds
    <2>2. Place(m)'
      BY <1>1, <1>2, <1>6, <2>1, PlaceSame, Zenon
    <2>3. (Waiting(m)' => Waiting(m)) /\ (Dropped(m)' => Dropped(m)) /\ (pc # "emptystg" \/ pc' = "emptystg")
      BY <1>2, Zenon DEF Waiting, Dropped
    <2> QED
      BY <1>1, <1>2, <1>3, <1>6, <2>2, <2>3, StagingKeeps, Zenon
  <1> QED
    BY <1>2, <1>4, <1>5, <1>6, Conclude, Zenon

\* Every step keeps the invariant.
LEMMA PubStep ==
    ASSUME PubInv, Next
    PROVE  PubInv'
  <1>1. CASE RunHooks \/ Recheck \/ SyncStaged
    BY <1>1, EarlySteps, Zenon
  <1>2. CASE Install
    BY <1>2, InstallExclusiveKeeps, InstallByLinkKeeps, UnlinkStagingKeeps, InspectPresentKeeps, ReserveBackupKeeps,
       MoveAsideKeeps, UnreserveKeeps, SyncBackupKeeps, RenameIntoPlaceKeeps, Zenon DEF Install
  <1>3. CASE Rollback
    BY <1>3, NothingToUndoKeeps, RollbackBackedUpKeeps, UninstallLoneKeeps, UninstallBackedKeeps, RemoveEmptyBackupKeeps,
       SyncAfterRollbackKeeps, Zenon DEF Rollback
  <1>4. CASE Finish
    BY <1>4, SyncChangedDirsKeeps, CommitKeeps, RemoveStagingKeeps, SyncKeptKeeps, DropTargetKeeps, Zenon DEF Finish
  <1>5. CASE Foreign
    BY <1>5, ForeignKeeps, Zenon
  <1>6. CASE Ended
    BY <1>6, StutterKeeps, Zenon DEF Ended
  <1> QED
    BY <1>1, <1>2, <1>3, <1>4, <1>5, <1>6, Zenon DEF Next

LEMMA PubStart ==
    ASSUME Init
    PROVE  PubInv
  <1>1. count \in Nat /\ count >= 1 /\ at \in Members
    BY PublicationAssumption DEF Init, Members
  <1>2. /\ had \subseteq Members /\ synced \subseteq Members /\ named \subseteq Members /\ named = {} /\ pc = "hooks"
        /\ unsynced \in BOOLEAN /\ present \in BOOLEAN /\ overwrite \in {"Refuse", "Replace"}
        /\ placement \in {"Beside", "Dir", "DirWithBackups"} /\ linked = {}
        /\ overwrite = "Refuse" => had = {}
    BY Zenon DEF Init
  <1>3. shape \in {"File", "Dir"} /\ (shape = "Dir" => count = 1)
    BY DEF Init
  <1>4. /\ pc \in Steps /\ pc \in Early /\ pc \notin Installing /\ pc \notin Rolling /\ pc \notin Closing /\ pc \notin Backing
        /\ pc # "sync" /\ pc # "dirs" /\ pc # "emptystg" /\ pc # "resync" /\ pc # "commit" /\ pc # "kept"
        /\ pc # "drop" /\ pc # "ended" /\ pc # "link" /\ pc # "unlink" /\ pc # "holder" /\ pc # "rename"
    BY <1>2 DEF Steps, Early, Installing, Backing, Chain, Rolling, Closing
  <1>5. ASSUME NEW n \in Names
        PROVE  Before[n] \in Contents
    BY DEF Before, Contents
  <1>6. /\ view = Before /\ disk = Before /\ Before \in [Names -> Contents]
    <2>1. Before = [n \in Names |-> Before[n]]
      BY DEF Before
    <2> QED
      BY <1>5, <2>1, Zenon DEF Init
  <1>7. state \in [Members -> States] /\ \A m \in Members : state[m] = "Staged"
    BY DEF Init, States
  <1>8. moved \in [Members -> Trails] /\ \A m \in Members : Unmoved(m)
    BY DEF Init, Trails, Unmoved
  <1>9. PubType
    BY <1>1, <1>2, <1>3, <1>4, <1>6, <1>7, <1>8, Zenon DEF PubType
  <1>10. Course
    BY <1>2, <1>3, <1>4 DEF Course
  <1>11. ASSUME NEW m \in Members
         PROVE  Place(m) /\ Staging(m)
    <2>1. Dest(m) \in Names /\ Write(m) \in Names /\ StagingBox(m) \in Names /\ Backup(m) \in Names /\ Entry(m) \in Names
      BY OwnAre, Zenon
    <2>2. /\ Before[Dest(m)] = IF m \in had THEN "old" ELSE "none"
          /\ Before[Write(m)] = "new" /\ Before[Backup(m)] = "none" /\ Before[Entry(m)] = "none"
          /\ shape = "File" => Before[StagingBox(m)] = "none"
      BY <2>1 DEF Before, Dest, Write, StagingBox, Backup, Entry
    <2>3. Clean(m)
      BY <1>6, <1>7, <1>8, <2>2, Zenon DEF Clean, Untouched, Tidy
    <2>4. Place(m)
      BY <1>4, <2>3, Zenon DEF Place
    <2>5. state[m] # "Committed"
      BY <1>7
    <2>6. Staging(m)
      BY <1>4, <1>6, <1>8, <2>2, <2>5, Zenon DEF Staging, Dropped, Unmoved
    <2> QED
      BY <2>4, <2>6, Zenon
  <1> QED
    BY <1>9, <1>10, <1>11, Zenon DEF PubInv

-----------------------------------------------------------------------------
(* What the invariant says of the destinations. *)

LEMMA EveryMemberStands ==
    ASSUME PubInv, NEW m \in Members
    PROVE  Untouched(m) \/ Aside(m) \/ Over(m) \/ Alone(m) \/ Unbacked(m) \/ Back(m) \/ Done(m)
  <1>1. PubType /\ Place(m)
    BY Zenon DEF PubInv
  <1>2. m < at \/ m = at \/ m > at
    BY <1>1, MembersAre
  <1>3. m >= at \/ m < at
    BY <1>1, MembersAre
  <1>4. CASE pc \in Early
    BY <1>1, <1>4, Zenon DEF Place, Clean
  <1>5. CASE pc \in Installing
    <2>1. Handled(m) => Untouched(m) \/ Aside(m) \/ Alone(m)
      <3>1. pc \in {"install", "link", "reserve"} \/ pc = "unlink" \/ pc = "aside" \/ pc = "unreserve" \/ pc \in Chain \/ pc = "rename"
        BY <1>5 DEF Installing, Backing
      <3> QED
        BY <3>1, Zenon DEF Handled, Clean, Displaced
    <2> QED
      BY <1>1, <1>2, <1>5, <2>1, Zenon DEF Place, Clean
  <1>6. CASE pc \in Rolling
    <2>1. pc = "rollback" \/ pc = "emptied"
      BY <1>6 DEF Rolling
    <2> QED
      BY <1>1, <1>2, <1>6, <2>1, Zenon DEF Place, Clean, Displaced, Resolved
  <1>7. CASE pc \in Closing \/ pc = "resync" \/ pc \in {"emptystg", "kept"}
    BY <1>1, <1>7, Zenon DEF Place, Displaced, Resolved
  <1>8. CASE pc = "dirs" \/ pc = "commit"
    BY <1>1, <1>3, <1>8, Zenon DEF Place, Standing
  <1> QED
    BY <1>1, <1>4, <1>5, <1>6, <1>7, <1>8 DEF PubType, Steps

LEMMA GenerationsKept ==
    ASSUME PubInv
    PROVE  GenerationKept
  <1> SUFFICES ASSUME NEW m \in had
               PROVE  /\ \/ view[Dest(m)] \in {"old", "new"}
                         \/ view[Dest(m)] = "none" /\ view[Backup(m)] = "box" /\ view[Entry(m)] = "old"
                      /\ view[Dest(m)] = "new" =>
                            \A gone \in SUBSET {DirOf(n) : n \in {Dest(m), Backup(m), Entry(m)}} :
                                \/ Crash(gone, Dest(m)) = "old"
                                \/ Crash(gone, Dest(m)) = "new" /\ m \in synced
                                \/ Crash(gone, Backup(m)) = "box" /\ Crash(gone, Entry(m)) = "old"
    BY Zenon DEF GenerationKept
  <1>1. m \in Members
    BY Zenon DEF PubInv, PubType
  <1>2. Untouched(m) \/ Aside(m) \/ Over(m) \/ Unbacked(m) \/ Back(m) \/ Done(m)
    BY <1>1, EveryMemberStands, Zenon DEF Alone
  <1>3. \/ view[Dest(m)] \in {"old", "new"}
        \/ view[Dest(m)] = "none" /\ view[Backup(m)] = "box" /\ view[Entry(m)] = "old"
    BY <1>2, Zenon DEF Untouched, Aside, Whole, Over, Unbacked, Back, Done
  <1>4. ASSUME view[Dest(m)] = "new", NEW gone
        PROVE  \/ Crash(gone, Dest(m)) = "old"
               \/ Crash(gone, Dest(m)) = "new" /\ m \in synced
               \/ Crash(gone, Backup(m)) = "box" /\ Crash(gone, Entry(m)) = "old"
    <2>1. m \in synced /\ (disk[Dest(m)] \in {"old", "new"} \/ (Whole(m) /\ WholeOnDisk(m)))
      BY <1>2, <1>4 DEF Untouched, Aside, Over, Unbacked, Back, Done
    <2>2. CASE disk[Dest(m)] \in {"old", "new"}
      BY <1>4, <2>1, <2>2, Zenon DEF Crash
    <2>3. CASE Whole(m) /\ WholeOnDisk(m)
      BY <2>3, Zenon DEF Crash, Whole, WholeOnDisk
    <2> QED
      BY <2>1, <2>2, <2>3, Zenon
  <1> QED
    BY <1>3, <1>4, Zenon

\* The effect a target reports, by where it stands.
LEMMA EffectByTrail ==
    ASSUME NEW m
    PROVE  /\ Unmoved(m) => Effect(m) = "None"
           /\ MovedAside(m) => Effect(m) = "Displaced"
           /\ MovedBack(m) => Effect(m) = "Restored"
           /\ MovedIn(m) \/ MovedOver(m) => Effect(m) = "Installed"
  BY DEF Effect, Unmoved, MovedAside, MovedBack, MovedIn, MovedOver

LEMMA EffectOf ==
    ASSUME NEW m
    PROVE  /\ Untouched(m) => Effect(m) = "None"
           /\ Aside(m) \/ Displaced(m) => Effect(m) = "Displaced"
           /\ Back(m) => Effect(m) = "Restored"
           /\ Over(m) \/ Alone(m) \/ Unbacked(m) \/ Done(m) => Effect(m) = "Installed"
  BY EffectByTrail, Zenon DEF Untouched, Aside, Displaced, Back, Over, Alone, Unbacked, Done

LEMMA ResultsTrue ==
    ASSUME PubInv
    PROVE  ResultIsTrue
  <1>1. EffectIsTrue
    <2> SUFFICES ASSUME NEW m \in Members
                 PROVE  CASE Effect(m) = "Installed" -> view[Dest(m)] = "new"
                          [] Effect(m) = "Restored"  -> view[Dest(m)] = "old"
                          [] Effect(m) = "Displaced" -> view[Dest(m)] = "none" /\ view[Entry(m)] = "old"
                          [] Effect(m) = "None"      -> view[Dest(m)] \in IF m \in had THEN {"old"} ELSE {"none", "foreign"}
      BY Zenon DEF EffectIsTrue
    <2>1. Untouched(m) \/ Aside(m) \/ Over(m) \/ Alone(m) \/ Unbacked(m) \/ Back(m) \/ Done(m)
      BY EveryMemberStands, Zenon
    <2>2. \/ Effect(m) = "Installed" /\ view[Dest(m)] = "new"
          \/ Effect(m) = "Restored" /\ view[Dest(m)] = "old"
          \/ Effect(m) = "Displaced" /\ view[Dest(m)] = "none" /\ view[Entry(m)] = "old"
          \/ Effect(m) = "None" /\ view[Dest(m)] \in IF m \in had THEN {"old"} ELSE {"none", "foreign"}
      <3>1. Untouched(m) => view[Dest(m)] \in IF m \in had THEN {"old"} ELSE {"none", "foreign"}
        BY DEF Untouched
      <3> QED
        BY <2>1, <3>1, EffectOf, Zenon DEF Aside, Whole, Over, Alone, Unbacked, Back, Done
    <2> QED
      BY <2>2, Zenon
  <1>2. ASSUME NEW m \in Members, pc \in Closing
        PROVE  /\ Staging(m)
               /\ result \in {"ok", "unsynced"} => Done(m)
               /\ result \notin {"ok", "unsynced"} => Resolved(m)
    BY <1>2, Zenon DEF PubInv, Place
  <1>3. LeftoversReported
    <2> SUFFICES ASSUME pc = "ended", NEW m \in Members
                 PROVE  /\ (\E n \in {Write(m), StagingBox(m), Backup(m)} : view[n] # "none") => m \in named \cup warned
                        /\ view[Entry(m)] = "old" /\ view[Dest(m)] = "none" => m \in named
      BY Zenon DEF LeftoversReported
    <2>1. pc \in Closing
      BY DEF Closing
    <2>2. Staging(m) /\ (Done(m) \/ Resolved(m))
      BY <1>2, <2>1, Zenon
    <2>3. m \in warned \/ (view[Write(m)] = "none" /\ view[StagingBox(m)] = "none")
      BY <2>2, Zenon DEF Staging, Dropped
    <2>4. view[Backup(m)] = "none" \/ m \in named \/ m \in warned
      BY <2>2, Zenon DEF Done, Resolved, Tidy
    <2>5. view[Entry(m)] = "old" /\ view[Dest(m)] = "none" => m \in named
      BY <2>2 DEF Done, Resolved, Untouched, Back
    <2> QED
      BY <2>3, <2>4, <2>5, Zenon
  <1>4. ASSUME pc \in {"drop", "ended"}, NEW m \in Members
        PROVE  /\ result \in {"ok", "unsynced"} => Effect(m) = "Installed"
               /\ result \in {"error", "panicked"} => Effect(m) \in {"None", "Restored"}
               /\ result = "incomplete" => (Effect(m) \in {"Installed", "Displaced"} <=> m \in named)
    <2>1. pc \in Closing /\ Course
      BY <1>4, Zenon DEF Closing, PubInv
    <2>2. (m \notin named /\ Resolved(m) => Effect(m) \in {"None", "Restored"})
      BY EffectOf, Zenon DEF Resolved
    <2>3. (m \in named /\ Resolved(m) => Effect(m) \in {"Installed", "Displaced"})
      BY EffectOf, Zenon DEF Resolved
    <2>4. result \in {"ok", "unsynced"} => Effect(m) = "Installed"
      BY <1>2, <1>4, <2>1, EffectOf, Zenon
    <2>5. ASSUME result \in {"error", "panicked"}
          PROVE  Effect(m) \in {"None", "Restored"}
      <3>1. m \notin named
        BY <2>1, <2>5, Zenon DEF Course
      <3>2. result \notin {"ok", "unsynced"}
        BY <2>5
      <3> QED
        BY <1>2, <1>4, <2>1, <2>2, <3>1, <3>2, Zenon
    <2>6. ASSUME result = "incomplete"
          PROVE  Effect(m) \in {"Installed", "Displaced"} <=> m \in named
      <3>1. result \notin {"ok", "unsynced"}
        BY <2>6
      <3>2. Effect(m) \in {"None", "Restored"} => Effect(m) \notin {"Installed", "Displaced"}
        OBVIOUS
      <3> QED
        BY <1>2, <1>4, <2>1, <2>2, <2>3, <3>1, <3>2, Zenon
    <2> QED
      BY <2>4, <2>5, <2>6, Zenon
  <1> QED
    BY <1>1, <1>3, <1>4, Zenon DEF ResultIsTrue

\* What a step does to the destinations: it leaves all of them alone; it changes
\* one that is not another process's, with every member's contents durable; or
\* another process creates one.
LEMMA DestinationsMove ==
    ASSUME PubInv, Next
    PROVE  \/ \A m \in Members : view'[Dest(m)] = view[Dest(m)]
           \/ /\ synced = Members
              /\ \E a \in Members : /\ view[Dest(a)] # "foreign"
                                    /\ \A m \in Members : m # a => view'[Dest(m)] = view[Dest(m)]
           \/ \E a \in Members : /\ view[Dest(a)] # "foreign" /\ view'[Dest(a)] = "foreign"
                                 /\ \A m \in Members : m # a => view'[Dest(m)] = view[Dest(m)]
  <1>1. /\ PubType /\ at \in Members /\ view \in [Names -> Contents]
    BY Zenon DEF PubInv, PubType
  <1>2. PICK a \in Members : a = at
    BY <1>1, Zenon
  <1>3. ASSUME NEW from \in Own(a), NEW to \in Own(a), from # to, Rename(from, to)
        PROVE  \A m \in Members : m # a => view'[Dest(m)] = view[Dest(m)]
    <2>1. Own(a) \subseteq Names
      BY OwnNames, Zenon
    <2>2. \A n \in Names : n # from /\ n # to => view'[n] = view[n]
      BY <1>1, <1>3, <2>1, RenameIs, Zenon
    <2>3. \A m \in Members : m # a => Dest(m) \in Names /\ Dest(m) \notin Own(a)
      BY OwnNames, OwnAre, Zenon
    <2> QED
      BY <1>3, <2>2, <2>3, Zenon
  <1>4. ASSUME NEW gone, Remove(gone), \A m \in Members : Dest(m) \notin gone
        PROVE  \A m \in Members : view'[Dest(m)] = view[Dest(m)]
    BY <1>1, <1>4, OwnAre, RemoveIs, Zenon
  <1>5. \A m \in Members : /\ Dest(m) \notin {Write(a)} /\ Dest(m) \notin {Backup(a)} /\ Dest(m) \notin {Backup(a), Entry(a)}
                           /\ Dest(m) \notin {StagingBox(a)} /\ Dest(m) \notin {Write(a), StagingBox(a)}
                           /\ Dest(m) \in Names
    BY Tags, OwnAre, Zenon
  <1>6. ASSUME NEW n \in Names, NEW c \in Contents, view' = [view EXCEPT ![n] = c]
        PROVE  \A m \in Members : Dest(m) # n => view'[Dest(m)] = view[Dest(m)]
    BY <1>1, <1>5, <1>6, PutIs, Zenon
  <1>7. \A m \in Members : m # a => Dest(m) # Dest(a)
    BY Tags, Zenon
  <1>8. "new" \in Contents /\ "box" \in Contents /\ "part" \in Contents /\ "foreign" \in Contents /\ "none" # "foreign"
        /\ "new" # "foreign" /\ "old" # "foreign"
    BY DEF Contents
  <1>9. pc \in Installing \cup Rolling => synced = Members
    BY Zenon DEF PubInv, Course
  <1>10. /\ Dest(a) \in Own(a) /\ Write(a) \in Own(a) /\ Entry(a) \in Own(a) /\ Dest(a) # Write(a) /\ Dest(a) # Entry(a)
         /\ Dest(a) \in Names /\ Backup(a) \in Names /\ Entry(a) \in Names
    BY OwnAre, Zenon
  <1>11. CASE RunHooks \/ Recheck \/ SyncStaged \/ InspectPresent \/ SyncBackup \/ NothingToUndo \/ SyncAfterRollback
              \/ SyncChangedDirs \/ SyncKept \/ Ended
    <2>1. view' = view
      BY <1>11, Zenon DEF RunHooks, Recheck, SyncStaged, InspectPresent, SyncBackup, NothingToUndo, SyncAfterRollback,
                          SyncChangedDirs, SyncKept, Ended, names, vars
    <2> QED
      BY <2>1, Zenon
  <1>12. CASE UnlinkStaging \/ Unreserve \/ RemoveEmptyBackup \/ RemoveStaging \/ ReserveBackup
    <2>1. \/ Remove({Write(a)}) \/ Remove({Backup(a)}) \/ Remove({StagingBox(a)}) \/ view' = view
          \/ view' = [view EXCEPT ![Backup(a)] = "box"]
      BY <1>2, <1>12, Zenon DEF UnlinkStaging, Unreserve, RemoveEmptyBackup, RemoveStaging, ReserveBackup
    <2>2. CASE Remove({Write(a)}) \/ Remove({Backup(a)}) \/ Remove({StagingBox(a)})
      BY <1>4, <1>5, <2>2, Zenon
    <2>3. CASE view' = [view EXCEPT ![Backup(a)] = "box"]
      BY <1>5, <1>6, <1>8, <1>10, <2>3, Zenon
    <2> QED
      BY <2>1, <2>2, <2>3, Zenon
  <1>13. CASE Commit
    <2>1. \/ Remove({Backup(a), Entry(a)}) \/ view' = view \/ view' = [view EXCEPT ![Entry(a)] = "part"]
      BY <1>2, <1>13 DEF Commit, CommitBackup, RemoveBackup, KeepBackup
    <2>2. CASE view' = [view EXCEPT ![Entry(a)] = "part"]
      BY <1>5, <1>6, <1>8, <1>10, <2>2, Zenon
    <2> QED
      BY <1>4, <1>5, <2>1, <2>2, Zenon
  <1>14. CASE DropTarget
    <2>1. DropRemoves(a) \subseteq {Write(a), StagingBox(a)}
      BY DEF DropRemoves
    <2>2. Remove(DropRemoves(a)) \/ view' = view
      BY <1>2, <1>14, Zenon DEF DropTarget
    <2>3. \A m \in Members : Dest(m) \notin DropRemoves(a)
      BY <1>5, <2>1, Zenon
    <2> QED
      BY <1>4, <2>2, <2>3, Zenon
  <1>15. CASE Foreign
    <2>1. PICK k \in Members : view[Dest(k)] = "none" /\ view' = [view EXCEPT ![Dest(k)] = "foreign"]
      BY <1>15, Zenon DEF Foreign
    <2>2. view'[Dest(k)] = "foreign" /\ \A m \in Members : m # k => view'[Dest(m)] = view[Dest(m)]
      BY <1>1, <1>5, <1>6, <1>8, <2>1, Tags, PutIs, Zenon
    <2> QED
      BY <1>8, <2>1, <2>2, Zenon
  <1>16. ASSUME pc \in Installing \cup Rolling, view[Dest(a)] # "foreign",
                \A m \in Members : m # a => view'[Dest(m)] = view[Dest(m)]
         PROVE  /\ synced = Members
                /\ \E k \in Members : /\ view[Dest(k)] # "foreign"
                                      /\ \A m \in Members : m # k => view'[Dest(m)] = view[Dest(m)]
    BY <1>9, <1>16, Zenon
  <1>17. CASE InstallExclusive \/ InstallByLink
    <2>1. pc \in Installing \cup Rolling
      BY <1>17 DEF InstallExclusive, InstallByLink, Installing
    <2>2. \/ view' = view
          \/ view[Dest(a)] = "none" /\ (Rename(Write(a), Dest(a)) \/ view' = [view EXCEPT ![Dest(a)] = "new"])
      BY <1>2, <1>17, Zenon DEF InstallExclusive, InstallByLink
    <2>3. CASE view[Dest(a)] = "none" /\ Rename(Write(a), Dest(a))
      BY <1>3, <1>8, <1>10, <1>16, <2>1, <2>3, Zenon
    <2>4. CASE view[Dest(a)] = "none" /\ view' = [view EXCEPT ![Dest(a)] = "new"]
      BY <1>6, <1>7, <1>8, <1>10, <1>16, <2>1, <2>4, Zenon
    <2> QED
      BY <2>2, <2>3, <2>4, Zenon
  <1>18. CASE MoveAside \/ RenameIntoPlace
    <2>1. pc \in Installing \cup Rolling /\ pc \in Installing /\ pc \in Backing \cup {"rename"} /\ (pc = "aside" \/ pc = "rename")
      BY <1>18 DEF MoveAside, RenameIntoPlace, Installing, Backing
    <2>2. view' = view \/ Rename(Dest(a), Entry(a)) \/ Rename(Write(a), Dest(a))
      BY <1>2, <1>18, Zenon DEF MoveAside, RenameIntoPlace
    <2>3. Handled(a) /\ overwrite = "Replace"
      BY <1>2, <2>1, InstallingFacts, Zenon DEF Course
    <2>4. Untouched(a) \/ Aside(a)
      BY <2>1, <2>3, ZenonT(40) DEF Handled, Clean
    <2>5. view[Dest(a)] # "foreign"
      BY <2>3, <2>4, Zenon DEF Untouched, Aside
    <2> QED
      BY <1>3, <1>10, <1>16, <2>1, <2>2, <2>5, Zenon
  <1>19. CASE RollbackBackedUp \/ UninstallLone \/ UninstallBacked
    <2>1. pc \in Installing \cup Rolling
      BY <1>19 DEF RollbackBackedUp, UninstallLone, UninstallBacked, Rolling
    <2>2. \/ view' = view
          \/ view[Dest(a)] \in {"none", "new"} /\ (Rename(Entry(a), Dest(a)) \/ Remove({Dest(a)}))
      BY <1>2, <1>19, Zenon DEF RollbackBackedUp, UninstallLone, UninstallBacked, Restore
    <2>3. view[Dest(a)] \in {"none", "new"} => view[Dest(a)] # "foreign"
      OBVIOUS
    <2>4. Remove({Dest(a)}) => \A m \in Members : m # a => view'[Dest(m)] = view[Dest(m)]
      <3>1. Remove({Dest(a)}) => \A n \in Names : n \notin {Dest(a)} => view'[n] = view[n]
        BY <1>1, RemoveIs, Zenon
      <3> QED
        BY <1>5, <1>7, <3>1, Zenon
    <2> QED
      BY <1>3, <1>10, <1>16, <2>1, <2>2, <2>3, <2>4, Zenon
  <1> QED
    BY <1>11, <1>12, <1>13, <1>14, <1>15, <1>17, <1>18, <1>19, Zenon DEF Next, Install, Rollback, Finish

LEMMA DestinationsKept ==
    ASSUME PubInv, Next
    PROVE  DestinationStep
  BY DestinationsMove, Zenon DEF DestinationStep
=============================================================================
