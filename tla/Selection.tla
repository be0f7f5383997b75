----------------------------- MODULE Selection ------------------------------
(* The commands that select elements: by ID (getid, removeid, getparents), by *)
(* time (time-filter) and by tags (tags-filter).                              *)
EXTENDS CommandState, TLC

-----------------------------------------------------------------------------
(* commands/getid (getid and removeid) and commands/getparents: elements      *)
(* picked by ID, everything but them, with what they reference, or what       *)
(* references them.  A blob's index also claims the lowest and highest ID.    *)

NoPull == [kind \in AllKinds |-> {}]

Opened == Begin /\ sel = NoPull /\ out = <<>> /\ stats = CountAll(<<>>) @@ [claimed |-> 0, found |-> {}]

Asked(e) == e.id \in job.ids[e.kind]
Pulled(e) == e.id \in sel[e.kind]
AskedKinds == {k \in AllKinds : job.ids[k] # {}}

\* IdSet::any_in_range over the range the blob's index claims.
AnyInRange(b) == b.claim # "none" /\ job.ids[b.claim] \cap (b.lo .. b.hi) # {}

----------------------------------------------------------------------------
(* getid and removeid, one blob after the other.                              *)

\* getid_dispatched, removeid_to, getparents_dispatched: only getparents runs
\* on an unindexed input unasked.  choose_scan_arm, from the host's readings,
\* picks the header walker or the pipelined read.
Dispatch ==
    /\ pc = "enter"
    /\ IF PartlyIndexed(job.file) \/ (job.cmd # "getparents" /\ ~IndexdataPolicy(job.file, job.force))
       THEN Fail /\ UNCHANGED round
       ELSE CASE job.cmd = "getparents" -> (\E arm \in {"walk parents", "parents"} : Goto(arm)) /\ UNCHANGED round
              [] job.cmd = "getid" /\ job.refs -> Goto("relations") /\ UNCHANGED round
              [] OTHER -> (\E arm \in {"walk", "blob"} : Goto(arm)) /\ round' = 1
    /\ UNCHANGED <<job, sel, out, stats>>

\* SelectProbe: getid keeps what is selected, removeid everything else.
Selected(e) == (Asked(e) \/ Pulled(e)) = (job.cmd = "getid")

\* process_block: elements selected, or all others; tags only of asked ones if
\* tags are to be removed; found are the asked IDs met.
ProcessBlock(items) ==
    LET kept == SelectSeq(items, Selected)
    IN [i \in DOMAIN kept |-> IF job.removeTags /\ ~Asked(kept[i]) THEN [kept[i] EXCEPT !.tags = {}] ELSE kept[i]]

Emit(kept) ==
    /\ out' = out \o kept
    /\ stats' = [k \in AllKinds |-> stats[k] + Count(k, kept)]
                @@ [claimed |-> stats.claimed,
                    found |-> stats.found \cup {<<e.kind, e.id>> : e \in {x \in Range(kept) : Asked(x)}}]

\* One blob: getid skips it if its range holds no asked ID; removeid copies its
\* frame unread.
FilterBlob_SkipsToo ==
    /\ round <= Len(job.file)
    /\ LET b == job.file[round] IN
       CASE b.claim # "none" /\ ~AnyInRange(b) -> UNCHANGED <<out, stats, pc, result>>
         [] b.bad \/ Foreign(b) -> Fail /\ UNCHANGED <<out, stats>>
         [] OTHER -> Emit(ProcessBlock(b.items)) /\ UNCHANGED <<pc, result>>
    /\ round' = round + 1 /\ UNCHANGED <<job, sel>>
FilterBlob ==
    /\ round <= Len(job.file)
    /\ LET b == job.file[round] IN
       CASE b.claim # "none" /\ ~AnyInRange(b) /\ job.cmd = "getid" ->
              UNCHANGED <<out, stats, pc, result>>
         [] b.claim # "none" /\ ~AnyInRange(b) /\ job.cmd = "removeid" ->
              /\ out' = out \o b.items
              /\ stats' = [stats EXCEPT !.claimed = @ + Len(b.items)]
              /\ UNCHANGED <<pc, result>>
         [] (b.claim = "none" \/ AnyInRange(b)) /\ (b.bad \/ Foreign(b)) ->
              Fail /\ UNCHANGED <<out, stats>>
         [] OTHER -> Emit(ProcessBlock(b.items)) /\ UNCHANGED <<pc, result>>
    /\ round' = round + 1 /\ UNCHANGED <<job, sel>>

\* filter_by_id_walker reads a blob's payload only where it needs it;
\* filter_by_id_streaming has every frame at hand.
WalkBlob == pc = "walk" /\ FilterBlob
StreamBlob == pc = "blob" /\ FilterBlob

FilterEnd ==
    /\ pc \in {"walk", "blob"} /\ round > Len(job.file) /\ Done
    /\ UNCHANGED <<job, round, sel, out, stats>>

----------------------------------------------------------------------------
(* getid with references. *)

RelationsIn(sched) == Range(Of("relation", Elements(sched)))
MembersOf(rels, kind) == {m[2] : m \in {k \in UNION {r.members : r \in rels} : k[1] = kind}}

\* The worklist of close_relations: children of the asked relations, then of
\* each relation pulled, through the edges of the relations not asked for.
ClosePulled[edges \in SUBSET ((0 .. 3) \X (0 .. 3)), pulled \in SUBSET (0 .. 3), work \in SUBSET (0 .. 3)] ==
    IF work = {} THEN pulled
    ELSE LET id == CHOOSE i \in work : TRUE IN
         IF id \in job.ids["relation"] \cup pulled THEN ClosePulled[edges, pulled, work \ {id}]
         ELSE ClosePulled[edges, pulled \cup {id}, (work \ {id}) \cup {e[2] : e \in {x \in edges : x[1] = id}}]

CloseRelations ==
    /\ pc = "relations"
    /\ LET sched == KindSchedule(job.file, "relation")
           asked == {r \in RelationsIn(sched) : Asked(r)}
           edges == UNION {{<<r.id, c>> : c \in MembersOf({r}, "relation")} : r \in RelationsIn(sched) \ asked}
           more  == ClosePulled[edges, {}, MembersOf(asked, "relation")]
           all   == asked \cup {r \in RelationsIn(sched) : r.id \in more}
       IN IF job.ids["relation"] = {} THEN Goto("way nodes") /\ UNCHANGED sel
          ELSE IF Refused(sched) THEN Fail /\ UNCHANGED sel
          ELSE sel' = ("node" :> MembersOf(all, "node") @@ "way" :> MembersOf(all, "way") @@ "relation" :> more)
               /\ Goto("way nodes")
    /\ UNCHANGED <<job, round, out, stats>>

\* collect_way_nodes over the asked and the pulled ways.
CollectWayNodes ==
    /\ pc = "way nodes"
    /\ LET sched == KindSchedule(job.file, "way")
           ways  == sel["way"] \cup job.ids["way"]
           refs  == UNION {w.refs : w \in {x \in Range(Of("way", Elements(sched))) : x.id \in ways}}
       IN IF ways = {} THEN Goto("write") /\ UNCHANGED sel
          ELSE IF Refused(sched) THEN Fail /\ UNCHANGED sel
          ELSE sel' = [sel EXCEPT !["way"] = ways, !["node"] = @ \cup refs] /\ Goto("write")
    /\ UNCHANGED <<job, round, out, stats>>

WriteSelected ==
    /\ pc = "write"
    /\ LET kinds == AskedKinds \cup {k \in AllKinds : sel[k] # {}}
           sched == SelectSeq(job.file, LAMBDA b : b.claim \in kinds \cup {"none"})
       IN IF Refused(sched) THEN Fail /\ UNCHANGED <<out, stats>>
          ELSE Emit(ProcessBlock(Elements(sched))) /\ Done
    /\ UNCHANGED <<job, round, sel>>

----------------------------------------------------------------------------
(* getparents. *)

\* needed_blob_kinds
NeededBlobKinds ==
    (IF job.addSelf /\ job.ids["node"] # {} THEN {"node"} ELSE {})
    \cup (IF job.ids["node"] # {} \/ (job.addSelf /\ job.ids["way"] # {}) THEN {"way"} ELSE {})
    \cup (IF AskedKinds # {} THEN {"relation"} ELSE {})

IsParent(e) ==
    CASE e.kind = "node" -> FALSE
      [] e.kind = "way"  -> e.refs \cap job.ids["node"] # {}
      [] OTHER           -> \E m \in e.members : m[2] \in job.ids[m[1]]

\* The two arms differ in how they read, not in what they keep.
Parents ==
    /\ LET sched == SelectSeq(job.file, LAMBDA b : b.claim \in NeededBlobKinds \cup {"none"})
           kept  == SelectSeq(Elements(sched), LAMBDA e : IsParent(e) \/ (job.addSelf /\ Asked(e)))
       IN IF Refused(sched) THEN Fail /\ UNCHANGED <<out, stats>> ELSE Emit(kept) /\ Done
    /\ UNCHANGED <<job, round, sel>>

GetparentsWalker == pc = "walk parents" /\ Parents
GetparentsPipelined == pc = "parents" /\ Parents

Next ==
    \/ Dispatch \/ WalkBlob \/ StreamBlob \/ FilterEnd
    \/ CloseRelations \/ CollectWayNodes \/ WriteSelected
    \/ GetparentsWalker \/ GetparentsPipelined

----------------------------------------------------------------------------
(* Properties. *)

AllOf(kind) == Range(Of(kind, Elements(job.file)))
RefRels ==
    LET all == 0 .. 3
        closed(S) == /\ job.ids["relation"] \subseteq S
                     /\ \A r \in AllOf("relation") : r.id \in S => MembersOf({r}, "relation") \subseteq S
    IN {i \in all : \A S \in SUBSET all : closed(S) => i \in S}
RefOf(kind) == job.ids[kind] \cup MembersOf({r \in AllOf("relation") : r.id \in RefRels}, kind)
Wanted(e) ==
    CASE job.cmd = "removeid"   -> ~Asked(e)
      [] job.cmd = "getparents" -> IsParent(e) \/ (job.addSelf /\ Asked(e))
      [] ~job.refs              -> Asked(e)
      [] e.kind = "relation"    -> e.id \in RefRels
      [] e.kind = "way"         -> e.id \in RefOf("way")
      [] OTHER -> e.id \in RefOf("node") \/ \E w \in AllOf("way") : w.id \in RefOf("way") /\ e.id \in w.refs

\* A finished getid, removeid or getparents wrote exactly what its call names:
\* the asked elements (with everything they reference, through any depth and
\* any cycle of relations), all but them, or their parents, in the input's
\* order.  The counts, with what was copied unread, add up to the output, and
\* found reports the asked elements the input has.  It fails only for an
\* unreadable or partly indexed input or missing indexdata.
SelectIsTrue ==
    /\ result = "ok" =>
          LET want == SelectSeq(Elements(job.file), Wanted) IN
          /\ out = [i \in DOMAIN want |-> IF job.removeTags /\ ~Asked(want[i])
                                          THEN [want[i] EXCEPT !.tags = {}] ELSE want[i]]
          /\ stats["node"] + stats["way"] + stats["relation"] + stats.claimed = Len(out)
          /\ job.cmd = "getid" =>
                stats.found = {<<e.kind, e.id>> : e \in {x \in Range(Elements(job.file)) : Asked(x)}}
    /\ result = "failed" =>
          \/ Refused(job.file) \/ PartlyIndexed(job.file)
          \/ job.cmd # "getparents" /\ ~Indexed(job.file) /\ ~job.force

-----------------------------------------------------------------------------
(* commands/time_filter: the state of a file at a cutoff.  A history input is *)
(* grouped by object, version by version; a snapshot is filtered block by     *)
(* block.  An element has a timestamp (-1: none), a version (0: none claimed) *)
(* and is visible or deleted.                                                 *)

\* Of the history: the group in hand (id -1: none yet).  Of the snapshot: the
\* last order key seen, as the element that has it.
NoGroup == [kind |-> "node", id |-> -1, version |-> 0, latest |-> {}]

TimeOpened ==
    /\ Begin /\ sel = NoGroup /\ out = <<>>
    /\ stats = [seen |-> 0, before |-> 0, written |-> 0, deleted |-> 0, none |-> 0]

Ordinal(kind) == CHOOSE k \in 1 .. 3 : Kinds[k] = kind
Before(a, b) ==
    \/ Ordinal(a.kind) < Ordinal(b.kind)
    \/ a.kind = b.kind /\ KeyLess(OsmIdKey(a.id), OsmIdKey(b.id))
Same(a, b) == a.kind = b.kind /\ a.id = b.id

TimeFilterTo ==
    /\ pc = "enter"
    /\ IF ~job.sorted \/ PartlyIndexed(job.file) THEN Fail /\ UNCHANGED round
       ELSE Goto(IF job.history THEN "history" ELSE "snapshot") /\ round' = 1
    /\ UNCHANGED <<job, sel, out, stats>>

----------------------------------------------------------------------------
(* The history. *)

\* flush_group: the last version at or before the cutoff, unless deleted.
FlushGroup(g, o, s) ==
    IF g.latest = {} THEN [out |-> o, stats |-> [s EXCEPT !.none = @ + 1]]
    ELSE LET e == CHOOSE x \in g.latest : TRUE IN
         IF ~e.visible THEN [out |-> o, stats |-> [s EXCEPT !.deleted = @ + 1]]
         ELSE [out |-> Append(o, e), stats |-> [s EXCEPT !.written = @ + 1]]

\* One element of time_filter_history's pass.
HistoryElement_AnyVersion ==
    /\ pc = "history" /\ ~Undecodable(job.file) /\ round <= Len(Elements(job.file))
    /\ LET e == Elements(job.file)[round]
           next == sel.id # -1 /\ Before(sel, e)
           f == IF next THEN FlushGroup(sel, out, stats) ELSE [out |-> out, stats |-> stats]
           g == IF sel.id = -1 \/ next THEN [kind |-> e.kind, id |-> e.id, version |-> e.version, latest |-> {}]
                ELSE [sel EXCEPT !.version = e.version]
       IN IF e.ts = -1 \/ (sel.id # -1 /\ Before(e, sel))
          THEN Fail /\ UNCHANGED <<sel, out, stats>>
          ELSE /\ out' = f.out
               /\ stats' = [f.stats EXCEPT !.seen = @ + 1, !.before = IF e.ts <= job.cutoff THEN @ + 1 ELSE @]
               /\ sel' = IF e.ts <= job.cutoff THEN [g EXCEPT !.latest = {e}] ELSE g
               /\ UNCHANGED <<pc, result>>
    /\ round' = round + 1 /\ UNCHANGED job
HistoryElement ==
    /\ pc = "history" /\ ~Undecodable(job.file) /\ round <= Len(Elements(job.file))
    /\ LET e == Elements(job.file)[round]
           next == sel.id # -1 /\ Before(sel, e)
           f == IF next THEN FlushGroup(sel, out, stats) ELSE [out |-> out, stats |-> stats]
           g == IF sel.id = -1 \/ next THEN [kind |-> e.kind, id |-> e.id, version |-> e.version, latest |-> {}]
                ELSE [sel EXCEPT !.version = e.version]
           refused == \/ e.ts = -1
                      \/ sel.id # -1 /\ Before(e, sel)
                      \/ sel.id # -1 /\ Same(e, sel) /\ ~(sel.version # 0 /\ e.version > sel.version)
       IN IF refused THEN Fail /\ UNCHANGED <<sel, out, stats>>
          ELSE /\ out' = f.out
               /\ stats' = [f.stats EXCEPT !.seen = @ + 1, !.before = IF e.ts <= job.cutoff THEN @ + 1 ELSE @]
               /\ sel' = IF e.ts <= job.cutoff THEN [g EXCEPT !.latest = {e}] ELSE g
               /\ UNCHANGED <<pc, result>>
    /\ round' = round + 1 /\ UNCHANGED job

HistoryEnd ==
    /\ pc = "history"
    /\ IF Undecodable(job.file) THEN Fail /\ UNCHANGED <<out, stats>>
       ELSE /\ round > Len(Elements(job.file))
            /\ LET f == FlushGroup(sel, out, stats) IN
               IF sel.id = -1 THEN UNCHANGED <<out, stats>> ELSE out' = f.out /\ stats' = f.stats
            /\ Done
    /\ UNCHANGED <<job, round, sel>>

----------------------------------------------------------------------------
(* The snapshot: filter_block_snapshot on any thread, then in file order.     *)

InOrder(items) ==
    \A i \in 1 .. Len(items) - 1 : Before(items[i], items[i + 1])

SnapshotBlob ==
    /\ pc = "snapshot" /\ round <= Len(job.file)
    /\ LET b == job.file[round]
           dated == SelectSeq(b.items, LAMBDA e : e.ts <= job.cutoff)
           kept  == SelectSeq(dated, LAMBDA e : e.visible)
           n     == Len(b.items)
           refused == \/ b.bad \/ ~InOrder(b.items) \/ \E e \in Range(b.items) : e.ts = -1
                      \/ n > 0 /\ sel.id # -1 /\ ~Before(sel, b.items[1])
       IN IF refused THEN Fail /\ UNCHANGED <<sel, out, stats>>
          ELSE /\ out' = out \o kept
               /\ stats' = [seen |-> stats.seen + n, before |-> stats.before + Len(dated),
                            written |-> stats.written + Len(kept), none |-> stats.none + n - Len(dated),
                            deleted |-> stats.deleted + Len(dated) - Len(kept)]
               /\ sel' = IF n = 0 THEN sel ELSE [NoGroup EXCEPT !.kind = b.items[n].kind, !.id = b.items[n].id]
               /\ UNCHANGED <<pc, result>>
    /\ round' = round + 1 /\ UNCHANGED job

SnapshotEnd ==
    /\ pc = "snapshot" /\ round > Len(job.file) /\ Done
    /\ UNCHANGED <<job, round, sel, out, stats>>

TimeNext == TimeFilterTo \/ HistoryElement \/ HistoryEnd \/ SnapshotBlob \/ SnapshotEnd

----------------------------------------------------------------------------
(* Properties. *)

\* The object's version of highest number at or before the cutoff.
AtCutoff(e) ==
    /\ e.ts <= job.cutoff
    /\ \A x \in Range(Elements(job.file)) : Same(x, e) /\ x.ts <= job.cutoff => x.version <= e.version

\* A finished time-filter wrote, of every object, the highest version dated at
\* or before the cutoff unless that version deletes it, once and in the file's
\* order, and its counts account for every object.  It fails only where the
\* input's order or dates leave that undefined: unsorted, an object twice in a
\* snapshot, versions not ascending, an element without a timestamp.
TimeFilterIsTrue ==
    LET all == Elements(job.file) IN
    /\ result = "ok" =>
          /\ out = SelectSeq(all, LAMBDA e : AtCutoff(e) /\ e.visible)
          /\ stats.seen = Len(all)
          /\ stats.written = Len(out)
          /\ stats.written + stats.deleted + stats.none = Cardinality({<<e.kind, e.id>> : e \in Range(all)})
    /\ result = "failed" =>
          \/ ~job.sorted \/ PartlyIndexed(job.file) \/ Undecodable(job.file)
          \/ \E e \in Range(all) : e.ts = -1
          \/ \E i \in 1 .. Len(all) - 1 :
                \/ Before(all[i + 1], all[i])
                \/ Same(all[i], all[i + 1]) /\ (job.history => ~(all[i].version # 0 /\ all[i + 1].version > all[i].version))

-----------------------------------------------------------------------------
(* commands/tags_filter: the elements whose tags match an expression, with    *)
(* or without what they reference, and the same selection over an OsmChange   *)
(* file.  An expression names kinds and a key; "*" stands for a key matcher   *)
(* that the tag index cannot decide.                                          *)

NoSets == [nodes |-> {}, directWays |-> {}, ways |-> {}, directRels |-> {}, rels |-> {},
           wayNodes |-> {}, relNodes |-> {}]

TagsOpened == Begin /\ sel = NoSets /\ out = <<>> /\ stats = <<>>

\* element_matches: any tag under any expression that admits the kind.
ElementMatches(e) ==
    \E x \in job.exprs : e.kind \in x.kinds /\ IF x.key = "*" THEN e.tags # {} ELSE x.key \in e.tags
Chosen(e) == ElementMatches(e) # job.invert

----------------------------------------------------------------------------
(* Skipping blobs by their index. *)

NoFilter == [kinds |-> AllKinds, keys |-> {}]

\* blob_filter_from_expressions: one undecidable key drops the key filter.
BlobFilterFromExpressions_KeepsKeys ==
    [kinds |-> UNION {x.kinds : x \in job.exprs}, keys |-> {x.key : x \in job.exprs}]
BlobFilterFromExpressions ==
    [kinds |-> UNION {x.kinds : x \in job.exprs},
     keys  |-> IF \E x \in job.exprs : x.key = "*" THEN {} ELSE {x.key : x \in job.exprs}]

\* An inverted match, or a distrusted index, skips nothing.
TrustedBlobFilter == IF job.invert \/ job.distrust THEN NoFilter ELSE BlobFilterFromExpressions

UsesIndex(filter) == filter.kinds # AllKinds

\* blob_filter_check: by the index's kind, then by the tag index if there is one.
WantsBlob(filter, b) ==
    /\ b.claim \in filter.kinds \cup {"none"}
    /\ filter.keys = {} \/ ~b.tagged \/ filter.keys \cap b.keys # {}

Kept(filter) == SelectSeq(job.file, LAMBDA b : WantsBlob(filter, b))

\* kind_claims: a distrusted index is not held against the block either.
Unreadable(sched) == IF job.distrust THEN Undecodable(sched) ELSE Refused(sched)

RequiresIndexdata ==
    ~job.invert /\ ~job.distrust /\ (job.refs \/ UsesIndex(TrustedBlobFilter))

----------------------------------------------------------------------------
(* The PBF command. *)

TagsFilterTo ==
    /\ pc = "enter"
    /\ IF PartlyIndexed(job.file) \/ (RequiresIndexdata /\ ~IndexdataPolicy(job.file, job.force))
       THEN Fail ELSE Goto(IF job.refs THEN "pass1" ELSE "single")
    /\ UNCHANGED <<job, round, sel, out, stats>>

SinglePass ==
    /\ pc = "single"
    /\ LET sched == Kept(TrustedBlobFilter)
           kept  == SelectSeq(Elements(sched), Chosen)
       IN IF Unreadable(sched) THEN Fail /\ UNCHANGED <<out, stats>>
          ELSE out' = kept /\ stats' = CountAll(kept) /\ Done
    /\ UNCHANGED <<job, round, sel>>

\* The first pass: what matches directly, and the nodes of the matched ways.
Classify ==
    /\ pc = "pass1"
    /\ LET sched == Kept(TrustedBlobFilter)
           hits  == SelectSeq(Elements(sched), Chosen)
           ways  == Ids("way", hits)
           rels  == Ids("relation", hits)
       IN IF Unreadable(sched) THEN Fail /\ UNCHANGED sel
          ELSE /\ sel' = [NoSets EXCEPT !.nodes = Ids("node", hits), !.directWays = ways, !.ways = ways,
                              !.directRels = rels, !.rels = rels,
                              !.wayNodes = UNION {w.refs : w \in Range(Of("way", hits))}]
               /\ Goto(IF rels = {} THEN "way deps" ELSE "closure")
    /\ UNCHANGED <<job, round, out, stats>>

ScheduleOf(kind) == IF job.distrust THEN job.file ELSE KindSchedule(job.file, kind)

\* collect_relation_member_closure: one scan of the relations per round, until
\* a round adds none.
CollectRelationMemberClosure ==
    /\ pc = "closure"
    /\ LET sched   == ScheduleOf("relation")
           members == UNION {r.members : r \in {x \in Range(Of("relation", Elements(sched))) : x.id \in sel.rels}}
           of(kind) == {m[2] : m \in {k \in members : k[1] = kind}}
       IN IF Unreadable(sched) THEN Fail /\ UNCHANGED sel
          ELSE /\ sel' = [sel EXCEPT !.relNodes = @ \cup of("node"), !.ways = @ \cup of("way"),
                                     !.rels = @ \cup of("relation")]
               /\ Goto(IF of("relation") \subseteq sel.rels THEN "way deps" ELSE "closure")
    /\ UNCHANGED <<job, round, out, stats>>

\* collect_way_node_dependencies: the ways that only relations brought in.
CollectWayNodeDependencies ==
    /\ pc = "way deps"
    /\ LET sched == ScheduleOf("way")
           ways  == {w \in Range(Of("way", Elements(sched))) : w.id \in sel.ways \ sel.directWays}
       IN IF Unreadable(sched) THEN Fail /\ UNCHANGED sel
          ELSE sel' = [sel EXCEPT !.relNodes = @ \cup UNION {w.refs : w \in ways}] /\ Goto("pass2")
    /\ UNCHANGED <<job, round, out, stats>>

Direct(e) ==
    CASE e.kind = "node" -> e.id \in sel.nodes
      [] e.kind = "way"  -> e.id \in sel.directWays
      [] OTHER           -> e.id \in sel.directRels
Included(e) ==
    CASE e.kind = "node" -> e.id \in sel.nodes \cup sel.wayNodes \cup sel.relNodes
      [] e.kind = "way"  -> e.id \in sel.ways
      [] OTHER           -> e.id \in sel.rels

\* filter_block_pass2: what was only brought in loses its tags if asked.
FilterBlockPass2(items) ==
    LET kept == SelectSeq(items, Included)
    IN [i \in DOMAIN kept |-> IF job.removeTags /\ ~Direct(kept[i]) THEN [kept[i] EXCEPT !.tags = {}] ELSE kept[i]]

Pass2 ==
    /\ pc = "pass2"
    /\ LET filter == IF job.invert \/ job.distrust THEN NoFilter
                     ELSE [kinds |-> {"node"} \cup (IF sel.ways # {} THEN {"way"} ELSE {})
                                              \cup (IF sel.rels # {} THEN {"relation"} ELSE {}), keys |-> {}]
           sched  == Kept(filter)
           kept   == FilterBlockPass2(Elements(sched))
       IN IF Unreadable(sched) THEN Fail /\ UNCHANGED <<out, stats>>
          ELSE /\ out' = kept
               /\ stats' = CountAll(SelectSeq(kept, Direct)) @@ 
                           [fromWays |-> Len(SelectSeq(kept, LAMBDA e : ~Direct(e) /\ e.kind = "node" /\ e.id \in sel.wayNodes)),
                            fromRels |-> Len(SelectSeq(kept, LAMBDA e : ~Direct(e) /\ ~(e.kind = "node" /\ e.id \in sel.wayNodes)))]
               /\ Done
    /\ UNCHANGED <<job, round, sel>>

----------------------------------------------------------------------------
(* tags_filter_osc: batches of changes, filtered in parallel into nine groups *)
(* (action, then kind), and written group by group in the input's order.      *)

Groups == <<"create", "modify", "delete">>

\* FilterBytes::end_element: a deletion carries no tags and is always kept.
KeepChange(c) == c.action = "delete" \/ ElementMatches(c)

FilterBatch(batch) ==
    [g \in {"create", "modify", "delete"} \X AllKinds |->
        SelectSeq(batch, LAMBDA c : c.action = g[1] /\ c.kind = g[2] /\ KeepChange(c))]

FilterOsc ==
    /\ pc = "enter" /\ Goto("groups")
    /\ sel' = [b \in DOMAIN job.batches |-> FilterBatch(job.batches[b])]
    /\ UNCHANGED <<job, round, out, stats>>

\* write_groups
WriteGroups ==
    /\ pc = "groups"
    /\ LET group(g) == FlattenSeq([b \in DOMAIN sel |-> sel[b][<<Groups[(g + 2) \div 3], Kinds[((g - 1) % 3) + 1]>>]])
           all == FlattenSeq([g \in 1 .. 9 |-> group(g)])
           in  == FlattenSeq(job.batches)
           per(items) == [a \in Range(Groups) |-> Len(SelectSeq(items, LAMBDA c : c.action = a))]
       IN out' = all /\ stats' = [in |-> per(in), out |-> per(SelectSeq(in, KeepChange))]
    /\ Done
    /\ UNCHANGED <<job, round, sel>>

TagsNext ==
    \/ job.cmd = "tags-filter" /\ (\/ TagsFilterTo \/ SinglePass \/ Classify
                                   \/ CollectRelationMemberClosure \/ CollectWayNodeDependencies \/ Pass2)
    \/ job.cmd = "tags-filter-osc" /\ (FilterOsc \/ WriteGroups)

----------------------------------------------------------------------------
(* Properties. *)

TagsAllOf(kind) == Range(Of(kind, Elements(job.file)))
TagsRefRels ==
    LET all == Ids("relation", Elements(job.file)) \cup {3}
        closed(S) == /\ \A r \in TagsAllOf("relation") : Chosen(r) => r.id \in S
                     /\ \A r \in TagsAllOf("relation") : r.id \in S =>
                            \A m \in r.members : m[1] = "relation" => m[2] \in S
    IN {i \in all : \A S \in SUBSET all : closed(S) => i \in S}
RefMembers(kind) ==
    {m[2] : m \in {k \in UNION {r.members : r \in {x \in TagsAllOf("relation") : x.id \in TagsRefRels}} : k[1] = kind}}
RefWay(w) == Chosen(w) \/ w.id \in RefMembers("way")
RefIncluded(e) ==
    \/ Chosen(e)
    \/ /\ job.refs
       /\ CASE e.kind = "node" -> e.id \in RefMembers("node") \/ \E w \in TagsAllOf("way") : RefWay(w) /\ e.id \in w.refs
            [] e.kind = "way"  -> RefWay(e)
            [] OTHER           -> e.id \in TagsRefRels

\* A finished tags-filter wrote exactly the matching elements and, if asked,
\* everything they reference through any depth of relations, in the input's
\* order, whatever blobs true indexes let it skip, and under distrust-metadata
\* whatever the indexes say; only matching elements keep
\* their tags under remove-tags; the counts add up to what was written.  It
\* fails only for an unreadable or partly indexed input, or one without the
\* indexdata it needs.  A filtered OsmChange holds the matching changes and
\* every deletion, each action's in node, way, relation order, stable.
FilterIsTrue ==
    /\ result = "ok" /\ job.cmd = "tags-filter" /\ (job.distrust \/ ~\E b \in Range(job.file) : Foreign(b)) =>
          LET want == SelectSeq(Elements(job.file), RefIncluded) IN
          /\ out = [i \in DOMAIN want |-> IF job.refs /\ job.removeTags /\ ~Chosen(want[i])
                                          THEN [want[i] EXCEPT !.tags = {}] ELSE want[i]]
          /\ stats["node"] + stats["way"] + stats["relation"]
                + (IF job.refs THEN stats.fromWays + stats.fromRels ELSE 0) = Len(out)
    /\ result = "ok" /\ job.cmd = "tags-filter-osc" =>
          LET all == FlattenSeq(job.batches) IN
          /\ \A a \in Range(Groups), k \in AllKinds :
                LET of(items) == SelectSeq(items, LAMBDA c : c.action = a /\ c.kind = k)
                IN of(out) = SelectSeq(of(all), KeepChange)
          /\ \A i, j \in DOMAIN out : i < j =>
                LET rank(c) == 3 * (CHOOSE a \in 1 .. 3 : Groups[a] = c.action) + (CHOOSE k \in 1 .. 3 : Kinds[k] = c.kind)
                IN rank(out[i]) <= rank(out[j])
          /\ \A a \in Range(Groups) : stats.out[a] = Len(SelectSeq(out, LAMBDA c : c.action = a))
    /\ result = "failed" =>
          \/ Refused(job.file) \/ PartlyIndexed(job.file)
          \/ ~Indexed(job.file) /\ ~job.force /\ ~job.invert /\ ~job.distrust
=============================================================================
