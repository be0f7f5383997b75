------------------------------ MODULE Inspect -------------------------------
(* commands/inspect: the report on a file, from its blob headers alone where  *)
(* every blob has an index, otherwise from its blocks; one element by its ID; *)
(* the statistics of node coordinates; and the counts of tags.                *)
(*                                                                            *)
(* A frame has a type, an index (claim "none": none) with its lowest and      *)
(* highest ID and count, and its block's groups.  A group is a sequence of    *)
(* elements in wire order: [kind, dense, id, tags (whether each resolves), at *)
(* (a coordinate), locs (their number), meta ([version, time, user])].        *)
EXTENDS CommandState, TLC

NoRange == [n |-> 0, lo |-> 0, hi |-> 0, ordered |-> TRUE, first |-> 0, last |-> 0]
NoExtent == [n |-> 0, lo |-> 0, hi |-> 0]
NoMeta == [total |-> 0, version |-> 0, time |-> 0, user |-> 0]

\* ScanState::new, ExtendedStats::new
NewState ==
    [count |-> [k \in AllKinds |-> 0], tagged |-> 0, ids |-> [k \in AllKinds |-> NoRange],
     with |-> 0, without |-> 0, coords |-> <<>>, box |-> NoExtent, times |-> NoExtent, meta |-> NoMeta]

\* OrderingSummary::new, BlockAccum::new
BlockKinds == {"node", "way", "relation", "mixed"}
NewAccum ==
    [blocks |-> [k \in BlockKinds |-> 0], elements |-> [k \in BlockKinds |-> 0], infos |-> <<>>,
     current |-> "none", segments |-> 0, standard |-> TRUE, head |-> <<>>]
HeadSegments == 4

Opened ==
    /\ Begin /\ out = <<>>
    /\ sel = [state |-> NewState, accum |-> NewAccum, indexed |-> 0, total |-> 0, work |-> <<>>] /\ stats = <<>>

----------------------------------------------------------------------------
(* Ranges of IDs. *)

\* TypeIdRange::update, update_from_blob and append
Update(r, id) ==
    [n |-> r.n + 1, lo |-> IF r.n = 0 \/ id < r.lo THEN id ELSE r.lo, hi |-> IF r.n = 0 \/ id > r.hi THEN id ELSE r.hi,
     ordered |-> r.ordered /\ ~(r.n > 0 /\ id <= r.last), first |-> IF r.n = 0 THEN id ELSE r.first, last |-> id]
UpdateFromBlob(r, lo, hi, n) ==
    [n |-> r.n + n, lo |-> IF r.n = 0 \/ lo < r.lo THEN lo ELSE r.lo, hi |-> IF r.n = 0 \/ hi > r.hi THEN hi ELSE r.hi,
     ordered |-> r.ordered /\ ~(r.n > 0 /\ lo <= r.last), first |-> IF r.n = 0 THEN lo ELSE r.first, last |-> hi]
AppendRange(r, part) ==
    IF part.n = 0 THEN r
    ELSE [n |-> r.n + part.n, lo |-> IF r.n = 0 \/ part.lo < r.lo THEN part.lo ELSE r.lo,
          hi |-> IF r.n = 0 \/ part.hi > r.hi THEN part.hi ELSE r.hi,
          ordered |-> r.ordered /\ part.ordered /\ ~(r.n > 0 /\ part.first <= r.last),
          first |-> IF r.n = 0 THEN part.first ELSE r.first, last |-> part.last]

\* DataBbox::update and the timestamps' range
Widen(x, v) == [n |-> x.n + 1, lo |-> IF x.n = 0 \/ v < x.lo THEN v ELSE x.lo, hi |-> IF x.n = 0 \/ v > x.hi THEN v ELSE x.hi]
JoinExtent(x, y) ==
    IF x.n = 0 THEN y ELSE IF y.n = 0 THEN x
    ELSE [n |-> x.n + y.n, lo |-> Min({x.lo, y.lo}), hi |-> Max({x.hi, y.hi})]

----------------------------------------------------------------------------
(* One block. *)

\* UserNames::names: an index into the table of an entry that is not empty;
\* user 0 stands for the empty entry, -1 for an index past the table.
NamesUser(user) == user > 0

\* count_metadata
CountMetadata(s, m) ==
    [s EXCEPT !.meta = [total |-> @.total, version |-> @.version + IF m.version >= 1 THEN 1 ELSE 0,
                        time |-> @.time + IF m.time # 0 THEN 1 ELSE 0, user |-> @.user + IF NamesUser(m.user) THEN 1 ELSE 0],
              !.times = IF m.time # 0 THEN Widen(@, m.time) ELSE @]

\* InspectProjection::census_info: an element without metadata counts as one.
CensusInfo(s, e) ==
    IF ~job.extended THEN s
    ELSE LET t == [s EXCEPT !.meta.total = @ + 1] IN IF e.meta = <<>> THEN t ELSE CountMetadata(t, e.meta[1])

FirstTagResolves(e) == e.tags # <<>> /\ e.tags[1]
WantIds == job.ids \/ job.extended

\* InspectProjection::node, way, relation and dense; plain and dense nodes of a
\* group keep ID ranges of their own until the group ends.
ProjectNode(g, e) ==
    [g EXCEPT !.state = CensusInfo([@ EXCEPT !.count["node"] = @ + 1, !.tagged = @ + IF FirstTagResolves(e) THEN 1 ELSE 0,
                                            !.box = IF job.extended THEN Widen(@, e.at) ELSE @], e),
              !.plain = IF WantIds THEN Update(@, e.id) ELSE @]
ProjectDense(g, es) ==
    LET one(s, e) == CensusInfo([s EXCEPT !.box = IF job.extended THEN Widen(@, e.at) ELSE @], e)
    IN [g EXCEPT !.state = FoldLeft(one, [@ EXCEPT !.count["node"] = @ + Len(es),
                                                   !.tagged = @ + Len(SelectSeq(es, FirstTagResolves))], es),
                 !.dense = IF WantIds THEN FoldLeft(LAMBDA r, e : Update(r, e.id), @, es) ELSE @]
ProjectWay(g, e) ==
    [g EXCEPT !.state = CensusInfo([@ EXCEPT !.count["way"] = @ + 1, !.ids["way"] = IF WantIds THEN Update(@, e.id) ELSE @,
                                            !.with = @ + IF job.locations /\ e.locs > 0 THEN 1 ELSE 0,
                                            !.without = @ + IF job.locations /\ e.locs = 0 THEN 1 ELSE 0,
                                            !.coords = IF job.locations /\ e.locs > 0 THEN Append(@, e.locs) ELSE @], e)]
ProjectRelation(g, e) ==
    [g EXCEPT !.state = CensusInfo([@ EXCEPT !.count["relation"] = @ + 1, !.ids["relation"] = IF WantIds THEN Update(@, e.id) ELSE @], e)]

\* group_begin to group_end
ProjectGroup(s, group) ==
    LET dense == SelectSeq(group, LAMBDA e : e.dense)
        step(g, e) == IF e.kind = "way" THEN ProjectWay(g, e) ELSE IF e.kind = "relation" THEN ProjectRelation(g, e) ELSE ProjectNode(g, e)
        begun == [state |-> s, plain |-> NoRange, dense |-> NoRange]
        ended == FoldLeft(step, ProjectDense(begun, dense), SelectSeq(group, LAMBDA e : ~e.dense))
    IN [ended.state EXCEPT !.ids["node"] = AppendRange(AppendRange(@, ended.dense), ended.plain)]

\* classify_block
ClassifyBlock(kinds) == IF Cardinality(kinds) = 1 THEN CHOOSE k \in kinds : TRUE ELSE "mixed"

\* scan_block_buffer: the block's own state, kind and number of elements.
ScanBlock(f) ==
    LET all == FlattenSeq(f.groups)
    IN [state |-> FoldLeft(ProjectGroup, NewState, f.groups), kind |-> ClassifyBlock({e.kind : e \in Range(all)}), elements |-> Len(all)]

\* ScanState::append, ExtendedStats::append
AppendState(s, p) ==
    [count |-> [k \in AllKinds |-> s.count[k] + p.count[k]], tagged |-> s.tagged + p.tagged,
     ids |-> [k \in AllKinds |-> AppendRange(s.ids[k], p.ids[k])], with |-> s.with + p.with, without |-> s.without + p.without,
     coords |-> s.coords \o p.coords, box |-> JoinExtent(s.box, p.box), times |-> JoinExtent(s.times, p.times),
     meta |-> [x \in DOMAIN NoMeta |-> s.meta[x] + p.meta[x]]]

----------------------------------------------------------------------------
(* The blocks' accumulator. *)

Rank(kind) == CASE kind = "node" -> 1 [] kind = "way" -> 2 [] kind = "relation" -> 3 [] OTHER -> 0

\* OrderingSummary::observe
Observe(a, kind, block) ==
    IF a.current = kind
    THEN IF a.segments <= HeadSegments THEN [a EXCEPT !.head[Len(a.head)].last = block] ELSE a
    ELSE [a EXCEPT !.standard = @ /\ Rank(kind) > Rank(a.current), !.current = kind, !.segments = @ + 1,
                   !.head = IF Len(@) < HeadSegments THEN Append(@, [kind |-> kind, first |-> block, last |-> block]) ELSE @]

Accumulate(a, kind, elements, block) ==
    Observe([a EXCEPT !.blocks[kind] = @ + 1, !.elements[kind] = @ + elements,
                      !.infos = IF job.blocks THEN Append(@, [number |-> block, kind |-> kind, elements |-> elements]) ELSE @],
            kind, block)

\* accumulate_from_index
AccumulateFromIndex(f, block) ==
    [sel EXCEPT !.state.count[f.claim] = @ + f.count, !.accum = Accumulate(@, f.claim, f.count, block), !.total = block,
                !.state.ids[f.claim] = IF job.ids THEN UpdateFromBlob(@, f.lo, f.hi, f.count) ELSE @]

----------------------------------------------------------------------------
(* The two scans. *)

InspectInner ==
    /\ pc = "enter" /\ job.cmd = "inspect"
    /\ IF job.file = <<>> \/ job.file[1].type # "header" THEN Fail
       ELSE Goto(IF job.locations \/ job.extended \/ job.distrust THEN "full" ELSE "index")
    /\ round' = 1 /\ UNCHANGED <<job, sel, out, stats>>

\* try_index_only_scan: the first blob without an index gives the scan up.
TryIndexOnlyScan ==
    /\ pc = "index" /\ round <= Len(job.file)
    /\ LET f == job.file[round] IN
       CASE f.type # "data" -> round' = round + 1 /\ UNCHANGED <<sel, pc, result>>
         [] f.type = "data" /\ f.claim = "none" ->
              /\ round' = 1 /\ Goto("full") /\ sel' = [sel EXCEPT !.state = NewState, !.accum = NewAccum, !.total = 0]
         [] OTHER -> round' = round + 1 /\ sel' = AccumulateFromIndex(f, sel.total + 1) /\ UNCHANGED <<pc, result>>
    /\ UNCHANGED <<job, out, stats>>

\* full_decode_scan takes the blobs' summaries in the file's order.
FullDecodeScan ==
    /\ pc = "full" /\ round <= Len(job.file)
    /\ LET f == job.file[round] IN
       IF f.type # "data" THEN UNCHANGED <<sel, pc, result>>
       ELSE IF f.bad THEN Fail /\ UNCHANGED sel
       ELSE \E b \in {ScanBlock(f)} :
            /\ sel' = [sel EXCEPT !.state = AppendState(@, b.state), !.accum = Accumulate(@, b.kind, b.elements, sel.total + 1),
                                  !.total = @ + 1, !.indexed = @ + IF f.claim # "none" THEN 1 ELSE 0]
            /\ UNCHANGED <<pc, result>>
    /\ round' = round + 1 /\ UNCHANGED <<job, out, stats>>

\* median_elements_for_kind, anomaly_blocks
Sorted(values) == SortSeq(values, LAMBDA x, y : x < y)
Median(infos, kind) ==
    LET mine == Sorted([i \in DOMAIN SelectSeq(infos, LAMBDA x : x.kind = kind) |-> SelectSeq(infos, LAMBDA x : x.kind = kind)[i].elements])
    IN mine[(Len(mine) \div 2) + 1]
AnomalyBlocks(infos) ==
    LET why(x) == CASE x.kind = "mixed" -> "mixed"
                    [] x.kind # "mixed" /\ x.elements * 2 < Median(infos, x.kind) -> "small"
                    [] x.kind # "mixed" /\ x.elements > (Median(infos, x.kind) * 3) \div 2 -> "large"
                    [] OTHER -> "none"
        odd    == SelectSeq(infos, LAMBDA x : why(x) # "none")
    IN [i \in DOMAIN odd |-> <<odd[i].number, why(odd[i])>>]

\* write_block_table_refs: the first and the last rows of a long table.
WriteBlockTable(infos) ==
    LET n == Len(infos) IN
    IF job.limit > 0 /\ job.limit * 2 < n THEN SubSeq(infos, 1, job.limit) \o SubSeq(infos, n - job.limit + 1, n) ELSE infos
\* blocks_detail_json
BlocksDetailJson(infos) ==
    IF ~job.blocks THEN <<>> ELSE IF job.anomalies THEN AnomalyBlocks(infos)
    ELSE LET n == Len(infos)
             truncate == job.limit > 0 /\ job.limit * 2 < n
         IN SelectSeq(infos, LAMBDA i : ~truncate \/ i.number <= job.limit \/ i.number > n - job.limit)

\* write_distribution_line
DistributionLine(values) ==
    LET s == Sorted(values)  n == Len(s) IN <<s[1], s[n], s[(n \div 2) + 1], s[(((n - 1) * 99) \div 100) + 1]>>
WriteBlockDistribution(infos) ==
    LET mine(k) == SelectSeq(infos, LAMBDA x : x.kind = k)
    IN [k \in {i.kind : i \in Range(infos)} |-> DistributionLine([i \in DOMAIN mine(k) |-> mine(k)[i].elements])]
\* write_locations, locations_json
WriteLocations(s) ==
    IF s.with + s.without = 0 THEN <<0, 0, <<>>>>
    ELSE <<s.with, s.without, IF s.coords = <<>> THEN <<>> ELSE DistributionLine(s.coords)>>
LocationsJson(s) == <<s.with, s.without, IF s.coords = <<>> THEN <<>> ELSE DistributionLine(s.coords)>>

\* MetadataCoverage
AllHave(m, field) == m.total > 0 /\ m[field] = m.total
SomeHave(m, field) == m[field] > 0
Fields == {"version", "time", "user"}
ObjectsOrdered(a, s) == a.standard /\ \A k \in AllKinds : s.ids[k].n = 0 \/ s.ids[k].ordered

\* write_metadata_line and metadata_json
WriteMetadataLine(m, all) == {f \in Fields : m.total > 0 /\ IF all THEN AllHave(m, f) ELSE SomeHave(m, f)}
MetadataJson(m) == [all |-> {f \in Fields : AllHave(m, f)}, some |-> {f \in Fields : SomeHave(m, f)}]

\* write_extended and extended_json: nothing of a range without data.
WriteExtended(a, s) ==
    [ordered |-> ObjectsOrdered(a, s), times |-> s.times, box |-> s.box,
     all |-> WriteMetadataLine(s.meta, TRUE), some |-> WriteMetadataLine(s.meta, FALSE)]
ExtendedJson(a, s) == [ordered |-> ObjectsOrdered(a, s), times |-> s.times, box |-> s.box] @@ MetadataJson(s.meta)
\* write_id_ranges and id_ranges_json
WriteIdRanges(s) == [k \in {x \in AllKinds : s.ids[x].n > 0} |-> s.ids[k]]
IdRangesJson(s) == [k \in AllKinds |-> IF s.ids[k].n > 0 THEN s.ids[k] ELSE NoRange]
\* write_ordering
WriteOrdering(a) == [standard |-> a.standard, head |-> a.head, omitted |-> a.segments - Len(a.head)]

\* write_report_filtered
WriteReport(indexed) ==
    LET a == sel.accum  s == sel.state IN
    [indexed |-> indexed, total |-> sel.total, blocks |-> a.blocks, elements |-> a.elements, count |-> s.count, tagged |-> s.tagged,
     ordering |-> WriteOrdering(a), ids |-> IF WantIds THEN WriteIdRanges(s) ELSE <<>>,
     spread |-> IF job.blocks THEN WriteBlockDistribution(a.infos) ELSE <<>>,
     rows |-> IF ~job.blocks THEN <<>> ELSE IF job.anomalies THEN AnomalyBlocks(a.infos) ELSE WriteBlockTable(a.infos),
     locations |-> IF job.locations THEN WriteLocations(s) ELSE <<>>, data |-> IF job.extended THEN WriteExtended(a, s) ELSE <<>>]
\* to_json_filtered
ToJson(indexed) ==
    LET a == sel.accum  s == sel.state IN
    [indexed |-> indexed, total |-> sel.total, blocks |-> a.blocks, elements |-> a.elements, count |-> s.count, tagged |-> s.tagged,
     standard |-> a.standard, segments |-> a.segments, head |-> a.head, ids |-> IF WantIds THEN IdRangesJson(s) ELSE <<>>,
     detail |-> BlocksDetailJson(a.infos), locations |-> IF job.locations THEN LocationsJson(s) ELSE <<>>,
     data |-> IF job.extended THEN ExtendedJson(a, s) ELSE <<>>]

\* INSPECT_GET_KEYS: what a key needs, and get_value; {} is no value.
HeaderKeys == {"file.size"}
ScanKeys == {"indexed", "blocks.total", "elements.total"}
ExtendedKeys == {"data.ordered", "data.bbox", "metadata.all.version", "metadata.some.user"}
Need(key) == IF key \in HeaderKeys THEN "header" ELSE IF key \in ScanKeys THEN "scan" ELSE "extended"
GetExtendedValue(key, a, s) ==
    IF ~job.extended THEN {}
    ELSE {CASE key = "data.ordered" -> ObjectsOrdered(a, s)
            [] key = "data.bbox" -> s.box.n > 0
            [] key = "metadata.all.version" -> AllHave(s.meta, "version")
            [] OTHER -> SomeHave(s.meta, "user")}
GetValue(key, indexed) ==
    LET s == sel.state IN
    CASE key = "file.size" -> {Len(job.file)}
      [] key = "indexed" -> {indexed}
      [] key = "blocks.total" -> {sel.total}
      [] key = "elements.total" -> {s.count["node"] + s.count["way"] + s.count["relation"]}
      [] OTHER -> GetExtendedValue(key, sel.accum, s)

Rendered(indexed) ==
    /\ stats' = [text |-> WriteReport(indexed), json |-> ToJson(indexed),
                 values |-> [key \in HeaderKeys \cup ScanKeys \cup ExtendedKeys |-> GetValue(key, indexed)]]
    /\ Done
EndIndexOnly ==
    /\ pc = "index" /\ round > Len(job.file)
    /\ Rendered(TRUE) /\ UNCHANGED <<job, round, sel, out>>
EndFullDecode ==
    /\ pc = "full" /\ round > Len(job.file)
    /\ Rendered(sel.total > 0 /\ sel.indexed = sel.total) /\ UNCHANGED <<job, round, sel, out>>

----------------------------------------------------------------------------
(* One element. *)

ShowElementInner ==
    /\ pc = "enter" /\ job.cmd = "show-element"
    /\ IF job.file = <<>> \/ job.file[1].type # "header" THEN Fail ELSE Goto("show")
    /\ round' = 1 /\ UNCHANGED <<job, sel, out, stats>>

Found(f) == \E e \in Range(FlattenSeq(f.groups)) : e.kind = job.kind /\ e.id = job.id
SkipsBlob(f) == f.claim # "none" /\ (f.claim # job.kind \/ job.id < f.lo \/ job.id > f.hi)
\* Past the target in a sorted file.
PastTarget(f) == f.claim = job.kind /\ job.sorted /\ job.id >= 0 /\ f.lo > job.id

ShowStep ==
    /\ pc = "show"
    /\ IF round > Len(job.file) THEN out' = <<"not found">> /\ Done
       ELSE LET f == job.file[round] IN
            CASE f.type # "data" -> UNCHANGED <<out, pc, result>>
              [] f.type = "data" /\ PastTarget(f) -> out' = <<"not found">> /\ Done
              [] f.type = "data" /\ ~PastTarget(f) /\ SkipsBlob(f) -> UNCHANGED <<out, pc, result>>
              [] OTHER -> IF f.bad THEN Fail /\ UNCHANGED out
                          ELSE IF Found(f) THEN out' = <<"found">> /\ Done ELSE UNCHANGED <<out, pc, result>>
    /\ round' = round + 1 /\ UNCHANGED <<job, sel, stats>>

----------------------------------------------------------------------------
(* Node statistics: two workers, each with a block of coordinates to fill.    *)

BlockSize == 2
DataFrames == SelectSeq(job.file, LAMBDA f : f.type = "data")
Workers == 1 .. 2
NewWorker == [n |-> 0, extent |-> NoExtent, block |-> <<>>, blocks |-> 0, bits |-> 0]

\* CoordStats::record_block: the bits the block's range needs.
Bits(range) == IF range = 0 THEN 0 ELSE IF range < 2 THEN 1 ELSE IF range < 4 THEN 2 ELSE 3
RecordBlock(w) ==
    [w EXCEPT !.block = <<>>, !.blocks = @ + 1, !.bits = @ + Bits(Max(Range(w.block)) - Min(Range(w.block)))]

\* WorkerAccum::record and finalize
Record(w, at) ==
    LET full == [w EXCEPT !.n = @ + 1, !.extent = Widen(@, at), !.block = Append(@, at)]
    IN IF Len(full.block) = BlockSize THEN RecordBlock(full) ELSE full
Finalize(w) == IF w.block = <<>> THEN w ELSE RecordBlock(w)

\* NodeCoords: a group's dense nodes, then its plain ones.
CoordsOf(f) ==
    LET nodes(g) == SelectSeq(g, LAMBDA e : e.dense) \o SelectSeq(g, LAMBDA e : e.kind = "node" /\ ~e.dense)
        all == FlattenSeq([i \in DOMAIN f.groups |-> nodes(f.groups[i])])
    IN [i \in DOMAIN all |-> all[i].at]

NodeStatsInner ==
    /\ pc = "enter" /\ job.cmd = "node-stats"
    /\ IF ~IndexdataPolicy(DataFrames, job.force) \/ PartlyIndexed(DataFrames) THEN Fail /\ UNCHANGED sel
       ELSE Goto("nodes") /\ sel' = [sel EXCEPT !.work = [w \in Workers |-> NewWorker], !.total = 1]
    /\ UNCHANGED <<job, round, out, stats>>

\* A worker takes the next blob of the schedule.
Schedule == KindSchedule(DataFrames, "node")
ForeignBlock(f) == f.claim # "none" /\ \E e \in Range(FlattenSeq(f.groups)) : e.kind # f.claim
NodeStatsBlob(w) ==
    /\ pc = "nodes" /\ sel.total <= Len(Schedule)
    /\ LET f == Schedule[sel.total] IN
       IF f.bad \/ ForeignBlock(f) THEN Fail /\ UNCHANGED sel
       ELSE sel' = [sel EXCEPT !.total = @ + 1, !.work[w] = FoldLeft(Record, @, CoordsOf(f))] /\ UNCHANGED <<pc, result>>
    /\ UNCHANGED <<job, round, out, stats>>
EndNodeStats ==
    /\ pc = "nodes" /\ sel.total > Len(Schedule)
    /\ LET done == [w \in Workers |-> Finalize(sel.work[w])]
           join(g, w) == [n |-> g.n + w.n, extent |-> JoinExtent(g.extent, w.extent), block |-> <<>>,
                          blocks |-> g.blocks + w.blocks, bits |-> g.bits + w.bits]
       IN stats' = FoldLeft(join, NewWorker, done)
    /\ Done /\ UNCHANGED <<job, round, sel, out>>

Next ==
    \/ InspectInner \/ TryIndexOnlyScan \/ FullDecodeScan \/ EndIndexOnly \/ EndFullDecode
    \/ ShowElementInner \/ ShowStep
    \/ NodeStatsInner \/ (\E w \in Workers : NodeStatsBlob(w)) \/ EndNodeStats
----------------------------------------------------------------------------
(* What the reports must say. *)

InFrame(f) == FlattenSeq(f.groups)
AllElements == FlattenSeq([i \in DOMAIN DataFrames |-> InFrame(DataFrames[i])])
KindOfFrame(f) == LET kinds == {e.kind : e \in Range(InFrame(f))} IN IF Cardinality(kinds) = 1 THEN CHOOSE k \in kinds : TRUE ELSE "mixed"
TrueIndex(f) ==
    f.claim # "none" =>
        LET ids == {e.id : e \in Range(InFrame(f))} IN
        f.claim = KindOfFrame(f) /\ f.lo = Min(ids) /\ f.hi = Max(ids) /\ f.count = Len(InFrame(f))
ReadsBlocks == job.locations \/ job.extended \/ job.distrust \/ \E f \in Range(DataFrames) : f.claim = "none"

\* The blocks' kinds, and where a run of one kind starts and ends.
FrameKinds == [i \in DOMAIN DataFrames |-> KindOfFrame(DataFrames[i])]
IsRun(a, b) ==
    /\ \A i \in a .. b : FrameKinds[i] = FrameKinds[a]
    /\ a > 1 => FrameKinds[a - 1] # FrameKinds[a]
    /\ b < Len(FrameKinds) => FrameKinds[b + 1] # FrameKinds[b]
Runs == {r \in (DOMAIN FrameKinds) \X (DOMAIN FrameKinds) : r[1] <= r[2] /\ IsRun(r[1], r[2])}
Ascends(values) == \A i \in 1 .. Len(values) - 1 : values[i] < values[i + 1]

OrderingIsTrue(o) ==
    /\ o.segments = Cardinality(Runs)
    /\ o.standard <=> /\ "mixed" \notin Range(FrameKinds)
                      /\ \A i, j \in DOMAIN FrameKinds : i < j => Rank(FrameKinds[i]) <= Rank(FrameKinds[j])
    /\ \A i \in DOMAIN o.head :
          /\ <<o.head[i].first, o.head[i].last>> \in Runs /\ o.head[i].kind = FrameKinds[o.head[i].first]
          /\ Cardinality({r \in Runs : r[1] < o.head[i].first}) = i - 1
    /\ Len(o.head) = Min({HeadSegments, Cardinality(Runs)})

\* The order of a group's elements: its dense nodes first.
WalkIds(kind) ==
    LET ids(g) == SelectSeq(g, LAMBDA e : e.kind = kind /\ e.dense) \o SelectSeq(g, LAMBDA e : e.kind = kind /\ ~e.dense)
        all == FlattenSeq([i \in DOMAIN DataFrames |-> FlattenSeq([g \in DOMAIN DataFrames[i].groups |-> ids(DataFrames[i].groups[g])])])
    IN [i \in DOMAIN all |-> all[i].id]
RangeIsTrue(kind, r) ==
    LET ids == WalkIds(kind) IN
    /\ r.n = Len(ids)
    /\ r.n > 0 => r.lo = Min(Range(ids)) /\ r.hi = Max(Range(ids))
    /\ ReadsBlocks => (r.ordered <=> Ascends(ids))
    /\ Ascends(ids) => r.ordered

\* The rows of the block table and the blocks that stand out.
SizeOf(i) == Len(InFrame(DataFrames[i]))
RowsAreTrue(rows) ==
    IF job.anomalies
    THEN \A i \in DOMAIN FrameKinds :
           /\ (<<i, "mixed">> \in Range(rows)) <=> FrameKinds[i] = "mixed"
           /\ <<i, "small">> \in Range(rows) => \E j \in DOMAIN FrameKinds : FrameKinds[i] = FrameKinds[j] /\ SizeOf(j) > 2 * SizeOf(i)
           /\ <<i, "large">> \in Range(rows) => \E j \in DOMAIN FrameKinds : FrameKinds[i] = FrameKinds[j] /\ 3 * SizeOf(j) < 2 * SizeOf(i) + 2
    ELSE /\ Ascends([i \in DOMAIN rows |-> rows[i].number])
         /\ \A row \in Range(rows) : row.kind = FrameKinds[row.number] /\ row.elements = SizeOf(row.number)
         /\ {row.number : row \in Range(rows)}
               = {i \in DOMAIN FrameKinds : job.limit = 0 \/ i <= job.limit \/ i > Len(FrameKinds) - job.limit}

ExtentIs(x, values) == IF values = {} THEN x = NoExtent ELSE x.n > 0 /\ x.lo = Min(values) /\ x.hi = Max(values)
LocationsAreTrue(l) ==
    LET located == {i \in DOMAIN AllElements : AllElements[i].kind = "way" /\ AllElements[i].locs > 0}
        many(i) == AllElements[i].locs
    IN /\ l[1] = Cardinality(located) /\ l[2] = Count("way", AllElements) - l[1]
       /\ (l[3] = <<>>) <=> (located = {})
       /\ located # {} =>
             /\ l[3][1] = Min({many(i) : i \in located}) /\ l[3][2] = Max({many(i) : i \in located})
             /\ 2 * Cardinality({i \in located : many(i) <= l[3][3]}) >= l[1] /\ 2 * Cardinality({i \in located : many(i) >= l[3][3]}) >= l[1]
DataIsTrue(d) ==
    LET all  == Range(AllElements)
        meta == {e.meta[1] : e \in {x \in all : x.meta # <<>>}}
        has(e, f) == e.meta # <<>> /\ CASE f = "version" -> e.meta[1].version > 0 [] f = "time" -> e.meta[1].time # 0 [] OTHER -> NamesUser(e.meta[1].user)
    IN /\ ExtentIs(d.box, {e.at : e \in {x \in all : x.kind = "node"}})
       /\ ExtentIs(d.times, {m.time : m \in meta} \ {0})
       /\ d.all = {f \in Fields : all # {} /\ \A e \in all : has(e, f)}
       /\ d.some = {f \in Fields : \E e \in all : has(e, f)}
       /\ d.ordered <=> /\ "mixed" \notin Range(FrameKinds) /\ \A k \in AllKinds : Ascends(WalkIds(k))
                        /\ \A i, j \in DOMAIN FrameKinds : i < j => Rank(FrameKinds[i]) <= Rank(FrameKinds[j])

\* The text has what the JSON has.
SameReport(t, j) ==
    /\ t.indexed = j.indexed /\ t.total = j.total /\ t.blocks = j.blocks /\ t.elements = j.elements /\ t.count = j.count /\ t.tagged = j.tagged
    /\ t.ordering = [standard |-> j.standard, head |-> j.head, omitted |-> j.segments - Len(j.head)]
    /\ t.rows = j.detail /\ t.locations = j.locations /\ t.data = j.data
    /\ WantIds => \A k \in AllKinds : IF k \in DOMAIN t.ids THEN t.ids[k] = j.ids[k] ELSE j.ids[k] = NoRange

\* A report tells what the file holds, as text and as JSON: as many blocks and
\* elements of each kind, the runs of kinds, the ID ranges and their order, the
\* rows of the block table, and (from the blocks) coordinates and metadata,
\* whatever the cut into groups and blobs; from indexes that are true it tells
\* the same as from the blocks; and a key of --get has a value whenever the scan
\* its entry in the table asks for was made.
InspectionIsTrue ==
    (job.cmd = "inspect" /\ result # "running") =>
        LET headed == job.file # <<>> /\ job.file[1].type = "header"
            honest == ReadsBlocks \/ \A f \in Range(DataFrames) : TrueIndex(f)
            j == stats.json
        IN
        /\ (result = "failed") <=> (~headed \/ (ReadsBlocks /\ \E f \in Range(DataFrames) : f.bad))
        /\ result = "ok" => SameReport(stats.text, j) /\ j.total = Len(DataFrames)
        /\ (result = "ok" /\ DataFrames # <<>>) => (j.indexed <=> \A f \in Range(DataFrames) : f.claim # "none")
        /\ (result = "ok" /\ honest) =>
              /\ j.count = CountAll(AllElements)
              /\ \A k \in BlockKinds : j.blocks[k] = Cardinality({i \in DOMAIN FrameKinds : FrameKinds[i] = k})
              /\ OrderingIsTrue(j)
              /\ job.blocks => RowsAreTrue(j.detail)
              /\ WantIds => \A k \in AllKinds : RangeIsTrue(k, j.ids[k])
              /\ ReadsBlocks => j.tagged = Cardinality({i \in DOMAIN AllElements : AllElements[i].kind = "node" /\ FirstTagResolves(AllElements[i])})
              /\ job.locations => LocationsAreTrue(j.locations)
              /\ job.extended => DataIsTrue(j.data)
        /\ result = "ok" => \A key \in DOMAIN stats.values :
              (Need(key) = "extended" => job.extended) => stats.values[key] # {}

\* An element is found exactly when the file has it, whichever blobs the
\* indexes let the search skip and wherever a sorted file lets it stop.
ElementIsFound ==
    (job.cmd = "show-element" /\ result = "ok" /\ \A f \in Range(DataFrames) : TrueIndex(f)) =>
        (out = <<"found">>) <=> \E e \in Range(AllElements) : e.kind = job.kind /\ e.id = job.id

\* The workers' statistics cover every node once: their number and range do not
\* depend on who took which blob, and each worker closes at most one short block.
NodeStatsAreTrue ==
    (job.cmd = "node-stats" /\ result = "ok" /\ \A f \in Range(DataFrames) : TrueIndex(f)) =>
        LET nodes == SelectSeq(AllElements, LAMBDA e : e.kind = "node")  n == Len(nodes) IN
        /\ stats.n = n /\ ExtentIs(stats.extent, {e.at : e \in Range(nodes)})
        /\ stats.blocks * BlockSize >= n /\ stats.blocks * BlockSize <= n + Cardinality(Workers) * (BlockSize - 1)
        /\ n > 0 => stats.bits <= stats.blocks * Bits(stats.extent.hi - stats.extent.lo)

InspectTellsTrue == InspectionIsTrue /\ ElementIsFound /\ NodeStatsAreTrue

-----------------------------------------------------------------------------
(* Reports on files of up to four blobs: kinds in and out of order, groups of *)
(* both node forms, IDs of either sign, an index missing or wrong.            *)

NoInfo == <<>>
Info(v, t, u) == <<[version |-> v, time |-> t, user |-> u]>>
Elem(kind, dense, id, tags, at, locs, meta) ==
    [kind |-> kind, dense |-> dense, id |-> id, tags |-> tags, at |-> at, locs |-> locs, meta |-> meta]
D(id, m) == Elem("node", TRUE, id, <<TRUE>>, id, 0, m)
N(id, m) == Elem("node", FALSE, id, <<FALSE, TRUE>>, id + 1, 0, m)
W(id, m) == Elem("way", FALSE, id, <<>>, 0, IF id % 2 = 0 THEN id ELSE 0, m)
R(id, m) == Elem("relation", FALSE, id, <<TRUE>>, 0, 0, m)

Header == [type |-> "header", bad |-> FALSE, claim |-> "none", lo |-> 0, hi |-> 0, count |-> 0, groups |-> <<>>]
Frame(claim, groups) ==
    LET all == FlattenSeq(groups)  ids == {e.id : e \in Range(all)}
    IN [type |-> "data", bad |-> FALSE, claim |-> claim, lo |-> IF ids = {} THEN 0 ELSE Min(ids), hi |-> IF ids = {} THEN 0 ELSE Max(ids),
        count |-> Len(all), groups |-> groups]
Other == [Header EXCEPT !.type = "other"]

\* Blobs to draw from; m is the metadata of one element.
Pick(m) == [a |-> Frame("node", <<<<D(-1, NoInfo), N(1, m), D(2, NoInfo)>>>>), b |-> Frame("node", <<<<D(3, m)>>, <<N(5, m), N(6, Info(1, 2, 1))>>>>),
            w |-> Frame("way", <<<<W(2, m), W(4, Info(2, 3, 2))>>>>), v |-> Frame("way", <<<<W(1, Info(1, 0, 0))>>>>),
            r |-> Frame("relation", <<<<R(7, m)>>>>), x |-> Frame("none", <<<<D(9, m), W(8, m)>>>>), e |-> Frame("none", <<>>)]
Plans == {<<>>, <<"a">>, <<"a", "b">>, <<"b", "a">>, <<"a", "b", "w", "r">>, <<"w", "a", "r", "a">>, <<"a", "x">>, <<"x">>, <<"e", "r">>,
          <<"w", "v", "r">>, <<"v", "w", "v">>, <<"r", "w", "r", "w", "r">>, <<"w", "w", "v", "v", "v">>}
Cuts == {"true", "bare", "partial", "wrong", "bad", "headless", "other"}
Cut(cut, fs) ==
    LET bare(f) == [f EXCEPT !.claim = "none"] IN
    CASE cut = "true"     -> <<Header>> \o fs
      [] cut = "bare"     -> <<Header>> \o [i \in DOMAIN fs |-> bare(fs[i])]
      [] cut = "partial"  -> <<Header>> \o [i \in DOMAIN fs |-> IF i = Len(fs) THEN bare(fs[i]) ELSE fs[i]]
      [] cut = "wrong"    -> <<Header>> \o [i \in DOMAIN fs |-> IF i = 1 /\ fs[i].claim # "none" THEN [fs[i] EXCEPT !.claim = "way", !.count = 9] ELSE fs[i]]
      [] cut = "bad"      -> <<Header>> \o [i \in DOMAIN fs |-> IF i = Len(fs) THEN [fs[i] EXCEPT !.bad = TRUE] ELSE fs[i]]
      [] cut = "headless" -> fs
      [] OTHER            -> <<Header, Other>> \o fs
FileOf(cut, plan, m) == Cut(cut, [i \in DOMAIN plan |-> Pick(m)[plan[i]]])

InspectWorlds ==
    \E cut \in Cuts, plan \in Plans, m \in {NoInfo, Info(0, 0, -1), Info(3, 1, 1)},
       o \in {<<FALSE, FALSE, FALSE>>, <<TRUE, FALSE, FALSE>>, <<FALSE, TRUE, FALSE>>, <<FALSE, FALSE, TRUE>>},
       ids \in BOOLEAN, table \in {<<FALSE, 0, FALSE>>, <<TRUE, 0, FALSE>>, <<TRUE, 1, FALSE>>, <<TRUE, 0, TRUE>>} :
          job = [cmd |-> "inspect", file |-> FileOf(cut, plan, m), locations |-> o[1], extended |-> o[2], distrust |-> o[3],
                 ids |-> ids, blocks |-> table[1], limit |-> table[2], anomalies |-> table[3]]
\* A file that says it is sorted is: zero, the negative IDs, the positive ones.
ShowWorlds ==
    \E cut \in Cuts, plan \in {<<"a">>, <<"a", "b">>, <<"b", "a">>, <<"a", "b", "w", "r">>, <<"a", "b", "v", "w">>},
       kind \in AllKinds, id \in -1 .. 7, sorted \in BOOLEAN :
          /\ sorted => plan # <<"b", "a">>
          /\ job = [cmd |-> "show-element", file |-> FileOf(cut, plan, NoInfo), kind |-> kind, id |-> id, sorted |-> sorted]
NodeWorlds ==
    \E cut \in Cuts \ {"headless"}, plan \in {<<>>, <<"a">>, <<"b", "a">>, <<"a", "b", "w">>, <<"b", "b", "a">>, <<"x">>}, force \in BOOLEAN :
          job = [cmd |-> "node-stats", file |-> FileOf(cut, plan, NoInfo), force |-> force]
Worlds == InspectWorlds \/ ShowWorlds \/ NodeWorlds
Inspections == {"inspect", "show-element", "node-stats"}

-----------------------------------------------------------------------------
(* commands/tags_count: how often a tag key, or a key with a value, occurs.   *)
(* Workers tally a blob by its string indexes, then add the rows the request  *)
(* selects to a table of shards, one locked shard at a time.                  *)
(*                                                                            *)
(* A blob has a string table, and elements with tags that are pairs of        *)
(* indexes into it, possibly past its end; strings are numbers from 1.  An    *)
(* expression has kinds, a key matcher (0: any key, decided by no index), a   *)
(* value matcher (a set of strings, or none) and whether that is inverted.    *)

Shards == 1 .. 2

\* CountTable::new.  In a shard the counts of keys, interned for their own row
\* or for that of a pair, and the counts of pairs.
EmptyTable == [s \in Shards |-> [keys |-> <<>>, pairs |-> <<>>]]

\* sel: the blobs not yet taken, the rows a worker has still to add, the table.
CountOpened == Begin /\ out = <<>> /\ stats = <<>> /\ sel = [todo |-> {}, pending |-> <<>>, table |-> EmptyTable]

----------------------------------------------------------------------------
(* What is counted. *)

\* tag_matches: only a row of a pair is asked about a value.
TagMatches(x, key, value) == x.key \in {0, key} /\ (x.valued => (value \in x.values) # x.invert)

\* Selection::new: no expression at all counts every key.
KeyExprs == IF job.exprs = {} THEN {[kinds |-> AllKinds, key |-> 0, valued |-> FALSE, values |-> {}, invert |-> FALSE]}
            ELSE {x \in job.exprs : ~x.valued}
PairExprs == {x \in job.exprs : x.valued}
AdmitsKey(kind, key) == \E x \in KeyExprs : kind \in x.kinds /\ TagMatches(x, key, 0)
AdmitsPair(kind, key, value) == \E x \in PairExprs : kind \in x.kinds /\ TagMatches(x, key, value)

\* Plan::new: the kind of a single-kind request, and what the expressions need.
KindFilter == IF Cardinality(job.kinds) = 1 THEN job.kinds ELSE AllKinds
ExprKinds == IF job.exprs = {} THEN AllKinds ELSE UNION {x.kinds : x \in job.exprs}
ExprKeys == IF \E x \in job.exprs : x.key = 0 THEN {} ELSE {x.key : x \in job.exprs}
RequiresIndexdata == KindFilter # AllKinds \/ ExprKinds # AllKinds
Scheduled(b) ==
    /\ b.claim \in (KindFilter \cap ExprKinds) \cup {"none"}
    /\ ExprKeys = {} \/ ~b.tagged \/ ExprKeys \cap b.keys # {}

TagsCountInner ==
    /\ pc = "enter"
    /\ IF (RequiresIndexdata /\ ~IndexdataPolicy(job.file, job.force)) \/ PartlyIndexed(job.file)
       THEN Fail /\ UNCHANGED sel
       ELSE /\ Goto("blobs")
            /\ sel' = [sel EXCEPT !.todo = {b \in DOMAIN job.file : Scheduled(job.file[b])},
                                  !.pending = [b \in DOMAIN job.file |-> <<>>]]
    /\ UNCHANGED <<job, round, out, stats>>

----------------------------------------------------------------------------
(* A worker's blob. *)

\* walk_tags: an element's tags end at the first index past the table.
Resolves(b, i) == i \in DOMAIN b.strings
WalkTags(b) ==
    LET live(tags) == SelectInSeq(tags, LAMBDA t : ~Resolves(b, t[1]) \/ ~Resolves(b, t[2]))
        whole(e)   == IF live(e.tags) = 0 THEN e.tags ELSE SubSeq(e.tags, 1, live(e.tags) - 1)
        taken      == SelectSeq(b.items, LAMBDA e : e.kind \in job.kinds)
    IN FlattenSeq([i \in DOMAIN taken |->
           [j \in DOMAIN whole(taken[i]) |-> [kind |-> taken[i].kind, key |-> whole(taken[i])[j][1], value |-> whole(taken[i])[j][2]]]])

\* BlobTally::count, by kind, key and value index or by kind and key index.
Tally(b) ==
    LET walked == WalkTags(b)
        cells  == IF PairExprs # {} THEN walked ELSE [i \in DOMAIN walked |-> [walked[i] EXCEPT !.value = 0]]
    IN [c \in Range(cells) |-> Cardinality({i \in DOMAIN cells : cells[i] = c})]

\* CountTable::shard_of
ShardOf(key, value) == 1 + ((IF value = 0 THEN key ELSE value) % 2)

\* BlobTally::select: a row for each selected cell, one for each key index.
Row(b, key, value, count) ==
    LET k == b.strings[key]  v == IF value = 0 THEN 0 ELSE b.strings[value]
    IN [shard |-> ShardOf(k, v), at |-> <<key, value>>, key |-> k, value |-> v, count |-> count]
Select(b, tally) ==
    LET cells  == DOMAIN tally
        pairs  == {c \in cells : c.value # 0 /\ AdmitsPair(c.kind, b.strings[c.key], b.strings[c.value])}
        keyed  == {c \in cells : AdmitsKey(c.kind, b.strings[c.key])}
        sum(k) == FoldSet(LAMBDA c, n : n + tally[c], 0, {c \in keyed : c.key = k})
        byShard(x, y) == x.shard < y.shard
    IN SetToSortSeq({Row(b, c.key, 0, sum(c.key)) : c \in keyed}, byShard)
       \o SetToSortSeq({[Row(b, c.key, c.value, tally[c]) EXCEPT !.at = Append(@, c.kind)] : c \in pairs}, byShard)

\* BlobTally::merge starts at its rotation's shard.
Rotated(rows, start) ==
    LET at(s) == SelectSeq(rows, LAMBDA r : r.shard = s)
        n     == Cardinality(Shards)
    IN FlattenSeq([i \in 1 .. n |-> at(1 + ((start + i - 2) % n))])

AddBlob(b) ==
    /\ pc = "blobs" /\ b \in sel.todo
    /\ IF Refused(<<job.file[b]>>) THEN Fail /\ UNCHANGED sel
       ELSE /\ \E start \in Shards :
                  sel' = [sel EXCEPT !.todo = @ \ {b},
                                     !.pending[b] = Rotated(Select(job.file[b], Tally(job.file[b])), start)]
            /\ UNCHANGED <<pc, result>>
    /\ UNCHANGED <<job, round, out, stats>>

\* Shard::intern, Shard::add_key, Shard::add
Intern(keys, key) == IF key \in DOMAIN keys THEN keys ELSE keys @@ (key :> 0)
AddKey(shard, key, count) == [shard EXCEPT !.keys = [Intern(@, key) EXCEPT ![key] = @ + count]]
Add(shard, key, value, count) ==
    IF <<key, value>> \in DOMAIN shard.pairs THEN [shard EXCEPT !.pairs[<<key, value>>] = @ + count]
    ELSE [keys |-> Intern(shard.keys, key), pairs |-> shard.pairs @@ (<<key, value>> :> count)]

\* One shard's rows under its lock.
MergeShard(b) ==
    /\ pc = "blobs" /\ b \in DOMAIN sel.pending /\ sel.pending[b] # <<>>
    /\ LET s    == sel.pending[b][1].shard
           mine == SelectSeq(sel.pending[b], LAMBDA r : r.shard = s)
           add(t, r) == IF r.value = 0 THEN AddKey(t, r.key, r.count) ELSE Add(t, r.key, r.value, r.count)
       IN sel' = [sel EXCEPT !.pending[b] = SelectSeq(@, LAMBDA r : r.shard # s),
                             !.table[s] = FoldLeft(add, @, mine)]
    /\ UNCHANGED <<job, pc, round, out, stats, result>>

----------------------------------------------------------------------------
(* The rows. *)

Keep(count) == count >= job.min /\ (job.max = 0 \/ count <= job.max)
KeyRows == UNION {{<<k, s>> : k \in {x \in DOMAIN sel.table[s].keys : sel.table[s].keys[x] > 0}} : s \in Shards}
PairRows == UNION {{<<p, s>> : p \in DOMAIN sel.table[s].pairs} : s \in Shards}

\* The orders of TagCountSort; a name is a key, then a value.
Before(x, y) ==
    LET name(a, b) == a.key < b.key \/ (a.key = b.key /\ a.value < b.value)
    IN CASE job.sort = "count desc" -> x.count > y.count \/ (x.count = y.count /\ name(x, y))
         [] job.sort = "count asc"  -> x.count < y.count \/ (x.count = y.count /\ name(x, y))
         [] job.sort = "name asc"   -> name(x, y)
         [] OTHER                   -> name(y, x)

\* CountTable::into_counts, and the sort.
IntoCounts ==
    /\ pc = "blobs" /\ sel.todo = {} /\ \A b \in DOMAIN sel.pending : sel.pending[b] = <<>>
    /\ LET keys  == {[key |-> r[1], value |-> 0, count |-> sel.table[r[2]].keys[r[1]]] : r \in KeyRows}
           pairs == {[key |-> r[1][1], value |-> r[1][2], count |-> sel.table[r[2]].pairs[r[1]]] : r \in PairRows}
           kept  == {r \in keys \cup pairs : Keep(r.count)}
       IN /\ out' = SetToSortSeq(kept, Before)
          /\ stats' = [keys |-> Cardinality(KeyRows), pairs |-> Cardinality(PairRows), retained |-> Cardinality(kept)]
    /\ Done /\ UNCHANGED <<job, round, sel>>

CountNext == TagsCountInner \/ IntoCounts \/ \E b \in DOMAIN job.file : AddBlob(b) \/ MergeShard(b)

----------------------------------------------------------------------------
(* Properties. *)

\* The tags of the file by their strings.
Tags ==
    FlattenSeq([b \in DOMAIN job.file |->
        LET w == WalkTags(job.file[b]) IN
        [i \in DOMAIN w |-> [kind |-> w[i].kind, key |-> job.file[b].strings[w[i].key], value |-> job.file[b].strings[w[i].value]]]])
Asked(t) ==
    (IF AdmitsKey(t.kind, t.key) THEN {<<t.key, 0>>} ELSE {})
    \cup (IF AdmitsPair(t.kind, t.key, t.value) THEN {<<t.key, t.value>>} ELSE {})
TrueRows ==
    {[key |-> n[1], value |-> n[2], count |-> Cardinality({i \in DOMAIN Tags : n \in Asked(Tags[i])})] :
        n \in UNION {Asked(t) : t \in Range(Tags)}}

\* inspect tags counts every key and pair asked for once for each tag of the
\* file, whichever workers meet it under whichever string index, keeps those
\* within the limits and puts them in order; and the totals are those of the
\* distinct rows.  A key that only pairs brought into a shard is no row.
TagCountsAreTrue ==
    /\ result = "ok" /\ (\A b \in Range(job.file) : ~Foreign(b)) =>
          /\ out = SetToSortSeq({r \in TrueRows : Keep(r.count)}, Before)
          /\ stats = [keys |-> Cardinality({r \in TrueRows : r.value = 0}), pairs |-> Cardinality({r \in TrueRows : r.value # 0}),
                      retained |-> Len(out)]
    /\ result = "failed" =>
          \/ Refused(job.file) \/ PartlyIndexed(job.file)
          \/ (RequiresIndexdata /\ ~Indexed(job.file) /\ ~job.force)

-----------------------------------------------------------------------------
(* Tag counts of two blobs: the same string under two indexes, and in the     *)
(* tables of both blobs.                                                      *)

TaggedElem(kind, tags) == [kind |-> kind, id |-> 1, tags |-> tags]
CountedBlob(claim, tagged, strings, items) ==
    [claim |-> claim, bad |-> FALSE, tagged |-> tagged, strings |-> strings, items |-> items,
     keys |-> UNION {{strings[t[1]] : t \in {x \in Range(e.tags) : x[1] \in DOMAIN strings}} : e \in Range(items)}]
AnyKey(kinds) == [kinds |-> kinds, key |-> 0, valued |-> FALSE, values |-> {}, invert |-> FALSE]
Key(kinds, key) == [AnyKey(kinds) EXCEPT !.key = key]
Pair(kinds, key, values, invert) == [Key(kinds, key) EXCEPT !.valued = TRUE, !.values = values, !.invert = invert]
Laid(how, t1, t2, t3) ==
    LET s1 == <<1, 2, 3>>  s2 == <<2, 1, 1>>
        c(kind) == IF how = "unindexed" THEN "none" ELSE kind
    IN CASE how = "foreign" -> <<CountedBlob("node", TRUE, s1, <<TaggedElem("node", t1), TaggedElem("way", t2)>>)>>
         [] how = "bad"     -> <<CountedBlob("node", TRUE, s1, <<TaggedElem("node", t1)>>), [CountedBlob("way", TRUE, s2, <<TaggedElem("way", t2)>>) EXCEPT !.bad = TRUE]>>
         [] how = "partial" -> <<CountedBlob("node", TRUE, s1, <<TaggedElem("node", t1)>>), CountedBlob("none", TRUE, s2, <<TaggedElem("way", t2)>>)>>
         [] OTHER -> <<CountedBlob(c("node"), TRUE, s1, <<TaggedElem("node", t1), TaggedElem("node", t2)>>),
                       CountedBlob(c("way"), how # "untagged", s2, <<TaggedElem("way", t2), TaggedElem("way", t3)>>),
                       CountedBlob(c("relation"), TRUE, s2, <<TaggedElem("relation", t3)>>)>>
CountWorlds ==
    \E how \in {"indexed", "unindexed", "untagged", "foreign", "bad", "partial"},
       t1 \in {<<>>, <<<<1, 2>>, <<2, 3>>>>, <<<<1, 2>>, <<2, 9>>, <<1, 3>>>>}, t2 \in {<<>>, <<<<2, 1>>>>, <<<<2, 1>>, <<3, 3>>>>}, t3 \in {<<>>, <<<<3, 1>>>>},
       kinds \in {AllKinds, {"node", "way"}, {"way"}}, force \in BOOLEAN,
       exprs \in {{}, {Key(AllKinds, 1)}, {AnyKey({"way"})}, {Key({"node"}, 1), Pair(AllKinds, 1, {2, 3}, FALSE)}, {Pair({"node", "way"}, 2, {1}, TRUE), AnyKey(AllKinds)}},
       c \in {<<1, 0, "count desc">>, <<2, 0, "count asc">>, <<1, 2, "name asc">>, <<1, 0, "name desc">>} :
          /\ (c[1] = 1 /\ c[2] = 0) \/ t1 # <<>>
          /\ force \/ how = "unindexed"
          /\ job = [cmd |-> "tags-count", file |-> Laid(how, t1, t2, t3), kinds |-> kinds, exprs |-> exprs, force |-> force,
                    min |-> c[1], max |-> c[2], sort |-> c[3]]
=============================================================================
