---------------------------- MODULE AddLocations ----------------------------
(* add-locations-to-ways: the entry and the sparse index, the external join,  *)
(* and the small files they are checked on.                                   *)
EXTENDS CommandState, TLC

-----------------------------------------------------------------------------
(* commands/altw: add-locations-to-ways.  A node has a location (0 is the     *)
(* point at zero latitude and longitude, Outside one no planet has) and may   *)
(* be tagged; a way has refs and, enriched, a location for every ref, the     *)
(* refs that are pinned (node shared between ways) and whether a multipolygon *)
(* or boundary relation holds it; a relation has a type and members           *)
(* <<kind, id>>.  On the wire a way's refs are packed once, split, or its     *)
(* block is not in the default coordinate framing.                            *)
(* This module is the entry, the choice of an index, the sparse index and     *)
(* what both indexes share; the external join, the other index, follows.      *)

File == job.files[1]
Outside == 9
NoLocation == 0
InDomain(loc) == loc # Outside

Opened ==
    /\ Begin /\ out = <<>>
    /\ sel = [refs |-> {}, shared |-> {}, index |-> {}, nodes |-> {}, ways |-> {}, joined |-> {}, entries |-> {},
              router |-> [b \in {} |-> <<>>], halves |-> {}, published |-> {}, producing |-> TRUE, aborted |-> FALSE,
              s3 |-> "running", s4 |-> "running"]
    /\ stats = [nodesRead |-> 0, nodesWritten |-> 0, nodesDropped |-> 0, ways |-> 0, relations |-> 0, missing |-> 0,
                header |-> {}, internal |-> FALSE]

----------------------------------------------------------------------------
(* The entry: the options, the index. *)

\* AltwOptions::validate: force goes with the sparse index alone.
Invalid == job.force /\ (job.index = "external" \/ job.inject)

\* estimate_sparse_store_bytes: unknown when a node blob has no index.
StoreUnknown == \E b \in Range(File.blobs) : b.claim = "none"
EstimateSparseStore == FoldLeft(LAMBDA n, b : IF b.claim = "node" THEN n + b.count ELSE n, 0, File.blobs)

\* auto_select_backend, route_sorted_indexed: external for sorted, indexed input
\* whose store does not fit the page cache.
RouteSortedIndexed == IF StoreUnknown \/ EstimateSparseStore > job.budget THEN "external" ELSE "sparse"
AutoSelectBackend == IF ~File.header.sorted \/ ~Indexed(File.blobs) THEN "sparse" ELSE RouteSortedIndexed
Backend == IF job.index = "auto" THEN AutoSelectBackend ELSE job.index

\* altw_output_facts, which an injecting call's output also announces.
OutputFacts == [BuildHeader(InputHeaders, "as input", "reencoded") EXCEPT !.locs = TRUE, !.pins = job.inject, !.members = job.inject]

AddLocationsToWays ==
    /\ pc = "enter"
    /\ IF Invalid \/ ~File.present THEN Fail
       ELSE IF Backend = "external" THEN Goto("external")
       ELSE IF ~IndexdataPolicy(File.blobs, job.force) THEN Fail ELSE Goto("refs")
    /\ UNCHANGED <<job, round, sel, out, stats>>

----------------------------------------------------------------------------
(* What the two indexes share. *)

\* A closed way's last ref repeats its first.
Closed(refs) == Len(refs) >= 4 /\ refs[1] = Last(refs)
CountedRefs(refs) == IF Closed(refs) THEN Front(refs) ELSE refs

AllRefs(items) == FlattenSeq([i \in DOMAIN items |-> CountedRefs(items[i].refs)])
Twice(refs) == {n \in Range(refs) : Cardinality({i \in DOMAIN refs : refs[i] = n}) >= 2}

\* relation_member_ids: member nodes, and member ways of area relations.
AreaRelation(r) == r.type \in {"multipolygon", "boundary"}
MemberNodes(rels) == {m[2] : m \in {x \in UNION {Range(r.members) : r \in Range(rels)} : x[1] = "node" /\ x[2] >= 0}}
MemberWays(rels) ==
    {m[2] : m \in {x \in UNION {Range(r.members) : r \in {q \in Range(rels) : AreaRelation(q)}} : x[1] = "way" /\ x[2] >= 0}}
WantMembers == ~job.keep \/ job.inject
Members(rels) ==
    [sel EXCEPT !.nodes = IF job.keep THEN {} ELSE MemberNodes(rels), !.ways = IF job.inject THEN MemberWays(rels) ELSE {}]

\* blob_is_passthrough: a blob nothing is to be done to is copied as it is.
BlobIsPassthrough(claim) == claim = "relation" \/ (claim = "node" /\ job.keep)

\* process_block: which nodes are written.
Kept(e) == job.keep \/ e.tagged \/ e.id \in sel.nodes
WrittenNodes(items) == SelectSeq(items, LAMBDA e : e.kind # "node" \/ Kept(e))

\* check_default_coord_framing: locations are written in the default one.
FramingRefused(b) == \E e \in Range(b.items) : e.wire = "framed"

\* IdTally::refuse_inexact: the claim must be exact, so the blob has an element.
Inexact(b) == b.claim # "none" /\ (b.items = <<>> \/ Claim(b) # PayloadIndex(b.items))

\* splice_way_locations: old locations go, every ref gets one, a pin needs one.
Splice(e, at(_), pinned(_)) ==
    [e EXCEPT !.locs = [i \in DOMAIN e.refs |-> at(e.refs[i])],
              !.pins = {i \in DOMAIN e.refs : job.inject /\ pinned(e.refs[i])},
              !.member = job.inject /\ e.id \in sel.ways]

\* enforce_missing_locations_policy, after which the output is published.
EnforceMissing(missing) == IF missing > 0 /\ ~job.ignoreMissing THEN Fail ELSE Done

\* Pass2Consumer::passthrough, by the index's count; decoded blobs by their items.
CountPassed(b) ==
    [stats EXCEPT !.nodesRead = @ + (IF b.claim = "node" THEN b.count ELSE 0),
                  !.nodesWritten = @ + (IF b.claim = "node" THEN b.count ELSE 0),
                  !.relations = @ + (IF b.claim = "relation" THEN b.count ELSE 0)]
CountDecoded(items, missing) ==
    [stats EXCEPT !.nodesRead = @ + Count("node", items), !.nodesWritten = @ + Count("node", WrittenNodes(items)),
                  !.nodesDropped = @ + Count("node", items) - Count("node", WrittenNodes(items)),
                  !.ways = @ + Count("way", items), !.relations = @ + Count("relation", items), !.missing = @ + missing]

\* A block builder holds one kind: it is flushed where the kind changes.
Reencoded(items) ==
    FoldLeft(LAMBDA bs, e : IF bs # <<>> /\ Last(bs)[1].kind = e.kind THEN Append(Front(bs), Append(Last(bs), e)) ELSE Append(bs, <<e>>),
             <<>>, items)
Blocks(items) == LET bs == Reencoded(items) IN [k \in DOMAIN bs |-> Framed(bs[k])]
Reframed(items) == [Framed(items) EXCEPT !.tags = "none"]

----------------------------------------------------------------------------
(* The sparse index. *)

\* collect_way_referenced_node_ids: which nodes to keep a location of.
CollectWayReferencedNodeIds ==
    /\ pc = "refs"
    /\ LET sched == KindSchedule(File.blobs, "way")  ways == Of("way", Elements(sched))
       IN IF PartlyIndexed(File.blobs) \/ Refused(sched) THEN Fail /\ UNCHANGED sel
          ELSE /\ sel' = [sel EXCEPT !.refs = {n \in Range(AllRefs(ways)) : n >= 0},
                                     !.shared = IF job.inject THEN {n \in Twice(AllRefs(ways)) : n >= 0} ELSE {}]
               /\ Goto("index")
    /\ UNCHANGED <<job, round, out, stats>>

\* SharedSparseWriter::insert: a later node of a blob replaces an earlier one,
\* and of two blobs' workers either may store last.
Stores(sched) ==
    LET held(k) == Ids("node", sched[k].items) \cap sel.refs
        at(k, n) == Last(SelectSeq(sched[k].items, LAMBDA e : e.kind = "node" /\ e.id = n)).loc
        ids     == UNION {held(k) : k \in DOMAIN sched}
    IN {{<<n, at(f[n], n)>> : n \in ids} : f \in {g \in [ids -> DOMAIN sched] : \A n \in ids : n \in held(g[n])}}

BuildNodeIndexSparse ==
    /\ pc = "index"
    /\ LET sched == KindSchedule(File.blobs, "node")  nodes == Of("node", Elements(sched))
       IN IF \/ Refused(sched) \/ ~job.space \/ \E b \in Range(sched) : Inexact(b)
             \/ \E e \in Range(nodes) : e.id \in sel.refs /\ ~InDomain(e.loc)
          THEN Fail /\ UNCHANGED sel
          ELSE (\E store \in Stores(sched) : sel' = [sel EXCEPT !.index = store]) /\ Goto("members")
    /\ UNCHANGED <<job, round, out, stats>>

Known(n) == \E p \in sel.index : p[1] = n
Lookup(n) == IF Known(n) THEN (CHOOSE p \in sel.index : p[1] = n)[2] ELSE NoLocation
Missing(items) == Len(SelectSeq(FlattenSeq([i \in DOMAIN items |-> items[i].refs]), LAMBDA n : ~Known(n)))
SpliceSparse(e) == Splice(e, Lookup, LAMBDA n : Known(n) /\ n \in sel.shared)

CollectRelationMemberIds ==
    /\ pc = "members"
    /\ LET sched == KindSchedule(File.blobs, "relation")
       IN IF ~WantMembers THEN Goto("output") /\ UNCHANGED sel
          ELSE IF Refused(sched) \/ \E b \in Range(sched) : Inexact(b) THEN Fail /\ UNCHANGED sel
          ELSE sel' = Members(Of("relation", Elements(sched))) /\ Goto("output")
    /\ UNCHANGED <<job, round, out, stats>>

\* write_output_checked: which of the two ways of writing.
WriteOutputChecked ==
    /\ pc = "output"
    /\ IF ~File.present \/ (job.inject /\ ~Indexed(File.blobs)) THEN Fail /\ UNCHANGED stats
       ELSE /\ stats' = [stats EXCEPT !.header = {OutputFacts}]
            /\ Goto(IF Indexed(File.blobs) THEN "blobs" ELSE "decode")
    /\ round' = 1 /\ UNCHANGED <<job, sel, out>>

Enrich(items) == [i \in DOMAIN items |-> IF items[i].kind = "way" THEN SpliceSparse(items[i]) ELSE items[i]]

\* write_output_passthrough: copied, or decoded by decode_one, a way blob spliced.
Passthrough ==
    /\ pc = "blobs" /\ round <= Len(File.blobs) /\ BlobIsPassthrough(File.blobs[round].claim)
    /\ out' = Append(out, File.blobs[round]) /\ stats' = CountPassed(File.blobs[round])
    /\ round' = round + 1 /\ UNCHANGED <<job, pc, sel, result>>

DecodeOne ==
    /\ pc = "blobs" /\ round <= Len(File.blobs)
    /\ LET b == File.blobs[round]  items == WrittenNodes(Enrich(b.items)) IN
       /\ ~BlobIsPassthrough(b.claim)
       /\ IF \/ b.bad \/ Foreign(b) \/ (b.claim = "way" /\ (Inexact(b) \/ FramingRefused(b)))
             \/ (b.claim = "way" /\ \E e \in Range(b.items) : e.wire = "split")
          THEN Fail /\ UNCHANGED <<round, out, stats>>
          ELSE /\ out' = out \o (IF b.claim = "way" THEN <<Reframed(items)>> ELSE Blocks(items))
               /\ stats' = CountDecoded(b.items, Missing(Of("way", b.items)))
               /\ round' = round + 1 /\ UNCHANGED <<pc, result>>
    /\ UNCHANGED <<job, sel>>

\* write_output_decode_all, for input without an index.
DecodeAll ==
    /\ pc = "decode" /\ round <= Len(File.blobs)
    /\ LET b == File.blobs[round]  items == WrittenNodes(Enrich(b.items)) IN
       IF b.bad THEN Fail /\ UNCHANGED <<round, out, stats>>
       ELSE /\ out' = out \o Blocks(items)
            /\ stats' = CountDecoded(b.items, Missing(Of("way", b.items)))
            /\ round' = round + 1 /\ UNCHANGED <<pc, result>>
    /\ UNCHANGED <<job, sel>>

FinishSparse ==
    /\ pc \in {"blobs", "decode"} /\ round > Len(File.blobs)
    /\ EnforceMissing(stats.missing)
    /\ UNCHANGED <<job, round, sel, out, stats>>

SparseNext ==
    \/ AddLocationsToWays \/ CollectWayReferencedNodeIds \/ BuildNodeIndexSparse \/ CollectRelationMemberIds
    \/ WriteOutputChecked \/ Passthrough \/ DecodeOne \/ DecodeAll \/ FinishSparse

-----------------------------------------------------------------------------
(* commands/altw/external: the index of add-locations-to-ways that keeps no   *)
(* store.  Every ref of every way has a slot, numbered through the file.      *)
(* Stage 1 sends a record of each ref to the bucket of its node's ID; stage 2 *)
(* joins each bucket with the node blobs that overlap it and sends a resolved *)
(* entry to the bucket of its slot; stage 3 lays a bucket's entries out and   *)
(* publishes the way blobs in it, half of a blob that lies in two buckets;    *)
(* stage 4 meanwhile writes the file, waiting for each way blob.  job.buckets *)
(* is NUM_BUCKETS, job.widest the largest bucket width; job.fails names the   *)
(* stage that meets an I/O error, at bucket or blob job.failsAt.              *)

MetasOf(kind) == SelectSeq(File.blobs, LAMBDA b : b.claim = kind)
WayBlobs == MetasOf("way")
NodeBlobs == MetasOf("node")
Ordinal(kind) == CHOOSE k \in 1 .. 3 : Kinds[k] = kind

\* blob_meta::check_range: a blob's index must be in order with the ones before.
RangesInOrder ==
    LET step(m, b) == IF m.bad \/ b.hi < b.lo \/ (b.claim = "node" /\ b.lo < 0)
                         \/ ObserveFails(m.mark, Ordinal(b.claim), BlobOsmPresentFirstKey(b.lo, b.hi))
                      THEN [m EXCEPT !.bad = TRUE]
                      ELSE [m EXCEPT !.mark = Observed(m.mark, Ordinal(b.claim), BlobOsmPresentFirstKey(b.lo, b.hi), BlobOsmLastKey(b.lo, b.hi))]
    IN ~FoldLeft(step, [bad |-> FALSE, mark |-> NoMark], File.blobs).bad
HasTags(b) == b.tags = "none" \/ \E e \in Range(b.items) : e.tagged

\* A walk under the file's order: each blob's own, and from blob to blob.
OrderedWalk(blobs) ==
    /\ \A b \in Range(blobs) :
        ~b.bad /\ ~Foreign(b) /\ ~Inexact(b) /\ \A i \in 1 .. Len(b.items) - 1 : KeyLeq(OsmIdKey(b.items[i].id), OsmIdKey(b.items[i + 1].id))
    /\ \A i \in 1 .. Len(blobs) - 1 :
        KeyLeq(BlobOsmLastKey(blobs[i].lo, blobs[i].hi), OsmIdKey(blobs[i + 1].items[1].id))

----------------------------------------------------------------------------
(* Node ID buckets. *)

MaxNodeId == Max({0} \cup {b.hi : b \in Range(NodeBlobs)})
CeilDiv(a, b) == (a + b - 1) \div b
BucketWidth == Max({1, CeilDiv(MaxNodeId, job.buckets)})
LayoutFits == BucketWidth <= job.widest
Locate(id) == IF id < 0 \/ id > MaxNodeId THEN {} ELSE {Min({id \div BucketWidth, job.buckets - 1})}
BucketLo(b) == b * BucketWidth
BucketHi(b) == IF b = job.buckets - 1 THEN MaxNodeId + 1 ELSE (b + 1) * BucketWidth

ExternalJoinIn ==
    /\ pc = "external"
    /\ IF ~Indexed(File.blobs) \/ ~File.header.sorted \/ (\E b \in Range(File.blobs) : b.claim = "none") THEN Fail
       ELSE IF ~RangesInOrder \/ ~LayoutFits THEN Fail
       ELSE Goto("stage1")
    /\ UNCHANGED <<job, round, sel, out, stats>>

----------------------------------------------------------------------------
(* Stage 1, beside the relation scan. *)

RefsOf(w) == FlattenSeq([i \in DOMAIN WayBlobs[w].items |-> WayBlobs[w].items[i].refs])
Closures(w) ==
    FlattenSeq([i \in DOMAIN WayBlobs[w].items |->
        LET refs == WayBlobs[w].items[i].refs IN [r \in DOMAIN refs |-> Closed(refs) /\ r = Len(refs)]])

\* A record for every ref that has a bucket.
Records ==
    UNION {{[id |-> RefsOf(w)[i], blob |-> w, local |-> i - 1, closing |-> Closures(w)[i]] : i \in {j \in DOMAIN RefsOf(w) : Locate(RefsOf(w)[j]) # {}}} :
           w \in DOMAIN WayBlobs}

Stage1WayPass ==
    /\ pc = "stage1"
    /\ IF ~job.fds \/ ~OrderedWalk(WayBlobs) THEN Fail ELSE Goto("relations")
    /\ UNCHANGED <<job, round, sel, out, stats>>

CollectRelationMemberIdsIndexed ==
    /\ pc = "relations"
    /\ IF ~WantMembers THEN Goto("slots") /\ UNCHANGED sel
       ELSE IF ~OrderedWalk(MetasOf("relation")) THEN Fail /\ UNCHANGED sel
       ELSE sel' = Members(Of("relation", Elements(MetasOf("relation")))) /\ Goto("slots")
    /\ UNCHANGED <<job, round, out, stats>>

----------------------------------------------------------------------------
(* Slot buckets: no way blob may be wider than a bucket. *)

SlotCount(w) == Len(RefsOf(w))
TotalSlots == FoldLeft(LAMBDA n, w : n + w, 0, [w \in DOMAIN WayBlobs |-> SlotCount(w)])
SlotStart(w) == FoldLeft(LAMBDA n, v : n + v, 0, [v \in 1 .. w - 1 |-> SlotCount(v)])
SlotEnd(w) == SlotStart(w) + SlotCount(w)
MaxBlobSlots == Max({0} \cup {SlotCount(w) : w \in DOMAIN WayBlobs})
SlotBucketCount == IF MaxBlobSlots = 0 THEN job.buckets ELSE Min({Max({TotalSlots \div MaxBlobSlots, 1}), job.buckets})
SlotRange == TotalSlots \div SlotBucketCount
SlotBucket(pos) == IF SlotRange = 0 THEN 0 ELSE Min({pos \div SlotRange, SlotBucketCount - 1})
SlotBucketBounds(b) ==
    [lo |-> b * SlotRange, hi |-> IF b = SlotBucketCount - 1 THEN TotalSlots ELSE Min({(b + 1) * SlotRange, TotalSlots})]
LayoutBroken == \E w \in DOMAIN WayBlobs : SlotCount(w) > SlotRange

ValidateSlotLayout ==
    /\ pc = "slots"
    /\ IF LayoutBroken \/ ~job.space THEN Fail ELSE Goto("stage2")
    /\ stats' = [stats EXCEPT !.internal = LayoutBroken]
    /\ UNCHANGED <<job, round, sel, out>>

----------------------------------------------------------------------------
(* Stage 2: a bucket's records meet the nodes of the blobs that overlap it. *)

Overlapping(b) == SelectSeq(NodeBlobs, LAMBDA n : n.hi >= BucketLo(b) /\ n.lo < BucketHi(b))
AscendingHolds(b) ==
    ~b.bad /\ ~Foreign(b) /\ ~Inexact(b) /\ \A i \in 1 .. Len(b.items) - 1 : b.items[i].id <= b.items[i + 1].id

\* The merge walk: a record is looked for in the first blob that reaches it.
Reaching(id, blobs) == SelectSeq(blobs, LAMBDA n : Last(n.items).id >= id)
FoundIn(id, blobs) ==
    IF Reaching(id, blobs) = <<>> THEN <<>> ELSE SelectSeq(Reaching(id, blobs)[1].items, LAMBDA e : e.id = id)
Pinned(id, recs) == job.inject /\ Cardinality({r \in recs : r.id = id /\ ~r.closing}) >= 2

Stage2Bucket(b) ==
    LET recs  == {r \in Records : Locate(r.id) = {b}}
        blobs == Overlapping(b)
        found == {r \in recs : FoundIn(r.id, blobs) # <<>>}
    IN /\ pc = "stage2" /\ b \notin sel.joined
       /\ IF recs # {} /\ (\/ \E n \in Range(blobs) : ~AscendingHolds(n)
                           \/ \E r \in found : ~InDomain(FoundIn(r.id, blobs)[1].loc))
          THEN Fail /\ UNCHANGED sel
          ELSE /\ sel' = [sel EXCEPT !.joined = @ \cup {b},
                            !.entries = @ \cup {[slot |-> SlotStart(r.blob) + r.local, loc |-> FoundIn(r.id, blobs)[1].loc,
                                                 pin |-> Pinned(r.id, recs)] : r \in found}]
               /\ UNCHANGED <<pc, result>>
       /\ UNCHANGED <<job, round, out, stats>>

\* The router is made: a blob without a ref has nothing to wait for.
Stage2Join ==
    /\ pc = "stage2" /\ sel.joined = 0 .. job.buckets - 1
    /\ sel' = [sel EXCEPT !.router = [w \in {v \in DOMAIN WayBlobs : SlotCount(v) = 0} |-> <<>>]]
    /\ stats' = [stats EXCEPT !.header = {OutputFacts}]
    /\ Goto("stream") /\ round' = 1 /\ UNCHANGED <<job, out>>

----------------------------------------------------------------------------
(* Stage 3: workers publish buckets in any order. *)

\* scatter_bucket_entries: a slot nothing was resolved for stays zero.
Scattered(b) ==
    LET s == SlotBucketBounds(b) IN
    [p \in s.lo .. s.hi - 1 |->
        IF \E e \in sel.entries : e.slot = p /\ SlotBucket(p) = b THEN LET e == CHOOSE x \in sel.entries : x.slot = p IN [loc |-> e.loc, pin |-> e.pin]
        ELSE [loc |-> NoLocation, pin |-> FALSE]]

\* classify_blobs_in_bucket, over [lo, hi) of the bucket.
Touches(w, s) == SlotCount(w) > 0 /\ SlotStart(w) < s.hi /\ SlotEnd(w) > s.lo
FullyContained(w, s) == Touches(w, s) /\ SlotStart(w) >= s.lo /\ SlotEnd(w) <= s.hi
RightHalf(w, s) == Touches(w, s) /\ SlotStart(w) < s.lo
LeftHalf(w, s) == Touches(w, s) /\ SlotStart(w) >= s.lo /\ SlotEnd(w) > s.hi
Slice(cells, lo, hi) == [i \in 1 .. hi - lo |-> cells[lo + i - 1]]

Half(w, side, cells) == [blob |-> w, side |-> side, cells |-> cells]
HalvesIn(s, cells) ==
    {Half(w, "left", Slice(cells, SlotStart(w), s.hi)) : w \in {v \in DOMAIN WayBlobs : LeftHalf(v, s)}}
        \cup {Half(w, "right", Slice(cells, s.lo, SlotEnd(w))) : w \in {v \in DOMAIN WayBlobs : RightHalf(v, s)}}

\* publish_straddler_half: the second half to come joins the two.
Joined(halves) ==
    [w \in {h.blob : h \in {x \in halves : x.side = "left" /\ \E y \in halves : y.blob = x.blob /\ y.side = "right"}} |->
        (CHOOSE h \in halves : h.blob = w /\ h.side = "left").cells \o (CHOOSE h \in halves : h.blob = w /\ h.side = "right").cells]
Duplicate(whole, halves) ==
    DOMAIN whole \cap DOMAIN sel.router # {} \/ \E h \in halves, g \in sel.halves : h.blob = g.blob /\ h.side = g.side

\* Union of two functions with disjoint domains.
Merged(f, g) == [x \in DOMAIN f \cup DOMAIN g |-> IF x \in DOMAIN f THEN f[x] ELSE g[x]]

Whole(s, cells) == [w \in {v \in DOMAIN WayBlobs : FullyContained(v, s)} |-> Slice(cells, SlotStart(w), SlotEnd(w))]
PublishBucket(b) ==
    /\ pc = "stream" /\ sel.producing /\ b \notin sel.published /\ ~(job.fails = "stage3" /\ job.failsAt = b)
    /\ \E s \in {SlotBucketBounds(b)}, cells \in {Scattered(b)} :
       \E fresh \in {HalvesIn(s, cells)}, whole \in {Whole(s, cells)} :
       LET halves == sel.halves \cup fresh  joined == Joined(halves) IN
       /\ IF Duplicate(whole, fresh)
          THEN sel' = [sel EXCEPT !.s3 = "failed", !.aborted = TRUE, !.published = @ \cup {b}] /\ stats' = [stats EXCEPT !.internal = TRUE]
          ELSE /\ sel' = [sel EXCEPT !.published = @ \cup {b}, !.router = Merged(Merged(@, whole), joined),
                                     !.halves = {h \in halves : h.blob \notin DOMAIN joined}]
               /\ UNCHANGED stats
       /\ UNCHANGED <<job, pc, round, out, result>>

\* A worker meets an error, the caller's cancellation or a panic: the router is
\* aborted, which wakes stage 4.
FailBucket(b) ==
    /\ pc = "stream" /\ sel.producing /\ sel.s3 = "running" /\ b \notin sel.published /\ job.fails = "stage3" /\ job.failsAt = b
    /\ sel' = [sel EXCEPT !.s3 = "failed", !.aborted = TRUE]
    /\ UNCHANGED <<job, pc, round, out, stats, result>>

\* stage3_slot_reorder returns, and mark_producer_done follows in either case.
EndStage3 ==
    /\ pc = "stream" /\ sel.producing
    /\ sel.aborted \/ sel.s3 = "failed" \/ sel.published = 0 .. SlotBucketCount - 1
    /\ sel' = [sel EXCEPT !.producing = FALSE, !.s3 = IF @ = "running" THEN "ok" ELSE @]
    /\ UNCHANGED <<job, pc, round, out, stats, result>>

----------------------------------------------------------------------------
(* Stage 4: the file is written in order. *)

Writing == pc = "stream" /\ sel.s4 = "running" /\ round <= Len(File.blobs)
Blob4 == File.blobs[round]
WayOrdinal == Len(SelectSeq(SubSeq(File.blobs, 1, round), LAMBDA b : b.claim = "way"))

\* A node blob with nothing in it to keep is not even read.
Skipped(b) == b.claim = "node" /\ ~job.keep /\ ~HasTags(b) /\ ~\E n \in sel.nodes : n >= b.lo /\ n <= b.hi

Abort4 == sel' = [sel EXCEPT !.s4 = "failed", !.aborted = TRUE] /\ UNCHANGED <<round, out>>
Step4(blobs) == out' = out \o blobs /\ round' = round + 1 /\ UNCHANGED sel

SkipNodes == Writing /\ Skipped(Blob4) /\ Step4(<<>>) /\ UNCHANGED <<job, pc, stats, result>>

PassBlob ==
    /\ Writing /\ BlobIsPassthrough(Blob4.claim)
    /\ Step4(<<Blob4>>) /\ stats' = CountPassed(Blob4) /\ UNCHANGED <<job, pc, result>>

AssembleBlock ==
    /\ Writing /\ Blob4.claim = "node" /\ ~job.keep /\ ~Skipped(Blob4)
    /\ IF ~AscendingHolds(Blob4) \/ (job.fails = "stage4" /\ job.failsAt = round) THEN Abort4 /\ UNCHANGED stats
       ELSE Step4(Blocks(WrittenNodes(Blob4.items))) /\ stats' = CountDecoded(Blob4.items, 0)
    /\ UNCHANGED <<job, pc, result>>

\* reframe_way_blob_with_locations: the payload is split by the ways' ref counts.
Spliced(items, cells) ==
    LET before(i) == FoldLeft(LAMBDA n, e : n + Len(e.refs), 0, SubSeq(items, 1, i - 1))
        cell(i, r) == cells[before(i) + r]
    IN [i \in DOMAIN items |->
            [items[i] EXCEPT !.locs = [r \in DOMAIN items[i].refs |-> cell(i, r).loc],
                             !.pins = {r \in DOMAIN items[i].refs : cell(i, r).pin},
                             !.member = job.inject /\ items[i].id \in sel.ways]]

\* wait_ready: published, or the wait is over without it.
WriteWays ==
    /\ Writing /\ Blob4.claim = "way" /\ WayOrdinal \in DOMAIN sel.router
    /\ IF Blob4.bad \/ FramingRefused(Blob4) \/ (job.fails = "stage4" /\ job.failsAt = round) THEN Abort4 /\ UNCHANGED stats
       ELSE /\ Step4(<<Reframed(Spliced(Blob4.items, sel.router[WayOrdinal]))>>)
            /\ stats' = CountDecoded(Blob4.items, 0)
    /\ UNCHANGED <<job, pc, result>>
WakeWithoutWays ==
    /\ Writing /\ Blob4.claim = "way" /\ WayOrdinal \notin DOMAIN sel.router /\ (sel.aborted \/ ~sel.producing)
    /\ Abort4 /\ stats' = [stats EXCEPT !.internal = @ \/ ~sel.aborted]
    /\ UNCHANGED <<job, pc, result>>

EndStage4 ==
    /\ pc = "stream" /\ sel.s4 = "running" /\ round > Len(File.blobs)
    /\ sel' = [sel EXCEPT !.s4 = "ok"] /\ UNCHANGED <<job, pc, round, out, stats, result>>

\* Both threads are joined; what was not resolved is missing.
JoinStages ==
    /\ pc = "stream" /\ ~sel.producing /\ sel.s4 # "running"
    /\ LET missing == TotalSlots - Cardinality(sel.entries) IN
       /\ stats' = [stats EXCEPT !.missing = missing]
       /\ IF sel.s3 = "failed" \/ sel.s4 = "failed" THEN Fail ELSE EnforceMissing(missing)
    /\ UNCHANGED <<job, round, sel, out>>

ExternalNext ==
    \/ ExternalJoinIn \/ Stage1WayPass \/ CollectRelationMemberIdsIndexed \/ ValidateSlotLayout
    \/ \E b \in 0 .. job.buckets - 1 : Stage2Bucket(b)
    \/ Stage2Join
    \/ \E b \in 0 .. SlotBucketCount - 1 : PublishBucket(b) \/ FailBucket(b)
    \/ EndStage3 \/ SkipNodes \/ PassBlob \/ AssembleBlock \/ WriteWays \/ WakeWithoutWays \/ EndStage4 \/ JoinStages

Next == SparseNext \/ ExternalNext

----------------------------------------------------------------------------
(* What the command promises, over the elements alone. *)

AllItems == Elements(File.blobs)
LocationsOf(n) == IF n < 0 THEN {} ELSE {e.loc : e \in {x \in Range(AllItems) : x.kind = "node" /\ x.id = n}}
SharedRef(n) == n \in Twice(AllRefs(Of("way", AllItems)))
Bare(e) == [e EXCEPT !.locs = <<>>, !.pins = {}, !.member = FALSE, !.wire = ""]
KeptOf(e) == e.kind # "node" \/ job.keep \/ e.tagged \/ e.id \in MemberNodes(Of("relation", AllItems))
TrulyLocated(o, e) ==
    /\ Bare(o) = Bare(e)
    /\ e.kind = "way" =>
        /\ o.member = (job.inject /\ e.id \in MemberWays(Of("relation", AllItems)))
        /\ DOMAIN o.locs = DOMAIN e.refs
        /\ \A r \in DOMAIN e.refs :
            /\ o.locs[r] \in (IF LocationsOf(e.refs[r]) = {} THEN {NoLocation} ELSE LocationsOf(e.refs[r]))
            /\ (r \in o.pins) = (job.inject /\ LocationsOf(e.refs[r]) # {} /\ SharedRef(e.refs[r]))
Unresolved == Len(SelectSeq(FlattenSeq([i \in DOMAIN AllItems |-> AllItems[i].refs]), LAMBDA n : LocationsOf(n) = {}))

External == Backend = "external"
MayRefuse ==
    \/ Invalid \/ ~File.present \/ ~job.space \/ (Unresolved > 0 /\ ~job.ignoreMissing)
    \/ \E b \in Range(File.blobs) : b.bad \/ Foreign(b) \/ Inexact(b) \/ (b.claim = "none" /\ (~job.force \/ External \/ PartlyIndexed(File.blobs)))
    \/ \E e \in Range(AllItems) : (e.kind = "way" /\ e.wire # "packed") \/ (e.kind = "node" /\ e.loc = Outside)
    \/ External /\ (~job.fds \/ job.fails # "no" \/ ~File.header.sorted \/ ~LayoutFits \/ ~RangesInOrder
                    \/ \E k \in AllKinds : ~OrderedWalk(MetasOf(k)))

\* add-locations-to-ways, whichever index it takes and in whatever order its
\* threads publish (commands/altw): every way comes out with the location of
\* each of its nodes and zero for one the file lacks, pinned exactly where the
\* node is shared and known; the nodes left out are the ones nothing needs; the
\* unresolved refs are counted; no internal refusal is ever met, and any other
\* has its reason.
AddLocationsIsTrue ==
    /\ ~stats.internal
    /\ result = "failed" => MayRefuse
    /\ result = "ok" =>
        \E want \in {SelectSeq(AllItems, KeptOf)}, got \in {Elements(out)} :
            /\ Len(got) = Len(want) /\ \A i \in DOMAIN want : TrulyLocated(got[i], want[i])
            /\ stats.missing = Unresolved /\ (Unresolved > 0 => job.ignoreMissing)
            /\ \A b \in Range(out) : ~Inexact(b)
            /\ stats.header = {OutputFacts} /\ (OutputFacts.sorted => File.header.sorted)
            /\ <<stats.nodesWritten, stats.ways, stats.relations>> = <<Count("node", got), Count("way", got), Count("relation", got)>>
            /\ ~External => stats.nodesRead = Count("node", AllItems) /\ stats.nodesDropped = stats.nodesRead - stats.nodesWritten

-----------------------------------------------------------------------------
(* add-locations-to-ways on small files: two node blobs, two way blobs, a     *)
(* relation blob; nodes at ID 0 and 6 bound the buckets.                      *)

Elem(kind, id, tagged, loc, refs, type, members, wire) ==
    [kind |-> kind, id |-> id, tagged |-> tagged, loc |-> loc, refs |-> refs, locs |-> <<>>, pins |-> {}, member |-> FALSE,
     type |-> type, members |-> members, wire |-> wire]
Nd(id, tagged, loc) == Elem("node", id, tagged, loc, <<>>, "", <<>>, "packed")
Wy(id, refs, wire) == Elem("way", id, FALSE, 0, refs, "", <<>>, wire)
Rl(id, type, members) == Elem("relation", id, FALSE, 0, <<>>, type, members, "packed")

BlobOf(how, kind, items) ==
    LET i == IF items = <<>> THEN [lo |-> 1, hi |-> 1, count |-> 1] ELSE [lo |-> PayloadIndex(items).lo, hi |-> PayloadIndex(items).hi, count |-> Len(items)]
    IN [claim |-> IF how = "none" THEN "none" ELSE kind, lo |-> i.lo, hi |-> IF how = "false" THEN i.hi + 1 ELSE i.hi, count |-> i.count,
        tags |-> IF how = "untagged" THEN "none" ELSE "true", bad |-> how = "bad", items |-> items]

NodesA == {<<Nd(0, FALSE, 1), Nd(2, TRUE, 2)>>, <<Nd(1, FALSE, 0), Nd(2, FALSE, 3)>>, <<Nd(2, FALSE, 2), Nd(1, TRUE, 1)>>, <<Nd(-1, TRUE, 1)>>}
NodesB == {<<Nd(2, FALSE, 4), Nd(6, FALSE, 5)>>, <<Nd(6, TRUE, Outside)>>, <<Nd(3, FALSE, 0)>>}
WaysA == {<<Wy(1, <<0, 2, 6>>, "packed")>>, <<Wy(1, <<2, 1, 6, 2>>, "packed"), Wy(2, <<>>, "packed")>>, <<Wy(2, <<-1, 9>>, "packed"), Wy(1, <<1>>, "packed")>>}
WaysB == {<<Wy(3, <<2>>, "packed")>>, <<Wy(3, <<>>, "packed")>>, <<Wy(3, <<6, 6>>, "split")>>, <<Wy(3, <<3>>, "framed")>>, <<Wy(2, <<2, 2, 3>>, "packed"), Wy(4, <<0>>, "packed")>>}
Rels == {<<Rl(1, "boundary", <<<<"node", 2>>, <<"way", 1>>>>)>>, <<Rl(1, "route", <<<<"way", 2>>, <<"node", 6>>>>), Rl(4, "multipolygon", <<<<"way", 3>>, <<"way", 1>>>>)>>}

Call(index, o, a, b, w, v, r, how) ==
    job = [cmd |-> "altw", index |-> index, force |-> o.force, inject |-> o.inject, keep |-> o.keep, ignoreMissing |-> o.ignore,
           budget |-> o.budget, space |-> o.env # "space", fds |-> o.env # "fds", buckets |-> o.buckets, widest |-> IF o.env = "wide" THEN 1 ELSE 4,
           fails |-> IF o.env \in {"stage3", "stage4"} THEN o.env ELSE "no", failsAt |-> o.at,
           files |-> <<[present |-> o.env # "empty",
             header |-> [sorted |-> o.env # "unsorted", locs |-> FALSE, pins |-> FALSE, members |-> FALSE, ts |-> 7, seq |-> 1, url |-> "u", box |-> {1}],
             blobs |-> <<BlobOf(IF how = "unindexed" THEN "none" ELSE "true", "node", a), BlobOf(IF how = "unindexed" THEN "none" ELSE how, "node", b), BlobOf(IF how = "unindexed" THEN "none" ELSE "true", "way", w),
                         BlobOf(IF how = "unindexed" THEN "none" ELSE IF how = "untagged" THEN "true" ELSE how, "way", v), BlobOf(IF how = "unindexed" THEN "none" ELSE "true", "relation", r)>>]>>]
Usual == [force |-> FALSE, inject |-> TRUE, keep |-> FALSE, ignore |-> TRUE, budget |-> 3, env |-> "ok", buckets |-> 3, at |-> 0]

Worlds ==
    \/ \E index \in {"sparse", "external"}, a \in NodesA, b \in NodesB, w \in WaysA, v \in WaysB, r \in Rels, inject, keep \in BOOLEAN :
           Call(index, [Usual EXCEPT !.inject = inject, !.keep = keep], a, b, w, v, r, "true")
    \/ \E index \in {"sparse", "external", "auto"}, w \in WaysA, v \in WaysB, inject, force, ignore \in BOOLEAN,
         how \in {"none", "false", "bad", "untagged", "unindexed"}, budget \in {3, 9} :
           Call(index, [Usual EXCEPT !.inject = inject, !.force = force, !.ignore = ignore, !.budget = budget],
                CHOOSE n \in NodesA : n[1].id = 0, CHOOSE n \in NodesB : n[1].id = 2, w, v, CHOOSE r \in Rels : Len(r) = 2, how)
    \/ \E env \in {"space", "fds", "wide", "empty", "unsorted", "stage3", "stage4"}, at \in 0 .. 5, w \in WaysA, v \in WaysB, buckets \in 1 .. 4, index \in {"sparse", "external"} :
           /\ env \in {"stage3", "stage4"} \/ (at = 0 /\ buckets = 2)
           /\ Call(index, [Usual EXCEPT !.env = env, !.at = at, !.buckets = buckets],
                CHOOSE n \in NodesA : n[1].id = 0, CHOOSE n \in NodesB : n[1].id = 2, w, v, CHOOSE r \in Rels : Len(r) = 2, "true")
=============================================================================
