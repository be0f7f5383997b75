------------------------------- MODULE Check --------------------------------
(* The walk over a block that makes a blob's index, check --index that        *)
(* compares a file's indexes with it, check --ids, check --refs (does every   *)
(* reference have its element?) and check --locations (do the ways' locations *)
(* agree with the nodes?).                                                    *)
EXTENDS CommandState, TLC

-----------------------------------------------------------------------------
(* blob_meta/scan.rs and blob_meta/mod.rs: the one walk over a block that     *)
(* finds its index (kind, ID range, count, bounding box) and its tag keys,    *)
(* and the encoding of an index in a blob header.                             *)
(*                                                                            *)
(* A block has groups; a group is a sequence of fields, each a plain element, *)
(* a dense node run or a field the walk skips.  Coordinates have one axis.    *)

\* Nanodegrees per decimicrodegree, and the largest decimicrodegree of an i32,
\* scaled down.
PerUnit == 4
MaxUnit == 3

NoBox == [known |-> FALSE, lo |-> 0, hi |-> 0]
Box(lo, hi) == [known |-> TRUE, lo |-> lo, hi |-> hi]
BoxContains(a, b) == a.lo <= b.lo /\ b.hi <= a.hi

----------------------------------------------------------------------------
(* The walk. *)

Walk == [kind |-> "none", differ |-> FALSE, mixed |-> FALSE, broken |-> FALSE, count |-> 0,
         lo |-> 0, hi |-> 0, prev |-> 0, sorted |-> TRUE, extent |-> {}, keys |-> {}]

\* Walk::element
Element(w, kind, id) ==
    [w EXCEPT !.kind = IF @ = "none" THEN kind ELSE @, !.differ = @ \/ w.kind \notin {"none", kind},
              !.sorted = @ /\ (w.count = 0 \/ ~KeyLess(OsmIdKey(id), OsmIdKey(w.prev))),
              !.prev = id, !.count = @ + 1,
              !.lo = IF w.count = 0 \/ id < @ THEN id ELSE @, !.hi = IF w.count = 0 \/ id > @ THEN id ELSE @]

\* Walk::coordinate keeps the least and the greatest raw coordinate.
Coordinate(w, raw) == [w EXCEPT !.extent = {Min(@ \cup {raw}), Max(@ \cup {raw})}]

\* Walk::packed_keys, Walk::key
PackedKeys(w, keys) == [w EXCEPT !.keys = @ \cup keys]

\* Walk::dense_keys_vals: key and value pairs, one run for each node.
DenseKeysVals(w, nodes, runs) ==
    IF runs \notin {0, Len(nodes)} THEN [w EXCEPT !.broken = TRUE]
    ELSE [w EXCEPT !.keys = @ \cup UNION {n.keys : n \in Range(nodes)}]

\* Walk::dense
Dense(w, f) ==
    LET each(v, n) == Element(Coordinate(v, n.at), "node", n.id)
    IN IF f.uneven THEN [w EXCEPT !.broken = TRUE]
       ELSE DenseKeysVals(FoldLeft(each, w, f.elems), f.elems, f.runs)

Field(w, f) ==
    CASE f.is = "skipped" -> w
      [] f.is = "dense"   -> Dense(w, f)
      [] f.is = "node"    -> Element(Coordinate(PackedKeys(w, f.elems[1].keys), f.elems[1].at), "node", f.elems[1].id)
      [] OTHER            -> Element(PackedKeys(w, f.elems[1].keys), f.is, f.elems[1].id)

\* Walk::group: a group has fields of one kind, and at most one dense run.
Group(w, fields) ==
    LET walked == FoldLeft(Field, w, fields)
        seen   == {f.is : f \in Range(fields)} \ {"skipped"}
    IN [walked EXCEPT !.mixed = @ \/ Cardinality(seen) > 1,
                      !.broken = @ \/ Len(SelectSeq(fields, LAMBDA f : f.is = "dense")) > 1]

\* Walk::run: keys must be in the string table, and are resolved when it is known.
Resolved(w, strings) == [w EXCEPT !.broken = @ \/ \E k \in w.keys : k >= strings]
Run(block) == Resolved(FoldLeft(Group, Walk, block.groups), block.strings)

----------------------------------------------------------------------------
(* What the walk says of the block. *)

FloorDiv(a, b) == a \div b
CeilDiv(a, b) == -((-a) \div b)
InRange(x) == x \in -MaxUnit .. MaxUnit

\* A plausible bug: the upper bound is rounded down like the lower one.
TransformRange_Down(extent, block) ==
    LET nano == {block.offset + block.granularity * raw : raw \in extent}
        lo   == FloorDiv(Min(nano), PerUnit)
        hi   == FloorDiv(Max(nano), PerUnit)
    IN IF InRange(lo) /\ InRange(hi) THEN Box(lo, hi) ELSE NoBox

\* transform_range: to decimicrodegrees, outwards, or no box at all.
TransformRange(extent, block) ==
    LET nano == {block.offset + block.granularity * raw : raw \in extent}
        lo   == FloorDiv(Min(nano), PerUnit)
        hi   == CeilDiv(Max(nano), PerUnit)
    IN IF InRange(lo) /\ InRange(hi) THEN Box(lo, hi) ELSE NoBox

BboxOf(w, block) == IF w.kind # "node" \/ w.extent = {} THEN NoBox ELSE TransformRange(w.extent, block)

NoIndex == [has |-> FALSE, kind |-> "none", lo |-> 0, hi |-> 0, count |-> 0, box |-> NoBox]

\* Walk::index
WalkIndex(w, block) ==
    IF w.mixed \/ w.differ \/ w.kind = "none" THEN NoIndex
    ELSE [has |-> TRUE, kind |-> w.kind, lo |-> w.lo, hi |-> w.hi, count |-> w.count, box |-> BboxOf(w, block)]
IndexOf(block) == WalkIndex(Run(block), block)

\* Walk::tags; scan_block_tags has none for a block it cannot read.
WalkTags(w, block) == [has |-> ~w.broken /\ block.groups # <<>> /\ ~w.mixed, keys |-> w.keys]
TagsOf(block) == WalkTags(Run(block), block)

----------------------------------------------------------------------------
(* The index in a blob header. *)

\* BlobIndex::serialize: version 3, with bounds the wrong way round for no box.
Serialize(index) ==
    [present |-> TRUE, version |-> 3, len |-> 42, kind |-> index.kind, lo |-> index.lo, hi |-> index.hi,
     count |-> index.count, box |-> IF index.box.known THEN <<index.box.lo, index.box.hi>> ELSE <<MaxUnit, -MaxUnit>>]

VersionSize(v) == CASE v = 1 -> 26 [] v \in {2, 3} -> 42 [] OTHER -> 0

\* classify_wire_indexdata, as the frame reader uses it.
Carried(wire) ==
    wire.present /\ wire.len \in {26, 42} /\ (VersionSize(wire.version) # 0 => VersionSize(wire.version) = wire.len)

\* BlobIndex::deserialize: version 2 wrote zeros for no box.
Deserialize(wire) ==
    IF ~Carried(wire) \/ VersionSize(wire.version) = 0 \/ wire.kind \notin Range(Kinds) \/ wire.lo > wire.hi
    THEN NoIndex
    ELSE [has |-> TRUE, kind |-> wire.kind, lo |-> wire.lo, hi |-> wire.hi, count |-> wire.count,
          box |-> IF \/ wire.version = 1 \/ wire.kind # "node"
                     \/ wire.version = 2 /\ wire.box = <<0, 0>>
                     \/ wire.box[1] > wire.box[2]
                  THEN NoBox ELSE Box(wire.box[1], wire.box[2])]

\* BlobIndex::bbox_claim
BboxClaim(claimed, observed) ==
    CASE ~claimed.box.known                       -> "absent"
      [] claimed.box.known /\ observed.kind # "node" -> "not nodes"
      [] claimed.box.known /\ observed.kind = "node" /\ ~observed.box.known -> "out of range"
      [] OTHER -> IF BoxContains(claimed.box, observed.box) THEN "holds" ELSE "too small"

-----------------------------------------------------------------------------
(* commands/check/index.rs: every blob is decoded and what its header says of *)
(* it is compared with what it holds.                                         *)

Opened ==
    /\ Begin /\ sel = [unindexed |-> 0] /\ out = <<>>
    /\ stats = [blobs |-> 0, index |-> 0, tags |-> 0, unindexable |-> 0, total |-> 0]

\* check_index_inner opens the file; its walk accepts a partly indexed one.
OpenFrames ==
    /\ pc = "enter"
    /\ IF job.file = <<>> \/ job.file[1].type # "header" THEN Fail ELSE Goto("frames")
    /\ round' = 1 /\ UNCHANGED <<job, sel, out, stats>>

\* diff_blob
DiffBlob(f, stored, observed) ==
    IF ~stored.has THEN IF f.index.present THEN {"malformed indexdata"} ELSE {}
    ELSE IF ~observed.has THEN {"index on unindexable"}
    ELSE {v \in {"kind", "count", "min", "max", "too small", "out of range"} :
            \/ v = "kind"  /\ stored.kind # observed.kind
            \/ v = "count" /\ stored.count # observed.count
            \/ v = "min"   /\ stored.lo # observed.lo
            \/ v = "max"   /\ stored.hi # observed.hi
            \/ v = BboxClaim(stored, observed)}

\* diff_tagdata
DiffTagdata(f) ==
    IF ~f.tags.present THEN {}
    ELSE IF ~f.tags.readable THEN {"malformed tagdata"}
    ELSE LET observed == TagsOf(f.block) IN
         IF ~observed.has THEN {"tagdata on unindexable"}
         ELSE (IF observed.keys \subseteq f.tags.keys THEN {} ELSE {"keys missing"})
              \cup (IF f.tags.keys \subseteq observed.keys THEN {} ELSE {"keys spurious"})

\* A violation counts, and is kept while there is room.
Report(list, found) ==
    LET all == list \o [i \in 1 .. Cardinality(found) |-> SetToSeq(found)[i]]
    IN IF job.cap = 0 THEN all ELSE SubSeq(all, 1, IF Len(all) < job.cap THEN Len(all) ELSE job.cap)

CheckBlob ==
    /\ pc = "frames" /\ round <= Len(job.file)
    /\ LET f == job.file[round]  stored == Deserialize(f.index)  observed == IndexOf(f.block) IN
       IF f.type # "data" THEN UNCHANGED <<sel, out, stats, pc, result>>
       ELSE IF f.bad \/ Run(f.block).broken THEN Fail /\ UNCHANGED <<sel, out, stats>>
       ELSE \E found \in {DiffBlob(f, stored, observed) \cup DiffTagdata(f)} :
            /\ stats' = [stats EXCEPT !.blobs = @ + 1, !.index = IF stored.has THEN @ + 1 ELSE @,
                                      !.tags = IF f.tags.present THEN @ + 1 ELSE @,
                                      !.unindexable = IF observed.has THEN @ ELSE @ + 1,
                                      !.total = @ + Cardinality(found)]
            /\ out' = Report(out, {<<stats.blobs, v>> : v \in found})
            /\ sel' = IF observed.has /\ ~f.index.present /\ sel.unindexed = 0
                      THEN [unindexed |-> round] ELSE sel
            /\ UNCHANGED <<pc, result>>
    /\ round' = round + 1 /\ UNCHANGED job

\* The last violation: a blob without an index among blobs with one.
EndIndex ==
    /\ pc = "frames" /\ round > Len(job.file)
    /\ IF sel.unindexed # 0 /\ stats.index > 0
       THEN /\ stats' = [stats EXCEPT !.total = @ + 1]
            /\ out' = Report(out, {<<sel.unindexed, "missing among indexed">>})
       ELSE UNCHANGED <<stats, out>>
    /\ Done /\ UNCHANGED <<job, round, sel>>

Next == OpenFrames \/ CheckBlob \/ EndIndex

----------------------------------------------------------------------------
(* Properties. *)

DataFrames == {f \in Range(job.file) : f.type = "data"}
FieldsOf(block) == UNION {Range(g) : g \in Range(block.groups)}
ElemsOf(block) == UNION {{[kind |-> IF f.is = "dense" THEN "node" ELSE f.is, e |-> e] : e \in Range(f.elems)} :
                         f \in {x \in FieldsOf(block) : x.is # "skipped"}}
SizeOf(block) == FoldLeft(LAMBDA n, g : n + FoldLeft(LAMBDA m, f : m + IF f.is = "skipped" THEN 0 ELSE Len(f.elems), 0, g), 0, block.groups)
PureGroups(block) == \A g \in Range(block.groups) : Cardinality({f.is : f \in Range(g)} \ {"skipped"}) <= 1
Indexable(block) == PureGroups(block) /\ Cardinality({x.kind : x \in ElemsOf(block)}) = 1

\* The index says of the block's elements nothing that is not so.
IndexHolds(index, block) ==
    /\ Indexable(block) /\ index.count = SizeOf(block)
    /\ {x.kind : x \in ElemsOf(block)} = {index.kind}
    /\ \A x \in ElemsOf(block) : x.e.id \in index.lo .. index.hi
    /\ \E x, y \in ElemsOf(block) : x.e.id = index.lo /\ y.e.id = index.hi
    /\ index.box.known => \A x \in ElemsOf(block) :
          LET nano == block.offset + block.granularity * x.e.at
          IN PerUnit * index.box.lo <= nano /\ nano <= PerUnit * index.box.hi
TagsHold(tags, block) ==
    tags.readable /\ PureGroups(block) /\ block.groups # <<>> /\ tags.keys = UNION {x.e.keys : x \in ElemsOf(block)}

\* check --index passes a file exactly when every index and every tag index in
\* it is readable and true of the block it heads, and the indexable blobs have
\* all an index or none; it lists what it counts, up to its cap; and it fails
\* only on a block no reader would decode or a file without a header.
IndexReportIsTrue ==
    /\ result = "ok" =>
          /\ stats.total = 0 <=>
                /\ \A f \in DataFrames : f.index.present => Deserialize(f.index).has /\ IndexHolds(Deserialize(f.index), f.block)
                /\ \A f \in DataFrames : f.tags.present => TagsHold(f.tags, f.block)
                /\ (\E f \in DataFrames : f.index.present) => \A f \in DataFrames : Indexable(f.block) => f.index.present
          /\ Len(out) = IF job.cap = 0 \/ stats.total < job.cap THEN stats.total ELSE job.cap
    /\ result = "failed" =>
          \/ job.file = <<>> \/ job.file[1].type # "header"
          \/ \E f \in DataFrames : f.bad \/ Run(f.block).broken
    /\ \A f \in DataFrames : IndexOf(f.block).has => Deserialize(Serialize(IndexOf(f.block))) = IndexOf(f.block)

-----------------------------------------------------------------------------
(* commands/check/verify_ids.rs: are a file's IDs in order and, in a full     *)
(* check, unique?  Workers judge blobs concurrently, ID by ID, against shared *)
(* sets; the consumer settles the IDs beyond a set's allocation as results    *)
(* arrive, and the results are merged in the file's order.                    *)
(*                                                                            *)
(* An element also has the number of its group in the blob.                   *)

NoResult == [count |-> 0, ids |-> <<>>, within |-> <<>>, dups |-> <<>>, beyond |-> <<>>]
Judges == [kind \in AllKinds |-> NoResult]

\* sel: shared sets and the consumer's overflow sets; the blobs in work with
\* the number of elements judged, the judges, and the blobs settled.
VerifyOpened ==
    /\ Begin /\ out = <<>>
    /\ sel = [ids |-> [k \in AllKinds |-> {}], over |-> [k \in AllKinds |-> {}], todo |-> {}, at |-> <<>>,
              judge |-> <<>>]
    /\ stats = [count |-> [k \in AllKinds |-> 0], total |-> 0]

Stop == pc' = "done" /\ result' = "stopped"
At(kind) == {i \in DOMAIN job.file : job.file[i].claim = kind}
Unindexed == At("none") # {}

\* should_store_violation
Stored(list, more) ==
    LET all == list \o more IN IF job.cap = 0 \/ Len(all) < job.cap THEN all ELSE SubSeq(all, 1, job.cap)
Violate(more) == stats' = [stats EXCEPT !.total = @ + Len(more)] /\ out' = Stored(out, more)

----------------------------------------------------------------------------
(* The order of kinds. *)

\* schedule_span over an indexed file's blobs, GroupKinds over an unindexed
\* one's groups: a kind's places, with the first and the last of them.
Place(b, e) == IF Unindexed THEN 100 * b + e.group ELSE 100 * b
Places(kind) ==
    IF Unindexed THEN UNION {{Place(b, e) : e \in Range(Of(kind, job.file[b].items))} : b \in DOMAIN job.file}
    ELSE {100 * b : b \in At(kind)}

\* check_type_order
CheckTypeOrder ==
    LET late(a, b) == Places(a) # {} /\ Places(b) # {} /\ Max(Places(a)) > Min(Places(b))
        pairs      == <<<<"node", "way">>, <<"node", "relation">>, <<"way", "relation">>>>
    IN SelectSeq(pairs, LAMBDA p : late(p[1], p[2]))

----------------------------------------------------------------------------
(* The passes. *)

\* verify_ids_streaming_parallel and verify_ids_full_parallel: an indexed
\* file's kinds are in order before any is read, an unindexed file's after.
VerifyIdsInner ==
    /\ pc = "enter"
    /\ IF PartlyIndexed(job.file) THEN Fail /\ UNCHANGED <<sel, stats, out, round>>
       ELSE /\ Goto("phase") /\ round' = 1
            /\ sel' = [sel EXCEPT !.at = [i \in DOMAIN job.file |-> 0], !.judge = [i \in DOMAIN job.file |-> Judges],
                                  !.todo = IF Unindexed THEN DOMAIN job.file
                                           ELSE IF "node" \in job.filter THEN At("node") ELSE {}]
            /\ IF Unindexed THEN UNCHANGED <<stats, out>> ELSE Violate(CheckTypeOrder)
    /\ UNCHANGED job

\* KindJudge::push
Push(j, kind, id) ==
    LET new == id \notin sel.ids[kind] IN
    [count  |-> j.count + 1, ids |-> Append(j.ids, id),
     within |-> IF j.ids # <<>> /\ KeyLeq(OsmIdKey(id), OsmIdKey(Last(j.ids)))
                THEN Append(j.within, <<"order", kind, id>>) ELSE j.within,
     dups   |-> IF job.full /\ id >= 0 /\ id <= job.bound[kind] /\ ~new THEN Append(j.dups, id) ELSE j.dups,
     beyond |-> IF job.full /\ (id < 0 \/ id > job.bound[kind]) THEN Append(j.beyond, id) ELSE j.beyond]

\* verify_blob and the worker of unindexed_pass: a block is accepted whole,
\* then its IDs are judged one after the other.
Accept(b) ==
    /\ pc = "phase" /\ b \in sel.todo /\ sel.at[b] = 0
    /\ CASE job.file[b].bad -> Fail /\ UNCHANGED sel
         [] ~job.file[b].bad /\ Foreign(job.file[b]) -> Stop /\ UNCHANGED sel
         [] OTHER -> sel' = [sel EXCEPT !.at[b] = 1] /\ UNCHANGED <<pc, result>>
    /\ UNCHANGED <<job, round, out, stats>>

JudgeNext(b) ==
    /\ pc = "phase" /\ b \in sel.todo /\ sel.at[b] \in 1 .. Len(job.file[b].items)
    /\ LET e == job.file[b].items[sel.at[b]] IN
       sel' = IF e.kind \notin job.filter THEN [sel EXCEPT !.at[b] = @ + 1]
              ELSE [sel EXCEPT !.at[b] = @ + 1, !.judge[b][e.kind] = Push(@, e.kind, e.id),
                               !.ids[e.kind] = IF job.full /\ e.id >= 0 /\ e.id <= job.bound[e.kind]
                                               THEN @ \cup {e.id} ELSE @]
    /\ UNCHANGED <<job, pc, round, out, stats, result>>

\* settle_overflow: negative IDs stay out of range, the others are checked here.
SettleKind(s, b, kind) ==
    LET step(t, id) ==
          IF id < 0 THEN [t EXCEPT !.judge[b][kind].beyond = Append(@, id)]
          ELSE IF id \in t.over[kind] THEN [t EXCEPT !.judge[b][kind].dups = Append(@, id)]
          ELSE [t EXCEPT !.over[kind] = @ \cup {id}]
    IN FoldLeft(step, [s EXCEPT !.judge[b][kind].beyond = <<>>], s.judge[b][kind].beyond)
SettleOverflow(b) ==
    /\ pc = "phase" /\ b \in sel.todo /\ sel.at[b] > Len(job.file[b].items)
    /\ sel' = FoldLeft(LAMBDA s, k : SettleKind(s, b, k), [sel EXCEPT !.todo = @ \ {b}], Kinds)
    /\ UNCHANGED <<job, pc, round, out, stats, result>>

\* merge_kind: a blob's own violations, the step from the blob before it that
\* has elements of the kind, its duplicates, its IDs out of range.
MergeKind(kind, blobs) ==
    LET step(m, b) ==
          LET j == sel.judge[b][kind]
              cross == IF m.last # <<>> /\ j.ids # <<>> /\ KeyLeq(OsmIdKey(j.ids[1]), OsmIdKey(m.last[1]))
                       THEN <<<<"order", kind, j.ids[1]>>>> ELSE <<>>
          IN [count |-> m.count + j.count, last |-> IF j.ids = <<>> THEN m.last ELSE <<Last(j.ids)>>,
              found |-> m.found \o j.within \o cross \o [i \in DOMAIN j.dups |-> <<"duplicate", kind, j.dups[i]>>]
                        \o [i \in DOMAIN j.beyond |-> <<"range", kind, j.beyond[i]>>]]
    IN FoldLeft(step, [count |-> 0, last |-> <<>>, found |-> <<>>], SetToSortSeq(blobs, LAMBDA x, y : x < y))

\* scan_kinds on an indexed file: a kind is merged before the next is read.
EndKind ==
    /\ pc = "phase" /\ ~Unindexed /\ sel.todo = {}
    /\ LET kind == Kinds[round] IN
       IF kind \notin job.filter THEN UNCHANGED <<stats, out>>
       ELSE \E m \in {MergeKind(kind, At(kind))} :
            /\ stats' = [stats EXCEPT !.count[kind] = m.count, !.total = @ + Len(m.found)]
            /\ out' = Stored(out, m.found)
    /\ IF round = 3 THEN Done /\ UNCHANGED <<sel, round>>
       ELSE /\ round' = round + 1 /\ UNCHANGED <<pc, result>>
            /\ sel' = [sel EXCEPT !.todo = IF Kinds[round + 1] \in job.filter THEN At(Kinds[round + 1]) ELSE {}]
    /\ UNCHANGED job

EndUnindexed ==
    /\ pc = "phase" /\ Unindexed /\ sel.todo = {}
    /\ \E ms \in {[k \in job.filter |-> MergeKind(k, DOMAIN job.file)]} :
       LET found == CheckTypeOrder \o FlattenSeq([i \in 1 .. 3 |-> IF Kinds[i] \in job.filter THEN ms[Kinds[i]].found ELSE <<>>])
       IN /\ stats' = [count |-> [k \in AllKinds |-> IF k \in job.filter THEN ms[k].count ELSE 0], total |-> Len(found)]
          /\ out' = Stored(out, found)
    /\ Done /\ UNCHANGED <<job, round, sel>>

VerifyNext ==
    \/ VerifyIdsInner \/ EndKind \/ EndUnindexed
    \/ \E b \in DOMAIN job.file : Accept(b) \/ JudgeNext(b) \/ SettleOverflow(b)

----------------------------------------------------------------------------
(* Properties. *)

IdsOf(kind) == LET es == Of(kind, Elements(job.file)) IN [i \in DOMAIN es |-> es[i].id]
Disorder(kind) ==
    LET s == IdsOf(kind) IN Cardinality({i \in 1 .. Len(s) - 1 : KeyLeq(OsmIdKey(s[i + 1]), OsmIdKey(s[i]))})
Negative(kind) == Cardinality({i \in DOMAIN IdsOf(kind) : IdsOf(kind)[i] < 0})
Again(kind) == LET s == IdsOf(kind) IN Cardinality({i \in DOMAIN s : s[i] >= 0 /\ \E j \in 1 .. i - 1 : s[j] = s[i]})
KindsLate ==
    Cardinality({p \in (1 .. 3) \X (1 .. 3) : p[1] < p[2] /\ \E a, b \in DOMAIN job.file :
        \E x \in Range(job.file[a].items), y \in Range(job.file[b].items) :
            x.kind = Kinds[p[1]] /\ y.kind = Kinds[p[2]] /\ Place(a, x) > Place(b, y)})
Sum(f(_)) == FoldLeft(LAMBDA n, k : n + IF k \in job.filter THEN f(k) ELSE 0, 0, Kinds)

\* check --ids counts what it was asked about, and as many violations as there
\* are neighbours out of order, kinds out of order and, in a full check,
\* occurrences of an ID beyond its first and negative IDs, whatever workers
\* meet a duplicate first; it lists them up to its cap.  It stops only at a
\* contradicted claim and fails only for an unreadable or partly indexed file.
IdsAreTrue ==
    /\ result = "ok" =>
          /\ \A k \in AllKinds : stats.count[k] = IF k \in job.filter THEN Count(k, Elements(job.file)) ELSE 0
          /\ stats.total = Sum(Disorder) + KindsLate + IF job.full THEN Sum(Negative) + Sum(Again) ELSE 0
          /\ Len(out) = IF job.cap = 0 \/ stats.total < job.cap THEN stats.total ELSE job.cap
          /\ \A v \in Range(out) : v[1] = "duplicate" =>
                Cardinality({i \in DOMAIN IdsOf(v[2]) : IdsOf(v[2])[i] = v[3]}) > 1
    /\ result = "stopped" => \E b \in Range(job.file) : Foreign(b)
    /\ result = "failed" => PartlyIndexed(job.file) \/ \E b \in Range(job.file) : b.bad

-----------------------------------------------------------------------------
(* commands/check/refs.rs: are all referenced elements in the file?  Workers  *)
(* judge blobs in any order.  On an indexed file nodes come before ways and   *)
(* ways before relations.  On an unindexed one every blob is judged once with *)
(* the IDs known so far, and again later if that found something missing.     *)
(*                                                                            *)
(* A way has refs and a relation members <<kind, id>>, in sequences.          *)

NoIds == [kind \in AllKinds |-> {}]

\* sel: the shared ID sets and the IDs beyond what they were allocated for;
\* the blobs still to judge, how far each came, and the ones to judge again.
RefsOpened ==
    /\ Begin /\ out = <<>>
    /\ sel = [ids |-> NoIds, over |-> NoIds, todo |-> {}, at |-> <<>>, ways |-> {}, relations |-> {}, later |-> <<>>]
    /\ stats = [node |-> 0, way |-> 0, relation |-> 0, wn |-> {}, rn |-> {}, rw |-> {}, rr |-> {}, occ |-> 0]

\* stop_on_contradiction: a blob that holds another kind than it claims ends
\* the check with an outcome of its own.
\* build_classify_schedules_split
CheckRefsInner ==
    /\ pc = "enter"
    /\ IF PartlyIndexed(job.file) THEN Fail /\ UNCHANGED sel
       ELSE IF At("none") = {} THEN Goto("nodes") /\ sel' = [sel EXCEPT !.todo = At("node")]
       ELSE /\ Goto("unindexed")
            /\ sel' = [sel EXCEPT !.todo = DOMAIN job.file, !.at = [i \in DOMAIN job.file |-> "nodes"]]
    /\ UNCHANGED <<job, round, out, stats>>

\* id_alloc_bound, IdSet::set_atomic_checked: an ID beyond the allocation goes
\* to the set the consumer keeps until the phase ends.
Allocated(kind, ids) == {i \in ids : i <= job.bound[kind]}
SetIds(s, kind, ids) ==
    [s EXCEPT !.ids[kind] = @ \cup Allocated(kind, ids), !.over[kind] = @ \cup (ids \ Allocated(kind, ids))]
MergeOver(s, kind) == [s EXCEPT !.ids[kind] = @ \cup s.over[kind], !.over[kind] = {}]

Capped(list) == IF job.cap = 0 THEN list ELSE SubSeq(list, 1, IF Len(list) < job.cap THEN Len(list) ELSE job.cap)
Detail(kind, id, fk, fi) == <<kind, id, fk, fi>>

----------------------------------------------------------------------------
(* One blob's elements of a kind. *)

NodesOf(b) == Of("node", job.file[b].items)
WaysOf(b) == Of("way", job.file[b].items)
RelationsOf(b) == Of("relation", job.file[b].items)

NegativeNode(b) == \E n \in Range(NodesOf(b)) : n.id < 0
ReplayNodes(s, b) == SetIds(s, "node", {n.id : n \in Range(NodesOf(b))})

\* judge_ways
NegativeWay(b) ==
    \E w \in Range(WaysOf(b)) : (job.relations /\ w.id < 0) \/ \E n \in Range(w.refs) : n < 0
WayIds(s, b) == IF job.relations THEN SetIds(s, "way", {w.id : w \in Range(WaysOf(b))}) ELSE s
WayMissing(s, b) ==
    FlattenSeq([i \in DOMAIN WaysOf(b) |->
        LET w == WaysOf(b)[i]  miss == SelectSeq(w.refs, LAMBDA n : n \notin s.ids["node"])
        IN [j \in DOMAIN miss |-> Detail("node", miss[j], "way", w.id)]])

\* judge_relations: members that are relations wait for the end.
NegativeRelation(b) ==
    \E r \in Range(RelationsOf(b)) : r.id < 0 \/ \E m \in Range(r.members) : m[2] < 0 \/ m[1] \notin AllKinds
RelationIds(s, b) == SetIds(s, "relation", {r.id : r \in Range(RelationsOf(b))})
MembersOf(b, ok(_)) ==
    FlattenSeq([i \in DOMAIN RelationsOf(b) |->
        LET r == RelationsOf(b)[i]  ms == SelectSeq(r.members, ok)
        IN [j \in DOMAIN ms |-> Detail(ms[j][1], ms[j][2], "relation", r.id)]])
RelMissing(s, b) == MembersOf(b, LAMBDA m : m[1] # "relation" /\ m[2] \notin s.ids[m[1]])
Deferred(b) == MembersOf(b, LAMBDA m : m[1] = "relation")

\* Tally::merge_ways, Tally::merge_relations
Missing(list, kind) == {d[2] : d \in {x \in Range(list) : x[1] = kind}}
KeepDetails(list) == IF job.show THEN Capped(out \o Capped(list)) ELSE out
MergeWays(b, miss) ==
    /\ stats' = [stats EXCEPT !.way = @ + Len(WaysOf(b)), !.wn = @ \cup Missing(miss, "node"), !.occ = @ + Len(miss)]
    /\ out' = KeepDetails(miss)
MergeRelations(b, miss) ==
    /\ stats' = [stats EXCEPT !.relation = @ + Len(RelationsOf(b)), !.rn = @ \cup Missing(miss, "node"),
                              !.rw = @ \cup Missing(miss, "way"), !.occ = @ + Len(miss)]
    /\ out' = KeepDetails(miss)

----------------------------------------------------------------------------
(* The phases of an indexed file, the last two also of an unindexed one.      *)

Took(b) == [sel EXCEPT !.todo = @ \ {b}]
Reject(b) == IF job.file[b].bad \/ ~Foreign(job.file[b]) THEN Fail ELSE Stop

NodePhase(b) ==
    /\ pc = "nodes" /\ b \in sel.todo
    /\ IF job.file[b].bad \/ Foreign(job.file[b]) \/ NegativeNode(b) THEN Reject(b) /\ UNCHANGED <<sel, stats>>
       ELSE /\ sel' = ReplayNodes(Took(b), b)
            /\ stats' = [stats EXCEPT !.node = @ + Len(NodesOf(b))] /\ UNCHANGED <<pc, result>>
    /\ UNCHANGED <<job, round, out>>

EndNodes ==
    /\ pc = "nodes" /\ sel.todo = {} /\ Goto("ways")
    /\ sel' = [MergeOver(sel, "node") EXCEPT !.todo = At("way"), !.relations = At("relation")]
    /\ UNCHANGED <<job, round, out, stats>>

WayPhase(b) ==
    /\ pc = "ways" /\ b \in sel.todo
    /\ IF job.file[b].bad \/ Foreign(job.file[b]) \/ NegativeWay(b) THEN Reject(b) /\ UNCHANGED <<sel, stats, out>>
       ELSE sel' = WayIds(Took(b), b) /\ MergeWays(b, WayMissing(sel, b)) /\ UNCHANGED <<pc, result>>
    /\ UNCHANGED <<job, round>>

EndWays ==
    /\ pc = "ways" /\ sel.todo = {}
    /\ Goto(IF job.relations THEN "relations" ELSE "resolve")
    /\ sel' = [MergeOver(sel, "way") EXCEPT !.todo = sel.relations]
    /\ UNCHANGED <<job, round, out, stats>>

RelationPhase(b) ==
    /\ pc = "relations" /\ b \in sel.todo
    /\ IF job.file[b].bad \/ Foreign(job.file[b]) \/ NegativeRelation(b) THEN Reject(b) /\ UNCHANGED <<sel, stats, out>>
       ELSE /\ sel' = [RelationIds(Took(b), b) EXCEPT !.later = @ \o Deferred(b)]
            /\ MergeRelations(b, RelMissing(sel, b)) /\ UNCHANGED <<pc, result>>
    /\ UNCHANGED <<job, round>>

EndRelations ==
    /\ pc = "relations" /\ sel.todo = {} /\ Goto("resolve")
    /\ sel' = MergeOver(sel, "relation") /\ UNCHANGED <<job, round, out, stats>>

----------------------------------------------------------------------------
(* The pass over an unindexed file: a worker's three steps for a blob.        *)

UnindexedAt(b, at) == pc = "unindexed" /\ b \in sel.todo /\ sel.at[b] = at

UnindexedNodes(b) ==
    /\ UnindexedAt(b, "nodes")
    /\ IF job.file[b].bad \/ NegativeNode(b) THEN Fail /\ UNCHANGED <<sel, stats>>
       ELSE /\ sel' = [ReplayNodes(sel, b) EXCEPT !.at[b] = "ways"]
            /\ stats' = [stats EXCEPT !.node = @ + Len(NodesOf(b))] /\ UNCHANGED <<pc, result>>
    /\ UNCHANGED <<job, round, out>>

UnindexedWays(b) ==
    /\ UnindexedAt(b, "ways")
    /\ IF NegativeWay(b) THEN Fail /\ UNCHANGED <<sel, stats, out>>
       ELSE /\ UNCHANGED <<pc, result>>
            /\ IF WayMissing(sel, b) = <<>>
               THEN sel' = [WayIds(sel, b) EXCEPT !.at[b] = "relations"] /\ MergeWays(b, <<>>)
               ELSE sel' = [WayIds(sel, b) EXCEPT !.at[b] = "relations", !.ways = @ \cup {b}] /\ UNCHANGED <<stats, out>>
    /\ UNCHANGED <<job, round>>

UnindexedRelations(b) ==
    /\ UnindexedAt(b, "relations")
    /\ IF job.relations /\ NegativeRelation(b) THEN Fail /\ UNCHANGED <<sel, stats, out>>
       ELSE /\ UNCHANGED <<pc, result>>
            /\ CASE ~job.relations -> sel' = Took(b) /\ UNCHANGED <<stats, out>>
                 [] job.relations /\ RelMissing(sel, b) = <<>> ->
                       /\ sel' = [RelationIds(Took(b), b) EXCEPT !.later = @ \o Deferred(b)]
                       /\ MergeRelations(b, <<>>)
                 [] OTHER -> sel' = [RelationIds(Took(b), b) EXCEPT !.relations = @ \cup {b}] /\ UNCHANGED <<stats, out>>
    /\ UNCHANGED <<job, round>>

EndUnindexedRefs ==
    /\ pc = "unindexed" /\ sel.todo = {} /\ Goto("ways")
    /\ sel' = [MergeOver(sel, "node") EXCEPT !.todo = sel.ways]
    /\ UNCHANGED <<job, round, out, stats>>

----------------------------------------------------------------------------

\* The relation members that waited.
ResolveDeferred ==
    /\ pc = "resolve"
    /\ \E miss \in {SelectSeq(sel.later, LAMBDA d : d[2] \notin sel.ids["relation"])} :
          /\ stats' = [stats EXCEPT !.rr = Missing(miss, "relation"), !.occ = @ + Len(miss)]
          /\ out' = IF job.show THEN Capped(out \o miss) ELSE out
    /\ Done /\ UNCHANGED <<job, round, sel>>

RefsNext ==
    \/ CheckRefsInner \/ EndNodes \/ EndWays \/ EndRelations \/ EndUnindexedRefs \/ ResolveDeferred
    \/ \E b \in DOMAIN job.file :
          \/ NodePhase(b) \/ WayPhase(b) \/ RelationPhase(b)
          \/ UnindexedNodes(b) \/ UnindexedWays(b) \/ UnindexedRelations(b)

----------------------------------------------------------------------------
(* Properties. *)

Everything == Elements(job.file)
Links(kind) ==
    LET of(e) == IF e.kind = "way" THEN {<<"node", n>> : n \in Range(e.refs)}
                 ELSE IF e.kind = "relation" THEN Range(e.members) ELSE {}
    IN UNION {of(e) : e \in Range(Of(kind, Everything))}
Gone(from, to) == {l[2] : l \in {x \in Links(from) : x[1] = to}} \ Ids(to, Everything)
Occurrences ==
    LET lost(k, i) == i \notin Ids(k, Everything)
        of(e) == IF e.kind = "way" THEN Len(SelectSeq(e.refs, LAMBDA n : lost("node", n)))
                 ELSE IF e.kind = "relation" /\ job.relations THEN Len(SelectSeq(e.members, LAMBDA m : lost(m[1], m[2]))) ELSE 0
    IN FoldLeft(LAMBDA n, e : n + of(e), 0, Everything)

\* check --refs counts each kind and reports exactly the referenced elements
\* the file lacks, however its blobs are laid out and in whatever order they
\* are judged; each listed reference is one of them, and the list is complete
\* up to its cap.  It stops only at a contradicted claim, and fails only for an
\* unreadable or partly indexed file or for IDs it does not check.
RefsAreTrue ==
    /\ result = "ok" =>
          /\ stats.node = Count("node", Everything) /\ stats.way = Count("way", Everything)
          /\ stats.relation = IF job.relations THEN Count("relation", Everything) ELSE 0
          /\ stats.wn = Gone("way", "node")
          /\ stats.rn = (IF job.relations THEN Gone("relation", "node") ELSE {})
          /\ stats.rw = (IF job.relations THEN Gone("relation", "way") ELSE {})
          /\ stats.rr = (IF job.relations THEN Gone("relation", "relation") ELSE {})
          /\ stats.occ = Occurrences
          /\ \A d \in Range(out) :
                /\ d[2] \notin Ids(d[1], Everything)
                /\ \E e \in Range(Of(d[3], Everything)) :
                      e.id = d[4] /\ IF d[3] = "way" THEN d[2] \in Range(e.refs) ELSE <<d[1], d[2]>> \in Range(e.members)
          /\ Len(out) = IF ~job.show THEN 0 ELSE IF job.cap = 0 \/ Occurrences < job.cap THEN Occurrences ELSE job.cap
    /\ result = "stopped" => \E b \in Range(job.file) : Foreign(b)
    /\ result = "failed" =>
          \/ PartlyIndexed(job.file) \/ \E b \in Range(job.file) : b.bad
          \/ \E e \in Range(Everything) : e.id < 0
          \/ \E k \in AllKinds : \E l \in Links(k) : l[2] < 0 \/ l[1] \notin AllKinds

-----------------------------------------------------------------------------
(* commands/check/locations: do the coordinates on ways agree with the node   *)
(* records?  Node IDs are ranked and cut into partitions that fit the store;  *)
(* for each partition the workers first join its node records into the store, *)
(* then compare every way reference that falls into it.                       *)
(*                                                                            *)
(* A node is at a place, a way has refs and, if any, a place for each.  A     *)
(* place is a number, 0 the null island and Outside no coordinate.            *)

Outside == 9

Report0 ==
    [nodes |-> 0, ways |-> 0, refs |-> 0, verified |-> 0, mismatched |-> 0, notCompared |-> 0, without |-> 0,
     island |-> 0, toConflict |-> 0, toInvalid |-> 0, bare |-> 0, inline |-> 0, invalid |-> 0, conflicting |-> 0,
     nodesMismatched |-> 0, disagreeing |-> 0, absent |-> 0]

\* sel: the key set and a blob's facts; the blobs left in the phase, the
\* store's slots by ID, and which of them a node record or a mismatch touched.
LocOpened ==
    /\ Begin /\ out = {} /\ stats = Report0
    /\ sel = [keys |-> {}, nodes |-> {}, ways |-> {}, todo |-> {}, slot |-> <<>>, authority |-> {}, mismatch |-> {}]

LocStop == pc' = "done" /\ result' = "stopped"
Blobs == DOMAIN job.file
ClaimedWays == {b \in Blobs : job.file[b].claim = "way"}
NodesIn(b) == Of("node", job.file[b].items)
WaysIn(b) == Of("way", job.file[b].items)
NodeIds(b) == {n.id : n \in Range(NodesIn(b))}

\* Details: violations have keys, and the report keeps the smallest.
Key(class, a, b, c) == 1000 * class + 100 * a + 10 * b + c
Smallest(keys) == IF job.cap = 0 THEN keys ELSE {k \in keys : Cardinality({j \in keys : j < k}) < job.cap}

----------------------------------------------------------------------------
(* Until the plan. *)

CheckLocationsInner ==
    /\ pc = "enter"
    /\ IF ~job.locs \/ job.history \/ PartlyIndexed(job.file) THEN Fail ELSE Goto("prepass")
    /\ UNCHANGED <<job, round, sel, out, stats>>

\* prepass: every blob that does not claim ways.
InvalidRecords ==
    UNION {{Key(4, b, i, 0) : i \in {j \in DOMAIN NodesIn(b) : NodesIn(b)[j].at = Outside}} : b \in Blobs \ ClaimedWays}
Prepass ==
    /\ pc = "prepass"
    /\ IF \E b \in Blobs \ ClaimedWays : job.file[b].bad THEN Fail /\ UNCHANGED <<sel, stats, out>>
       ELSE /\ sel' = [sel EXCEPT !.keys = {n \in UNION {NodeIds(b) : b \in Blobs \ ClaimedWays} : n >= 0}]
            /\ stats' = [stats EXCEPT !.nodes = Count("node", Elements(SelectSeq(job.file, LAMBDA b : b.claim # "way"))),
                                      !.invalid = Cardinality(InvalidRecords)]
            /\ out' = Smallest(InvalidRecords) /\ Goto("route")
    /\ UNCHANGED <<job, round>>

\* route: what the prepass saw decides which blobs are read for what.
Route ==
    /\ pc = "route" /\ Goto(IF job.agreement THEN "refs" ELSE "plan")
    /\ sel' = [sel EXCEPT !.nodes = {b \in Blobs \ ClaimedWays : NodesIn(b) # <<>>},
                          !.ways = {b \in Blobs \ ClaimedWays : WaysIn(b) # <<>>} \cup ClaimedWays]
    /\ UNCHANGED <<job, round, out, stats>>

\* scan_ways refuses what a way blob may not hold.
RejectWays(b) == job.file[b].bad \/ (job.file[b].claim = "way" /\ Foreign(job.file[b]))
LocReject(b) == IF job.file[b].bad THEN Fail ELSE LocStop

\* key_refs
KeyRefs ==
    /\ pc = "refs"
    /\ IF \E b \in sel.ways : RejectWays(b)
       THEN (\E b \in {x \in sel.ways : RejectWays(x)} : LocReject(b)) /\ UNCHANGED sel
       ELSE /\ sel' = [sel EXCEPT !.keys = @ \cup {n \in UNION {UNION {Range(w.refs) : w \in Range(WaysIn(b))} : b \in sel.ways} : n >= 0}]
            /\ Goto("plan")
    /\ UNCHANGED <<job, round, out, stats>>

----------------------------------------------------------------------------
(* Plan: slots_for_budget, Plan::new, Plan::ids, Plan::ranks.                 *)

Slots == IF job.slots < 1 THEN 1 ELSE job.slots
Rank(id) == Cardinality({k \in sel.keys : k < id})
Partitions == LET n == (Cardinality(sel.keys) + Slots - 1) \div Slots IN IF n = 0 THEN 1 ELSE n

\* The lowest ID with so many keys below it.
LowestIdWithRank(target) == Min({id \in 0 .. Max(sel.keys) + 1 : Rank(id) >= target})

\* in_partition
InPartition(id, k) ==
    /\ k = 1 \/ id >= LowestIdWithRank((k - 1) * Slots)
    /\ k = Partitions \/ id < LowestIdWithRank(k * Slots)
PartitionKeys(k) == {id \in sel.keys : Rank(id) >= (k - 1) * Slots /\ Rank(id) < k * Slots}

\* range_meets over the lowest and highest node ID of a blob.
RangeMeets(b, k) ==
    /\ k = 1 \/ Max(NodeIds(b)) >= LowestIdWithRank((k - 1) * Slots)
    /\ k = Partitions \/ Min(NodeIds(b)) < LowestIdWithRank(k * Slots)

StartPartition(k) ==
    /\ round' = k /\ Goto("nodes")
    /\ sel' = [sel EXCEPT !.todo = IF PartitionKeys(k) = {} THEN {} ELSE {b \in sel.nodes : RangeMeets(b, k)},
                          !.slot = [id \in PartitionKeys(k) |-> "empty"], !.authority = {}, !.mismatch = {}]
PlanPartitions == pc = "plan" /\ StartPartition(1) /\ UNCHANGED <<job, out, stats>>

----------------------------------------------------------------------------
(* A partition. *)

\* Store::join_node: unusable over conflict over a coordinate.
PackedPlaces == <<"0", "1", "2", "3">>
Packed(at) == IF at = Outside THEN "unusable" ELSE PackedPlaces[at + 1]
JoinNode(cur, at) ==
    CASE cur = "unusable" \/ at = Outside -> "unusable"
      [] cur = "empty" /\ at # Outside -> Packed(at)
      [] cur \notin {"unusable", "empty"} /\ at # Outside -> IF cur = Packed(at) THEN cur ELSE "conflict"

LocNodePhase(b) ==
    /\ pc = "nodes" /\ b \in sel.todo
    /\ LET mine == SelectSeq(NodesIn(b), LAMBDA n : InPartition(n.id, round) /\ n.id \in sel.keys)
           join(s, n) == [s EXCEPT ![n.id] = JoinNode(@, n.at)]
       IN sel' = [sel EXCEPT !.todo = @ \ {b}, !.authority = @ \cup {n.id : n \in Range(mine)},
                             !.slot = FoldLeft(join, sel.slot, mine)]
    /\ UNCHANGED <<job, pc, round, out, stats, result>>

LocEndNodes ==
    /\ pc = "nodes" /\ sel.todo = {} /\ Goto("ways")
    /\ sel' = [sel EXCEPT !.todo = sel.ways] /\ UNCHANGED <<job, round, out, stats>>

\* Store::agree
Agree(cur, at) == IF cur = "empty" THEN Packed(at) ELSE IF cur = Packed(at) THEN cur ELSE "disagree"

\* WayCtx::way_start and WayCtx::structural_ref, in the first partition only.
WayStart(r, b, i) ==
    LET w == WaysIn(b)[i] IN
    IF round # 1 THEN r
    ELSE [r EXCEPT !.ways = @ + 1, !.refs = @ + Len(w.refs),
                   !.bare = IF w.refs # <<>> /\ w.locs = <<>> THEN @ + 1 ELSE @,
                   !.inline = @ + Cardinality({p \in DOMAIN w.locs : w.locs[p] = Outside})]
StructuralKeys(b) ==
    IF round # 1 THEN {}
    ELSE UNION {LET w == WaysIn(b)[i] IN
                (IF w.refs # <<>> /\ w.locs = <<>> THEN {Key(2, b, i, 0)} ELSE {})
                \cup {Key(1, b, i, p) : p \in {q \in DOMAIN w.locs : w.locs[q] = Outside}} : i \in DOMAIN WaysIn(b)}

\* WayCtx::compare, for one reference.
Compare(c, b, i, p) ==
    LET w  == WaysIn(b)[i]
        id == w.refs[p]
        at == IF w.locs = <<>> THEN Outside ELSE w.locs[p]
        r  == c.report
    IN IF ~InPartition(id, round) THEN c
       ELSE IF id \notin c.sel.authority THEN
            [c EXCEPT !.report.without = @ + 1, !.report.island = IF at = 0 THEN @ + 1 ELSE @,
                      !.sel.slot = IF job.agreement /\ id \in sel.keys /\ at # Outside
                                   THEN [@ EXCEPT ![id] = Agree(@, at)] ELSE @]
       ELSE CASE c.sel.slot[id] = "conflict" -> [c EXCEPT !.report.toConflict = @ + 1]
              [] c.sel.slot[id] = "unusable" -> [c EXCEPT !.report.toInvalid = @ + 1]
              [] c.sel.slot[id] \notin {"conflict", "unusable"} /\ at = Outside -> [c EXCEPT !.report.notCompared = @ + 1]
              [] OTHER -> IF c.sel.slot[id] = Packed(at) THEN [c EXCEPT !.report.verified = @ + 1]
                          ELSE [c EXCEPT !.report.mismatched = @ + 1, !.sel.mismatch = @ \cup {id},
                                         !.keys = @ \cup {Key(0, b, i, p)}]

NegativeRef(b) == \E w \in Range(WaysIn(b)) : \E n \in Range(w.refs) : n < 0

LocWayPhase(b) ==
    /\ pc = "ways" /\ b \in sel.todo
    /\ LET way(c, i) == LET w == WaysIn(b)[i] IN
                        FoldLeft(LAMBDA d, p : Compare(d, b, i, p), [c EXCEPT !.report = WayStart(@, b, i)],
                                 [p \in DOMAIN w.refs |-> p])
       IN IF RejectWays(b) THEN LocReject(b) /\ UNCHANGED <<sel, stats, out>>
          ELSE IF round = 1 /\ NegativeRef(b) THEN Fail /\ UNCHANGED <<sel, stats, out>>
          ELSE \E c \in {FoldLeft(way, [report |-> stats, sel |-> sel, keys |-> {}], [i \in DOMAIN WaysIn(b) |-> i])} :
               /\ stats' = c.report /\ sel' = [c.sel EXCEPT !.todo = @ \ {b}]
               /\ out' = Smallest(out \cup c.keys \cup StructuralKeys(b)) /\ UNCHANGED <<pc, result>>
    /\ UNCHANGED <<job, round>>

\* Store::finish and finish_partition: conflicts and disagreements are listed
\* by ID, no more than the cap asks for after the earlier partitions'.
Conflicting == {id \in sel.authority : sel.slot[id] = "conflict"}
Disagreeing == {id \in DOMAIN sel.slot \ sel.authority : sel.slot[id] = "disagree"}
StillWanted(before, ids) ==
    IF job.cap = 0 THEN ids ELSE {id \in ids : before + Cardinality({j \in ids : j < id}) < job.cap}
FinishPartition ==
    /\ pc = "ways" /\ sel.todo = {}
    /\ stats' = [stats EXCEPT !.conflicting = @ + Cardinality(Conflicting), !.disagreeing = @ + Cardinality(Disagreeing),
                              !.nodesMismatched = @ + Cardinality(sel.mismatch \cap sel.authority),
                              !.absent = IF job.agreement THEN @ + Cardinality(DOMAIN sel.slot \ sel.authority) ELSE @]
    /\ out' = Smallest(out \cup {Key(3, id, 0, 0) : id \in StillWanted(stats.conflicting, Conflicting)}
                           \cup {Key(5, id, 0, 0) : id \in StillWanted(stats.disagreeing, Disagreeing)})
    /\ IF round = Partitions THEN Done /\ UNCHANGED <<sel, round>> ELSE StartPartition(round + 1)
    /\ UNCHANGED job

LocNext ==
    \/ CheckLocationsInner \/ Prepass \/ Route \/ KeyRefs \/ PlanPartitions \/ LocEndNodes \/ FinishPartition
    \/ \E b \in Blobs : LocNodePhase(b) \/ LocWayPhase(b)

----------------------------------------------------------------------------
(* Properties. *)

Records(id) == {n.at : n \in {m \in Range(Of("node", Elements(job.file))) : m.id = id}}
RefPlaces == UNION {UNION {{<<b, i, p>> : p \in DOMAIN WaysIn(b)[i].refs} : i \in DOMAIN WaysIn(b)} : b \in Blobs}
RefId(x) == WaysIn(x[1])[x[2]].refs[x[3]]
Inline(x) == IF WaysIn(x[1])[x[2]].locs = <<>> THEN Outside ELSE WaysIn(x[1])[x[2]].locs[x[3]]
AllIds == {RefId(x) : x \in RefPlaces} \cup {n.id : n \in Range(Of("node", Elements(job.file)))}
IsUnusable(id) == Outside \in Records(id)
IsConflict(id) == Outside \notin Records(id) /\ Cardinality(Records(id)) > 1
IsKnown(id) == Outside \notin Records(id) /\ Cardinality(Records(id)) = 1
IsMismatch(x) == IsKnown(RefId(x)) /\ Inline(x) # Outside /\ Inline(x) \notin Records(RefId(x))
Disagrees(id) ==
    Records(id) = {} /\ Cardinality({Inline(x) : x \in {y \in RefPlaces : RefId(y) = id}} \ {Outside}) > 1
WayAt == UNION {{<<b, i>> : i \in DOMAIN WaysIn(b)} : b \in Blobs}
IsBare(w) == WaysIn(w[1])[w[2]].refs # <<>> /\ WaysIn(w[1])[w[2]].locs = <<>>
BadNodeAt == UNION {{<<b, i>> : i \in {j \in DOMAIN NodesIn(b) : NodesIn(b)[j].at = Outside}} : b \in Blobs}
BadInline == {x \in RefPlaces : WaysIn(x[1])[x[2]].locs # <<>> /\ Inline(x) = Outside}
Sizes(S, ok(_)) == Cardinality({x \in S : ok(x)})

TrueReport ==
    [nodes |-> Count("node", Elements(job.file)), ways |-> Cardinality(WayAt), refs |-> Cardinality(RefPlaces),
     verified |-> Sizes(RefPlaces, LAMBDA x : IsKnown(RefId(x)) /\ Inline(x) \in Records(RefId(x))),
     mismatched |-> Sizes(RefPlaces, IsMismatch),
     notCompared |-> Sizes(RefPlaces, LAMBDA x : IsKnown(RefId(x)) /\ Inline(x) = Outside),
     without |-> Sizes(RefPlaces, LAMBDA x : Records(RefId(x)) = {}),
     island |-> Sizes(RefPlaces, LAMBDA x : Records(RefId(x)) = {} /\ Inline(x) = 0),
     toConflict |-> Sizes(RefPlaces, LAMBDA x : IsConflict(RefId(x))),
     toInvalid |-> Sizes(RefPlaces, LAMBDA x : IsUnusable(RefId(x))),
     bare |-> Sizes(WayAt, IsBare), inline |-> Cardinality(BadInline), invalid |-> Cardinality(BadNodeAt),
     conflicting |-> Sizes(AllIds, IsConflict), nodesMismatched |-> Cardinality({RefId(x) : x \in {y \in RefPlaces : IsMismatch(y)}}),
     disagreeing |-> IF job.agreement THEN Sizes(AllIds, Disagrees) ELSE 0,
     absent |-> IF job.agreement THEN Sizes(AllIds, LAMBDA id : Records(id) = {}) ELSE 0]
TrueKeys ==
    {Key(0, x[1], x[2], x[3]) : x \in {y \in RefPlaces : IsMismatch(y)}}
    \cup {Key(1, x[1], x[2], x[3]) : x \in BadInline} \cup {Key(2, w[1], w[2], 0) : w \in {v \in WayAt : IsBare(v)}}
    \cup {Key(3, id, 0, 0) : id \in {i \in AllIds : IsConflict(i)}} \cup {Key(4, n[1], n[2], 0) : n \in BadNodeAt}
    \cup {Key(5, id, 0, 0) : id \in {i \in AllIds : job.agreement /\ Disagrees(i)}}

\* check --locations judges every way reference against all records of its
\* node, counts each outcome, and lists the first violations up to its cap,
\* the same however many partitions the store makes of the IDs, whatever order
\* workers join and compare blobs in, and whichever blob a node's records are
\* in.  It stops only at a contradicted way claim.
LocationsAreTrue ==
    /\ result = "ok" => stats = TrueReport /\ out = Smallest(TrueKeys)
    /\ result = "stopped" => \E b \in Range(job.file) : b.claim = "way" /\ Foreign(b)
    /\ result = "failed" =>
          \/ ~job.locs \/ job.history \/ PartlyIndexed(job.file) \/ \E b \in Range(job.file) : b.bad
          \/ \E x \in RefPlaces : RefId(x) < 0
=============================================================================
