---------------------------- MODULE CommandState ----------------------------
(* What the modules of the commands share: the order of element IDs           *)
(* (osm_id.rs), files of blobs and the scans over them (scan/), the state of  *)
(* a command that runs, and, for the commands that write a PBF file, the      *)
(* claims of its header (commands/output_header.rs) and its blobs, copied     *)
(* whole or rebuilt (commands/mod.rs).                                        *)
EXTENDS Integers, Sequences, FiniteSets, SequencesExt, FiniteSetsExt

-----------------------------------------------------------------------------
(* osm_id.rs: the order of element IDs (zero, the negative IDs by magnitude,  *)
(* the positive IDs) and the first and last key of a blob whose index gives   *)
(* the signed minimum and maximum of its IDs.                                 *)

\* A key is a class and a magnitude.
OsmIdKey(id) ==
    [class |-> IF id > 0 THEN 2 ELSE IF id = 0 THEN 0 ELSE 1,
     size  |-> IF id < 0 THEN -id ELSE id]
OsmIdFromKey(key) == IF key.class = 1 THEN -key.size ELSE key.size

KeyLess(a, b) == a.class < b.class \/ (a.class = b.class /\ a.size < b.size)
KeyLeq(a, b) == KeyLess(a, b) \/ a = b

BlobOsmFirstKey(min, max) ==
    OsmIdKey(IF min >= 0 THEN min ELSE IF max <= 0 THEN max ELSE 0)
BlobOsmLastKey(min, max) ==
    OsmIdKey(IF min >= 0 THEN max ELSE IF max <= 0 THEN min ELSE max)

\* The least key a blob certainly holds, and OrderWatermark: the kind and the
\* largest key seen so far; the next blob may not start before it.
BlobOsmPresentFirstKey(min, max) ==
    IF min < 0 /\ max > 0 THEN OsmIdKey(min) ELSE BlobOsmFirstKey(min, max)
LaterKey(a, b) == IF KeyLess(a, b) THEN b ELSE a
NoMark == [kind |-> 0, last |-> OsmIdKey(0)]
ObserveFails(mark, kind, first) ==
    kind < mark.kind \/ (kind = mark.kind /\ KeyLess(first, mark.last))
Observed(mark, kind, first, last) ==
    LET reach == LaterKey(last, first) IN
    [kind |-> kind, last |-> IF kind = mark.kind THEN LaterKey(reach, mark.last) ELSE reach]

-----------------------------------------------------------------------------
(* What the commands see of a PBF file: a sequence of data blobs.  A blob has *)
(* items (its elements in order), the kind its indexdata claims ("none": no   *)
(* indexdata), and may be undecodable.  Elements are records with a kind and  *)
(* an id; the commands' modules give them what they look at.                  *)

Kinds == <<"node", "way", "relation">>

Elements(file) == FlattenSeq([b \in DOMAIN file |-> file[b].items])
Of(kind, items) == SelectSeq(items, LAMBDA e : e.kind = kind)
Ids(kind, items) == {e.id : e \in Range(Of(kind, items))}

\* Frames::refuse_partial_index: a command's walk stops at the first unindexed
\* blob of a file that has an indexed one.
PartlyIndexed(file) ==
    \E a, b \in Range(file) : a.claim = "none" /\ b.claim # "none"

\* probe_to_first_data_blob: a file without a data blob counts as indexed.
Indexed(file) == file = <<>> \/ file[1].claim # "none"

\* require_indexdata under a command's policy.
IndexdataPolicy(file, force) == Indexed(file) \/ force

\* schedule_walk: the blobs a kind filter keeps; without an index a blob is kept.
KindSchedule(file, kind) == SelectSeq(file, LAMBDA b : b.claim \in {kind, "none"})

\* A decoded block holding a kind its index does not claim is refused.
Foreign(b) == b.claim # "none" /\ \E e \in Range(b.items) : e.kind # b.claim
Undecodable(sched) == \E b \in Range(sched) : b.bad
Refused(sched) == \E b \in Range(sched) : b.bad \/ Foreign(b)

-----------------------------------------------------------------------------
(* The state of a command that reads one PBF file and writes another: the     *)
(* call, where it stands, a round or region counter, the ID sets collected,   *)
(* the elements written so far, the statistics, and how the call ended.  An   *)
(* output exists for the caller only with result "ok": the commands publish   *)
(* after everything else succeeded (PublishUnit).                             *)

VARIABLES job, pc, round, sel, out, stats, result

cvars == <<job, pc, round, sel, out, stats, result>>

Begin == pc = "enter" /\ round = 0 /\ result = "running"

Goto(at) == pc' = at /\ UNCHANGED result
Fail == pc' = "done" /\ result' = "failed"
Done == pc' = "done" /\ result' = "ok"

AllKinds == Range(Kinds)
Count(kind, items) == Len(Of(kind, items))
CountAll(items) == [kind \in AllKinds |-> Count(kind, items)]

-----------------------------------------------------------------------------
(* commands/output_header.rs: what the header of a rewritten file may claim,  *)
(* from the inputs' headers and from what the command did to the order and to *)
(* the ways.  A header is [sorted, locs, pins, members, ts, seq, url, box]:   *)
(* four claims, the replication state ("none": absent) and a set of places.   *)

All(inputs, has) == \A h \in Range(inputs) : h[has]
One(inputs, has) == Len(inputs) = 1 /\ inputs[1][has]

\* Ways::from_copy
WaysFromCopy(anyRewritten, anyReframed) ==
    IF anyRewritten THEN "reencoded" ELSE IF anyReframed THEN "payloads copied" ELSE "blobs copied"

DeclaredFacts(inputs, order, ways) ==
    [sorted  |-> order = "sorted" \/ (order = "as input" /\ One(inputs, "sorted")),
     locs    |-> ways \in {"reencoded with locations", "payloads copied", "blobs copied"} /\ All(inputs, "locs"),
     pins    |-> ways \in {"payloads copied", "blobs copied"} /\ One(inputs, "pins"),
     members |-> ways = "blobs copied" /\ One(inputs, "members")]

WayEnrichment(declared) == declared.locs \/ declared.pins \/ declared.members

\* agreed: what every input has and has the same.
Agreed(inputs, get) ==
    IF \A h \in Range(inputs) : h[get] = inputs[1][get] THEN inputs[1][get] ELSE "none"

\* agreed_replication: a timestamp and sequence only where the whole state agrees.
AgreedReplication(inputs) ==
    LET same == \A h \in Range(inputs) : \A get \in {"ts", "seq", "url"} : h[get] = inputs[1][get]
    IN [ts |-> IF same THEN inputs[1].ts ELSE "none", seq |-> IF same THEN inputs[1].seq ELSE "none",
        url |-> Agreed(inputs, "url")]

\* carried_bbox: the union, if every input has a box.
CarriedBbox(inputs) ==
    IF \E h \in Range(inputs) : h.box = {} THEN {} ELSE UNION {h.box : h \in Range(inputs)}

BuildHeader(inputs, order, ways) ==
    LET r == AgreedReplication(inputs)  d == DeclaredFacts(inputs, order, ways)
    IN [sorted |-> d.sorted, locs |-> d.locs, pins |-> d.pins, members |-> d.members,
        ts |-> r.ts, seq |-> r.seq, url |-> r.url, box |-> CarriedBbox(inputs)]

-----------------------------------------------------------------------------
(* The files of the commands that rewrite whole files, blob by blob.  A file  *)
(* has a header (above) and blobs; a blob has items, and the index its        *)
(* header claims: kind ("none": no index), lowest and highest ID, count, and  *)
(* whether its tag index is "true", "false" or "none".                        *)

InputHeaders == [f \in DOMAIN job.files |-> job.files[f].header]
InputBlobs == FlattenSeq([f \in DOMAIN job.files |-> job.files[f].blobs])
PayloadIndex(items) ==
    [kind |-> items[1].kind, lo |-> Min({e.id : e \in Range(items)}), hi |-> Max({e.id : e \in Range(items)}),
     count |-> Len(items)]
Classifiable(items) == items # <<>> /\ \A e \in Range(items) : e.kind = items[1].kind
Claim(b) == [kind |-> b.claim, lo |-> b.lo, hi |-> b.hi, count |-> b.count]

\* A frame under the index of its payload.
Framed(items) ==
    LET i == PayloadIndex(items) IN
    [claim |-> i.kind, lo |-> i.lo, hi |-> i.hi, count |-> i.count, tags |-> "true", bad |-> FALSE, items |-> items]
Lose(items, what) == [i \in DOMAIN items |-> [a \in DOMAIN items[i] |-> IF a \in what THEN FALSE ELSE items[i][a]]]

\* A block builder of capacity cap: full blocks leave, the rest stays in it.
FullBlocks(items) == [k \in 1 .. Len(items) \div job.cap |-> Framed(SubSeq(items, (k - 1) * job.cap + 1, k * job.cap))]
Rest(items) == SubSeq(items, (Len(items) \div job.cap) * job.cap + 1, Len(items))
Residual(block) == IF block = <<>> THEN <<>> ELSE <<Framed(block)>>

\* write_single_*_local: a block is flushed when the next element finds it full.
Coalesce(block, items) ==
    LET all == block \o items
        full == IF all # <<>> /\ Rest(all) = <<>> THEN Len(all) \div job.cap - 1 ELSE Len(all) \div job.cap
    IN [blobs |-> SubSeq(FullBlocks(all), 1, full), block |-> SubSeq(all, full * job.cap + 1, Len(all))]
=============================================================================
