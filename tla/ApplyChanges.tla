---------------------------- MODULE ApplyChanges ----------------------------
(* apply-changes: what it computes, and the threads that compute it.          *)
EXTENDS Integers, Sequences, FiniteSets, SequencesExt

-----------------------------------------------------------------------------
(***************************************************************************)
(* What apply-changes computes, apart from the threads that compute it:    *)
(* the OSM ID order (src/osm_id.rs), the change file in ID order           *)
(* (osc/sorted.rs), the rewrite of one blob (rewrite_block.rs, refresh.rs) *)
(* and the drain's placement of blobs and creates (drain.rs,               *)
(* stream_output.rs).                                                      *)
(*                                                                         *)
(* A world is one merge's input: the base blobs in file order, the change  *)
(* file's upserts (in ID order) and deletes per kind, the node every way   *)
(* references, and the options.  An element is its kind, its ID, where its *)
(* content comes from and, for a way written with locations, where its     *)
(* inline coordinate comes from.                                           *)
(***************************************************************************)

Node == 0
Way == 1
Relation == 2
Kinds == {Node, Way, Relation}
NoKind == 3

(* osm_id_key: zero, then the negatives by magnitude, then the positives. *)
Key(id) == IF id > 0 THEN <<2, id>> ELSE IF id = 0 THEN <<0, 0>> ELSE <<1, -id>>

KeyLess(a, b) == a[1] < b[1] \/ (a[1] = b[1] /\ a[2] < b[2])

KeyLeq(a, b) == a = b \/ KeyLess(a, b)

KeyMax(a, b) == IF KeyLess(a, b) THEN b ELSE a

Sorted(ids) == SetToSortSeq(ids, LAMBDA a, b : KeyLess(Key(a), Key(b)))

(* The numeric range an index claims for a blob. *)
MinId(blob) == CHOOSE i \in ToSet(blob.ids) : \A j \in ToSet(blob.ids) : i <= j
MaxId(blob) == CHOOSE i \in ToSet(blob.ids) : \A j \in ToSet(blob.ids) : i >= j

(* The first and last keys the range allows; for a range of both signs the *)
(* first is conservatively that of 0.                                      *)
BlobFirstId(lo, hi) == IF lo >= 0 THEN lo ELSE IF hi <= 0 THEN hi ELSE 0
BlobLastId(lo, hi) == IF lo < 0 /\ hi <= 0 THEN lo ELSE hi

(* The smallest key of an element the range proves present. *)
PresentFirstKey(lo, hi) ==
    IF lo < 0 /\ hi > 0 THEN Key(lo) ELSE Key(BlobFirstId(lo, hi))

(* SortedDiff::range_overlaps. *)
RangeOverlaps(w, kind, lo, hi) ==
    \E id \in ToSet(w.up[kind]) \cup w.del[kind] :
        /\ KeyLeq(Key(BlobFirstId(lo, hi)), Key(id))
        /\ KeyLeq(Key(id), Key(BlobLastId(lo, hi)))

(* block_overlaps_diff: an element of the block is modified or deleted. *)
BlockOverlaps(w, blob) ==
    \E id \in ToSet(blob.ids) : id \in ToSet(w.up[blob.kind]) \cup w.del[blob.kind]

(* A blob whose elements are not in order: its walk refuses it. *)
BlobWalkRefuses(blob) ==
    \E i, j \in DOMAIN blob.ids : i < j /\ KeyLess(Key(blob.ids[j]), Key(blob.ids[i]))

(* upsert_slice: from the blob's first element, not its range. *)
UpsertSlice(w, blob) ==
    {id \in ToSet(w.up[blob.kind]) :
        /\ KeyLeq(Key(blob.ids[1]), Key(id))
        /\ KeyLeq(Key(id), Key(BlobLastId(MinId(blob), MaxId(blob))))}

-----------------------------------------------------------------------------
(***************************************************************************)
(* Elements.  Coordinates: "base" is a node's position in the base file,   *)
(* "osc" its position in the change file, "zero" the (0, 0) written for a  *)
(* node found in neither.                                                  *)
(***************************************************************************)
Element(kind, id, src, loc) == [kind |-> kind, id |-> id, src |-> src, loc |-> loc]

(* A base element as it stands in the base file. *)
BaseElement(w, kind, id) ==
    Element(kind, id, "base", IF w.low /\ kind = Way THEN "base" ELSE "none")

BaseElements(w, blob) == [i \in DOMAIN blob.ids |-> BaseElement(w, blob.kind, blob.ids[i])]

(* evaluate_way: the way references a node the change file moves. *)
StaleWay(w, id) == w.ref[id] \in ToSet(w.up[Node])

StaleBlob(w, blob) == blob.kind = Way /\ \E id \in ToSet(blob.ids) : StaleWay(w, id)

(* write_base_*_local: a surviving way's stale coordinate is refreshed. *)
SurvivingElement(w, kind, id) ==
    IF w.low /\ kind = Way /\ StaleWay(w, id)
    THEN Element(kind, id, "base", "osc")
    ELSE BaseElement(w, kind, id)

(* add_osc_node, add_osc_way, add_osc_relation under the published map. *)
OscElement(w, kind, id, map) ==
    Element(kind, id, "osc",
            IF ~w.low \/ kind # Way THEN "none"
            ELSE IF w.ref[id] \in DOMAIN map THEN map[w.ref[id]] ELSE "zero")

(***************************************************************************)
(* rewrite_block_parallel: the block's surviving elements, the modified    *)
(* ones replaced, and the creates of its slice at their sorted positions.  *)
(***************************************************************************)
RewriteBlock(w, blob, map) ==
    LET ids == Sorted((ToSet(blob.ids) \ w.del[blob.kind]) \cup UpsertSlice(w, blob))
    IN [i \in DOMAIN ids |->
            IF ids[i] \in ToSet(w.up[blob.kind])
            THEN OscElement(w, blob.kind, ids[i], map)
            ELSE SurvivingElement(w, blob.kind, ids[i])]

(* NodeLocationIndex::build_from_diff. *)
AllNeeded(w) == {w.ref[id] : id \in ToSet(w.up[Way])}
Seeded(w) == [n \in AllNeeded(w) \cap ToSet(w.up[Node]) |-> "osc"]
StillNeeded(w) == AllNeeded(w) \ (ToSet(w.up[Node]) \cup w.del[Node])

ExtractNodeCoords_Unfiltered(w, blob) ==
    IF w.low /\ blob.kind = Node THEN ToSet(blob.ids) ELSE {}

(* extract_node_coords, kept to the nodes change-file ways reference. *)
ExtractNodeCoords(w, blob) ==
    IF w.low /\ blob.kind = Node THEN ToSet(blob.ids) \cap StillNeeded(w) ELSE {}

-----------------------------------------------------------------------------
(***************************************************************************)
(* The drain's writing state: the upsert cursors, the last kind, the       *)
(* copy_file_range run (the seqs it covers), the owned chunks, the order   *)
(* watermark, what the writer has been given, and an error.                *)
(***************************************************************************)
DrainState ==
    [cursors |-> [k \in Kinds |-> 0], last |-> NoKind, run |-> <<>>, chunks |-> <<>>,
     mark |-> <<NoKind, <<0, 0>>>>, out |-> <<>>, err |-> "none"]

Failed(d, e) == [d EXCEPT !.err = e]

(* flush_copy_range and flush_passthrough_buf. *)
FlushCopyRange(w, d) ==
    [d EXCEPT !.run = <<>>,
              !.out = d.out \o FlattenSeq([i \in DOMAIN d.run |->
                                              BaseElements(w, w.base[d.run[i] + 1])])]
FlushChunks(d) == [d EXCEPT !.chunks = <<>>, !.out = d.out \o d.chunks]
FlushCoalescers(w, d) == FlushChunks(FlushCopyRange(w, d))

(***************************************************************************)
(* CreateEncoder::emit and write_run: the upserts of kind from the cursor  *)
(* up to position to.  loc is the LocMode: "pending" before the map is     *)
(* published.  A run of creates checks the cancellation token.             *)
(***************************************************************************)
Emit(w, d, kind, to, loc, map, cancelled) ==
    LET run == SubSeq(w.up[kind], d.cursors[kind] + 1, to)
        moved == [d EXCEPT !.cursors[kind] = to]
    IN IF run = <<>> THEN d
       ELSE IF cancelled THEN Failed(moved, "cancelled")
       ELSE IF kind = Way /\ loc = "pending" THEN Failed(moved, "pending")
       ELSE [moved EXCEPT !.out = d.out \o [i \in DOMAIN run |-> OscElement(w, kind, run[i], map)]]

EmitRest(w, d, kind, loc, map, cancelled) ==
    IF d.err = "none" THEN Emit(w, d, kind, Len(w.up[kind]), loc, map, cancelled) ELSE d

(* handle_type_transition and flush_remaining_upserts: the rest of the     *)
(* previous kind, and the ways when the base goes from nodes to relations. *)
TypeTransition(w, d, kind, loc, map, cancelled) ==
    IF d.last \in {NoKind, kind} THEN [d EXCEPT !.last = kind]
    ELSE LET rest == EmitRest(w, FlushCoalescers(w, d), d.last, loc, map, cancelled)
             both == IF d.last = Node /\ kind = Relation
                     THEN EmitRest(w, rest, Way, loc, map, cancelled) ELSE rest
         IN [both EXCEPT !.last = kind]

(* check_output_order on OrderWatermark::observe_keys. *)
CheckOrder(d, kind, first, last) ==
    IF d.err # "none" THEN d
    ELSE IF d.mark[1] # NoKind /\ (kind < d.mark[1] \/ (kind = d.mark[1] /\ KeyLess(first, d.mark[2])))
    THEN Failed(d, "unsorted")
    ELSE [d EXCEPT !.mark =
            <<kind, IF kind = d.mark[1] THEN KeyMax(KeyMax(first, last), d.mark[2])
                                        ELSE KeyMax(first, last)>>]

(* emit_gap_creates: the upserts before the bound. *)
GapEnd(w, d, kind, bound) ==
    d.cursors[kind] + Cardinality({i \in (d.cursors[kind] + 1)..Len(w.up[kind]) :
                                        KeyLess(Key(w.up[kind][i]), Key(bound))})

GapCreates(w, d, kind, bound, loc, map, cancelled) ==
    IF d.err # "none" \/ GapEnd(w, d, kind, bound) = d.cursors[kind] THEN d
    ELSE Emit(w, FlushCoalescers(w, d), kind, GapEnd(w, d, kind, bound), loc, map, cancelled)

(* Placement::gap_bound and order_first_key: the first element of a blob a *)
(* worker decoded, else what the range proves.                             *)
GapBound(blob, decoded) ==
    IF decoded THEN blob.ids[1] ELSE BlobFirstId(MinId(blob), MaxId(blob))
OrderFirstKey(blob, decoded) ==
    IF decoded THEN Key(blob.ids[1]) ELSE PresentFirstKey(MinId(blob), MaxId(blob))

(* The cursor rule: a rewrite moves the cursor past the blob's last key. *)
CursorPast(w, d, blob) ==
    d.cursors[blob.kind]
      + Cardinality({i \in (d.cursors[blob.kind] + 1)..Len(w.up[blob.kind]) :
            KeyLeq(Key(w.up[blob.kind][i]), Key(BlobLastId(MinId(blob), MaxId(blob))))})

(* dispatch_variant. *)
DispatchVariant(w, d, item, blob) ==
    IF d.err # "none" THEN d
    ELSE CASE item.how = "copy" ->
                LET c == FlushChunks(d)
                IN IF c.run # <<>> /\ Last(c.run) + 1 = item.seq
                   THEN [c EXCEPT !.run = Append(c.run, item.seq)]
                   ELSE [FlushCopyRange(w, c) EXCEPT !.run = <<item.seq>>]
           [] item.how = "owned" ->
                LET c == FlushCopyRange(w, d)
                IN [c EXCEPT !.chunks = c.chunks \o item.elems]
           [] item.how = "rewritten" ->
                LET c == FlushCoalescers(w, d)
                IN [c EXCEPT !.out = c.out \o item.elems,
                             !.cursors[blob.kind] = CursorPast(w, c, blob)]

(***************************************************************************)
(* process_item: the transition, the order check, the gap creates, the     *)
(* dispatch.  The set holds the one state the drain is left in.            *)
(***************************************************************************)
ProcessItem(w, d, item, loc, map, cancelled) ==
    LET blob == w.base[item.seq + 1]
    IN IF item.how = "omitted" THEN {d}
       ELSE IF loc = "pending" /\ blob.kind # Node THEN {Failed(d, "early")}
       ELSE {DispatchVariant(w, g, item, blob) : g \in
                {GapCreates(w, o, blob.kind, GapBound(blob, item.decoded), loc, map, cancelled) : o \in
                   {CheckOrder(t, blob.kind, OrderFirstKey(blob, item.decoded),
                               Key(BlobLastId(MinId(blob), MaxId(blob)))) : t \in
                      {TypeTransition(w, d, blob.kind, loc, map, cancelled)}}}}

(***************************************************************************)
(* The trailing creates after the last item: those of the last kind and of *)
(* the later ones, each run checked against the order first.               *)
(***************************************************************************)
TypesToFlush(last) == IF last = NoKind THEN Kinds ELSE {k \in Kinds : k >= last}

CheckRun(w, d, kind) ==
    LET run == SubSeq(w.up[kind], d.cursors[kind] + 1, Len(w.up[kind]))
    IN IF run = <<>> THEN d ELSE CheckOrder(d, kind, Key(Head(run)), Key(Last(run)))

TrailingCreates(w, d, loc, map, cancelled) ==
    LET Flush(S, kind) ==
            IF kind \notin TypesToFlush(d.last) THEN S
            ELSE {EmitRest(w, c, kind, loc, map, cancelled) : c \in {CheckRun(w, e, kind) : e \in S}}
    IN Flush(Flush(Flush({FlushCoalescers(w, d)}, Node), Way), Relation)

-----------------------------------------------------------------------------
(***************************************************************************)
(* The reference: what the merged file holds, stated without blobs.        *)
(***************************************************************************)
BaseIds(w, kind) == UNION {ToSet(b.ids) : b \in {c \in ToSet(w.base) : c.kind = kind}}

MergedNodes(w) == (BaseIds(w, Node) \ w.del[Node]) \cup ToSet(w.up[Node])

MergedLocation(w, id) ==
    IF w.ref[id] \in ToSet(w.up[Node]) THEN "osc"
    ELSE IF id \in ToSet(w.up[Way]) /\ w.ref[id] \notin MergedNodes(w) THEN "zero" ELSE "base"

MergedKind(w, kind) ==
    LET ids == Sorted((BaseIds(w, kind) \ w.del[kind]) \cup ToSet(w.up[kind]))
    IN [i \in DOMAIN ids |->
            Element(kind, ids[i], IF ids[i] \in ToSet(w.up[kind]) THEN "osc" ELSE "base",
                    IF w.low /\ kind = Way THEN MergedLocation(w, ids[i]) ELSE "none")]

Merged(w) == MergedKind(w, Node) \o MergedKind(w, Way) \o MergedKind(w, Relation)

(* Change-file way references no node of the merged file resolves. *)
Unresolved(w) == {n \in AllNeeded(w) : n \notin MergedNodes(w)}

(* The base is in the order its header declares. *)
HonestlySorted(w) ==
    LET all == FlattenSeq([i \in DOMAIN w.base |->
                   [j \in DOMAIN w.base[i].ids |-> <<w.base[i].kind, Key(w.base[i].ids[j])>>]])
    IN \A i, j \in DOMAIN all : i < j =>
           all[i][1] < all[j][1] \/ (all[i][1] = all[j][1] /\ KeyLeq(all[i][2], all[j][2]))

-----------------------------------------------------------------------------
(***************************************************************************)
(* The apply-changes pipeline (src/commands/apply_changes): the scanner    *)
(* walks the base file's blob headers and sends each blob to the workers   *)
(* or straight to the drain; the workers decode, check and rewrite; the    *)
(* drain, on the caller's thread, puts the items back in file order and    *)
(* writes them with the change file's creates between them.  Under         *)
(* --locations-on-ways the scanner stops at the first way or relation      *)
(* until the drain has merged every worker's node coordinates.             *)
(*                                                                         *)
(* Threads meet at two bounded channels, the window's tokens, the barrier  *)
(* channel, the per-worker coordinate slots and the failure slot.  A step  *)
(* is one thread's work between two such meetings.                         *)
(***************************************************************************)

CONSTANTS Workers,        \* the worker threads
          Worlds,         \* the merges to consider
          CandidateCap,   \* CANDIDATE_CHANNEL_CAPACITY
          DrainCap,       \* DRAIN_CHANNEL_CAPACITY
          Window,         \* APPLY_CHANGES_SEQ_WINDOW
          Faults,         \* what may go wrong outside the pipeline
          MaxFaults       \* how much of it may, in one run

VARIABLES world,          \* the merge being run
          scanner,        \* run_scanner: where it stands and what it holds
          candidates,     \* the candidate channel, blob seqs
          tokens,         \* the window's channel
          signal,         \* a unit value in the barrier channel
          pool,           \* run_workers: "setup", "running"
          worker,         \* each worker's position, seq, item and error
          slots,          \* each worker's coordinate slot
          drainCh,        \* the drain channel
          map,            \* the published coordinate map, in a set
          failure,        \* the FailureSlot: failed, error
          drain,          \* run_drain's control state
          state,          \* its DrainState
          buffer,         \* its reorder buffer, a set of items
          faults,         \* what has gone wrong so far
          result          \* merge_to's result

vars == <<world, scanner, candidates, tokens, signal, pool, worker, slots, drainCh, map,
          failure, drain, state, buffer, faults, result>>

None == "none"
NoItem == [seq |-> -1, how |-> None, decoded |-> FALSE, elems |-> <<>>]
Idle == [pc |-> "idle", seq |-> -1, item |-> NoItem, err |-> None]
ItemMsg(item) == [item |-> item, end |-> -1]
BoundaryMsg(end) == [item |-> NoItem, end |-> end]

Init ==
    /\ world \in Worlds
    /\ scanner = [pc |-> "walk", seq |-> 0, lastNode |-> -1, signalled |-> FALSE, err |-> None]
    /\ candidates = <<>>
    /\ tokens = Window
    /\ signal = FALSE
    /\ pool = "setup"
    /\ worker = [w \in Workers |-> Idle]
    /\ slots = [w \in Workers |-> {}]
    /\ drainCh = <<>>
    /\ map = {}
    /\ failure = [failed |-> FALSE, err |-> None]
    /\ drain = [pc |-> "recv", next |-> 0, end |-> -1, closed |-> FALSE, err |-> None]
    /\ state = DrainState
    /\ buffer = {}
    /\ faults = {}
    /\ result = None

-----------------------------------------------------------------------------
(* The thread ends a channel's other side can see. *)
DrainGone == drain.pc = "gone"
WorkersGone == pool = "gone" \/ \A w \in Workers : worker[w].pc = "gone"
CandidateSendersGone == scanner.pc \in {"publish", "gone"}
DrainSendersGone == scanner.pc = "gone" /\ WorkersGone

MayFail(f) == f \in Faults /\ f \notin faults /\ Cardinality(faults) < MaxFaults

(* FailureSlot::publish: the first failure stays. *)
Published(err) == IF failure.failed THEN failure ELSE [failed |-> TRUE, err |-> err]

Blob(seq) == world.base[seq + 1]
Mode == IF ~world.low THEN "off" ELSE IF map = {} THEN "pending" ELSE "required"
TheMap == IF map = {} THEN <<>> ELSE CHOOSE m \in map : TRUE

-----------------------------------------------------------------------------
(***************************************************************************)
(* The scanner.  Unindexed blobs get the placeholder kind Node, and        *)
(* --locations-on-ways is refused with them.                               *)
(***************************************************************************)
ClaimedKind(seq) == IF world.indexed THEN Blob(seq).kind ELSE Node

LowMustDecompress(seq) ==
    world.low /\ (ClaimedKind(seq) = Node \/ (ClaimedKind(seq) = Way /\ world.up[Node] # <<>>))

Untouched(seq) ==
    /\ world.indexed
    /\ ~LowMustDecompress(seq)
    /\ ~RangeOverlaps(world, Blob(seq).kind, MinId(Blob(seq)), MaxId(Blob(seq)))

CopyItem(seq, decoded) ==
    [seq |-> seq, how |-> "copy", decoded |-> decoded, elems |-> <<>>]

NeedsBarrier(seq) == world.low /\ ~scanner.signalled /\ ClaimedKind(seq) \in {Way, Relation}

ScannerStep(pc) == scanner' = [scanner EXCEPT !.pc = pc]
ScannerFails(err) == scanner' = [scanner EXCEPT !.pc = "publish", !.err = err]

(* The next header, end of input, or a walk that fails or is cancelled. *)
ScanNext ==
    /\ scanner.pc = "walk"
    /\ \/ /\ scanner.seq < Len(world.base)
          /\ ScannerStep(IF NeedsBarrier(scanner.seq) THEN "boundary" ELSE "admit")
          /\ UNCHANGED faults
       \/ /\ scanner.seq = Len(world.base)
          /\ ScannerStep(IF world.low /\ ~scanner.signalled THEN "boundary" ELSE "gone")
          /\ UNCHANGED faults
       \/ MayFail("scanner") /\ ScannerFails("scanner") /\ faults' = faults \cup {"scanner"}
       \/ "cancelled" \in faults /\ ScannerFails("cancelled") /\ UNCHANGED faults
    /\ UNCHANGED <<world, candidates, tokens, signal, pool, worker, slots, drainCh, map,
                   failure, drain, state, buffer, result>>

(* send_boundary: one past the last node seq. *)
NodeEndSeq_Short(last) == last
NodeEndSeq(last) == last + 1

SendBoundary ==
    /\ scanner.pc = "boundary"
    /\ \/ /\ ~DrainGone /\ Len(drainCh) < DrainCap
          /\ drainCh' = Append(drainCh, BoundaryMsg(NodeEndSeq(scanner.lastNode)))
          /\ ScannerStep("wait")
       \/ DrainGone /\ ScannerFails("closed") /\ UNCHANGED drainCh
    /\ UNCHANGED <<world, candidates, tokens, signal, pool, worker, slots, map, failure,
                   drain, state, buffer, faults, result>>

(* wait_for_barrier. *)
WaitForBarrier ==
    /\ scanner.pc = "wait"
    /\ \/ /\ signal
          /\ signal' = FALSE
          /\ scanner' = [scanner EXCEPT !.signalled = TRUE,
                            !.pc = IF scanner.seq = Len(world.base) THEN "gone" ELSE "admit"]
       \/ ~signal /\ DrainGone /\ ScannerFails("closed") /\ UNCHANGED signal
    /\ UNCHANGED <<world, candidates, tokens, pool, worker, slots, drainCh, map, failure,
                   drain, state, buffer, faults, result>>

(* WindowAdmit::admit: tokens left in the channel outlive the drain. *)
Admit ==
    /\ scanner.pc = "admit"
    /\ \/ /\ tokens > 0
          /\ tokens' = tokens - 1
          /\ scanner' = [scanner EXCEPT !.pc = "dispatch",
                            !.lastNode = IF ClaimedKind(scanner.seq) = Node THEN scanner.seq ELSE @]
       \/ tokens = 0 /\ DrainGone /\ ScannerFails("closed") /\ UNCHANGED tokens
    /\ UNCHANGED <<world, candidates, signal, pool, worker, slots, drainCh, map, failure,
                   drain, state, buffer, faults, result>>

Dispatched == scanner' = [scanner EXCEPT !.pc = IF world.low THEN "poll" ELSE "walk", !.seq = @ + 1]

(* dispatch_item on the splice route: straight to the drain. *)
DispatchCopy ==
    /\ scanner.pc = "dispatch"
    /\ world.splice /\ Untouched(scanner.seq)
    /\ \/ /\ ~DrainGone /\ Len(drainCh) < DrainCap
          /\ drainCh' = Append(drainCh, ItemMsg(CopyItem(scanner.seq, FALSE)))
          /\ Dispatched
       \/ DrainGone /\ ScannerFails("closed") /\ UNCHANGED drainCh
    /\ UNCHANGED <<world, candidates, tokens, signal, pool, worker, slots, map, failure,
                   drain, state, buffer, faults, result>>

(* dispatch_item to the workers. *)
DispatchCandidate ==
    /\ scanner.pc = "dispatch"
    /\ ~(world.splice /\ Untouched(scanner.seq))
    /\ \/ /\ ~WorkersGone /\ Len(candidates) < CandidateCap
          /\ candidates' = Append(candidates, scanner.seq)
          /\ Dispatched
       \/ WorkersGone /\ ScannerFails("closed") /\ UNCHANGED candidates
    /\ UNCHANGED <<world, tokens, signal, pool, worker, slots, drainCh, map, failure, drain,
                   state, buffer, faults, result>>

(* poll_barrier: a signal here would break the protocol. *)
PollBarrier ==
    /\ scanner.pc = "poll"
    /\ \/ (signal \/ DrainGone) /\ ScannerFails(IF signal THEN "protocol" ELSE "closed")
       \/ ~signal /\ ~DrainGone /\ ScannerStep("walk")
    /\ signal' = FALSE
    /\ UNCHANGED <<world, candidates, tokens, pool, worker, slots, drainCh, map, failure,
                   drain, state, buffer, faults, result>>

(* The scanner thread publishes its error before it drops its sender. *)
ScannerPublishes ==
    /\ scanner.pc = "publish"
    /\ failure' = Published(scanner.err)
    /\ ScannerStep("gone")
    /\ UNCHANGED <<world, candidates, tokens, signal, pool, worker, slots, drainCh, map,
                   drain, state, buffer, faults, result>>

Scanner == ScanNext \/ SendBoundary \/ WaitForBarrier \/ Admit \/ DispatchCopy
           \/ DispatchCandidate \/ PollBarrier \/ ScannerPublishes
-----------------------------------------------------------------------------
(***************************************************************************)
(* The workers.                                                            *)
(***************************************************************************)
(* run_workers: the pool's open of the base may fail, published before the *)
(* pool releases its ends of both channels.                                *)
PoolStarts ==
    /\ pool = "setup"
    /\ \/ pool' = "running" /\ UNCHANGED <<failure, faults>>
       \/ /\ MayFail("worker")
          /\ pool' = "gone"
          /\ failure' = Published("worker")
          /\ faults' = faults \cup {"worker"}
    /\ UNCHANGED <<world, scanner, candidates, tokens, signal, worker, slots, drainCh, map,
                   drain, state, buffer, result>>

(* worker_loop: take a candidate, or leave when the scanner has gone. *)
Take(w) ==
    /\ pool = "running" /\ worker[w].pc = "idle"
    /\ \/ /\ candidates # <<>>
          /\ worker' = [worker EXCEPT ![w].pc = "work", ![w].seq = Head(candidates)]
          /\ candidates' = Tail(candidates)
       \/ /\ candidates = <<>> /\ CandidateSendersGone
          /\ worker' = [worker EXCEPT ![w].pc = "gone"]
          /\ UNCHANGED candidates
    /\ UNCHANGED <<world, scanner, tokens, signal, pool, slots, drainCh, map, failure, drain,
                   state, buffer, faults, result>>

(* handle_candidate and handle_owned_passthrough up to the send: what a    *)
(* candidate becomes.                                                      *)
Passed(seq, decoded) ==
    IF world.splice THEN CopyItem(seq, decoded)
    ELSE [seq |-> seq, how |-> "owned", decoded |-> decoded,
          elems |-> BaseElements(world, Blob(seq))]

Reframed(seq) ==
    [seq |-> seq, how |-> "owned", decoded |-> TRUE, elems |-> BaseElements(world, Blob(seq))]

Rewritten(seq) ==
    [seq |-> seq, how |-> "rewritten", decoded |-> TRUE,
     elems |-> RewriteBlock(world, Blob(seq), TheMap)]

NeedsRewrite(seq) ==
    \/ BlockOverlaps(world, Blob(seq))
    \/ UpsertSlice(world, Blob(seq)) # {}
    \/ ~world.indexed /\ ~Blob(seq).whole
    \/ world.low /\ StaleBlob(world, Blob(seq))

HandleCandidate(seq) ==
    IF Untouched(seq) THEN Passed(seq, FALSE)
    ELSE IF Blob(seq).ids = <<>> THEN [NoItem EXCEPT !.seq = seq, !.how = "omitted"]
    ELSE IF NeedsRewrite(seq) THEN Rewritten(seq)
    ELSE IF world.indexed THEN Passed(seq, TRUE) ELSE Reframed(seq)

(* The walk of a decoded blob refuses one out of order. *)
Refused(seq) == ~Untouched(seq) /\ BlobWalkRefuses(Blob(seq))

(* flush_local_coords comes before the item is sent. *)
Work(w) ==
    /\ worker[w].pc = "work"
    /\ \/ /\ ~Refused(worker[w].seq)
          /\ worker' = [worker EXCEPT ![w].pc = "send", ![w].item = HandleCandidate(worker[w].seq)]
          /\ slots' = [slots EXCEPT ![w] = @ \cup ExtractNodeCoords(world, Blob(worker[w].seq))]
          /\ UNCHANGED faults
       \/ /\ Refused(worker[w].seq)
          /\ worker' = [worker EXCEPT ![w].pc = "publish", ![w].err = "unsorted"]
          /\ UNCHANGED <<slots, faults>>
       \/ /\ MayFail("worker")
          /\ worker' = [worker EXCEPT ![w].pc = "publish", ![w].err = "worker"]
          /\ faults' = faults \cup {"worker"}
          /\ UNCHANGED slots
    /\ UNCHANGED <<world, scanner, candidates, tokens, signal, pool, drainCh, map, failure,
                   drain, state, buffer, result>>

(* send_drain. *)
Send(w) ==
    /\ worker[w].pc = "send"
    /\ \/ /\ ~DrainGone /\ Len(drainCh) < DrainCap
          /\ drainCh' = Append(drainCh, ItemMsg(worker[w].item))
          /\ worker' = [worker EXCEPT ![w] = Idle]
       \/ /\ DrainGone
          /\ worker' = [worker EXCEPT ![w].pc = "publish", ![w].err = "closed"]
          /\ UNCHANGED drainCh
    /\ UNCHANGED <<world, scanner, candidates, tokens, signal, pool, slots, map, failure,
                   drain, state, buffer, faults, result>>

WorkerPublishes_Silent(w) ==
    /\ worker[w].pc = "publish"
    /\ worker' = [worker EXCEPT ![w].pc = "gone"]
    /\ UNCHANGED <<world, scanner, candidates, tokens, signal, pool, slots, drainCh, map,
                   failure, drain, state, buffer, faults, result>>

(* A worker publishes before its sender is dropped. *)
WorkerPublishes(w) ==
    /\ worker[w].pc = "publish"
    /\ failure' = Published(worker[w].err)
    /\ worker' = [worker EXCEPT ![w].pc = "gone"]
    /\ UNCHANGED <<world, scanner, candidates, tokens, signal, pool, slots, drainCh, map,
                   drain, state, buffer, faults, result>>

Worker(w) == Take(w) \/ Work(w) \/ Send(w) \/ WorkerPublishes(w)

-----------------------------------------------------------------------------
(***************************************************************************)
(* The drain.                                                              *)
(***************************************************************************)
DrainReturns(err) == drain' = [drain EXCEPT !.pc = "gone", !.err = err]

(* FailureSlot::take hands the error out once. *)
Taken == [failure EXCEPT !.err = None]

(***************************************************************************)
(* One receive of run_drain's loop, its failure and cancellation checks    *)
(* and the insertion of the item.  A timeout with neither to notice goes   *)
(* round the loop unchanged and is left out.                               *)
(***************************************************************************)
Noticed_Never == FALSE
Noticed == failure.err # None \/ "cancelled" \in faults

Checked(next) ==
    IF failure.err # None THEN DrainReturns(failure.err) /\ failure' = Taken
    ELSE /\ failure' = failure
         /\ IF "cancelled" \in faults THEN DrainReturns("cancelled") ELSE drain' = next

Receive ==
    /\ drain.pc = "recv"
    /\ \/ /\ drainCh # <<>>
          /\ LET m == Head(drainCh)
             IN /\ Checked([drain EXCEPT !.pc = "advance",
                                        !.end = IF m.end >= 0 THEN m.end ELSE @])
                /\ buffer' = IF m.end >= 0 THEN buffer ELSE buffer \cup {m.item}
          /\ drainCh' = Tail(drainCh)
       \/ /\ drainCh = <<>> /\ (DrainSendersGone \/ Noticed)
          /\ Checked([drain EXCEPT !.pc = "advance", !.closed = TRUE])
          /\ UNCHANGED <<drainCh, buffer>>
    /\ UNCHANGED <<world, scanner, candidates, tokens, signal, pool, worker, slots, map,
                   state, faults, result>>

(* The items of the contiguous run, one per step; then the token goes back. *)
Ready == {i \in buffer : i.seq = drain.next}

AdvanceItem ==
    /\ drain.pc = "advance"
    /\ \E item \in Ready :
       \E done \in ProcessItem(world, state, item, Mode, TheMap, "cancelled" \in faults) :
            /\ buffer' = buffer \ {item}
            /\ \/ /\ done.err = None
                  /\ state' = done
                  /\ drain' = [drain EXCEPT !.next = @ + 1]
                  /\ tokens' = tokens + 1
                  /\ UNCHANGED faults
               \/ /\ done.err # None
                  /\ DrainReturns(done.err)
                  /\ UNCHANGED <<state, tokens, faults>>
               \/ /\ MayFail("write") /\ item.how # "omitted"
                  /\ DrainReturns("write")
                  /\ faults' = faults \cup {"write"}
                  /\ UNCHANGED <<state, tokens>>
    /\ UNCHANGED <<world, scanner, candidates, signal, pool, worker, slots, drainCh, map,
                   failure, result>>

(* DrainLocations::publish: the seed and every slot. *)
AtBarrier == world.low /\ map = {} /\ drain.end >= 0 /\ drain.next >= drain.end

MergedMap == [n \in DOMAIN Seeded(world) \cup UNION {slots[w] : w \in Workers} |->
                  IF n \in DOMAIN Seeded(world) THEN "osc" ELSE "base"]

Missing == Cardinality(AllNeeded(world)) - Cardinality(DOMAIN MergedMap)

AfterRun == [drain EXCEPT !.pc = IF drain.closed THEN "finish" ELSE "recv"]

PublishMap ==
    /\ drain.pc = "advance" /\ Ready = {} /\ AtBarrier
    /\ \/ /\ Missing <= 0 \/ world.ignore
          /\ map' = {MergedMap}
          /\ slots' = [w \in Workers |-> {}]
          /\ signal' = TRUE
          /\ drain' = AfterRun
          /\ UNCHANGED failure
       \/ /\ Missing > 0 /\ ~world.ignore
          /\ failure' = Taken
          /\ DrainReturns(IF failure.err # None THEN failure.err
                          ELSE IF "cancelled" \in faults THEN "cancelled" ELSE "missing")
          /\ UNCHANGED <<map, slots, signal>>
    /\ UNCHANGED <<world, scanner, candidates, tokens, pool, worker, drainCh, state, buffer,
                   faults, result>>

RunEnds ==
    /\ drain.pc = "advance" /\ Ready = {} /\ ~AtBarrier
    /\ drain' = AfterRun
    /\ UNCHANGED <<world, scanner, candidates, tokens, signal, pool, worker, slots, drainCh,
                   map, failure, state, buffer, faults, result>>

(* After the disconnect: a failure, a gap, or the trailing creates. *)
Finish ==
    /\ drain.pc = "finish"
    /\ \E done \in TrailingCreates(world, state, Mode, TheMap, "cancelled" \in faults) :
       LET err == IF failure.failed THEN (IF failure.err # None THEN failure.err ELSE "reported")
                  ELSE IF buffer # {} THEN "dropped" ELSE done.err
       IN \/ /\ DrainReturns(err)
             /\ state' = IF err = None THEN done ELSE state
             /\ UNCHANGED faults
          \/ /\ MayFail("write") /\ err = None
             /\ DrainReturns("write")
             /\ faults' = faults \cup {"write"}
             /\ UNCHANGED state
    /\ failure' = Taken
    /\ UNCHANGED <<world, scanner, candidates, tokens, signal, pool, worker, slots, drainCh,
                   map, buffer, result>>

Drain == Receive \/ AdvanceItem \/ PublishMap \/ RunEnds \/ Finish

(* merge_to joins both threads; the drain's error ranks first. *)
Join ==
    /\ result = None
    /\ DrainGone /\ DrainSendersGone
    /\ result' = IF drain.err # None THEN drain.err
                 ELSE IF failure.err # None THEN failure.err ELSE "ok"
    /\ UNCHANGED <<world, scanner, candidates, tokens, signal, pool, worker, slots, drainCh,
                   map, failure, drain, state, buffer, faults>>

(* The invocation is cancelled from outside. *)
Cancel ==
    /\ MayFail("cancelled") /\ result = None
    /\ faults' = faults \cup {"cancelled"}
    /\ UNCHANGED <<world, scanner, candidates, tokens, signal, pool, worker, slots, drainCh,
                   map, failure, drain, state, buffer, result>>

Next == Scanner \/ PoolStarts \/ (\E w \in Workers : Worker(w)) \/ Drain \/ Join \/ Cancel

(* Every thread that can run is scheduled; nothing obliges a cancellation. *)
Spec == /\ Init /\ [][Next]_vars
        /\ WF_vars(Scanner) /\ WF_vars(PoolStarts) /\ WF_vars(Drain) /\ WF_vars(Join)
        /\ \A w \in Workers : WF_vars(Worker(w))

-----------------------------------------------------------------------------
ScannerPcs == {"walk", "boundary", "wait", "admit", "dispatch", "poll", "publish", "gone"}
WorkerPcs == {"idle", "work", "send", "publish", "gone"}
Errors == {None, "scanner", "worker", "write", "cancelled", "unsorted", "missing", "closed",
           "protocol", "pending", "early", "dropped", "reported"}
Seqs == -1..Len(world.base)
Coords == {"none", "base", "osc", "zero"}

IsItem(i) == /\ i.seq \in Seqs
             /\ i.how \in {None, "copy", "owned", "rewritten", "omitted"}
             /\ i.decoded \in BOOLEAN
             /\ \A k \in DOMAIN i.elems : i.elems[k].kind \in Kinds /\ i.elems[k].loc \in Coords

(* Every variable holds a value of its kind and the channels keep to their *)
(* capacities.                                                             *)
TypeOK ==
    /\ world \in Worlds
    /\ scanner.pc \in ScannerPcs /\ scanner.seq \in Seqs /\ scanner.lastNode \in Seqs
    /\ scanner.signalled \in BOOLEAN /\ scanner.err \in Errors
    /\ Len(candidates) <= CandidateCap /\ ToSet(candidates) \subseteq Seqs
    /\ tokens \in 0..Window /\ signal \in BOOLEAN /\ pool \in {"setup", "running", "gone"}
    /\ \A w \in Workers : /\ worker[w].pc \in WorkerPcs /\ worker[w].seq \in Seqs
                          /\ worker[w].err \in Errors /\ IsItem(worker[w].item)
    /\ \A w \in Workers : slots[w] \subseteq AllNeeded(world)
    /\ Len(drainCh) <= DrainCap /\ \A i \in DOMAIN drainCh : IsItem(drainCh[i].item)
    /\ Cardinality(map) <= 1 /\ failure.failed \in BOOLEAN /\ failure.err \in Errors
    /\ drain.pc \in {"recv", "advance", "finish", "gone"} /\ drain.next \in Seqs
    /\ drain.err \in Errors /\ \A i \in buffer : IsItem(i)
    /\ state.err = None /\ faults \subseteq Faults /\ result \in Errors \cup {"ok"}

(***************************************************************************)
(* The result of merge_to is true.  A run that succeeds had no failure and *)
(* wrote exactly the merged file: every element of the base but the        *)
(* deleted ones, every create and modification once, in order, each way    *)
(* with the coordinate its node has in the merged file.  A run that fails  *)
(* names the cause: a failure of the scanner, a worker or the writer that  *)
(* happened, a cancellation, a base out of order or a reference that is    *)
(* really missing; never the closed channel, dropped seq or protocol break *)
(* that follows from one.                                                  *)
(***************************************************************************)
ResultIsTrue ==
    \/ result = None
    \/ /\ result = "ok" /\ faults \subseteq {"cancelled"}
       /\ ~world.low \/ world.ignore \/ Unresolved(world) = {}
       /\ state.out = Merged(world)
    \/ result \in faults
    \/ result = "unsorted" /\ ~HonestlySorted(world)
    \/ result = "missing" /\ world.low /\ ~world.ignore /\ Unresolved(world) # {}

(* The seqs the scanner has reserved and the drain has not processed, and  *)
(* how many places hold one.                                               *)
Outstanding == {s \in 0..scanner.seq : /\ s >= drain.next
                                       /\ s < scanner.seq \/ scanner.pc = "dispatch"}

Holders(s) ==
    Cardinality({i \in DOMAIN candidates : candidates[i] = s})
    + Cardinality({w \in Workers : worker[w].pc # "gone" /\ worker[w].seq = s})
    + Cardinality({i \in DOMAIN drainCh : drainCh[i].item.seq = s})
    + Cardinality({i \in buffer : i.seq = s})
    + (IF scanner.pc = "dispatch" /\ scanner.seq = s THEN 1 ELSE 0)

(***************************************************************************)
(* The window's promise (window.rs): never more than Window seqs are       *)
(* reserved and not yet processed, and while the drain runs each one is in *)
(* exactly one place, so it is still owed to the drain, unless a failure   *)
(* has been published for the drain to find.                               *)
(***************************************************************************)
EverySeqOwed ==
    drain.pc # "gone" =>
        /\ Cardinality(Outstanding) <= Window
        /\ failure.failed
             \/ /\ \A s \in Outstanding : Holders(s) = 1
                /\ Cardinality(Outstanding) + tokens = Window

(* Every merge returns, whatever fails and wherever the threads then wait. *)
Returns == <>(result # None)

(***************************************************************************)
(* What drain.rs says of the trailing creates: they are emitted for every  *)
(* kind whose blobs were never seen, so no create is lost.                 *)
(***************************************************************************)
CreatesReachOutput ==
    result = "ok" =>
        \A k \in Kinds : \A id \in ToSet(world.up[k]) :
            \E i \in DOMAIN state.out : state.out[i].kind = k /\ state.out[i].id = id

-----------------------------------------------------------------------------
(***************************************************************************)
(* Small merges that reach every route: blobs spliced, passed owned,       *)
(* reframed, omitted, rewritten and searched for stale ways; creates in a  *)
(* blob, in a gap, at a type transition and at the end; a barrier at a     *)
(* way, at a relation and at end of input; bases whose header lies about   *)
(* the order.                                                              *)
(***************************************************************************)

B(kind, ids) == [kind |-> kind, ids |-> ids, whole |-> TRUE]
Split(kind, ids) == [kind |-> kind, ids |-> ids, whole |-> FALSE]

Up(n, w, r) == (Node :> n) @@ (Way :> w) @@ (Relation :> r)

NodeOf == [id \in 1..4 |-> IF id = 4 THEN 9 ELSE id]

World(low, ignore, splice, indexed, base, up, del) ==
    [low |-> low, ignore |-> ignore, splice |-> splice, indexed |-> indexed, base |-> base,
     up |-> up, del |-> del, ref |-> NodeOf]

NoDel == Up({}, {}, {})

(* A create inside a blob, in a gap, at a transition and at the end. *)
PlainBase == <<B(Node, <<1, 3>>), B(Node, <<5>>), B(Way, <<1>>)>>
PlainUp == Up(<<2, 4, 6>>, <<>>, <<1>>)

(* IDs of both signs: one blob's range reaches back over its neighbour. *)
SignBase == <<B(Node, <<-1>>), B(Node, <<-2, 1>>), B(Node, <<3>>)>>
SignUp == Up(<<-1, 2>>, <<>>, <<>>)

(* Ways of the change file need a base node of each node blob; one node    *)
(* moves under a way the change file does not touch.                       *)
LowBase == <<B(Node, <<1>>), B(Node, <<2>>), B(Way, <<1, 2>>), B(Relation, <<1>>)>>
LowUp == Up(<<3>>, <<2, 3>>, <<>>)
MoveUp == Up(<<1>>, <<>>, <<>>)
MissUp == Up(<<>>, <<2, 4>>, <<>>)

Both(low, ignore, indexed, base, up, del) ==
    {World(low, ignore, splice, indexed, base, up, del) : splice \in BOOLEAN}

MCWorlds ==
    Both(FALSE, FALSE, TRUE, PlainBase, PlainUp, Up({5}, {1}, {}))
    \cup Both(FALSE, FALSE, TRUE, SignBase, SignUp, NoDel)
    \cup Both(TRUE, FALSE, TRUE, LowBase, LowUp, NoDel)
    \cup Both(TRUE, FALSE, TRUE, LowBase, MoveUp, NoDel)
    \cup {World(TRUE, i, TRUE, TRUE, LowBase, MissUp, NoDel) : i \in BOOLEAN}
    \cup {World(TRUE, TRUE, TRUE, TRUE, LowBase, Up(<<>>, <<2, 3>>, <<>>), Up({2}, {}, {})),
          World(TRUE, FALSE, TRUE, TRUE, <<B(Node, <<1>>), B(Node, <<2>>)>>,
                Up(<<>>, <<2>>, <<>>), NoDel),
          World(TRUE, FALSE, FALSE, TRUE, <<B(Node, <<1>>), B(Relation, <<1>>)>>,
                Up(<<>>, <<1>>, <<2>>), NoDel),
          World(TRUE, FALSE, TRUE, TRUE, <<B(Node, <<1>>), B(Way, <<1>>), B(Node, <<2>>)>>,
                Up(<<>>, <<1>>, <<>>), NoDel),
          World(FALSE, FALSE, TRUE, TRUE, <<B(Node, <<3, 1>>), B(Way, <<1>>)>>,
                Up(<<2>>, <<>>, <<>>), NoDel),
          World(FALSE, FALSE, TRUE, FALSE,
                <<B(Node, <<1>>), B(Node, <<>>), Split(Way, <<1>>), B(Relation, <<1>>)>>,
                Up(<<2>>, <<2>>, <<>>), Up({}, {}, {1})),
          World(FALSE, FALSE, TRUE, TRUE, <<>>, Up(<<1>>, <<1>>, <<1>>), NoDel)}

(* Bases without a blob of the first kind the change file creates. *)
MCHeadlessWorlds ==
    Both(FALSE, FALSE, TRUE, <<B(Way, <<1>>)>>, Up(<<1>>, <<2>>, <<>>), NoDel)
    \cup Both(TRUE, FALSE, TRUE, <<B(Way, <<2>>)>>, Up(<<1>>, <<1>>, <<>>), NoDel)

Threads == Permutations(Workers)
=============================================================================
