----------------------------- MODULE CatDegrade -----------------------------
(* The commands that copy or spoil a file blob by blob: cat, with reindex and *)
(* repack, and degrade.                                                       *)
EXTENDS CommandState, TLC

-----------------------------------------------------------------------------
(* commands/cat: files one after the other, blob by blob, possibly of some    *)
(* kinds only or with cleaned metadata; reindex; and repack, which cuts a     *)
(* file into blobs of at most cap elements.  A way's locs and pins are in the *)
(* payload, its members in the blob's header.                                 *)

NoBlock == <<>>
Opened ==
    /\ Begin /\ sel = [kind |-> 1, block |-> NoBlock] /\ out = <<>>
    /\ stats = [copied |-> 0, decoded |-> 0, elements |-> 0, changed |-> 0, header |-> {}]

\* Consecutive elements of one kind make a block.
Blocks(items) ==
    LET starts == {i \in DOMAIN items : i = 1 \/ items[i - 1].kind # items[i].kind}
        end(i) == Min({Len(items)} \cup {j - 1 : j \in {k \in starts : k > i}})
    IN SetToSortSeq({<<i, end(i)>> : i \in starts}, LAMBDA a, b : a[1] < b[1])
AsBlobs(items) == [k \in DOMAIN Blocks(items) |-> Framed(SubSeq(items, Blocks(items)[k][1], Blocks(items)[k][2]))]

----------------------------------------------------------------------------
(* cat. *)

\* All kinds while cleaning is no filter at all.
TypeFilter == job.kinds # AllKinds \/ (job.typed /\ ~job.clean)

\* raw_copy_ways: an unindexed file's way blobs will be rebuilt.
RawCopyWays(unindexed) ==
    LET enriched == \E h \in Range(InputHeaders) : h.locs \/ h.pins \/ h.members
    IN IF enriched /\ \E f \in DOMAIN job.files : ~Indexed(job.files[f].blobs) THEN unindexed ELSE "blobs copied"

CatTo ==
    /\ pc = "enter" /\ job.cmd = "cat"
    /\ IF \/ TypeFilter /\ \E f \in DOMAIN job.files : ~IndexdataPolicy(job.files[f].blobs, job.force)
          \/ \E f \in DOMAIN job.files : ~job.files[f].present
       THEN Fail /\ UNCHANGED <<round, stats>>
       ELSE LET ways == CASE job.clean -> "reencoded"
                          [] TypeFilter /\ ~job.clean -> RawCopyWays("reencoded")
                          [] OTHER -> RawCopyWays("payloads copied")
            IN /\ stats' = [stats EXCEPT !.header = {BuildHeader(InputHeaders, "as input", ways)}]
               /\ Goto(CASE job.clean -> "filtered" [] TypeFilter /\ ~job.clean -> "typed" [] OTHER -> "raw")
               /\ round' = 1
    /\ UNCHANGED <<job, sel, out>>

Header == CHOOSE h \in stats.header : TRUE

\* reencode_unclassifiable: locations stay, pins and members go, unless the
\* header has already promised them.
Unclassifiable(b) ==
    IF \E e \in Range(Of("way", b.items)) : Header.members \/ (Header.pins /\ e.pins)
    THEN Fail /\ UNCHANGED <<out, stats>>
    ELSE /\ out' = out \o AsBlobs(Lose(b.items, {"pins", "members"}))
         /\ stats' = [stats EXCEPT !.decoded = @ + 1, !.elements = @ + Len(b.items)]
         /\ UNCHANGED <<pc, result>>

\* One data blob of cat_passthrough: copied as it is, given an index, or
\* rebuilt where no index describes it.
PassthroughBlob_AnyWay ==
    /\ pc = "raw" /\ round <= Len(InputBlobs)
    /\ LET b == InputBlobs[round] IN
       CASE b.claim # "none" ->
              out' = Append(out, b) /\ stats' = [stats EXCEPT !.copied = @ + 1] /\ UNCHANGED <<pc, result>>
         [] b.claim = "none" /\ b.bad -> Fail /\ UNCHANGED <<out, stats>>
         [] b.claim = "none" /\ ~b.bad /\ ~Classifiable(b.items) -> Unclassifiable(b)
         [] OTHER ->
              /\ out' = Append(out, Framed(Lose(b.items, {"members"})))
              /\ stats' = [stats EXCEPT !.copied = @ + 1] /\ UNCHANGED <<pc, result>>
    /\ round' = round + 1 /\ UNCHANGED <<job, sel>>
PassthroughBlob ==
    /\ pc = "raw" /\ round <= Len(InputBlobs)
    /\ LET b == InputBlobs[round] IN
       CASE b.claim # "none" ->
              out' = Append(out, b) /\ stats' = [stats EXCEPT !.copied = @ + 1] /\ UNCHANGED <<pc, result>>
         [] b.claim = "none" /\ b.bad -> Fail /\ UNCHANGED <<out, stats>>
         [] b.claim = "none" /\ ~b.bad /\ ~Classifiable(b.items) -> Unclassifiable(b)
         [] OTHER ->
              IF Header.members /\ b.items[1].kind = "way" THEN Fail /\ UNCHANGED <<out, stats>>
              ELSE /\ out' = Append(out, Framed(Lose(b.items, {"members"})))
                   /\ stats' = [stats EXCEPT !.copied = @ + 1] /\ UNCHANGED <<pc, result>>
    /\ round' = round + 1 /\ UNCHANGED <<job, sel>>

\* process_block: the elements of the wanted kinds, re-encoded.
ProcessBlock(items) ==
    LET kept == SelectSeq(items, LAMBDA e : e.kind \in job.kinds)
    IN Lose(kept, {"locs", "pins", "members"} \cup IF job.clean THEN {"meta"} ELSE {})

\* One data blob of cat_type_passthrough: skipped or copied by its index, or
\* filtered; a way that was to keep its enrichment ends the call.
TypedBlob ==
    /\ pc = "typed" /\ round <= Len(InputBlobs)
    /\ LET b == InputBlobs[round]  kept == ProcessBlock(b.items) IN
       CASE b.claim # "none" /\ b.claim \notin job.kinds -> UNCHANGED <<out, stats, pc, result>>
         [] b.claim # "none" /\ b.claim \in job.kinds ->
              out' = Append(out, b) /\ stats' = [stats EXCEPT !.copied = @ + 1] /\ UNCHANGED <<pc, result>>
         [] b.claim = "none" /\ (b.bad \/ (WayEnrichment(Header) /\ Of("way", kept) # <<>>)) ->
              Fail /\ UNCHANGED <<out, stats>>
         [] OTHER -> /\ out' = out \o AsBlobs(kept)
                     /\ stats' = [stats EXCEPT !.decoded = @ + 1, !.elements = @ + Len(kept)]
                     /\ UNCHANGED <<pc, result>>
    /\ round' = round + 1 /\ UNCHANGED <<job, sel>>

\* One scheduled blob of cat_filtered, in file order through the ordered pool.
FilteredBlob ==
    /\ pc = "filtered" /\ round <= Len(InputBlobs)
    /\ LET b == InputBlobs[round]  kept == ProcessBlock(b.items) IN
       CASE b.claim \notin job.kinds \cup {"none"} -> UNCHANGED <<out, stats, pc, result>>
         [] b.claim \in job.kinds \cup {"none"} /\ (b.bad \/ Foreign(b)) -> Fail /\ UNCHANGED <<out, stats>>
         [] OTHER -> /\ out' = out \o AsBlobs(kept)
                     /\ stats' = [stats EXCEPT !.decoded = @ + 1, !.elements = @ + Len(kept)]
                     /\ UNCHANGED <<pc, result>>
    /\ round' = round + 1 /\ UNCHANGED <<job, sel>>

CatEnd ==
    /\ pc \in {"raw", "typed", "filtered", "reindex"} /\ round > Len(InputBlobs) /\ Done
    /\ UNCHANGED <<job, round, sel, out, stats>>

----------------------------------------------------------------------------
(* reindex. *)

ReindexTo ==
    /\ pc = "enter" /\ job.cmd = "reindex"
    /\ IF ~job.files[1].present THEN Fail /\ UNCHANGED stats
       ELSE Goto("reindex") /\ stats' = [stats EXCEPT !.header = {InputHeaders[1]}]
    /\ round' = 1 /\ UNCHANGED <<job, sel, out>>

\* reframe_preserving: the header's other fields stay.
ReindexBlob ==
    /\ pc = "reindex" /\ round <= Len(InputBlobs)
    /\ LET b == InputBlobs[round] IN
       IF b.bad \/ ~Classifiable(b.items) THEN Fail /\ UNCHANGED <<out, stats>>
       ELSE /\ out' = Append(out, Framed(b.items))
            /\ stats' = [stats EXCEPT !.copied = @ + 1, !.changed = @ + IF Claim(b) = PayloadIndex(b.items) THEN 0 ELSE 1]
            /\ UNCHANGED <<pc, result>>
    /\ round' = round + 1 /\ UNCHANGED <<job, sel>>

----------------------------------------------------------------------------
(* repack. *)

RepackTo ==
    /\ pc = "enter" /\ job.cmd = "repack"
    /\ IF ~job.files[1].present \/ PartlyIndexed(InputBlobs) \/ ~IndexdataPolicy(InputBlobs, job.force)
       THEN Fail /\ UNCHANGED stats
       ELSE Goto("repack") /\ stats' = [stats EXCEPT !.header = {BuildHeader(InputHeaders, "as input", "reencoded with locations")}]
    /\ round' = 1 /\ UNCHANGED <<job, sel, out>>

\* encode_way_full_block, read_way_with_locations: locations stay if the header
\* declares them.
Repacked(items) == Lose(items, {"pins", "members"} \cup IF Header.locs THEN {} ELSE {"locs"})

\* worker_split_blob and the consumer of run_kind_phase: a blob of cap elements
\* or more is cut by itself, after what is pending; a shorter one is coalesced.
RepackBlob ==
    /\ pc = "repack"
    /\ LET sched == KindSchedule(InputBlobs, Kinds[sel.kind]) IN
       /\ round <= Len(sched)
       /\ LET b == sched[round]
              items == Repacked(Of(Kinds[sel.kind], b.items))
              c == Coalesce(sel.block, items)
              blobs == IF Len(items) >= job.cap THEN Residual(sel.block) \o FullBlocks(items) \o Residual(Rest(items))
                       ELSE c.blobs
          IN IF b.bad \/ Foreign(b) THEN Fail /\ UNCHANGED <<sel, out, stats>>
             ELSE /\ out' = out \o blobs
                  /\ sel' = [sel EXCEPT !.block = IF Len(items) >= job.cap THEN NoBlock ELSE c.block]
                  /\ stats' = [stats EXCEPT !.elements = @ + Len(items), !.decoded = @ + Len(blobs)]
                  /\ UNCHANGED <<pc, result>>
    /\ round' = round + 1 /\ UNCHANGED job

\* The end of a kind's phase flushes the residual block; after the relations
\* the command is done.
RepackKindEnd ==
    /\ pc = "repack" /\ round > Len(KindSchedule(InputBlobs, Kinds[sel.kind]))
    /\ out' = out \o Residual(sel.block)
    /\ stats' = [stats EXCEPT !.decoded = @ + Len(Residual(sel.block))]
    /\ IF sel.kind = 3 THEN Done /\ UNCHANGED <<sel, round>>
       ELSE Goto("repack") /\ sel' = [kind |-> sel.kind + 1, block |-> NoBlock] /\ round' = 1
    /\ UNCHANGED job

Next ==
    \/ CatTo \/ PassthroughBlob \/ TypedBlob \/ FilteredBlob \/ CatEnd
    \/ ReindexTo \/ ReindexBlob
    \/ RepackTo \/ RepackBlob \/ RepackKindEnd

----------------------------------------------------------------------------
(* Properties. *)

Given == Elements(InputBlobs)
Bare(items) == Lose(items, {"locs", "pins", "members", "meta"})
KindsClaimedTrue == \A b \in Range(InputBlobs) : ~Foreign(b)
Want ==
    CASE job.cmd = "cat"     -> SelectSeq(Given, LAMBDA e : e.kind \in job.kinds)
      [] job.cmd = "reindex" -> Given
      [] OTHER -> FlattenSeq([k \in 1 .. 3 |-> Of(Kinds[k], Given)])
Found(b) == b.claim = "none" \/ (Classifiable(b.items) /\ Claim(b) = PayloadIndex(b.items))

\* cat, reindex and repack write the elements asked for, in the input's order
\* (by kind for repack), and their headers promise no location, pin or member
\* list that a way of the output has lost on the way, whether its blob was
\* copied, given an index or rebuilt; every blob they index themselves is
\* indexed truly; repack's blobs hold at most cap elements of one kind; and
\* cleaned output has no metadata left.  A call fails only where a payload
\* cannot be read or described, an index is missing or false, or a promise of
\* the header could not be kept.
CatIsTrue ==
    /\ result = "ok" /\ KindsClaimedTrue =>
          LET all == Elements(out)  h == CHOOSE x \in stats.header : TRUE IN
          /\ Bare(all) = Bare(Want)
          /\ \A i \in DOMAIN all : all[i].kind = "way" =>
                \A claim \in {"locs", "pins", "members"} : h[claim] => (all[i][claim] = Want[i][claim])
          /\ \A b \in Range(out) : Found(b) \/ b \in Range(InputBlobs)
          /\ job.cmd \in {"reindex", "repack"} => \A b \in Range(out) : b.claim # "none" /\ Found(b)
          /\ job.cmd = "repack" => /\ \A b \in Range(out) : Len(b.items) <= job.cap
                                   /\ stats.decoded = Len(out) /\ stats.elements = Len(all)
          /\ job.cmd = "cat" /\ job.clean => \A e \in Range(all) : ~e.meta
    /\ result = "failed" =>
          \/ \E f \in Range(job.files) : ~f.present \/ ~Indexed(f.blobs) \/ PartlyIndexed(f.blobs)
          \/ Refused(InputBlobs)
          \/ job.cmd = "reindex" /\ \E b \in Range(InputBlobs) : ~Classifiable(b.items)
          \/ job.cmd = "cat" /\ \E h \in Range(InputHeaders) : h.pins

-----------------------------------------------------------------------------
(* commands/degrade: a file made worse on purpose, for tests.  Without a      *)
(* re-encode only headers change, blob by blob; with one, every kind is       *)
(* decoded and encoded anew, some elements dropped, or one pair per kind      *)
(* swapped.  job.flags is a set of the header edits.                          *)

NoState == [held |-> <<>>, seen |-> 0, fired |-> FALSE]

DegradeOpened ==
    /\ Begin /\ sel = [kind |-> 1, drop |-> {}, block |-> <<>>, unsort |-> NoState] /\ out = <<>>
    /\ stats = [blobs |-> 0, elements |-> 0, dropped |-> 0, header |-> {}]

Corrupting == job.flags \cap {"corrupt tagdata", "corrupt indexdata", "corrupt kind"} # {}
CorruptsIndex == job.flags \cap {"corrupt indexdata", "corrupt kind"} # {}

DegradeTo ==
    /\ pc = "enter"
    /\ IF \/ job.flags = {} /\ ~job.reencode
          \/ Corrupting /\ job.reencode
          \/ {"strip tagdata", "corrupt tagdata"} \subseteq job.flags
          \/ "strip indexdata" \in job.flags /\ CorruptsIndex
          \/ job.reencode /\ job.unsort = "intra" /\ job.cap < 2
       THEN Fail ELSE Goto(IF job.reencode THEN "decode" ELSE "pass")
    /\ round' = 1 /\ UNCHANGED <<job, sel, out, stats>>

----------------------------------------------------------------------------
(* Headers only. *)

\* passthrough_header_bytes, output_header::verbatim
PassthroughHeader(h) == IF "strip bbox" \in job.flags THEN [h EXCEPT !.box = {}] ELSE h

Rotated(kind) == CASE kind = "node" -> "way" [] kind = "way" -> "relation" [] OTHER -> "node"

\* corrupted_index: the count and the highest ID inflated, the kind rotated.
CorruptedIndex(b) ==
    LET inflated == IF "corrupt indexdata" \in job.flags THEN [b EXCEPT !.count = @ + 10, !.hi = @ + 10] ELSE b
    IN IF "corrupt kind" \in job.flags THEN [inflated EXCEPT !.claim = Rotated(b.claim)] ELSE inflated

\* reframe_raw: fields are stripped and written anew, the payload stays.
ReframeRaw(b) ==
    LET c == IF CorruptsIndex THEN CorruptedIndex(b)
             ELSE IF "strip indexdata" \in job.flags THEN [b EXCEPT !.claim = "none", !.lo = 0, !.hi = 0, !.count = 0] ELSE b
    IN CASE "corrupt tagdata" \in job.flags -> [c EXCEPT !.tags = "false"]
         [] "strip tagdata" \in job.flags -> [c EXCEPT !.tags = "none"]
         [] OTHER -> c

\* degrade_passthrough; only a readable index can be corrupted.
PassthroughStart ==
    /\ pc = "pass" /\ stats.header = {}
    /\ IF ~job.files[1].present THEN Fail /\ UNCHANGED stats
       ELSE stats' = [stats EXCEPT !.header = {PassthroughHeader(InputHeaders[1])}] /\ Goto("pass")
    /\ UNCHANGED <<job, round, sel, out>>
DegradePassthroughBlob ==
    /\ pc = "pass" /\ stats.header # {} /\ round <= Len(InputBlobs)
    /\ IF CorruptsIndex /\ InputBlobs[round].claim = "none" THEN Fail /\ UNCHANGED <<out, stats>>
       ELSE /\ out' = Append(out, ReframeRaw(InputBlobs[round]))
            /\ stats' = [stats EXCEPT !.blobs = @ + 1] /\ Goto("pass")
    /\ round' = round + 1 /\ UNCHANGED <<job, sel>>
PassthroughEnd ==
    /\ pc = "pass" /\ stats.header # {} /\ round > Len(InputBlobs) /\ Done
    /\ UNCHANGED <<job, round, sel, out, stats>>

----------------------------------------------------------------------------
(* Re-encoding. *)

\* DropKey: by hash, then kind, then ID.  The seed's hash is job.hash.
KeyOf(e) == <<job.hash[<<e.kind, e.id>>], CHOOSE k \in 1 .. 3 : Kinds[k] = e.kind, e.id>>
KeyBelow(a, b) == a[1] < b[1] \/ (a[1] = b[1] /\ (a[2] < b[2] \/ (a[2] = b[2] /\ a[3] < b[3])))

\* keep_smallest over every element met, an ID met twice counted twice.
SelectDropSets(items) ==
    LET before(i, j) == KeyBelow(KeyOf(items[i]), KeyOf(items[j])) \/ (KeyOf(items[i]) = KeyOf(items[j]) /\ i < j)
        smallest == {i \in DOMAIN items : Cardinality({j \in DOMAIN items : before(j, i)}) < job.drop}
    IN {<<items[i].kind, items[i].id>> : i \in smallest}

\* degrade_decode_path up to the first kind.
DecodeStart ==
    /\ pc = "decode" /\ stats.header = {}
    /\ LET scheduled == FlattenSeq([k \in 1 .. 3 |-> Of(Kinds[k], Elements(KindSchedule(InputBlobs, Kinds[k])))])
           ways  == IF job.stripLocations THEN "stripped" ELSE "reencoded"
           built == BuildHeader(InputHeaders, IF job.unsort # "no" THEN "unsorted" ELSE "as input", ways)
       IN IF \/ ~job.files[1].present \/ PartlyIndexed(InputBlobs) \/ ~IndexdataPolicy(InputBlobs, job.force)
             \/ job.drop > 0 /\ (Refused(InputBlobs) \/ job.drop > Len(scheduled))
          THEN Fail /\ UNCHANGED <<sel, stats>>
          ELSE /\ sel' = [sel EXCEPT !.drop = IF job.drop = 0 THEN {} ELSE SelectDropSets(scheduled)]
               /\ stats' = [stats EXCEPT !.dropped = job.drop, !.header = {PassthroughHeader(built)}]
               /\ Goto("decode")
    /\ UNCHANGED <<job, round, out>>

\* FramedBlocks and write_central: the new blobs under a new index, less what
\* is stripped.
Stripped(blobs) == [i \in DOMAIN blobs |-> ReframeRaw(blobs[i])]

\* worker_decode_kind: the kind's elements that are not dropped.
DecodeKind(b) ==
    Lose(SelectSeq(Of(Kinds[sel.kind], b.items), LAMBDA e : <<e.kind, e.id>> \notin sel.drop), {"locs", "pins", "members"})

\* UnsortKindState and feed_tail_unsort: the element at hold_at is held and
\* written after the next one.
HoldAt == IF job.unsort = "cross" THEN job.cap ELSE 1
FeedOne_HoldsOn(acc, e) ==
    CASE acc.u.held = <<>> /\ ~acc.u.fired /\ acc.u.seen + 1 = HoldAt ->
           [acc EXCEPT !.u = [held |-> <<e>>, seen |-> @.seen + 1, fired |-> FALSE]]
      [] acc.u.held # <<>> /\ acc.u.seen > HoldAt ->
           [items |-> Append(acc.items, e) \o acc.u.held, u |-> [held |-> <<>>, seen |-> acc.u.seen + 1, fired |-> TRUE]]
      [] OTHER -> [items |-> Append(acc.items, e), u |-> [acc.u EXCEPT !.seen = @ + 1]]
FeedOne(acc, e) ==
    CASE acc.u.held = <<>> /\ ~acc.u.fired /\ acc.u.seen + 1 = HoldAt ->
           [acc EXCEPT !.u = [held |-> <<e>>, seen |-> @.seen + 1, fired |-> FALSE]]
      [] acc.u.held # <<>> /\ acc.u.seen = HoldAt ->
           [items |-> Append(acc.items, e) \o acc.u.held, u |-> [held |-> <<>>, seen |-> acc.u.seen + 1, fired |-> TRUE]]
      [] OTHER -> [items |-> Append(acc.items, e), u |-> [acc.u EXCEPT !.seen = @ + 1]]
FeedTailUnsort(items) == FoldLeft(FeedOne, [items |-> <<>>, u |-> sel.unsort], items)

Put(blobs, n) ==
    /\ out' = out \o Stripped(blobs)
    /\ stats' = [stats EXCEPT !.blobs = @ + Len(blobs), !.elements = @ + n]

\* run_kind_phase, one blob in schedule order: encoded by its worker, or fed
\* through the central builder, which the intra-blob swap flushes first.
KindBlob ==
    /\ pc = "decode" /\ stats.header # {} /\ round <= Len(KindSchedule(InputBlobs, Kinds[sel.kind]))
    /\ LET b     == KindSchedule(InputBlobs, Kinds[sel.kind])[round]
           items == DecodeKind(b)
           fed   == FeedTailUnsort(items)
           flush == IF job.unsort = "intra" THEN Residual(sel.block) ELSE <<>>
           c     == Coalesce(IF job.unsort = "intra" THEN <<>> ELSE sel.block, fed.items)
       IN IF b.bad \/ Foreign(b) THEN Fail /\ UNCHANGED <<sel, out, stats>>
          ELSE /\ IF job.unsort = "no"
                  THEN Put(FullBlocks(items) \o Residual(Rest(items)), Len(items)) /\ UNCHANGED sel
                  ELSE /\ Put(flush \o c.blobs, Len(items))
                       /\ sel' = [sel EXCEPT !.block = c.block, !.unsort = fed.u]
               /\ Goto("decode")
    /\ round' = round + 1 /\ UNCHANGED job

\* The end of a kind: an element still held, then the rest of the block.
KindEnd ==
    /\ pc = "decode" /\ stats.header # {} /\ round > Len(KindSchedule(InputBlobs, Kinds[sel.kind]))
    /\ LET c == Coalesce(sel.block, sel.unsort.held) IN Put(c.blobs \o Residual(c.block), 0)
    /\ IF sel.kind = 3 THEN Done /\ UNCHANGED <<sel, round>>
       ELSE /\ sel' = [sel EXCEPT !.kind = @ + 1, !.block = <<>>, !.unsort = NoState]
            /\ round' = 1 /\ Goto("decode")
    /\ UNCHANGED job

DegradeNext ==
    \/ DegradeTo \/ PassthroughStart \/ DegradePassthroughBlob \/ PassthroughEnd
    \/ DecodeStart \/ KindBlob \/ KindEnd

----------------------------------------------------------------------------
(* Properties. *)

DegradeGiven == Elements(InputBlobs)
Distinct == \A i, j \in DOMAIN DegradeGiven : i # j => <<DegradeGiven[i].kind, DegradeGiven[i].id>> # <<DegradeGiven[j].kind, DegradeGiven[j].id>>
Swapped(items, at) ==
    IF Len(items) <= at THEN items
    ELSE [i \in DOMAIN items |-> IF i = at THEN items[at + 1] ELSE IF i = at + 1 THEN items[at] ELSE items[i]]
Survivors(kind) == SelectSeq(Of(kind, DegradeGiven), LAMBDA e : \E x \in Range(Elements(out)) : x.kind = kind /\ x.id = e.id)
BlobOf(n) == CHOOSE b \in DOMAIN out : /\ Len(Elements(SubSeq(out, 1, b))) >= n
                                       /\ Len(Elements(SubSeq(out, 1, b - 1))) < n
Backwards(n) == LET o == Elements(out) IN o[n].kind = o[n + 1].kind /\ KeyLess(OsmIdKey(o[n + 1].id), OsmIdKey(o[n].id))

Ascending(items) ==
    \A i, j \in DOMAIN items : i < j /\ items[i].kind = items[j].kind => KeyLess(OsmIdKey(items[i].id), OsmIdKey(items[j].id))

\* A degraded file is bad in the ways asked for and in no other.  Headers
\* alone: every payload as it was, an index gone or wrong where asked.
\* Re-encoded: each kind's elements in order but for one swapped pair, exactly
\* as many dropped as asked (of distinct IDs), no blob above the cap, every
\* index true; the pair swapped across blobs straddles two of them and the pair
\* swapped within one stays in it, and no order is then declared.  A refusal
\* has one of the command's reasons.
DegradeIsTrue ==
    /\ result = "ok" /\ ~job.reencode =>
          /\ [i \in DOMAIN out |-> out[i].items] = [i \in DOMAIN InputBlobs |-> InputBlobs[i].items]
          /\ \A i \in DOMAIN out :
                IF "strip indexdata" \in job.flags THEN out[i].claim = "none"
                ELSE IF CorruptsIndex THEN Claim(out[i]) # Claim(InputBlobs[i]) ELSE Claim(out[i]) = Claim(InputBlobs[i])
    /\ result = "ok" /\ job.reencode =>
          /\ Elements(out) = FlattenSeq([k \in 1 .. 3 |->
                Lose(IF job.unsort = "no" THEN Survivors(Kinds[k]) ELSE Swapped(Survivors(Kinds[k]), HoldAt),
                     {"locs", "pins", "members"})])
          /\ stats.elements = Len(Elements(out)) /\ stats.blobs = Len(out)
          /\ Distinct => Len(DegradeGiven) - Len(Elements(out)) = job.drop
          /\ \A i \in DOMAIN out : /\ Len(out[i].items) \in 1 .. job.cap
                                   /\ IF "strip indexdata" \in job.flags THEN out[i].claim = "none"
                                      ELSE Claim(out[i]) = PayloadIndex(out[i].items)
          /\ Ascending(DegradeGiven) => \A n \in 1 .. Len(Elements(out)) - 1 : Backwards(n) =>
                   /\ job.unsort # "no" /\ \A h \in stats.header : ~h.sorted
                   /\ job.unsort = "cross" => BlobOf(n) # BlobOf(n + 1)
                   /\ job.unsort = "intra" => BlobOf(n) = BlobOf(n + 1)
    /\ result = "failed" =>
          \/ Corrupting \/ (job.flags = {} /\ ~job.reencode) \/ (job.unsort = "intra" /\ job.cap < 2)
          \/ ~job.files[1].present
          \/ Refused(InputBlobs) \/ PartlyIndexed(InputBlobs) \/ ~Indexed(InputBlobs) \/ job.drop > Len(DegradeGiven)
=============================================================================
