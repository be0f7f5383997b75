----------------------------- MODULE BlobMerge ------------------------------
(* commands/blob_merge: sort and the deduplicating cat.  Pass 1 indexes every *)
(* blob, believing the index of a file that claims to be sorted; the plan     *)
(* copies blobs that overlap no other one and sweeps the others, merging by   *)
(* ID.  The runs of the plan are swept in parallel and delivered in order     *)
(* (StreamedPool); here they follow one another.                              *)
EXTENDS CommandState, TLC

\* job.files is a sequence of [header, present, blobs]; a blob's index claims
\* [claim, lo, hi, count], tags is what its tag index claims: "none", "true",
\* "false".  out is the sequence of blobs written.
Dedupe == job.cmd = "merge"
NoPending == [src |-> 0, from |-> 0, to |-> 0]
NoPlan == [entries |-> <<>>, runs |-> <<>>, omitted |-> 0, k |-> 1, cursor |-> 1, opened |-> 0,
           cursors |-> <<>>, pending |-> NoPending]

Opened ==
    /\ Begin /\ sel = NoPlan /\ out = <<>>
    /\ stats = [node |-> 0, way |-> 0, relation |-> 0, claimed |-> 0, copied |-> 0, rewritten |-> 0,
                duplicates |-> 0, total |-> 0, header |-> {}]

BlobAt(src, at) == job.files[src].blobs[at]
IdsInOrder(items) == \A i \in 1 .. Len(items) - 1 : KeyLeq(OsmIdKey(items[i].id), OsmIdKey(items[i + 1].id))

----------------------------------------------------------------------------
(* Pass 1. *)

\* Either command needs indexed inputs that open; sort reads one file, whatever
\* its order, and need not believe its metadata.
SortTo ==
    /\ pc = "enter" /\ ~Dedupe
    /\ IF \/ ~job.distrust /\ ~IndexdataPolicy(job.files[1].blobs, job.force)
          \/ ~job.files[1].present
          \/ ~job.distrust /\ PartlyIndexed(job.files[1].blobs)
       THEN Fail ELSE Goto("index")
    /\ UNCHANGED <<job, round, sel, out, stats>>

PlanMerge ==
    /\ pc = "enter" /\ Dedupe
    /\ IF \E f \in DOMAIN job.files : \/ ~IndexdataPolicy(job.files[f].blobs, job.force)
                                      \/ ~job.files[f].present \/ ~job.files[f].header.sorted
       THEN Fail ELSE Goto("index")
    /\ UNCHANGED <<job, round, sel, out, stats>>

\* claim_holds and carried_tags_hold: tags count against a claim only under
\* distrust.
ClaimHolds(b) == Claim(b) = PayloadIndex(b.items)
CarriedTagsHold(b) == ~job.distrust \/ b.tags # "false"

Believes(src, b) == b.claim # "none" /\ job.files[src].header.sorted /\ ~job.distrust

\* Walk::data_blob and record: the entries of one blob, one per kind if no one
\* index describes it, none if it is empty.
EntriesOf(src, at) ==
    LET b == BlobAt(src, at)
        entry(index, unsorted, mixed, scanned, reindex) ==
          [src |-> src, at |-> at, kind |-> index.kind, lo |-> index.lo, hi |-> index.hi, count |-> index.count,
           unsorted |-> unsorted, mixed |-> mixed, scanned |-> scanned, reindex |-> reindex]
    IN CASE Believes(src, b) -> <<entry(Claim(b), FALSE, FALSE, FALSE, "no")>>
         [] ~Believes(src, b) /\ Classifiable(b.items) ->
              <<entry(PayloadIndex(b.items), ~IdsInOrder(b.items), FALSE, TRUE,
                      CASE b.claim = "none" -> "added"
                        [] ClaimHolds(b) /\ CarriedTagsHold(b) -> "no"
                        [] OTHER -> "replaced")>>
         [] OTHER -> LET held == SelectSeq(Kinds, LAMBDA k : Of(k, b.items) # <<>>)
                     IN [i \in DOMAIN held |-> entry(PayloadIndex(Of(held[i], b.items)), FALSE, TRUE, TRUE, "no")]

IndexInputs ==
    /\ pc = "index"
    /\ LET blobs == FlattenSeq([f \in DOMAIN job.files |-> [b \in DOMAIN job.files[f].blobs |-> <<f, b>>]])
           read  == {p \in Range(blobs) : ~Believes(p[1], BlobAt(p[1], p[2]))}
           all   == FlattenSeq([i \in DOMAIN blobs |-> EntriesOf(blobs[i][1], blobs[i][2])])
       IN IF \E p \in read : BlobAt(p[1], p[2]).bad THEN Fail /\ UNCHANGED <<sel, stats>>
          ELSE /\ sel' = [sel EXCEPT !.entries = all, !.omitted = Cardinality({p \in Range(blobs) : EntriesOf(p[1], p[2]) = <<>>})]
               /\ stats' = [stats EXCEPT !.total = Len(blobs)]
               /\ Goto("plan")
    /\ UNCHANGED <<job, round, out>>

----------------------------------------------------------------------------
(* The plan. *)

TypeOrder(kind) == CHOOSE k \in 1 .. 3 : Kinds[k] = kind
FirstKey(e) == BlobOsmFirstKey(e.lo, e.hi)
LastKey(e) == BlobOsmLastKey(e.lo, e.hi)

\* By kind and first key, stable.
InPlanOrder(entries) ==
    LET less(a, b) == \/ TypeOrder(a.kind) < TypeOrder(b.kind)
                      \/ a.kind = b.kind /\ KeyLess(FirstKey(a), FirstKey(b))
        order == SortSeq([i \in DOMAIN entries |-> i], LAMBDA i, j :
                    less(entries[i], entries[j]) \/ (~less(entries[j], entries[i]) /\ i < j))
    IN [i \in DOMAIN entries |-> entries[order[i]]]

\* overlap_components: an entry starts a new one if its first key is past the
\* last key of everything of its kind before it.
StartsComponent_PastNeighbour(es, j) ==
    j = 1 \/ es[j - 1].kind # es[j].kind \/ KeyLess(LastKey(es[j - 1]), FirstKey(es[j]))
StartsComponent(es, j) ==
    \A i \in 1 .. j - 1 : es[i].kind = es[j].kind => KeyLess(LastKey(es[i]), FirstKey(es[j]))

\* The components of two entries or more, and the blobs that must be rewritten
\* although they overlap none.
Runs(es) ==
    LET starts == {j \in DOMAIN es : StartsComponent(es, j)} \cup {Len(es) + 1}
        end(j) == Min({k \in starts : k > j}) - 1
        runs   == {<<j, end(j)>> : j \in {k \in starts \ {Len(es) + 1} : end(k) > k \/ es[k].mixed \/ es[k].unsorted}}
    IN SetToSortSeq(runs, LAMBDA a, b : a[1] < b[1])

InRun(i) == \E r \in Range(sel.runs) : i \in r[1] .. r[2]

Plan ==
    /\ pc = "plan"
    /\ \E es \in {InPlanOrder(sel.entries)} : \E runs \in {Runs(es)} :
          LET rewritten == {i \in DOMAIN es : \E r \in Range(runs) : i \in r[1] .. r[2]}
          IN /\ sel' = [sel EXCEPT !.entries = es, !.runs = runs]
             /\ stats' = [stats EXCEPT !.rewritten = Cardinality({<<es[i].src, es[i].at>> : i \in rewritten})]
    /\ Goto("header")
    /\ UNCHANGED <<job, round, out>>

\* Plan::ways, and the header under it.
PlanWays == WaysFromCopy(\E i \in DOMAIN sel.entries : InRun(i) /\ sel.entries[i].kind = "way", FALSE)
OpenOutput ==
    /\ pc = "header"
    /\ stats' = [stats EXCEPT !.header = {BuildHeader(InputHeaders, "sorted", PlanWays)}]
    /\ Goto("write")
    /\ UNCHANGED <<job, round, sel, out>>
WriteSort == ~Dedupe /\ OpenOutput
WriteMerge == Dedupe /\ OpenOutput

----------------------------------------------------------------------------
(* Copying. *)

\* CopyRun::flush: the pending range of frames, as they are in the file.
Flushed(p, o) == IF p.src = 0 THEN o ELSE o \o SubSeq(job.files[p.src].blobs, p.from, p.to)

\* write_passthrough: the frame, or the frame under the scanned index.
Reframed(e) ==
    LET b == BlobAt(e.src, e.at) IN
    IF e.reindex = "no" THEN b
    ELSE [b EXCEPT !.claim = e.kind, !.lo = e.lo, !.hi = e.hi, !.count = e.count, !.tags = "true"]

\* passthrough_until, one entry: offered to the pending range if the backend
\* copies ranges, which it extends where the frames are adjacent.
CopyEntry(acc, e) ==
    LET p == acc.pending
        joins == p.src = e.src /\ p.to + 1 = e.at
        s == [acc.stats EXCEPT !.copied = @ + 1, ![IF e.scanned THEN e.kind ELSE "claimed"] = @ + e.count]
    IN CASE e.reindex = "no" /\ job.splice /\ joins ->
              [pending |-> [p EXCEPT !.to = e.at], out |-> acc.out, stats |-> s]
         [] e.reindex = "no" /\ job.splice /\ ~joins ->
              [pending |-> [src |-> e.src, from |-> e.at, to |-> e.at], out |-> Flushed(p, acc.out), stats |-> s]
         [] OTHER ->
              [pending |-> NoPending, out |-> Append(Flushed(p, acc.out), Reframed(e)), stats |-> s]

PassthroughUntil(end) ==
    FoldLeft(CopyEntry, [pending |-> sel.pending, out |-> out, stats |-> stats], SubSeq(sel.entries, sel.cursor, end - 1))

\* before_task: what lies before the run is written, the range flushed.
BeforeTask ==
    /\ pc = "write" /\ sel.k <= Len(sel.runs)
    /\ LET start == sel.runs[sel.k][1] IN
       IF \E i \in sel.cursor .. start - 1 : InRun(i) THEN Fail /\ UNCHANGED <<sel, out, stats>>
       ELSE \E acc \in {PassthroughUntil(start)} :
               /\ out' = Flushed(acc.pending, acc.out) /\ stats' = acc.stats
               /\ sel' = [sel EXCEPT !.cursor = start, !.opened = start - 1, !.cursors = <<>>, !.pending = NoPending]
               /\ Goto("sweep")
    /\ UNCHANGED <<job, round>>

WriteEnd ==
    /\ pc = "write" /\ sel.k > Len(sel.runs)
    /\ \E acc \in {PassthroughUntil(Len(sel.entries) + 1)} : out' = Flushed(acc.pending, acc.out) /\ stats' = acc.stats
    /\ Done
    /\ UNCHANGED <<job, round, sel>>

----------------------------------------------------------------------------
(* The sweep of a run. *)

HeadKey(c) == OsmIdKey(Head(c.items).id)
Live == {s \in DOMAIN sel.cursors : sel.cursors[s].items # <<>>}
LeastKey == CHOOSE k \in {HeadKey(sel.cursors[s]) : s \in Live} : \A s \in Live : KeyLeq(k, HeadKey(sel.cursors[s]))

\* Cursor::open and the checks its reading makes: a believed blob must hold
\* its kind alone, in order, exactly as its index claims; one known to be out
\* of order or mixed is read through sorted views.
OpenRefused(e) ==
    LET b == BlobAt(e.src, e.at)  items == Of(e.kind, b.items) IN
    \/ b.bad
    \/ ~e.scanned /\ (items # b.items \/ items = <<>> \/ Claim(b) # PayloadIndex(items))
    \/ ~e.unsorted /\ ~e.mixed /\ ~IdsInOrder(items)
SortedView(items) ==
    LET order == SortSeq([i \in DOMAIN items |-> i], LAMBDA i, j :
                    \/ KeyLess(OsmIdKey(items[i].id), OsmIdKey(items[j].id))
                    \/ items[i].id = items[j].id /\ i < j)
    IN [i \in DOMAIN items |-> items[order[i]]]

NextToOpen == sel.entries[sel.opened + 1]
RunEnd == sel.runs[sel.k][2]

\* Sweep::run opens an entry once no head lies below its first ID.
OpenEntry ==
    /\ pc = "sweep" /\ sel.opened < RunEnd
    /\ Live # {} => ~KeyLess(LeastKey, FirstKey(NextToOpen))
    /\ LET e == NextToOpen
           cursor == [items |-> SortedView(Of(e.kind, BlobAt(e.src, e.at).items)), src |-> e.src, at |-> e.at, n |-> 1]
       IN IF OpenRefused(e) THEN Fail /\ UNCHANGED sel
          ELSE sel' = [sel EXCEPT !.opened = @ + 1, !.cursors = Append(@, cursor)] /\ Goto("sweep")
    /\ UNCHANGED <<job, round, out, stats>>

\* Encoding anew keeps no locations, pins or blob-level way members.
Reencode(e) == [e EXCEPT !.locs = FALSE, !.pins = FALSE, !.members = FALSE]
TieLess(a, b) == a[1] < b[1] \/ (a[1] = b[1] /\ (a[2] < b[2] \/ (a[2] = b[2] /\ a[3] < b[3])))

\* emit_group: every head with the least key; of equal versions the first by
\* source, offset and occurrence stays if duplicates go; written by version.
EmitGroup ==
    /\ pc = "sweep" /\ Live # {}
    /\ sel.opened < RunEnd => KeyLess(LeastKey, FirstKey(NextToOpen))
    /\ LET taken(c) == Cardinality({i \in DOMAIN c.items : OsmIdKey(c.items[i].id) = LeastKey})
           group == UNION {{[e |-> sel.cursors[s].items[i], tie |-> <<sel.cursors[s].src, sel.cursors[s].at, sel.cursors[s].n + i>>]
                            : i \in 1 .. taken(sel.cursors[s])} : s \in DOMAIN sel.cursors}
           kept  == IF ~Dedupe THEN group
                    ELSE {m \in group : ~\E o \in group : o.e.version = m.e.version /\ TieLess(o.tie, m.tie)}
           order == SetToSortSeq(kept, LAMBDA a, b : a.e.version < b.e.version \/ (a.e.version = b.e.version /\ TieLess(a.tie, b.tie)))
       IN /\ out' = Append(out, Framed([i \in DOMAIN order |-> Reencode(order[i].e)]))
          /\ stats' = [stats EXCEPT ![sel.entries[RunEnd].kind] = @ + Len(order), !.duplicates = @ + Cardinality(group) - Len(order)]
          /\ sel' = [sel EXCEPT !.cursors = [s \in DOMAIN @ |-> [@[s] EXCEPT !.items = SubSeq(@, taken(sel.cursors[s]) + 1, Len(@)),
                                                                         !.n = @ + taken(sel.cursors[s])]]]
    /\ UNCHANGED <<job, pc, round, result>>

FinishTask ==
    /\ pc = "sweep" /\ sel.opened = RunEnd /\ Live = {}
    /\ sel' = [sel EXCEPT !.cursor = RunEnd + 1, !.k = @ + 1, !.cursors = <<>>]
    /\ Goto("write")
    /\ UNCHANGED <<job, round, out, stats>>

Next ==
    \/ SortTo \/ PlanMerge \/ IndexInputs \/ Plan \/ WriteSort \/ WriteMerge \/ BeforeTask \/ WriteEnd
    \/ OpenEntry \/ EmitGroup \/ FinishTask

----------------------------------------------------------------------------
(* Properties. *)

Given == FlattenSeq([f \in DOMAIN job.files |-> Elements(job.files[f].blobs)])
NotAfter(a, b) ==
    \/ TypeOrder(a.kind) < TypeOrder(b.kind)
    \/ a.kind = b.kind /\ KeyLeq(OsmIdKey(a.id), OsmIdKey(b.id))
InFileOrder(items) == \A i \in 1 .. Len(items) - 1 : NotAfter(items[i], items[i + 1])
TrueBlob(b) == b.claim = "none" \/ (Classifiable(b.items) /\ ClaimHolds(b))

\* A file that is believed (it claims to be sorted, and is not distrusted)
\* tells the truth about its order and its indexes.
Honest ==
    \A f \in Range(job.files) : f.header.sorted /\ ~job.distrust =>
        InFileOrder(Elements(f.blobs)) /\ \A b \in Range(f.blobs) : TrueBlob(b)

Times(e, items) == Cardinality({i \in DOMAIN items : Reencode(items[i]) = Reencode(e)})
SameObject(a, b) == a.kind = b.kind /\ a.id = b.id /\ a.version = b.version
CopiesOf(e, items) == Cardinality({i \in DOMAIN items : SameObject(items[i], e)})
FirstCopy(e) == CHOOSE x \in Range(Given) : \E i \in DOMAIN Given :
                   Given[i] = x /\ SameObject(x, e) /\ \A j \in 1 .. i - 1 : ~SameObject(Given[j], e)

\* A sorted or merged file is in order under true indexes and has exactly the
\* inputs' elements: all of them for sort; for the deduplicating cat one copy
\* per version, the first input's, except where one blob itself repeats it.
\* Its header claims no location, pin or member list that a way has lost, and
\* the counts add up.  Only a readable input whose believed claims are false
\* can come out otherwise; everything else that is wrong fails the call.
MergeIsTrue ==
    /\ result = "ok" /\ Honest =>
          LET all == Elements(out)  h == CHOOSE x \in stats.header : TRUE IN
          /\ InFileOrder(all)
          /\ \A b \in Range(out) : TrueBlob(b) /\ b.claim # "none" /\ (job.distrust => b.tags # "false")
          /\ ~Dedupe => /\ Len(all) = Len(Given)
                        /\ \A e \in Range(Given) : Times(e, all) = Times(e, Given)
          /\ Dedupe => \A e \in Range(Given) :
                /\ \E x \in Range(all) : Reencode(x) = Reencode(FirstCopy(e))
                /\ \/ CopiesOf(e, all) = 1
                   \/ \E f \in Range(job.files) : \E b \in Range(f.blobs) : CopiesOf(e, b.items) = CopiesOf(e, all)
          /\ \A claim \in {"locs", "pins", "members"} :
                h[claim] => \A e \in Range(Of("way", all)) : e[claim] \/ \E x \in Range(Given) : SameObject(x, e) /\ ~x[claim]
          /\ stats["node"] + stats["way"] + stats["relation"] + stats.claimed = Len(all)
          /\ Len(all) + stats.duplicates = Len(Given)
          /\ stats.copied + stats.rewritten + sel.omitted = stats.total
    /\ result = "failed" =>
          \/ \E f \in Range(job.files) : ~f.present \/ ~Indexed(f.blobs) \/ PartlyIndexed(f.blobs) \/ Undecodable(f.blobs)
          \/ Dedupe /\ \E f \in Range(job.files) : ~f.header.sorted
          \/ ~Honest
=============================================================================
