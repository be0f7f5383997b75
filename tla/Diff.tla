-------------------------------- MODULE Diff --------------------------------
(* diff and derive-changes: what they write, the join of two files blob by    *)
(* blob and unit by unit, the comparison of elements, and the details of a    *)
(* modified element.                                                          *)
EXTENDS CommandState, TLC

-----------------------------------------------------------------------------
(* What diff and its OsmChange form write.  diff writes lines, derive writes  *)
(* three sections; in a unit of work a section's buffer leaves as             *)
(* a chunk through the unit's bounded stream (StreamedPool).  derive never    *)
(* waits for that stream: when it is full the unit spills, to files that are  *)
(* copied when the unit is finished.  An element has a kind, an id, a version *)
(* (0: none claimed) and a content; "broken" content has a string reference   *)
(* past its table.                                                            *)

SECTIONS == IF job.cmd = "diff" THEN <<"text">> ELSE <<"create", "modify", "delete">>
Sections == Range(SECTIONS)
NoOutput ==
    LET none == [s \in Sections |-> <<>>] IN [buf |-> none, frag |-> none, spill |-> none, spilling |-> FALSE, doc |-> <<>>]
NoTally == [common |-> 0, created |-> 0, modified |-> 0, deleted |-> 0]
AddTally(a, b) == [f \in DOMAIN NoTally |-> a[f] + b[f]]

\* An action of a merge: what it found, on an old and a new element (<<>>: none).
OldOnly(o) == [what |-> "deleted", old |-> o, new |-> o]
NewOnly(n) == [what |-> "created", old |-> n, new |-> n]
ContentEqual(o, n) == o.kind = n.kind /\ o.content = n.content /\ o.content # "broken"
Paired(o, n) == [what |-> IF ContentEqual(o, n) THEN "common" ELSE "modified", old |-> o, new |-> n]

\* write_compact_line, write_modified_line: the versions a line shows.
CompactLine(sign, e) == <<sign, e.kind, e.id, e.version, e.version>>
ModifiedLine(o, n) == <<"*", o.kind, o.id, IF n.version = 0 \/ o.version = 0 THEN o.version + n.version ELSE o.version,
                                            IF n.version = 0 THEN o.version ELSE n.version>>
DiffLine(a) ==
    CASE a.what = "deleted"  -> <<CompactLine("-", a.old)>>
      [] a.what = "created"  -> <<CompactLine("+", a.new)>>
      [] a.what = "modified" -> <<ModifiedLine(a.old, a.new)>>
      [] OTHER               -> IF job.common THEN <<CompactLine(" ", a.old)>> ELSE <<>>

\* write_delete_element: a claimed version, raised on request.
DeletedVersion(e) ==
    IF e.version < 1 THEN 0 ELSE IF job.inc /\ e.version < job.maxVersion THEN e.version + 1 ELSE e.version
DeleteElement(e) == <<e.kind, e.id, DeletedVersion(e), job.ts>>
WriteElement(e) == <<e.kind, e.id, e.version, e.content>>

\* What an action appends to which section, and when it cannot: derive spells
\* out the new element, verbose diff compares both.
Section(a) ==
    IF job.cmd = "diff" THEN "text"
    ELSE CASE a.what = "created" -> "create" [] a.what = "modified" -> "modify" [] OTHER -> "delete"
Written(a) ==
    IF job.cmd = "diff" THEN DiffLine(a)
    ELSE CASE a.what = "common"  -> <<>>
           [] a.what = "deleted" -> <<DeleteElement(a.old)>>
           [] OTHER              -> <<WriteElement(a.new)>>
Unwritable(a) ==
    IF job.cmd = "diff" THEN job.verbose /\ a.what = "modified" /\ "broken" \in {a.old.content, a.new.content}
    ELSE a.what \in {"created", "modified"} /\ a.new.content = "broken"

\* UnitWriters::emit: a chunk leaves in order, or, once one found the stream
\* full, goes to the section's spill like every later one.
Emit(o, section, chunk, full) ==
    LET spills == job.cmd = "derive" /\ (o.spilling \/ full)
    IN [o EXCEPT !.buf[section] = <<>>, !.spilling = spills,
                 !.spill[section] = IF spills THEN @ \o chunk ELSE @, !.frag[section] = IF spills THEN @ ELSE @ \o chunk]

\* record_into and poll, in a unit; record, straight to the output.
RecordInto(a, full) ==
    LET buf == out.buf[Section(a)] \o Written(a)
    IN out' = IF Len(buf) >= job.chunk THEN Emit(out, Section(a), buf, full) ELSE [out EXCEPT !.buf[Section(a)] = buf]
Record(a) == out' = [out EXCEPT !.frag[Section(a)] = @ \o Written(a)]
Tally(a) == [stats EXCEPT !.unit[a.what] = @ + 1]

\* finish_into, then the consumer's finish_unit: what is left of each buffer,
\* and after it the spills.
FinishInto(full) ==
    FoldLeft(LAMBDA o, s : IF o.buf[s] = <<>> THEN o ELSE Emit(o, s, o.buf[s], s \in full), out, SECTIONS)
FinishUnit(o) ==
    [o EXCEPT !.frag = [s \in Sections |-> @[s] \o o.spill[s]], !.spill = [s \in Sections |-> <<>>], !.spilling = FALSE]

----------------------------------------------------------------------------
(* assemble_osc: the document around the sections.  A piece of the output is  *)
(* <<text, member>>: whether it is inside a gzip member.                      *)

Zipped(text) == [i \in DOMAIN text |-> <<text[i], TRUE>>]
Plain(text) == [i \in DOMAIN text |-> <<text[i], FALSE>>]

\* GlueMembers: text waits, and is a member of its own before a fragment.
GlueText(g, text) == [g EXCEPT !.pending = @ \o text]
EmitPending(g) == [out |-> g.out \o Zipped(g.pending), pending |-> <<>>]
GlueFragment(g, members) == LET h == EmitPending(g) IN [h EXCEPT !.out = @ \o members]

\* copy_section, in each of the three ways of writing.
SectionCount(s) ==
    CASE s = "create" -> stats.created [] s = "modify" -> stats.modified [] OTHER -> stats.deleted
CopyGlued(g, s) ==
    IF SectionCount(s) = 0 THEN g
    ELSE GlueText(GlueFragment(GlueText(g, <<<<"open", s>>>>), Zipped(out.frag[s])), <<<<"close", s>>>>)
CopySection(text, s) ==
    IF SectionCount(s) = 0 THEN text ELSE text \o <<<<"open", s>>>> \o out.frag[s] \o <<<<"close", s>>>>
WriteDocument == FoldLeft(CopySection, <<<<"open", "osmChange">>>>, SECTIONS) \o <<<<"close", "osmChange">>>>
GluedDocument ==
    EmitPending(GlueText(FoldLeft(CopyGlued, [out |-> <<>>, pending |-> <<<<"open", "osmChange">>>>], SECTIONS),
                         <<<<"close", "osmChange">>>>)).out
AssembleOsc(members) ==
    IF ~job.gzip THEN Plain(WriteDocument) ELSE IF members THEN GluedDocument ELSE Zipped(WriteDocument)

-----------------------------------------------------------------------------
(* osc/merge_join.rs: two sorted inputs compared element by element, as two   *)
(* streams (no index needed), or blob by blob inside a window of keys.        *)
(* sel holds the readers: at, the last blob taken of each input; for the      *)
(* streams open, pos, last, head and ended; for a unit sides (its frames),    *)
(* next (first frame not taken), dec (the decoded block, <<>> or <<state>>),  *)
(* window, upTo, run (elements of one side still to report) and back.         *)

Both == 1 .. 2
Inputs == <<job.old.blobs, job.new.blobs>>
Ordinal(kind) == CHOOSE i \in 1 .. 3 : Kinds[i] = kind
Key(e) == OsmIdKey(e.id)
Phase == Kinds[sel.phase]

BlobFirst(b) == BlobOsmFirstKey(b.lo, b.hi)
BlobLast(b) == BlobOsmLastKey(b.lo, b.hi)
Report(a) == Record(a) /\ stats' = Tally(a)
Stop == Fail /\ UNCHANGED <<sel, out, stats>>

----------------------------------------------------------------------------
(* StreamingBlocks. *)

BlockKinds(b) == {Ordinal(e.kind) : e \in Range(b.items)}
Exhausted(s) == sel.open[s] => sel.pos[s] = Len(Inputs[s][sel.at[s]].items)
Pulls(s) == pc = "stream" /\ sel.phase <= 3 /\ sel.head[s] = <<>> /\ ~sel.ended[s]

\* next_phase_block and, for a kind nobody asked for, skip_kind.
NextPhaseBlock(s) ==
    /\ Pulls(s) /\ Exhausted(s)
    /\ LET i     == sel.at[s] + 1
           b     == Inputs[s][i]
           take  == [sel EXCEPT !.at[s] = i, !.pos[s] = 0, !.open[s] = Phase \in job.kinds]
           kinds == BlockKinds(b)
       IN \/ i > Len(Inputs[s]) /\ sel' = [sel EXCEPT !.ended[s] = TRUE] /\ UNCHANGED <<out, stats, pc, result>>
          \/ /\ i <= Len(Inputs[s])
             /\ IF b.bad \/ Cardinality(kinds) > 1 \/ \E k \in kinds : k < sel.phase THEN Stop
                ELSE /\ sel' = IF kinds = {} THEN [take EXCEPT !.open[s] = FALSE]
                               ELSE IF kinds = {sel.phase} THEN take
                               ELSE [sel EXCEPT !.ended[s] = TRUE, !.open[s] = FALSE]
                     /\ UNCHANGED <<out, stats, pc, result>>
    /\ UNCHANGED <<job, round>>

\* pull_head and admit: no element may come before the last of its kind.
Admit(s) ==
    /\ Pulls(s) /\ ~Exhausted(s)
    /\ LET e == Inputs[s][sel.at[s]].items[sel.pos[s] + 1] IN
       IF ObserveFails(sel.last[s], sel.phase, Key(e)) THEN Stop
       ELSE /\ sel' = [sel EXCEPT !.pos[s] = @ + 1, !.head[s] = <<e>>, !.last[s] = [kind |-> sel.phase, last |-> Key(e)]]
            /\ UNCHANGED <<out, stats, pc, result>>
    /\ UNCHANGED <<job, round>>

\* stream_merge_phase with both heads in place.
Ready == pc = "stream" /\ sel.phase <= 3 /\ \A s \in Both : sel.head[s] # <<>> \/ sel.ended[s]
Lone(s) == sel.head[s] # <<>> /\ (sel.head[3 - s] = <<>> \/ KeyLess(Key(sel.head[s][1]), Key(sel.head[3 - s][1])))
StreamAction ==
    IF Lone(1) THEN OldOnly(sel.head[1][1]) ELSE IF Lone(2) THEN NewOnly(sel.head[2][1])
    ELSE Paired(sel.head[1][1], sel.head[2][1])
StreamMerge ==
    /\ Ready /\ \E s \in Both : sel.head[s] # <<>>
    /\ IF Unwritable(StreamAction) THEN Stop
       ELSE /\ Report(StreamAction)
            /\ sel' = [sel EXCEPT !.head = [s \in Both |-> IF Lone(3 - s) THEN @[s] ELSE <<>>]]
            /\ UNCHANGED <<pc, result>>
    /\ UNCHANGED <<job, round>>
EndPhase ==
    /\ Ready /\ \A s \in Both : sel.head[s] = <<>>
    /\ sel' = [sel EXCEPT !.phase = @ + 1, !.ended = [s \in Both |-> FALSE]]
    /\ UNCHANGED <<job, pc, round, out, stats, result>>

----------------------------------------------------------------------------
(* BlockPairSide. *)

Window == sel.window
Crosses(b) ==
    \/ Window.start # <<>> /\ KeyLess(BlobFirst(b), Window.start[1])
    \/ Window.end # <<>> /\ KeyLeq(Window.end[1], BlobLast(b))

\* clip: the elements before the first past the window's end, less those up to
\* the last before its start.
Past(items) == {i \in DOMAIN items : Window.end # <<>> /\ KeyLeq(Window.end[1], Key(items[i]))}
Early(items) == {i \in DOMAIN items : Window.start # <<>> /\ KeyLess(Key(items[i]), Window.start[1])}
FromStart(items) == SubSeq(items, Max({0} \cup Early(items)) + 1, Len(items))
Clip(items) == FromStart(SubSeq(items, 1, Min({Len(items) + 1} \cup Past(items)) - 1))

\* decode: the block's part of the window; spent if that is nothing.
DecodeFails(b) == b.bad \/ Foreign(b)
Block(b, items, clipped) ==
    [items |-> items, first |-> BlobFirst(b), last |-> BlobLast(b), clipped |-> clipped,
     inside |-> IF clipped /\ items # <<>> THEN <<Key(Last(items))>> ELSE <<>>]
Decode(b) == IF Crosses(b) THEN Block(b, Clip(b.items), TRUE) ELSE Block(b, b.items, FALSE)
Spent(d) == d.clipped /\ d.items = <<>>
StateLast(d) == IF d.inside # <<>> /\ KeyLess(d.inside[1], d.last) THEN d.inside[1] ELSE d.last

Frames(s) == sel.sides[s]
More(s) == sel.next[s] <= Len(Frames(s))
NextBlob(s) == Frames(s)[sel.next[s]]
EntirelyBefore(a, b) == KeyLess(a.last, b.first)

\* next_decoded: past the blocks with nothing in the window.
Found(s) == {i \in sel.next[s] .. Len(Frames(s)) : DecodeFails(Frames(s)[i]) \/ ~Spent(Decode(Frames(s)[i]))}
NextDecodedFails(s) == sel.dec[s] = <<>> /\ \E i \in Found(s) : DecodeFails(Frames(s)[i]) /\ \A j \in Found(s) : i <= j
Filled(s, found) ==
    IF sel.dec[s] # <<>> THEN sel.dec[s] ELSE IF found = {} THEN <<>> ELSE <<Decode(Frames(s)[Min(found)])>>
FilledNext(s, found) ==
    IF sel.dec[s] # <<>> THEN sel.next[s] ELSE IF found = {} THEN Len(Frames(s)) + 1 ELSE Min(found) + 1

\* emit_block: the block's elements, one after the other, then on.
EmitBlock(from, s, d, back) ==
    /\ sel' = [from EXCEPT !.run = [side |-> s, items |-> d.items], !.back = back]
    /\ Goto("run") /\ UNCHANGED <<out, stats>>

----------------------------------------------------------------------------
(* block_pair_merge_phase. *)

\* With no block decoded: report the earlier blob whole, skip an equal pair,
\* decode two that overlap.
BlobsByteEqual(a, b) ==
    a.lo = b.lo /\ a.hi = b.hi /\ a.count = b.count /\ ~Crosses(a) /\ a.enc = b.enc /\ a.items = b.items /\ a.bad = b.bad
Earlier(s) == More(3 - s) => KeyLess(BlobLast(NextBlob(s)), BlobFirst(NextBlob(3 - s)))
LoneBlob(s) ==
    /\ pc = "unit" /\ More(s) /\ Earlier(s)
    /\ IF DecodeFails(NextBlob(s)) THEN Stop
       ELSE EmitBlock([sel EXCEPT !.next[s] = @ + 1], s, Decode(NextBlob(s)), "unit")
    /\ UNCHANGED <<job, round>>

SkipEqualBlobs == job.cmd = "derive" \/ ~job.common
Overlap == pc = "unit" /\ More(1) /\ More(2) /\ ~Earlier(1) /\ ~Earlier(2)
EqualBlobs ==
    /\ Overlap /\ SkipEqualBlobs /\ BlobsByteEqual(NextBlob(1), NextBlob(2))
    /\ sel' = [sel EXCEPT !.next = [s \in Both |-> @[s] + 1]]
    /\ stats' = [stats EXCEPT !.unit.common = @ + NextBlob(1).count]
    /\ UNCHANGED <<job, pc, round, out, result>>
DecodePair ==
    /\ Overlap /\ ~(SkipEqualBlobs /\ BlobsByteEqual(NextBlob(1), NextBlob(2)))
    /\ IF \E s \in Both : DecodeFails(NextBlob(s)) THEN Stop
       ELSE /\ sel' = [sel EXCEPT !.next = [s \in Both |-> @[s] + 1],
                                  !.dec = [s \in Both |-> LET d == Decode(NextBlob(s)) IN IF Spent(d) THEN <<>> ELSE <<d>>]]
            /\ Goto("fill") /\ UNCHANGED <<out, stats>>
    /\ UNCHANGED <<job, round>>

\* With a block in hand: fill the other side, report the earlier block, or
\* merge the two up to where the first of them ends.
MatchDecoded ==
    /\ pc = "fill"
    /\ \E now \in {[sel EXCEPT !.dec = [s \in Both |-> Filled(s, Found(s))], !.next = [s \in Both |-> FilledNext(s, Found(s))]]} :
       LET d(s) == now.dec[s][1]
           keep(s) == [now EXCEPT !.dec[s] = <<>>]
       IN CASE \E s \in Both : NextDecodedFails(s) -> Stop
            [] OTHER ->
                \/ now.dec = <<<<>>, <<>>>> /\ sel' = now /\ Goto("unit") /\ UNCHANGED <<out, stats>>
                \/ \E s \in Both :
                      /\ now.dec[s] # <<>>
                      /\ \/ now.dec[3 - s] = <<>> /\ EmitBlock(keep(s), s, d(s), "unit")
                         \/ now.dec[3 - s] # <<>> /\ EntirelyBefore(d(s), d(3 - s)) /\ EmitBlock(keep(s), s, d(s), "fill")
                \/ /\ now.dec[1] # <<>> /\ now.dec[2] # <<>>
                   /\ ~EntirelyBefore(d(1), d(2)) /\ ~EntirelyBefore(d(2), d(1))
                   /\ sel' = [now EXCEPT !.upTo = IF KeyLeq(StateLast(d(1)), StateLast(d(2))) THEN StateLast(d(1)) ELSE StateLast(d(2))]
                   /\ Goto("pair") /\ UNCHANGED <<out, stats>>
    /\ UNCHANGED <<job, round>>

\* element_merge_pair, an element or a pair at a time.
InRange(d) == d.items # <<>> /\ KeyLeq(Key(Head(d.items)), sel.upTo)
PairHead(s) == Head(sel.dec[s][1].items)
Takes(s) ==
    /\ InRange(sel.dec[s][1])
    /\ InRange(sel.dec[3 - s][1]) => KeyLeq(Key(PairHead(s)), Key(PairHead(3 - s)))
PairAction ==
    IF Takes(1) /\ Takes(2) THEN Paired(PairHead(1), PairHead(2))
    ELSE IF Takes(1) THEN OldOnly(PairHead(1)) ELSE NewOnly(PairHead(2))
ElementMerge ==
    /\ pc = "pair" /\ \E s \in Both : Takes(s)
    /\ IF Unwritable(PairAction) THEN Stop
       ELSE /\ \E full \in BOOLEAN : RecordInto(PairAction, full)
            /\ stats' = Tally(PairAction)
            /\ sel' = [sel EXCEPT !.dec = [s \in Both |-> IF Takes(s) THEN <<[@[s][1] EXCEPT !.items = Tail(@)]>> ELSE @[s]]]
            /\ UNCHANGED <<pc, result>>
    /\ UNCHANGED <<job, round>>

\* merge_decoded_pair's end and check_claimed_max: elements past a block's own
\* claim are refused.
EndPair ==
    /\ pc = "pair" /\ \A s \in Both : ~Takes(s)
    /\ LET left == [s \in Both |-> IF sel.dec[s][1].items = <<>> THEN <<>> ELSE sel.dec[s]] IN
       IF \E s \in Both : left[s] # <<>> /\ KeyLeq(left[s][1].last, sel.upTo) THEN Stop
       ELSE /\ sel' = [sel EXCEPT !.dec = left]
            /\ Goto(IF left = <<<<>>, <<>>>> THEN "unit" ELSE "fill") /\ UNCHANGED <<out, stats>>
    /\ UNCHANGED <<job, round>>

RunAction == LET e == Head(sel.run.items) IN IF sel.run.side = 1 THEN OldOnly(e) ELSE NewOnly(e)
RunElement ==
    /\ pc = "run" /\ sel.run.items # <<>>
    /\ IF Unwritable(RunAction) THEN Stop
       ELSE /\ \E full \in BOOLEAN : RecordInto(RunAction, full)
            /\ stats' = Tally(RunAction)
            /\ sel' = [sel EXCEPT !.run.items = Tail(@)] /\ UNCHANGED <<pc, result>>
    /\ UNCHANGED <<job, round>>
EndRun ==
    /\ pc = "run" /\ sel.run.items = <<>>
    /\ Goto(sel.back) /\ UNCHANGED <<job, round, sel, out, stats>>

MergePhase == \/ \E s \in Both : LoneBlob(s)
              \/ EqualBlobs \/ DecodePair \/ MatchDecoded \/ ElementMerge \/ EndPair \/ RunElement \/ EndRun

-----------------------------------------------------------------------------
(* commands/diff: the text diff and derive, over two files.  Two indexed      *)
(* files are cut into units of work by a planner reading each file once;      *)
(* units are merged by that join on a pool that hands their output on in      *)
(* order (StreamedPool), so that a unit is modelled as merged when planned.   *)
(* job.target, job.capBytes and job.loneMax are the planner's limits, a blob's *)
(* body has one byte; job.chunk is the size at which a buffer leaves.         *)

Opened ==
    /\ Begin /\ out = NoOutput
    /\ sel = [phase |-> 1, at |-> <<0, 0>>, open |-> <<FALSE, FALSE>>, pos |-> <<0, 0>>, last |-> <<NoMark, NoMark>>,
              head |-> <<<<>>, <<>>>>, ended |-> <<FALSE, FALSE>>, sides |-> <<<<>>, <<>>>>, next |-> <<1, 1>>,
              dec |-> <<<<>>, <<>>>>, window |-> [start |-> <<>>, end |-> <<>>], upTo |-> OsmIdKey(0), back |-> "unit",
              run |-> [side |-> 1, items |-> <<>>], maxFirst |-> <<>>, lone |-> 0, bytes |-> 0]
    /\ stats = [unit |-> NoTally] @@ NoTally

BothIndexed == Indexed(job.old.blobs) /\ Indexed(job.new.blobs)

\* diff, diff_stats, compare; derive_changes.
Compare ==
    /\ pc = "enter" /\ job.cmd = "diff"
    /\ IF job.old.sorted /\ job.new.sorted THEN Goto(IF BothIndexed THEN "plan" ELSE "stream") ELSE Fail
    /\ UNCHANGED <<job, round, sel, out, stats>>
DeriveChangesTo ==
    /\ pc = "enter" /\ job.cmd = "derive"
    /\ IF job.old.sorted /\ job.new.sorted THEN Goto(IF BothIndexed THEN "plan" ELSE "stream") ELSE Fail
    /\ UNCHANGED <<job, round, sel, out, stats>>

----------------------------------------------------------------------------
(* BlobCursor: the next header of each input, its index and its order. *)

HasNext(s) == sel.at[s] < Len(Inputs[s])
Peeked(s) == Inputs[s][sel.at[s] + 1]
AdvanceFails(s) ==
    /\ HasNext(s)
    /\ Peeked(s).claim # "none" =>
          ObserveFails(sel.last[s], Ordinal(Peeked(s).claim), BlobOsmPresentFirstKey(Peeked(s).lo, Peeked(s).hi))
Advanced(from, s) ==
    [from EXCEPT !.at[s] = @ + 1,
                 !.last[s] = Observed(@, Ordinal(Peeked(s).claim), BlobOsmPresentFirstKey(Peeked(s).lo, Peeked(s).hi), BlobLast(Peeked(s)))]

\* reaches and finish skip what no asked phase wants.
Wanted(s) == HasNext(s) /\ sel.phase <= 3 /\ Ordinal(Peeked(s).claim) = sel.phase /\ Phase \in job.kinds
Passed(s) == HasNext(s) /\ (sel.phase > 3 \/ Ordinal(Peeked(s).claim) < sel.phase)
Planning == pc = "plan" /\ \A s \in Both : ~AdvanceFails(s)
SkipBlob(s) ==
    /\ Planning /\ Passed(s)
    /\ sel' = Advanced(sel, s)
    /\ UNCHANGED <<job, pc, round, out, stats, result>>
AdvanceRefuses ==
    /\ pc = "plan" /\ \E s \in Both : AdvanceFails(s)
    /\ Stop /\ UNCHANGED <<job, round>>

----------------------------------------------------------------------------
(* plan_kind: frames in the order of their first keys, until a cut. *)

NextSide == IF Wanted(1) /\ (~Wanted(2) \/ KeyLeq(BlobFirst(Peeked(1)), BlobFirst(Peeked(2)))) THEN 1 ELSE 2
NextFirst == BlobFirst(Peeked(NextSide))
AnyWanted == Planning /\ (\A s \in Both : ~Passed(s)) /\ \E s \in Both : Wanted(s)
Due == sel.bytes >= job.target \/ sel.lone >= job.loneMax
Cut == Due /\ sel.maxFirst # <<>> /\ KeyLess(sel.maxFirst[1], NextFirst)

\* A frame far from everything of the other input counts towards a cut.
FarFromOther(s, b) ==
    /\ ~Wanted(3 - s) \/ KeyLess(BlobLast(b), BlobFirst(Peeked(3 - s)))
    /\ \A f \in Range(sel.sides[3 - s]) : KeyLess(BlobLast(f), BlobFirst(b))
TakeFrame ==
    /\ AnyWanted /\ ~Cut
    /\ IF sel.bytes >= job.capBytes THEN Stop
       ELSE /\ LET s == NextSide  b == Peeked(s) IN
               sel' = [Advanced(sel, s) EXCEPT
                          !.sides[s] = Append(@, b), !.bytes = @ + 1, !.lone = IF FarFromOther(s, b) THEN @ + b.count ELSE @,
                          !.maxFirst = IF @ = <<>> THEN <<BlobFirst(b)>> ELSE <<LaterKey(@[1], BlobFirst(b))>>]
            /\ UNCHANGED <<out, stats, pc, result>>
    /\ UNCHANGED <<job, round>>

\* The unit leaves for the pool under its window.
CutUnit ==
    /\ AnyWanted /\ Cut
    /\ sel' = [sel EXCEPT !.window.end = <<NextFirst>>, !.next = <<1, 1>>]
    /\ Goto("unit") /\ UNCHANGED <<job, round, out, stats>>
LastUnit ==
    /\ Planning /\ ~AnyWanted /\ \A s \in Both : ~Passed(s)
    /\ sel.sides # <<<<>>, <<>>>>
    /\ sel' = [sel EXCEPT !.window.end = <<>>, !.next = <<1, 1>>]
    /\ Goto("unit") /\ UNCHANGED <<job, round, out, stats>>
EndKind ==
    /\ Planning /\ ~AnyWanted /\ \A s \in Both : ~Passed(s)
    /\ sel.phase <= 3 /\ sel.sides = <<<<>>, <<>>>>
    /\ sel' = [sel EXCEPT !.phase = @ + 1, !.window = [start |-> <<>>, end |-> <<>>]]
    /\ UNCHANGED <<job, pc, round, out, stats, result>>

\* merge_unit ends; finish_unit.  A frame reaching past the cut is carried
\* into the next unit.
EndUnit ==
    /\ pc = "unit" /\ ~More(1) /\ ~More(2)
    /\ LET end == sel.window.end
           carried == IF end = <<>> THEN <<<<>>, <<>>>>
                      ELSE [s \in Both |-> SelectSeq(sel.sides[s], LAMBDA b : KeyLeq(end[1], BlobLast(b)))]
       IN sel' = [sel EXCEPT !.sides = carried, !.window = [start |-> end, end |-> <<>>], !.maxFirst = <<>>, !.lone = 0,
                             !.bytes = Len(carried[1]) + Len(carried[2])]
    /\ \E full \in SUBSET Sections : out' = FinishUnit(FinishInto(full))
    /\ stats' = [unit |-> NoTally] @@ AddTally(stats, stats.unit)
    /\ Goto("plan") /\ UNCHANGED <<job, round>>

\* The scan is over: the text is complete, the change document is assembled.
EndScan ==
    /\ \/ pc = "stream" /\ sel.phase > 3
       \/ Planning /\ sel.phase > 3 /\ \A s \in Both : ~HasNext(s)
    /\ stats' = [unit |-> NoTally] @@ AddTally(stats, stats.unit)
    /\ Goto("assemble") /\ UNCHANGED <<job, round, sel, out>>
Assemble ==
    /\ pc = "assemble" /\ Done
    /\ out' = IF job.cmd = "diff" THEN out ELSE [out EXCEPT !.doc = AssembleOsc(BothIndexed)]
    /\ UNCHANGED <<job, round, sel, stats>>

Next ==
    \/ Compare \/ DeriveChangesTo \/ AdvanceRefuses \/ TakeFrame \/ CutUnit \/ LastUnit \/ EndKind \/ EndUnit \/ EndScan \/ Assemble
    \/ \E s \in Both : NextPhaseBlock(s) \/ Admit(s) \/ SkipBlob(s)
    \/ StreamMerge \/ EndPhase \/ MergePhase

----------------------------------------------------------------------------
(* Properties. *)

InOrder(items) == \A i \in 1 .. Len(items) - 1 : KeyLess(Key(items[i]), Key(items[i + 1]))
TrueIndexed(b) ==
    b.claim # "none" => b.items # <<>> /\ ~Foreign(b) /\ b.count = Len(b.items)
                        /\ b.lo = Min({e.id : e \in Range(b.items)}) /\ b.hi = Max({e.id : e \in Range(b.items)})
Sound(file) ==
    /\ file.sorted /\ \A b \in Range(file.blobs) : ~b.bad /\ TrueIndexed(b)
    /\ (Indexed(job.old.blobs) /\ Indexed(job.new.blobs)) => \A b \in Range(file.blobs) : b.claim # "none"
    /\ LET all == Elements(file.blobs) IN
       /\ all = Of("node", all) \o Of("way", all) \o Of("relation", all)
       /\ \A k \in AllKinds : InOrder(Of(k, all))
       /\ \A e \in Range(all) : e.content # "broken"
    /\ \A b \in Range(file.blobs) : Cardinality(BlockKinds(b)) <= 1

\* What the two files' elements alone say of a kind, in the order of its IDs.
Find(items, key) == CHOOSE e \in Range(items) : Key(e) = key
Differences(kind) ==
    LET old  == Of(kind, Elements(job.old.blobs))  new == Of(kind, Elements(job.new.blobs))
        oids == {Key(e) : e \in Range(old)}  nids == {Key(e) : e \in Range(new)}
        keys == SetToSortSeq(oids \cup nids, KeyLess)
    IN [i \in DOMAIN keys |-> IF keys[i] \notin nids THEN OldOnly(Find(old, keys[i]))
                              ELSE IF keys[i] \notin oids THEN NewOnly(Find(new, keys[i]))
                              ELSE Paired(Find(old, keys[i]), Find(new, keys[i]))]
AllDifferences ==
    FlattenSeq([i \in 1 .. 3 |-> IF Kinds[i] \in job.kinds THEN Differences(Kinds[i]) ELSE <<>>])
Total(all, what) == Len(SelectSeq(all, LAMBDA a : a.what = what))
Texts(all, section) ==
    FlattenSeq([i \in DOMAIN all |-> IF Section(all[i]) = section THEN Written(all[i]) ELSE <<>>])
Document(all) ==
    LET part(s) == IF Texts(all, s) = <<>> THEN <<>> ELSE <<<<"open", s>>>> \o Texts(all, s) \o <<<<"close", s>>>>
    IN <<<<"open", "osmChange">>>> \o FlattenSeq([i \in DOMAIN SECTIONS |-> part(SECTIONS[i])]) \o <<<<"close", "osmChange">>>>

\* However two sound files are cut into blobs, units and chunks, and whichever
\* chunks spill, diff's lines and counts and derive's document are those of the
\* element-by-element comparison in ID order; a gzip document is members
\* throughout.  A comparison of sound files fails only on the planner's byte
\* limit.
DiffIsTrue ==
    (result # "running" /\ Sound(job.old) /\ Sound(job.new)) =>
        \/ /\ result = "ok"
           /\ \E all \in {AllDifferences} :
                 /\ \A what \in DOMAIN NoTally : stats[what] = Total(all, what)
                 /\ IF job.cmd = "diff" THEN out.frag["text"] = Texts(all, "text")
                    ELSE out.doc = (IF job.gzip THEN Zipped(Document(all)) ELSE Plain(Document(all)))
        \/ result = "failed" /\ sel.bytes >= job.capBytes

-----------------------------------------------------------------------------
(* diff and derive on small files: up to three blobs a side, overlapping in   *)
(* every way, with negative IDs, equal blobs and wrong indexes.               *)

Elem(kind, id, v, c) == [kind |-> kind, id |-> id, version |-> v, content |-> c]
Blob(how, enc, items) ==
    LET ids == {e.id : e \in Range(items)} IN
    [claim |-> IF how = "none" \/ items = <<>> THEN "none" ELSE items[1].kind, bad |-> how = "bad", enc |-> enc,
     lo |-> IF items = <<>> THEN 0 ELSE Min(ids), hi |-> IF items = <<>> THEN 0 ELSE Max(ids) - (IF how = "short" /\ Len(items) > 1 THEN 1 ELSE 0),
     count |-> Len(items), items |-> items]

N(ids, c) == [i \in DOMAIN ids |-> Elem("node", ids[i], 1, c)]
\* One input, blob by blob; the other's blobs overlap these.
Olds == {<<<<-2, -1>>, <<1, 2>>, <<4>>>>, <<<<-1, 1>>, <<2, 3>>>>, <<<<1, 2, 3, 4>>>>, <<<<1>>, <<2>>, <<3, 4>>>>}
News == Olds \cup {<<<<2, 3>>, <<4>>>>, <<<<-3, 1>>, <<3, 4>>>>, <<<<1, 3>>, <<4, 5>>>>}
File(sorted, how, enc, cut, c, ways) ==
    [sorted |-> sorted, blobs |-> [i \in DOMAIN cut |-> Blob(IF i = 1 THEN "true" ELSE how, enc, N(cut[i], IF i = 2 THEN c ELSE "a"))] \o ways]
WayBlobs == {<<>>, <<Blob("true", 1, <<Elem("way", 1, 0, "a")>>)>>, <<Blob("true", 1, <<Elem("way", 1, 3, "b"), Elem("way", 2, 1, "b")>>)>>}

Job(cmd, old, new, kinds, common, target, cap, chunk, gzip) ==
    job = [cmd |-> cmd, old |-> old, new |-> new, kinds |-> kinds, common |-> common, verbose |-> common, target |-> target,
           capBytes |-> cap, loneMax |-> 9, chunk |-> chunk, gzip |-> gzip, inc |-> gzip, ts |-> 0, maxVersion |-> 2]
Worlds ==
    \/ \E cmd \in {"diff", "derive"}, o \in Olds, n \in News, c \in {"a", "b"}, enc \in 1 .. 2, w1, w2 \in WayBlobs,
         target \in 1 .. 2, chunk \in {1, 2, 9}, b \in BOOLEAN :
           /\ w1 # <<>> => (target = 1 /\ o = <<<<1, 2, 3, 4>>>>)
           /\ chunk = 9 => c = "a"
           /\ cmd = "diff" => chunk # 1
           /\ target = 2 => chunk # 9
           /\ Job(cmd, File(TRUE, "true", 1, o, "a", w1), File(TRUE, "true", enc, n, c, w2), AllKinds, b, target, 9, chunk, b)
    \* Without an index, in part or wholly; undecodable, unsorted, out of order.
    \/ \E cmd \in {"diff", "derive"}, o \in Olds \cup {<<<<2>>, <<1>>>>}, n \in News, how \in {"none", "true", "short", "bad"}, s, t \in BOOLEAN, w \in WayBlobs,
         c \in {"a", "broken"} :
           LET old == File(TRUE, how, 1, o, "a", w)
               plain(f) == [f EXCEPT !.blobs = [i \in DOMAIN @ |-> [@[i] EXCEPT !.claim = IF s THEN "none" ELSE @]]] IN
           Job(cmd, plain(old), plain(File(t, how, 2, n, c, w)), IF cmd = "diff" /\ s THEN {"way"} ELSE AllKinds, c = "broken", 1, 9, 9, FALSE)
    \* Mixed and misplaced blobs; a planner at its byte limit.
    \/ \E s \in BOOLEAN, cap \in {1, 2}, items \in {<<Elem("way", 1, 1, "a"), Elem("node", 9, 1, "a")>>, <<Elem("node", 9, 1, "a")>>, <<>>}, first \in BOOLEAN :
           LET w == <<Blob("true", 1, <<Elem("way", 1, 1, "a")>>)>>
               x == [Blob("true", 1, items) EXCEPT !.claim = IF s THEN "none" ELSE @] IN
           Job("diff", File(TRUE, "true", 1, <<<<1>>>>, "a", IF first THEN <<x>> \o w ELSE w \o <<x>>),
               File(TRUE, IF s THEN "none" ELSE "true", 1, <<<<1>>, <<1, 2>>>>, "a", w), AllKinds, FALSE, 1, cap, 9, FALSE)

-----------------------------------------------------------------------------
(* commands/diff: how verbose diff tells two sequences (refs, members, tags)  *)
(* apart.  seq.rs is Myers' algorithm, a layer of the search per step, under  *)
(* a bound on work and edits; positions count from 1 here.  A tag is a pair.  *)

SeqOpened ==
    /\ Begin /\ out = <<>> /\ stats = <<>>
    /\ sel = [prefix |-> 0, a |-> <<>>, b |-> <<>>, d |-> 0, work |-> 0, v |-> <<>>, trace |-> <<>>,
              x |-> 0, y |-> 0, removed |-> <<>>, inserted |-> <<>>]

Exact(removed, inserted) == [what |-> "exact", removed |-> removed, inserted |-> inserted, old |-> <<>>, new |-> <<>>]
Replaced ==
    [what |-> "replaced", removed |-> <<>>, inserted |-> <<>>,
     old |-> <<sel.prefix + 1, sel.prefix + Len(sel.a)>>, new |-> <<sel.prefix + 1, sel.prefix + Len(sel.b)>>]
Answer(edit) == out' = edit /\ Done

\* seq_diff_bounded: what the ends have in common is cut off first.
CommonPrefix(s, t) == Max({n \in 0 .. Min({Len(s), Len(t)}) : SubSeq(s, 1, n) = SubSeq(t, 1, n)})
CommonSuffix(s, t) == CommonPrefix(Reverse(s), Reverse(t))
Trimmed(s, prefix, suffix) == SubSeq(s, prefix + 1, Len(s) - suffix)
SeqDiffBounded ==
    /\ pc = "enter" /\ job.cmd = "seqdiff"
    /\ LET prefix == CommonPrefix(job.old, job.new)
           suffix == CommonSuffix(SubSeq(job.old, prefix + 1, Len(job.old)), SubSeq(job.new, prefix + 1, Len(job.new)))
           a == Trimmed(job.old, prefix, suffix)  b == Trimmed(job.new, prefix, suffix)
       IN sel' = [sel EXCEPT !.prefix = prefix, !.a = a, !.b = b,
                             !.v = [k \in -(Len(a) + Len(b)) - 1 .. Len(a) + Len(b) + 1 |-> 0]]
    /\ Goto("search") /\ UNCHANGED <<job, round, out, stats>>

\* One side is empty: everything left is removed or inserted.
OneSided ==
    /\ pc = "search" /\ (sel.a = <<>> \/ sel.b = <<>>)
    /\ Answer(IF Len(sel.a) + Len(sel.b) > job.maxEdits THEN Replaced
              ELSE Exact([i \in DOMAIN sel.a |-> sel.prefix + i], [i \in DOMAIN sel.b |-> sel.prefix + i]))
    /\ UNCHANGED <<job, round, sel, stats>>

\* myers: the furthest x on a diagonal after d edits, down to it or right to it.
Down(v, d, k) == k = -d \/ (k # d /\ v[k - 1] < v[k + 1])
Start(d, k) == IF Down(sel.v, d, k) THEN sel.v[k + 1] ELSE sel.v[k - 1] + 1
Snake(x, y) == CommonPrefix(SubSeq(sel.a, x + 1, Len(sel.a)), SubSeq(sel.b, y + 1, Len(sel.b)))
Slide(d, k) == Snake(Start(d, k), Start(d, k) - k)
Diagonals(d) == {k \in -d .. d : (k + d) % 2 = 0}
Reaches(x, k) == x >= Len(sel.a) /\ x - k >= Len(sel.b)

Layer ==
    /\ pc = "search" /\ sel.a # <<>> /\ sel.b # <<>>
    /\ LET d    == sel.d
           far(k) == Start(d, k) + Slide(d, k)
           ends == {k \in Diagonals(d) : Reaches(far(k), k)}
           seen == IF ends = {} THEN Diagonals(d) ELSE {k \in Diagonals(d) : k <= Min(ends)}
           work == sel.work + 2 * d + 1 + MapThenSumSet(LAMBDA k : Slide(d, k), seen)
           v    == [k \in DOMAIN sel.v |-> IF k \in seen THEN far(k) ELSE sel.v[k]]
       IN IF d > job.maxEdits \/ work > job.maxWork THEN Answer(Replaced) /\ UNCHANGED sel
          ELSE /\ sel' = [sel EXCEPT !.v = v, !.work = work, !.trace = Append(@, v), !.x = Len(sel.a), !.y = Len(sel.b),
                                     !.d = IF ends = {} THEN @ + 1 ELSE @]
               /\ Goto(IF ends = {} THEN "search" ELSE "back") /\ UNCHANGED out
    /\ UNCHANGED <<job, round, stats>>

\* Back along the layers, an edit each.
Backtrack ==
    /\ pc = "back" /\ sel.d > 0
    /\ LET prev == sel.trace[sel.d]
           k    == sel.x - sel.y
           down == Down(prev, sel.d, k)
           pk   == IF down THEN k + 1 ELSE k - 1
           px   == prev[pk]  py == prev[pk] - pk
       IN sel' = [sel EXCEPT !.inserted = IF down THEN <<sel.prefix + py + 1>> \o @ ELSE @,
                             !.removed = IF down THEN @ ELSE <<sel.prefix + px + 1>> \o @,
                             !.x = px, !.y = py, !.d = @ - 1]
    /\ UNCHANGED <<job, pc, round, out, stats, result>>
Script ==
    /\ pc = "back" /\ sel.d = 0
    /\ Answer(Exact(sel.removed, sel.inserted))
    /\ UNCHANGED <<job, round, sel, stats>>

----------------------------------------------------------------------------
(* write_tag_diff_iter. *)

Keys(tags) == {t[1] : t \in Range(tags)}
Repeats(tags) == Cardinality(Keys(tags)) # Len(tags)
ValueOf(tags, key) == (CHOOSE t \in Range(tags) : t[1] = key)[2]
Having(tags, keys) == SelectSeq(tags, LAMBDA t : t[1] \in keys)
Without(tags, keys) == SelectSeq(tags, LAMBDA t : t[1] \notin keys)
Mark(sign, tags) == [i \in DOMAIN tags |-> <<sign, tags[i]>>]
KeysInOrder(tags) == [i \in DOMAIN tags |-> tags[i][1]]

WriteTagDiff ==
    /\ pc = "enter" /\ job.cmd = "tagdiff"
    /\ LET old == job.old  new == job.new
           changed == SelectSeq(new, LAMBDA t : t[1] \in Keys(old) /\ ValueOf(old, t[1]) # t[2])
           moved == KeysInOrder(Having(old, Keys(new))) # KeysInOrder(Having(new, Keys(old)))
       IN IF Repeats(old) \/ Repeats(new) THEN job' = [job EXCEPT !.cmd = "seqdiff"] /\ UNCHANGED <<pc, out, result>>
          ELSE /\ Answer(Mark("-", Without(old, Keys(new))) \o Mark("+", Without(new, Keys(old))) \o Mark("~", changed)
                         \o (IF moved THEN <<<<"moved">>>> ELSE <<>>))
               /\ UNCHANGED job
    /\ UNCHANGED <<round, sel, stats>>

SeqNext == SeqDiffBounded \/ OneSided \/ Layer \/ Backtrack \/ Script \/ WriteTagDiff

----------------------------------------------------------------------------
(* Properties. *)

Drop(s, positions) == [i \in 1 .. Len(s) - Cardinality(positions) |->
                          s[SetToSortSeq(DOMAIN s \ positions, LAMBDA x, y : x < y)[i]]]
\* The fewest edits between two sequences.
Distance(s, t) ==
    LET common == {pq \in (SUBSET (DOMAIN s)) \X (SUBSET (DOMAIN t)) : Drop(s, pq[1]) = Drop(t, pq[2])}
    IN Min({Cardinality(pq[1]) + Cardinality(pq[2]) : pq \in common})
Increasing(s) == \A i \in 1 .. Len(s) - 1 : s[i] < s[i + 1]

\* The tags the report says the new element has.
After(old, report) ==
    LET of(sign) == {report[i][2] : i \in {j \in DOMAIN report : report[j][1] = sign}}
    IN {t \in Range(old) : t \notin of("-") /\ t[1] \notin {u[1] : u \in of("~")}} \cup of("+") \cup of("~")

\* An exact report of a sequence names positions that really lead from the old
\* to the new one, in order and no more of them than needed; any other says
\* where the sequences stop being equal, and is given only past the bounds on
\* edits or work.  A tag report gives back the new tags from the old ones, and
\* is empty only for equal lists.
DetailsAreTrue ==
    result = "ok" =>
        IF job.cmd = "tagdiff"
        THEN After(job.old, out) = Range(job.new) /\ (out = <<>> <=> job.old = job.new)
        ELSE IF out.what = "exact"
        THEN /\ Increasing(out.removed) /\ Increasing(out.inserted)
             /\ Drop(job.old, Range(out.removed)) = Drop(job.new, Range(out.inserted))
             /\ Len(out.removed) + Len(out.inserted) = Distance(job.old, job.new)
        ELSE /\ Drop(job.old, out.old[1] .. out.old[2]) = Drop(job.new, out.new[1] .. out.new[2])
             /\ Distance(job.old, job.new) > job.maxEdits \/ job.maxWork < (Len(job.old) + Len(job.new) + 2) ^ 2
=============================================================================
