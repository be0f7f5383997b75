------------------------------ MODULE Contents ------------------------------
(* Two commands that put the whole content of a file in another form: export  *)
(* (GeoJSON features) and digest (hashes of the elements), each with the      *)
(* small files it is checked on.                                              *)
EXTENDS CommandState, TLC

-----------------------------------------------------------------------------
(* commands/export: the tagged nodes and the ways of a file with locations as *)
(* GeoJSON features, in the file's order, to a sink that may fail.            *)
(*                                                                            *)
(* An element has a kind, an ID, tags (pairs of a key and a value), node refs,*)
(* coords (its position, or its ways' locations) and metadata, a sequence of  *)
(* named claims.  The file's items come in blobs, as the reader gives them.   *)

Opened == Begin /\ out = <<>> /\ sel = <<>> /\ stats = [nodes |-> 0, ways |-> 0, bareNodes |-> 0, bareWays |-> 0, invalid |-> 0]

\* admits_nodes, admits_ways
AdmitsNodes == job.types \in {"all", "nodes"}
AdmitsWays == job.types \in {"all", "ways"}

\* matches_expressions: no expression selects everything.
MatchesExpressions(e) ==
    job.exprs = {} \/ \E x \in job.exprs : e.kind \in x.kinds /\ \E t \in Range(e.tags) : x.key \in {"*", t[1]}

InBox(p) == p[1] \in job.bbox /\ p[2] \in job.bbox
\* way_hits_bbox: one of its locations lies within.
WayHitsBbox(coords) == \E p \in Range(coords) : InBox(p)

----------------------------------------------------------------------------
(* Geometry. *)

AreaKeys == {"building"}
\* is_area_tags: area=no wins over everything.
IsAreaTags(tags) ==
    /\ <<"area", "no">> \notin Range(tags)
    /\ <<"area", "yes">> \in Range(tags) \/ \E t \in Range(tags) : t[1] \in AreaKeys
\* is_area_way
IsAreaWay(e) == Len(e.refs) >= 4 /\ e.refs[1] = e.refs[Len(e.refs)] /\ IsAreaTags(e.tags)

\* signed_area, twice; the ring closes itself when its last position differs.
Cross(p, q) == p[1] * q[2] - q[1] * p[2]
SignedArea(c, closed) ==
    FoldLeft(LAMBDA sum, i : sum + Cross(c[i], c[i + 1]), 0, [i \in 1 .. Len(c) - 1 |-> i])
    + IF closed THEN 0 ELSE Cross(c[Len(c)], c[1])

\* has_three_distinct_positions
ThreeDistinct(c) == Cardinality(Range(c)) >= 3

\* write_way_geometry; {} is WayGeom::Invalid.
WriteWayGeometry(c, area) ==
    LET closed == c = <<>> \/ c[1] = c[Len(c)]
        turned == area /\ c # <<>> /\ SignedArea(c, closed) < 0
        walked == IF turned /\ ~closed THEN <<c[1]>> \o Reverse(Tail(c)) ELSE IF turned THEN Reverse(c) ELSE c
    IN IF ~area /\ Len(c) < 2 THEN {}
       ELSE IF area /\ (Len(c) + (IF closed THEN 0 ELSE 1) < 4 \/ ~ThreeDistinct(c)) THEN {}
       ELSE {[shape |-> IF area THEN "Polygon" ELSE "LineString", at |-> IF area /\ ~closed THEN Append(walked, c[1]) ELSE walked]}

----------------------------------------------------------------------------
(* Properties of a feature, and the document. *)

MetaNames == {"@version", "@user"}
\* write_properties: a tag under a name already taken is dropped.
WriteProperties(e) ==
    LET reserved == {"@id", "@type"} \cup IF job.metadata THEN MetaNames ELSE {}
        claims   == IF job.metadata THEN e.meta ELSE <<>>
        emit(acc, t) ==
            IF t[1] \in reserved \/ (\E q \in Range(acc) : q[1] = t[1]) \/ (job.properties # {} /\ t[1] \notin job.properties)
            THEN acc ELSE Append(acc, t)
    IN <<<<"@id", e.id>>, <<"@type", e.kind>>>> \o claims \o FoldLeft(emit, <<>>, e.tags)

\* The document is a sequence of pieces.
Mark(m) == [mark |-> m, feature |-> <<>>]
\* FeatureWriter::write_feature_geometry_props
WriteFeature(doc, f) ==
    LET piece == [mark |-> "feature", feature |-> <<f>>] IN
    IF job.format = "seq" THEN doc \o <<piece, Mark("newline")>> ELSE IF sel.any THEN doc \o <<Mark(","), piece>> ELSE Append(doc, piece)

\* The sink takes job.room pieces before it fails.
Fits(doc) == Len(doc) <= job.room

\* export up to the first element; FeatureWriter::new opens the collection.
Start ==
    /\ pc = "enter"
    /\ LET head == IF job.format = "collection" THEN <<Mark("[")>> ELSE <<>> IN
       IF AdmitsWays /\ ~job.locations THEN Fail /\ UNCHANGED <<out, sel>>
       ELSE IF ~Fits(head) THEN Fail /\ UNCHANGED <<out, sel>>
       ELSE Goto("elements") /\ out' = head /\ sel' = [any |-> FALSE, err |-> FALSE, at |-> 1]
    /\ round' = 1 /\ UNCHANGED <<job, stats>>

Skip(field) == stats' = [stats EXCEPT ![field] = @ + 1] /\ sel' = [sel EXCEPT !.at = @ + 1] /\ UNCHANGED out
Pass == sel' = [sel EXCEPT !.at = @ + 1] /\ UNCHANGED <<out, stats>>
\* The feature is counted once it is written; a failure is kept for the end.
Emit(e, geometry, field) ==
    LET doc == WriteFeature(out, [geometry |-> geometry, props |-> WriteProperties(e)]) IN
    IF Fits(doc) THEN out' = doc /\ stats' = [stats EXCEPT ![field] = @ + 1] /\ sel' = [sel EXCEPT !.at = @ + 1, !.any = TRUE]
    ELSE sel' = [sel EXCEPT !.err = TRUE, !.at = @ + 1] /\ UNCHANGED <<out, stats>>

ExportNode(e) ==
    IF e.tags = <<>> THEN Skip("bareNodes")
    ELSE IF (job.bbox # {} /\ ~InBox(e.coords[1])) \/ ~MatchesExpressions(e) THEN Pass
    ELSE Emit(e, [shape |-> "Point", at |-> e.coords], "nodes")
ExportWay(e) ==
    IF e.tags = <<>> THEN Skip("bareWays")
    ELSE IF ~MatchesExpressions(e) THEN Pass
    ELSE IF job.bbox # {} /\ ~WayHitsBbox(e.coords) THEN Pass
    ELSE IF WriteWayGeometry(e.coords, IsAreaWay(e)) = {} THEN Skip("invalid")
    ELSE \E g \in WriteWayGeometry(e.coords, IsAreaWay(e)) : Emit(e, g, "ways")

\* for_each: the elements of the blobs in order, up to one that does not decode.
EachElement ==
    /\ pc = "elements" /\ round <= Len(job.file) /\ ~job.file[round].bad
    /\ IF sel.at > Len(job.file[round].items) THEN round' = round + 1 /\ sel' = [sel EXCEPT !.at = 1] /\ UNCHANGED <<out, stats>>
       ELSE LET e == job.file[round].items[sel.at] IN
            /\ UNCHANGED round
            /\ IF sel.err THEN Pass
               ELSE IF e.kind = "node" /\ AdmitsNodes THEN ExportNode(e)
               ELSE IF e.kind = "way" /\ AdmitsWays THEN ExportWay(e)
               ELSE Pass
    /\ UNCHANGED <<job, pc, result>>

\* The sink's error first, then the decoder's, then the document's end.
Finish ==
    /\ pc = "elements" /\ (round <= Len(job.file) => job.file[round].bad)
    /\ LET doc == IF job.format = "collection" THEN Append(out, Mark("]}")) ELSE out IN
       IF sel.err \/ round <= Len(job.file) \/ ~Fits(doc) THEN Fail /\ UNCHANGED out
       ELSE out' = doc /\ Done
    /\ UNCHANGED <<job, round, sel, stats>>

Next == Start \/ EachElement \/ Finish

----------------------------------------------------------------------------
(* Properties. *)

Features ==
    LET pieces == SelectSeq(out, LAMBDA x : x.mark = "feature") IN [i \in DOMAIN pieces |-> pieces[i].feature[1]]
\* Who is exported, from the request.
Wanted(e) ==
    /\ e.tags # <<>> /\ e.kind \in {"node", "way"} /\ (e.kind = "node" => AdmitsNodes) /\ (e.kind = "way" => AdmitsWays)
    /\ job.exprs # {} => \E x \in job.exprs, t \in Range(e.tags) : e.kind \in x.kinds /\ (x.key = "*" \/ x.key = t[1])
    /\ job.bbox # {} => \E p \in Range(e.coords) : InBox(p)
    /\ e.kind = "way" => IF IsAreaWay(e) THEN Cardinality(Range(e.coords)) >= 3 /\ (Len(e.coords) >= 4 \/ e.coords[1] # e.coords[Len(e.coords)])
                         ELSE Len(e.coords) >= 2
\* A ring is closed, does not turn clockwise, and has the way's positions in
\* their cyclic order, one way round or the other.
RingIsTrue(ring, c) ==
    LET open == IF c[1] = c[Len(c)] THEN SubSeq(c, 1, Len(c) - 1) ELSE c
        n    == Len(open)
    IN /\ ring[1] = ring[Len(ring)] /\ Len(ring) = n + 1 /\ n >= 3
       /\ SignedArea(ring, TRUE) >= 0
       /\ \E k \in 0 .. n - 1, d \in {1, -1} : \A i \in 1 .. n : ring[i] = open[1 + ((k + d * (i - 1) + n * n) % n)]
FeatureIsTrue(f, e) ==
    /\ f.props[1] = <<"@id", e.id>> /\ f.props[2] = <<"@type", e.kind>>
    /\ \A i, j \in DOMAIN f.props : i # j => f.props[i][1] # f.props[j][1]
    /\ \A i \in 3 .. Len(f.props) : f.props[i] \in Range(e.tags) \cup (IF job.metadata THEN Range(e.meta) ELSE {})
    /\ job.metadata => \A m \in Range(e.meta) : m \in Range(f.props)
    /\ \A t \in Range(e.tags) : (t[1] \notin {"@id", "@type"} \cup MetaNames /\ (job.properties = {} \/ t[1] \in job.properties))
                                   => \E q \in Range(f.props) : q[1] = t[1]
    /\ IF e.kind = "way" /\ IsAreaWay(e) THEN f.geometry.shape = "Polygon" /\ RingIsTrue(f.geometry.at, e.coords)
       ELSE f.geometry.at = e.coords

\* export writes one feature for each element the request wants, in order, each
\* with distinct names and, of an area, a closed ring that does not turn
\* clockwise; the counts add up; a document that is not whole is reported, and
\* nothing is written after the first failure of the sink.
ExportIsTrue ==
    LET all    == Elements(job.file)
        wanted == SelectSeq(all, Wanted)
        counted(kind) == Len(SelectSeq(all, LAMBDA e : e.kind = kind))
    IN
    /\ (result = "running" /\ pc = "elements") \/ result = "ok" =>
          /\ Len(Features) <= Len(wanted) /\ \A i \in DOMAIN Features : FeatureIsTrue(Features[i], wanted[i])
          /\ Len(Features) = stats.nodes + stats.ways
    /\ result = "ok" =>
          /\ Len(Features) = Len(wanted) /\ ~\E b \in Range(job.file) : b.bad
          /\ job.format = "collection" => /\ Len(out) = 2 + Len(wanted) + (IF wanted = <<>> THEN 0 ELSE Len(wanted) - 1)
                                          /\ \A i \in DOMAIN out : out[i].mark = "," <=> (i > 1 /\ i < Len(out) /\ i % 2 = 1)
          /\ stats.bareNodes = IF AdmitsNodes THEN Len(SelectSeq(all, LAMBDA e : e.kind = "node" /\ e.tags = <<>>)) ELSE 0
          /\ (job.exprs = {} /\ job.bbox = {}) =>
                /\ AdmitsNodes => stats.nodes + stats.bareNodes = counted("node")
                /\ AdmitsWays => stats.ways + stats.bareWays + stats.invalid = counted("way")
    /\ result = "failed" =>
          \/ (AdmitsWays /\ ~job.locations) \/ (\E b \in Range(job.file) : b.bad)
          \/ job.room < 2 + 2 * Len(wanted)

-----------------------------------------------------------------------------
(* Exports of two nodes, a relation and one way of each small shape.          *)

Blob(bad, items) == [claim |-> "none", bad |-> bad, items |-> items]
Node(id, tags, at, meta) == [kind |-> "node", id |-> id, tags |-> tags, refs |-> <<>>, coords |-> <<at>>, meta |-> meta]
Way(id, tags, refs, coords) == [kind |-> "way", id |-> id, tags |-> tags, refs |-> refs, coords |-> coords, meta |-> <<<<"@user", "u">>>>]
Relation == [kind |-> "relation", id |-> 1, tags |-> <<<<"building", "b">>>>, refs |-> <<>>, coords |-> <<>>, meta |-> <<>>]

O == <<0, 0>>
A == <<1, 0>>
B == <<1, 1>>
Shapes == {<<>>, <<O>>, <<O, A>>, <<O, O>>, <<O, A, B>>, <<O, B, A>>, <<O, A, B, O>>, <<O, B, A, O>>, <<O, A, O, O>>, <<A, O, B, O>>, <<O, A, O, B>>, <<O, B, <<0, 1>>, A>>}
TagSets == {<<>>, <<<<"building", "y">>>>, <<<<"area", "yes">>, <<"@id", "x">>, <<"building", "z">>, <<"building", "y">>>>, <<<<"area", "no">>, <<"building", "y">>, <<"@user", "t">>>>}
Ring == <<1, 2, 3, 1>>
\* The commonest request.
Asked == [cmd |-> "export", locations |-> TRUE, types |-> "all", exprs |-> {}, properties |-> {}, bbox |-> {}, metadata |-> FALSE,
          format |-> "seq", room |-> 99, file |-> <<>>]
FileOf(bad, tags, refs, coords) ==
    <<Blob(FALSE, <<Node(1, tags, O, <<<<"@version", 1>>>>), Node(2, <<>>, O, <<>>)>>), Blob(FALSE, <<Node(3, <<<<"@version", "v">>>>, B, <<>>)>>),
      Blob(bad, <<Way(1, tags, refs, coords), Way(2, <<>>, <<>>, <<>>), Relation>>)>>
Worlds ==
    \/ \E coords \in Shapes, tags \in TagSets, refs \in {Ring, <<1, 2, 3>>, <<1, 2, 3, 4>>}, bbox \in {{}, {0}, {1}}, metadata \in BOOLEAN :
          job = [Asked EXCEPT !.file = FileOf(FALSE, tags, refs, coords), !.bbox = bbox, !.metadata = metadata]
    \/ \E tags \in TagSets, types \in {"all", "nodes", "ways"}, locations \in BOOLEAN, bad \in BOOLEAN, format \in {"seq", "collection"}, room \in {0, 1, 2, 4, 99},
          exprs \in {{}, {[kinds |-> {"node"}, key |-> "*"]}, {[kinds |-> {"node", "way"}, key |-> "building"]}}, properties \in {{}, {"building", "@user"}} :
          job = [Asked EXCEPT !.file = FileOf(bad, tags, Ring, <<O, A, B, O>>), !.types = types, !.locations = locations, !.format = format,
                              !.room = room, !.exprs = exprs, !.properties = properties]

-----------------------------------------------------------------------------
(* commands/digest.rs and content.rs: a digest of a sorted file's elements in *)
(* records, of their content alone or in full.  Two files are digested and    *)
(* their digests compared.  A digest is the bytes it hashes.                  *)
(*                                                                            *)
(* A string is a sequence of bytes, an integer one byte; an optional value is *)
(* a sequence of none or one.  A byte of a bitmap has ByteBits bits.          *)

ByteBits == 2
Bytes(n) == (n + ByteBits - 1) \div ByteBits

\* The marks of content.rs.
KindByte(kind) == CASE kind = "node" -> 1 [] kind = "way" -> 2 [] kind = "relation" -> 3 [] OTHER -> 4
TokenCoord == 16
TokenTag == 17
TokenRef == 18
TokenMember == 19
TokenNanoCoord == 20
TokenLocation == 21
TokenPins == 22
TokenWayMember == 23
TokenMeta == 24
RecordEnd == 31

DigestOpened == Begin /\ out = <<>> /\ stats = <<>> /\ sel = [file |-> 1, last |-> <<>>, all |-> <<>>, count |-> [k \in AllKinds |-> 0], records |-> [k \in AllKinds |-> <<>>]]

----------------------------------------------------------------------------
(* Records. *)

\* write_str, write_opt, write_tag, write_member
WriteStr(s) == <<Len(s)>> \o s
WriteOpt(v) == IF v = <<>> THEN <<0>> ELSE <<1, v[1]>>
WriteOptStr(v) == IF v = <<>> THEN <<0>> ELSE <<1>> \o WriteStr(v[1])
WriteTag(t) == <<TokenTag>> \o WriteStr(t[1]) \o WriteStr(t[2])
WriteMember(m) == <<TokenMember, m.type>> \o (IF m.type = 3 THEN <<m.raw>> ELSE <<>>) \o <<m.id>> \o WriteStr(m.role)

Each(op(_), items) == FlattenSeq([i \in DOMAIN items |-> op(items[i])])
Ref(r) == <<TokenRef, r>>

\* Coordinates are in nanodegrees; the quotient is rounded toward zero.
Hundred == 2
Decimicro(at) == IF at < 0 THEN -((-at) \div Hundred) ELSE at \div Hundred

\* The element's tokens: coordinate, tags, refs, members.
ElementTokens(e, coord) == (IF e.kind = "node" THEN coord ELSE <<>>) \o Each(WriteTag, e.tags) \o Each(Ref, e.refs) \o Each(WriteMember, e.members)
WriteRecord(e) == <<KindByte(e.kind), e.id>> \o ElementTokens(e, <<TokenCoord, Decimicro(e.at)>>) \o <<RecordEnd>>

\* The optional features a digest asks a header for.
SortedFeature == <<4>>
PinsFeature == <<5>>
MembersFeature == <<6>>
HasSharedNodePins(h) == PinsFeature \in Range(h.optional)
HasWayMembers(h) == MembersFeature \in Range(h.optional)

\* write_pins: one bit for each ref, rounded up; the positions of the set bits.
PinsFit(e) == e.pins = <<>> \/ (Len(e.pins[1]) = ByteBits * Bytes(Len(e.refs)) /\ \A i \in DOMAIN e.pins[1] : e.pins[1][i] = 1 => i <= Len(e.refs))
WritePins(e) ==
    LET bits == IF e.pins = <<>> THEN <<>> ELSE e.pins[1]
        set  == SetToSortSeq({i \in DOMAIN bits : bits[i] = 1}, <)
    IN <<TokenPins, Len(set)>> \o set

\* write_meta
WriteMeta(m) == <<TokenMeta>> \o IF m = <<>> THEN <<0, 0>> ELSE WriteOpt(m[1].version) \o WriteOptStr(m[1].user)

\* write_full_record; member is the way's bit, if declared.
Location(p) == <<TokenLocation, p>>
WriteFullRecord(e, header, member) ==
    <<KindByte(e.kind), e.id>> \o ElementTokens(e, <<TokenNanoCoord, e.at>>)
    \o (IF e.kind = "way" THEN Each(Location, e.locs) \o (IF HasSharedNodePins(header) THEN WritePins(e) ELSE <<>>) ELSE <<>>)
    \o (IF member = <<>> THEN <<>> ELSE <<TokenWayMember, member[1]>>)
    \o WriteMeta(e.meta) \o <<RecordEnd>>

\* write_feature_set, write_header_record
WriteFeatureSet(features) ==
    LET sorted == SetToSortSeq(features, LAMBDA a, b : a[1] < b[1]) IN <<Len(sorted)>> \o Each(WriteStr, sorted)
WriteHeaderRecord(h) ==
    <<KindByte("header")>> \o WriteOpt(h.bbox) \o WriteFeatureSet(Range(h.required)) \o WriteFeatureSet(Range(h.optional))
    \o WriteOptStr(h.program) \o WriteOptStr(h.source) \o WriteOpt(h.time) \o <<RecordEnd>>

----------------------------------------------------------------------------
(* A blob's summary. *)

Header == job.files[sel.file].header
Full == job.form = "full"
Declared == Full /\ HasWayMembers(Header)

\* block_kind: {} is a block of several kinds.
BlockKind(f) ==
    LET kinds == {e.kind : e \in Range(f.items)} IN IF kinds = {} THEN {"empty"} ELSE IF Cardinality(kinds) = 1 THEN kinds ELSE {}

\* Blob::way_members_checked: a bitmap of as many bytes as its count needs.
WayMembersChecked(f) == f.payload = <<>> \/ Len(f.payload[1].bits) = ByteBits * Bytes(f.payload[1].count)
\* way_member_bit and check_way_member_tail
CheckWayMemberTail(f) ==
    LET p == f.payload[1] IN p.count = Len(f.items) /\ \A i \in DOMAIN p.bits : p.bits[i] = 1 => i <= p.count
MembersFit(f) ==
    (Declared /\ BlockKind(f) = {"way"}) => WayMembersChecked(f) /\ f.payload # <<>> /\ CheckWayMemberTail(f)
WayMemberBit(f, i) == IF Declared /\ f.items[i].kind = "way" THEN <<IF i \in DOMAIN f.payload[1].bits THEN f.payload[1].bits[i] ELSE 0>> ELSE <<>>

\* check_user
CheckUser(e) == e.meta = <<>> \/ ~e.meta[1].badUser

\* summarize_block: {} refuses the block.
SummarizeBlock(f) ==
    LET items == f.items
        record(i) == IF Full THEN WriteFullRecord(items[i], Header, WayMemberBit(f, i)) ELSE WriteRecord(items[i])
        fits == /\ ~f.bad /\ BlockKind(f) # {} /\ MembersFit(f)
                /\ \A i \in DOMAIN items : CheckUser(items[i]) /\ (Full /\ items[i].kind = "way" /\ HasSharedNodePins(Header) => PinsFit(items[i]))
                /\ \A i \in 1 .. Len(items) - 1 : KeyLess(OsmIdKey(items[i].id), OsmIdKey(items[i + 1].id))
    IN IF ~fits THEN {}
       ELSE {[kind |-> CHOOSE k \in BlockKind(f) : TRUE, items |-> items, records |-> FlattenSeq([i \in DOMAIN items |-> record(i)])]}

\* DigestState::check_index
CheckIndex(f) ==
    LET ids == {e.id : e \in Range(f.items)} IN
    f.claim = "none" \/ (f.items # <<>> /\ f.claim \in BlockKind(f) /\ f.lo = Min(ids) /\ f.hi = Max(ids) /\ f.count = Len(f.items))

\* DigestState::absorb_checked
InOrder(items) ==
    sel.last = <<>> \/ LET rank == KindByte(items[1].kind) IN
                       /\ sel.last[1] <= rank
                       /\ sel.last[1] = rank => KeyLess(OsmIdKey(sel.last[2]), OsmIdKey(items[1].id))
Absorb(c) ==
    IF c.items = <<>> THEN UNCHANGED sel
    ELSE sel' = [sel EXCEPT !.last = <<KindByte(c.kind), c.items[Len(c.items)].id>>, !.all = IF Full THEN @ ELSE @ \o c.records,
                            !.count[c.kind] = @ + Len(c.items), !.records[c.kind] = @ \o c.records]

DigestInner ==
    /\ pc = "enter"
    /\ IF SortedFeature \in Range(Header.optional) THEN Goto("blobs") ELSE Fail
    /\ round' = 1 /\ UNCHANGED <<job, sel, out, stats>>
DigestBlob ==
    /\ pc = "blobs" /\ round <= Len(job.files[sel.file].frames)
    /\ LET f == job.files[sel.file].frames[round] IN
       IF f.type # "data" \/ SummarizeBlock(f) = {} \/ ~CheckIndex(f) \/ (f.items # <<>> /\ ~InOrder(f.items))
       THEN Fail /\ UNCHANGED sel
       ELSE (\E c \in SummarizeBlock(f) : Absorb(c)) /\ UNCHANGED <<pc, result>>
    /\ round' = round + 1 /\ UNCHANGED <<job, out, stats>>
\* DigestState::finish; the hash of a kind is its records.
Kind(k) == <<<<KindByte(k), sel.count[k]>>, sel.records[k]>>
DigestEnd ==
    /\ pc = "blobs" /\ round > Len(job.files[sel.file].frames)
    /\ out' = Append(out, IF Full THEN <<<<WriteHeaderRecord(Header)>>, Kind("node"), Kind("way"), Kind("relation")>>
                          ELSE <<<<sel.all>>, Kind("node"), Kind("way"), Kind("relation")>>)
    /\ IF sel.file = 2 THEN Done /\ UNCHANGED sel
       ELSE Goto("enter") /\ sel' = [file |-> 2, last |-> <<>>, all |-> <<>>, count |-> [k \in AllKinds |-> 0], records |-> [k \in AllKinds |-> <<>>]]
    /\ UNCHANGED <<job, round, stats>>

DigestNext == DigestInner \/ DigestBlob \/ DigestEnd

----------------------------------------------------------------------------
(* Properties. *)

\* What two files must agree in.
Pinned(e) == IF e.pins = <<>> THEN {} ELSE {i \in DOMAIN e.pins[1] : e.pins[1][i] = 1}
Claims(e) == IF e.meta = <<>> THEN <<<<>>, <<>>>> ELSE <<e.meta[1].version, e.meta[1].user>>
Same(e) == <<e.kind, e.id, e.tags, e.refs, e.members, IF e.kind # "node" THEN 0 ELSE IF Full THEN e.at ELSE Decimicro(e.at)>>
Says(file) ==
    LET one(f, i) ==
          LET e == f.items[i] IN
          IF ~Full THEN <<Same(e)>>
          ELSE <<Same(e), IF e.kind = "way" THEN e.locs ELSE <<>>, Claims(e), IF HasSharedNodePins(file.header) THEN <<Pinned(e)>> ELSE <<>>,
                 IF HasWayMembers(file.header) /\ e.kind = "way" THEN <<f.payload[1].bits[i]>> ELSE <<>>>>
    IN FlattenSeq([b \in DOMAIN file.frames |-> [i \in DOMAIN file.frames[b].items |-> one(file.frames[b], i)]])
HeaderSays(h) == IF Full THEN <<h.bbox, Range(h.required), Range(h.optional), h.program, h.source, h.time>> ELSE <<>>
Sorts(file) ==
    LET all == FlattenSeq([b \in DOMAIN file.frames |-> file.frames[b].items])
        less(a, b) == KindByte(a.kind) < KindByte(b.kind) \/ (a.kind = b.kind /\ KeyLess(OsmIdKey(a.id), OsmIdKey(b.id)))
    IN \A i, j \in DOMAIN all : i < j => less(all[i], all[j])
TrueFrame(f) ==
    LET ids == {e.id : e \in Range(f.items)} IN
    f.type = "data" /\ ~f.bad /\ Cardinality({e.kind : e \in Range(f.items)}) <= 1
    /\ (f.claim # "none" => f.items # <<>> /\ f.claim = f.items[1].kind /\ f.lo = Min(ids) /\ f.hi = Max(ids) /\ f.count = Len(f.items))
\* One bit for each way, one for each ref, and none set beyond.
TrueBits(bits, n) == Len(bits) >= n /\ Len(bits) < n + ByteBits /\ \A i \in DOMAIN bits : i > n => bits[i] = 0
TruePayloads(h, f) ==
    LET ways == Of("way", f.items) IN
    /\ (HasWayMembers(h) /\ ways # <<>>) => \E p \in Range(f.payload) : p.count = Len(ways) /\ TrueBits(p.bits, Len(ways))
    /\ HasSharedNodePins(h) => \A e \in Range(ways) : \A bits \in Range(e.pins) : TrueBits(bits, Len(e.refs))

\* digest: two files have one digest exactly when they say the same, whatever
\* their cut into blobs; the records run together without ambiguity.  It answers
\* only for a file that is sorted as its header says and whose indexes are true.
DigestIsTrue ==
    /\ result = "ok" =>
          /\ (out[1] = out[2]) <=> (Says(job.files[1]) = Says(job.files[2]) /\ HeaderSays(job.files[1].header) = HeaderSays(job.files[2].header))
          /\ \A n \in {1, 2} : Sorts(job.files[n]) /\ \A f \in Range(job.files[n].frames) : TrueFrame(f)
    /\ result = "failed" =>
          \E n \in {1, 2} : \/ SortedFeature \notin Range(job.files[n].header.optional) \/ ~Sorts(job.files[n])
                           \/ \E f \in Range(job.files[n].frames) :
                                 ~TrueFrame(f) \/ (\E e \in Range(f.items) : ~CheckUser(e)) \/ (Full /\ ~TruePayloads(job.files[n].header, f))

-----------------------------------------------------------------------------
(* Digests of two files of one or two elements whose bytes could run          *)
(* together, and of a file with each of the flaws a digest refuses.           *)

Bare(kind, id) == [kind |-> kind, id |-> id, at |-> 0, tags |-> <<>>, refs |-> <<>>, members |-> <<>>, locs |-> <<>>, pins |-> <<>>, meta |-> <<>>]
Meta(version, user) == <<[version |-> version, user |-> user, badUser |-> FALSE]>>
Nodes == {Bare("node", 1), [Bare("node", 1) EXCEPT !.at = 17], [Bare("node", 1) EXCEPT !.at = 16], [Bare("node", 1) EXCEPT !.at = -1]}
         \cup {[Bare("node", 1) EXCEPT !.tags = t] : t \in {<<<<<<1>>, <<>>>>>>, <<<<<<>>, <<1>>>>>>, <<<<<<1, 17>>, <<1>>>>>>, <<<<<<1>>, <<17, 1>>>>>>, <<<<<<>>, <<>>>>, <<<<>>, <<>>>>>>}}
         \cup {[Bare("node", 1) EXCEPT !.meta = m] : m \in {Meta(<<>>, <<>>), Meta(<<1>>, <<>>), Meta(<<>>, <<<<0>>>>), Meta(<<>>, <<<<>>>>)}}
Ways == {Bare("way", 1), [Bare("way", 1) EXCEPT !.refs = <<18, 2>>], [Bare("way", 1) EXCEPT !.refs = <<18, 18, 2>>], [Bare("way", 1) EXCEPT !.refs = <<18>>, !.locs = <<2>>],
         [Bare("way", 1) EXCEPT !.refs = <<1, 2, 3>>, !.pins = <<<<1, 0, 1, 0>>>>], [Bare("way", 1) EXCEPT !.refs = <<1, 2, 3>>, !.pins = <<<<0, 0, 0, 0>>>>],
         [Bare("way", 1) EXCEPT !.refs = <<1, 2, 3>>, !.pins = <<<<0, 0, 0, 1>>>>], [Bare("way", 1) EXCEPT !.refs = <<1, 2, 3>>, !.pins = <<<<0, 1>>>>]}
Member(type, raw, id, role) == [type |-> type, raw |-> raw, id |-> id, role |-> role]
Relations == {[Bare("relation", 1) EXCEPT !.members = m] :
                 m \in {<<>>, <<Member(1, 0, 2, <<>>)>>, <<Member(3, 1, 2, <<>>)>>, <<Member(3, 1, 0, <<2>>)>>, <<Member(0, 0, 1, <<19, 0>>)>>, <<Member(0, 0, 1, <<>>), Member(0, 0, 1, <<>>)>>}}

Plain == [bbox |-> <<>>, required |-> <<>>, optional |-> <<<<4>>>>, program |-> <<>>, source |-> <<>>, time |-> <<>>]
Pinning == [Plain EXCEPT !.optional = <<<<5>>, <<4>>>>]
Membering == [Plain EXCEPT !.optional = <<<<4>>, <<6>>>>]
Headers == {Plain, Pinning, Membering, [Plain EXCEPT !.required = <<<<1>>, <<2>>>>], [Plain EXCEPT !.required = <<<<2>>, <<1>>, <<2>>>>],
            [Plain EXCEPT !.required = <<<<4>>>>], [Plain EXCEPT !.optional = <<<<1>>, <<4>>>>], [Plain EXCEPT !.program = <<<<>>>>],
            [Plain EXCEPT !.source = <<<<>>>>], [Plain EXCEPT !.program = <<<<0>>>>], [Plain EXCEPT !.bbox = <<0>>], [Plain EXCEPT !.time = <<1>>]}
Frame(items) == [type |-> "data", bad |-> FALSE, claim |-> "none", lo |-> 0, hi |-> 0, count |-> 0, payload |-> <<>>, items |-> items]
Indexed1(items) == LET ids == {e.id : e \in Range(items)} IN [Frame(items) EXCEPT !.claim = items[1].kind, !.lo = Min(ids), !.hi = Max(ids), !.count = Len(items)]
Paid(items, count, bits) == [Frame(items) EXCEPT !.payload = <<[count |-> count, bits |-> bits]>>]
File(header, frames) == [header |-> header, frames |-> frames]
Call(form, a, b) == [cmd |-> "digest", form |-> form, files |-> <<a, b>>]

Two(kind) == <<Bare(kind, -1), Bare(kind, 2)>>
Flawed == {<<Frame(<<Bare("node", 2), Bare("node", -1)>>)>>, <<Frame(<<Bare("node", 1), Bare("way", 1)>>)>>, <<Frame(<<Bare("way", 1)>>), Frame(<<Bare("node", 1)>>)>>,
           <<Frame(<<Bare("node", 2)>>), Frame(<<Bare("node", 1)>>)>>, <<[Indexed1(Two("node")) EXCEPT !.hi = 3]>>, <<[Indexed1(Two("node")) EXCEPT !.claim = "way"]>>,
           <<[Frame(<<>>) EXCEPT !.claim = "node"]>>, <<[Frame(<<>>) EXCEPT !.type = "header"]>>, <<[Frame(<<>>) EXCEPT !.type = "other"]>>, <<[Frame(<<>>) EXCEPT !.bad = TRUE]>>,
           <<Frame(<<[Bare("node", 1) EXCEPT !.meta = <<[version |-> <<>>, user |-> <<>>, badUser |-> TRUE]>>]>>)>>}
DigestWorlds ==
    \/ \E form \in {"content", "full"}, a, b \in Nodes \cup Ways \cup Relations, h \in {Plain, Pinning} :
          job = Call(form, File(h, <<Frame(<<a>>)>>), File(h, <<Indexed1(<<b>>)>>))
    \/ \E form \in {"content", "full"}, g, h \in Headers, kind \in {"node", "way"} :
          job = Call(form, File(g, <<Paid(Two(kind), 2, <<0, 0>>)>>), File(h, <<Paid(Two(kind), 2, <<0, 0>>)>>))
    \/ \E form \in {"content", "full"}, c, d \in 1 .. 2, x, y \in {<<0, 0>>, <<0, 1>>, <<1, 0>>, <<1, 1>>} :
          LET h == Membering
              cut(c1, bits) == IF c1 = 1 THEN <<Paid(Two("way"), 2, bits)>> ELSE <<Paid(<<Two("way")[1]>>, 1, <<bits[1], 0>>), Frame(<<>>), Paid(<<Two("way")[2]>>, 1, <<bits[2], 0>>)>>
          IN job = Call(form, File(h, cut(c, x)), File(h, cut(d, y)))
    \/ \E form \in {"content", "full"}, f \in Flawed, sorted \in BOOLEAN :
          job = Call(form, File([Plain EXCEPT !.optional = IF sorted THEN @ ELSE <<>>], <<Indexed1(Two("node"))>>), File(Plain, f))
    \/ \E count \in 1 .. 3, bits \in {<<1, 0>>, <<0, 0, 1, 0>>} :
          LET h == Membering IN job = Call("full", File(h, <<Frame(<<>>)>>), File(h, <<Paid(Two("way"), count, bits)>>))
=============================================================================
