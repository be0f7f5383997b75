---------------------------- MODULE MergeChanges ----------------------------
(* Change documents: OsmChange XML read and written (osc/), the overlay that  *)
(* loads documents one over the other, merge-changes, and the small documents *)
(* they are checked on.                                                       *)
EXTENDS CommandState, TLC

-----------------------------------------------------------------------------
(* osc/xml_parse.rs, osc/write.rs and merge_changes/emit.rs: an OsmChange     *)
(* document and what reads and writes one.  A document is the sequence of its *)
(* XML events; an event has a form ("start", "empty", "end", "error"), a name *)
(* and attributes.  Number attributes are numbers (Garbled: not one), in      *)
(* tenths of the stored unit for coordinates; text attributes are texts, with *)
(* "line" one that has a line break, "&#10;" the same written as a reference  *)
(* and "&bad;" one with a reference nothing defines.                          *)

Garbled == 999
MaxLat == 900
MaxLon == 1800
NoAttrs == [a \in {} |-> a]

IsInt(e, name) == name \in DOMAIN e.at /\ e.at[name] # Garbled
IsText(e, name) == name \in DOMAIN e.at /\ e.at[name] # "&bad;"
\* Reading a text attribute turns a raw line break into a space.
NormalizedValue(raw) == CASE raw = "line" -> "space" [] raw = "&#10;" -> "line" [] OTHER -> raw
StrAttr(e, name) == NormalizedValue(e.at[name])
OptionalStr(e, name) == IF name \in DOMAIN e.at THEN StrAttr(e, name) ELSE ""
\* coord_to_decimicro, rounding halves away from zero, and from_decimicro.
IsCoord(e, name) ==
    IsInt(e, name) /\ LET max == IF name = "lat" THEN MaxLat ELSE MaxLon IN -max <= e.at[name] /\ e.at[name] <= max
Decimicro(x) == IF x < 0 THEN -((5 - x) \div 10) ELSE (x + 5) \div 10
FormatCoord(x) == 10 * x

MetaFields == {"version", "timestamp", "changeset", "uid", "user", "visible"}
HasMeta(e) == DOMAIN e.at \cap MetaFields # {}
ParsesTag(e) == IsText(e, "k") /\ IsText(e, "v")
ParsesNd(e) == IsInt(e, "ref")
ParsesMember(e) ==
    IsText(e, "type") /\ e.at.type \in Range(Kinds) /\ IsInt(e, "ref") /\ ("role" \in DOMAIN e.at => IsText(e, "role"))

-----------------------------------------------------------------------------
(* drive_osc: the level of the document the reader is at, the section and the *)
(* element it is in.  A step gives the set of its outcomes, empty when the    *)
(* document is refused: the next state and the calls made on the sink.        *)

DriveState == [level |-> "Doc", section |-> "create", open |-> "node"]
Call(op, st, kind, e) == [op |-> op, action |-> st.section, kind |-> kind, at |-> e.at]
To(st, level) == {[st |-> [st EXCEPT !.level = level], calls |-> <<>>]}

\* handle_element_child: in a delete the children are parsed and dropped.
Child(st, e) ==
    LET live == st.section # "delete"
        sink(op) == IF live THEN <<Call(op, st, st.open, e)>> ELSE <<>>
        take(op, ok) == IF live \/ ok THEN {sink(op)} ELSE {}
    IN CASE e.name = "tag"                                                      -> take("tag", ParsesTag(e))
         [] e.name = "nd" /\ st.open = "way"                                    -> take("nd", ParsesNd(e))
         [] e.name = "member" /\ st.open = "relation"                           -> take("member", ParsesMember(e))
         [] e.name \in {"bbox", "bounds"} /\ st.open \in {"way", "relation"}    -> {<<>>}
         [] OTHER                                                               -> {}

OpenInElement(st, e) ==
    {[st |-> IF e.form = "empty" THEN st ELSE [st EXCEPT !.level = "Leaf"], calls |-> calls] : calls \in Child(st, e)}

OpenInSection(st, e) ==
    IF e.name \notin Range(Kinds) THEN {}
    ELSE IF e.form = "empty"
         THEN {[st |-> st, calls |-> <<Call("begin", st, e.name, e), Call("end", st, e.name, e)>>]}
         ELSE {[st |-> [st EXCEPT !.level = "Element", !.open = e.name], calls |-> <<Call("begin", st, e.name, e)>>]}

OpenInRoot(st, e) ==
    CASE e.name \in {"create", "modify", "delete"} ->
             IF e.form = "empty" THEN To(st, "Root") ELSE To([st EXCEPT !.section = e.name], "Section")
      [] e.name \in Range(Kinds) \cup {"osmChange"} -> {}
      [] OTHER -> To(st, IF e.form = "empty" THEN "Root" ELSE "Other")

OpenAtDoc(st, e) ==
    IF e.name # "osmChange" THEN {} ELSE To(st, IF e.form = "empty" THEN "Done" ELSE "Root")

HandleOpen(st, e) ==
    CASE st.level = "Element" -> OpenInElement(st, e)
      [] st.level = "Section" -> OpenInSection(st, e)
      [] st.level = "Root"    -> OpenInRoot(st, e)
      [] st.level = "Doc"     -> OpenAtDoc(st, e)
      [] OTHER                -> {}                  \* Leaf, Other, Done

HandleClose(st, e) ==
    CASE st.level = "Leaf"                 -> To(st, "Element")
      [] st.level = "Element"              -> {[st |-> [st EXCEPT !.level = "Section"], calls |-> <<Call("end", st, st.open, e)>>]}
      [] st.level \in {"Section", "Other"} -> To(st, "Root")
      [] st.level = "Root"                 -> To(st, "Done")
      [] OTHER                             -> To(st, st.level)

Drive(st, e) ==
    CASE e.form = "error" -> {}
      [] e.form = "end"   -> HandleClose(st, e)
      [] OTHER            -> HandleOpen(st, e)

\* A document cut short ends below </osmChange>.
Truncated(st) == st.level # "Done"

-----------------------------------------------------------------------------
(* Writing.  An element to be written is what a reader of the file holds: a   *)
(* kind, an id, coordinates, the metadata it claims, refs, members and tags.  *)

Event(form, name, at) == [form |-> form, name |-> name, at |-> at]
Start(name) == Event("start", name, NoAttrs)
End(name) == Event("end", name, NoAttrs)
With(at, name, value) == (name :> value) @@ at

\* append_attr_escaped: escape() leaves white space alone, so it is written as
\* references here.
AppendAttrEscaped(at, name, text) == With(at, name, IF text = "line" THEN "&#10;" ELSE text)
PushAttributeEscaped(at, name, text) == With(at, name, IF text = "line" THEN "&#10;" ELSE text)

TagEvent(t) == Event("empty", "tag", AppendAttrEscaped(AppendAttrEscaped(NoAttrs, "k", t[1]), "v", t[2]))
NdEvent(ref) == Event("empty", "nd", With(NoAttrs, "ref", ref))
MemberEvent(m) ==
    Event("empty", "member", AppendAttrEscaped(With(With(NoAttrs, "type", m.kind), "ref", m.ref), "role", m.role))

\* An element without children is one empty event.
WriteElement(kind, at, children) ==
    IF children = <<>> THEN <<Event("empty", kind, at)>>
    ELSE <<Event("start", kind, at)>> \o children \o <<End(kind)>>

\* push_info_attrs: only what is claimed, and no empty user.
PushInfoAttrs(at, claims) ==
    LET kept == {f \in DOMAIN claims : f # "user" \/ claims.user # ""}
    IN [f \in kept |-> IF f = "user" /\ claims.user = "line" THEN "&#10;" ELSE claims[f]] @@ at
CheckedTag(t) == Event("empty", "tag", PushAttributeEscaped(PushAttributeEscaped(NoAttrs, "k", t[1]), "v", t[2]))
Map2(s, Op(_)) == [i \in DOMAIN s |-> Op(s[i])]

\* write_element_xml, one per form of an element.  A dense node without any
\* metadata column has no claims.
WriteNodeXml(n) ==
    WriteElement("node", PushInfoAttrs([id |-> n.id, lat |-> FormatCoord(n.lat), lon |-> FormatCoord(n.lon)], n.claims),
                 Map2(n.tags, CheckedTag))
WriteDenseNodeXml(n) ==
    WriteElement("node", (IF DOMAIN n.claims = {} THEN NoAttrs ELSE PushInfoAttrs(NoAttrs, n.claims))
                            @@ [id |-> n.id, lat |-> FormatCoord(n.lat), lon |-> FormatCoord(n.lon)],
                 Map2(n.tags, CheckedTag))
WriteWayXml(w) ==
    WriteElement("way", PushInfoAttrs([id |-> w.id], w.claims), Map2(w.refs, NdEvent) \o Map2(w.tags, CheckedTag))
\* member_type_str: OsmChange has no name for an unknown member type.
Unspeakable(r) == \E i \in DOMAIN r.members : r.members[i].kind \notin Range(Kinds)
WriteRelationXml(r) ==
    WriteElement("relation", PushInfoAttrs([id |-> r.id], r.claims), Map2(r.members, MemberEvent) \o Map2(r.tags, CheckedTag))
WriteDeleteXml(kind, id, meta) == <<Event("empty", kind, meta @@ [id |-> id])>>

-----------------------------------------------------------------------------
(* ElementBuf: an element taken from the calls of a sink and written again.   *)

NoElement == [kind |-> "none", action |-> "create", id |-> 0, version |-> -1, head |-> NoAttrs, structural |-> <<>>, tags |-> <<>>]

\* scan_owned_metadata_into: only the version must be a number here; the other
\* fields are texts, kept as they are.
ScanFails(e) ==
    \/ "version" \in DOMAIN e.at /\ ~IsInt(e, "version")
    \/ "user" \in DOMAIN e.at /\ ~IsText(e, "user")
AppendAttrs(at, e) ==
    LET texts == DOMAIN e.at \cap {"timestamp", "changeset", "uid", "visible"}
        plain == [f \in texts |-> e.at[f]] @@ at
        named == IF OptionalStr(e, "user") = "" THEN plain ELSE AppendAttrEscaped(plain, "user", OptionalStr(e, "user"))
    IN IF "version" \in DOMAIN e.at THEN With(named, "version", e.at.version) ELSE named

BeginFails(c) ==
    ~IsInt(c, "id") \/ ScanFails(c) \/ (c.kind = "node" /\ c.action # "delete" /\ ~(IsCoord(c, "lat") /\ IsCoord(c, "lon")))
BufBegin(c) ==
    LET placed == IF c.kind = "node" /\ c.action # "delete"
                  THEN [id |-> c.at.id, lat |-> FormatCoord(Decimicro(c.at.lat)), lon |-> FormatCoord(Decimicro(c.at.lon))]
                  ELSE [id |-> c.at.id]
    IN [NoElement EXCEPT !.kind = c.kind, !.action = c.action, !.id = c.at.id,
                         !.version = IF "version" \in DOMAIN c.at THEN c.at.version ELSE -1,
                         !.head = IF HasMeta(c) THEN AppendAttrs(placed, c) ELSE placed]
BufTag(buf, c) == [buf EXCEPT !.tags = Append(@, TagEvent(<<StrAttr(c, "k"), StrAttr(c, "v")>>))]
BufNd(buf, c) == [buf EXCEPT !.structural = Append(@, NdEvent(c.at.ref))]
BufMember(buf, c) ==
    [buf EXCEPT !.structural = Append(@, MemberEvent([kind |-> c.at.type, ref |-> c.at.ref, role |-> OptionalStr(c, "role")]))]
BufWrite(buf) == WriteElement(buf.kind, buf.head, buf.structural \o buf.tags)
CallFails(c) ==
    CASE c.op = "begin"  -> BeginFails(c)
      [] c.op = "tag"    -> ~ParsesTag(c)
      [] c.op = "nd"     -> ~ParsesNd(c)
      [] c.op = "member" -> ~ParsesMember(c)
      [] OTHER           -> FALSE

-----------------------------------------------------------------------------
(* osc/parse.rs, osc/compact.rs, osc/interner.rs, osc/version_floor.rs and    *)
(* osc/sorted.rs: the changes of an OsmChange document, ready to be applied.  *)
(* Per kind an arena of records, an index from id to the offset of its last   *)
(* record, the deleted ids and the version floors; one table of strings.  An  *)
(* arena is a sequence of words (an id, a count, a string id, a tag's value); *)
(* byte widths are abstracted to words, the offsets into it are not.          *)

MetaLen == 3
Keys(f) == DOMAIN f
NoIndex == [id \in {} |-> 0]
NoStaging == [kind |-> "none", id |-> 0, lat |-> 0, lon |-> 0, meta |-> <<>>, tags |-> <<>>, refs |-> <<>>, members |-> <<>>]
NewOverlay ==
    LET per(x) == [k \in Range(Kinds) |-> x] IN
    [arena |-> per(<<>>), index |-> per(NoIndex), deleted |-> per({}), floors |-> per(NoIndex),
     strings |-> <<"">>, staging |-> NoStaging]

\* StringInterner: string 0 is the empty one; a string is stored once.
InternId(strings, s) == IF s \in Range(strings) THEN (CHOOSE i \in DOMAIN strings : strings[i] = s) - 1 ELSE Len(strings)
Interned(strings, s) == IF s \in Range(strings) THEN strings ELSE Append(strings, s)
Resolve(strings, id) == strings[id + 1]

\* A record's metadata: its flags, its version (0 when it claims none) and the
\* string of its user.
MetaFlags(c) ==
    (IF HasMeta(c) THEN {"present"} ELSE {}) \cup (IF "version" \in DOMAIN c.at THEN {"version"} ELSE {})
      \cup (IF "user" \in DOMAIN c.at THEN {"user"} ELSE {})
      \cup (IF "visible" \in DOMAIN c.at /\ c.at.visible = "false" THEN {"hidden"} ELSE {})
ArenaMetaFails(c) ==
    \/ \E f \in {"version", "changeset", "uid", "timestamp"} \cap DOMAIN c.at : c.at[f] = Garbled
    \/ "user" \in DOMAIN c.at /\ ~IsText(c, "user")
ArenaMeta(c, strings) ==
    <<MetaFlags(c), IF "version" \in DOMAIN c.at THEN c.at.version ELSE 0, InternId(strings, OptionalStr(c, "user"))>>
VersionClaim(meta) == IF "version" \in meta[1] THEN meta[2] ELSE -1

MetaOff(kind) == IF kind = "node" THEN 4 ELSE 3
VersionAt(arena, offset, kind) ==
    VersionClaim(SubSeq(arena, offset + MetaOff(kind), offset + MetaOff(kind) + MetaLen - 1))

\* arena_append_node, _way, _relation: fixed header, metadata, then the lists
\* the header counts.
ArenaTags(tags) == FlattenSeq(tags)
ArenaNode(st) == <<st.id, st.lat, st.lon, Len(st.tags)>> \o st.meta \o ArenaTags(st.tags)
ArenaWay(st) == <<st.id, Len(st.refs), Len(st.tags)>> \o st.meta \o st.refs \o ArenaTags(st.tags)
ArenaRelation(st) == <<st.id, Len(st.members), Len(st.tags)>> \o st.meta \o FlattenSeq(st.members) \o ArenaTags(st.tags)

\* The readers of a record: CompactNodeRef and the rest.
TagIter(arena, at, n, strings) == [i \in 1 .. n |-> <<Resolve(strings, arena[at + 2 * (i - 1)]), arena[at + 2 * (i - 1) + 1]>>]
RefIter(arena, at, n) == [i \in 1 .. n |-> arena[at + i - 1]]
MemberIter(arena, at, n, strings) ==
    [i \in 1 .. n |-> [ref |-> arena[at + 3 * (i - 1)], kind |-> arena[at + 3 * (i - 1) + 1],
                       role |-> Resolve(strings, arena[at + 3 * (i - 1) + 2])]]
ReadMeta(meta, strings) ==
    [version |-> VersionClaim(meta), visible |-> "hidden" \notin meta[1],
     user |-> IF "user" \in meta[1] THEN Resolve(strings, meta[3]) ELSE ""]
CompactNode(arena, o, strings) ==
    [id |-> arena[o], lat |-> arena[o + 1], lon |-> arena[o + 2], meta |-> ReadMeta(SubSeq(arena, o + 4, o + 6), strings),
     tags |-> TagIter(arena, o + 7, arena[o + 3], strings), refs |-> <<>>, members |-> <<>>]
CompactWay(arena, o, strings) ==
    [id |-> arena[o], lat |-> 0, lon |-> 0, meta |-> ReadMeta(SubSeq(arena, o + 3, o + 5), strings),
     refs |-> RefIter(arena, o + 6, arena[o + 1]), members |-> <<>>,
     tags |-> TagIter(arena, o + 6 + arena[o + 1], arena[o + 2], strings)]
CompactRelation(arena, o, strings) ==
    [id |-> arena[o], lat |-> 0, lon |-> 0, meta |-> ReadMeta(SubSeq(arena, o + 3, o + 5), strings),
     refs |-> <<>>, members |-> MemberIter(arena, o + 6, arena[o + 1], strings),
     tags |-> TagIter(arena, o + 6 + 3 * arena[o + 1], arena[o + 2], strings)]

-----------------------------------------------------------------------------
(* VersionFloor: the highest version claimed so far (-1: none).               *)

Admits(floor, claim) == claim = -1 \/ floor = -1 \/ claim >= floor
Raise(floor, claim) == IF claim > floor THEN claim ELSE floor

\* KindStore::stored_version: the live record's claim and the floor kept for
\* claims that are no longer in a live record.
StoredVersion(o, kind, id) ==
    Raise(IF id \in Keys(o.index[kind]) THEN VersionAt(o.arena[kind], o.index[kind][id], kind) ELSE -1,
          IF id \in Keys(o.floors[kind]) THEN o.floors[kind][id] ELSE -1)
CheckVersionAdvance(o, kind, id, claim, allow) == allow \/ Admits(StoredVersion(o, kind, id), claim)
RaiseFloor(o, kind, id, claim) ==
    LET highest == Raise(StoredVersion(o, kind, id), claim)
    IN IF highest = -1 THEN o.floors[kind] ELSE (id :> highest) @@ o.floors[kind]

\* push_node, push_way, push_relation.  A record that claims no version would
\* hide the claim of the record it replaces: that claim becomes the floor.
Push(o, st, record, allow) ==
    IF ~CheckVersionAdvance(o, st.kind, st.id, VersionClaim(st.meta), allow) THEN {}
    ELSE {[o EXCEPT !.floors[st.kind] = IF VersionClaim(st.meta) = -1 /\ ~allow THEN RaiseFloor(o, st.kind, st.id, -1) ELSE @,
                    !.arena[st.kind] = @ \o record, !.index[st.kind] = (st.id :> Len(o.arena[st.kind]) + 1) @@ @,
                    !.deleted[st.kind] = @ \ {st.id}, !.staging = NoStaging]}
PushNode(o, st, allow) == Push(o, st, ArenaNode(st), allow)
PushWay(o, st, allow) == Push(o, st, ArenaWay(st), allow)
PushRelation(o, st, allow) == Push(o, st, ArenaRelation(st), allow)

\* delete_node, delete_way, delete_relation.
Delete_NoFloor(o, kind, id, claim, allow) ==
    IF ~CheckVersionAdvance(o, kind, id, claim, allow) THEN {}
    ELSE {[o EXCEPT !.deleted[kind] = @ \cup {id}, !.index[kind] = [k \in Keys(@) \ {id} |-> @[k]], !.staging = NoStaging]}
Delete(o, kind, id, claim, allow) ==
    IF ~CheckVersionAdvance(o, kind, id, claim, allow) THEN {}
    ELSE {[o EXCEPT !.floors[kind] = RaiseFloor(o, kind, id, claim), !.deleted[kind] = @ \cup {id},
                    !.index[kind] = [k \in Keys(@) \ {id} |-> @[k]], !.staging = NoStaging]}

-----------------------------------------------------------------------------
(* CompactSink: each call gives the overlays it may leave, none if it fails.  *)

CompactBegin(o, c, allow) ==
    LET strings == IF "user" \in DOMAIN c.at THEN Interned(o.strings, OptionalStr(c, "user")) ELSE o.strings
        meta    == ArenaMeta(c, o.strings)
        placed  == c.kind = "node"
        named   == [o EXCEPT !.strings = strings]
    IN CASE ~IsInt(c, "id") \/ ArenaMetaFails(c) -> {}
         [] c.action = "delete" -> Delete(named, c.kind, c.at.id, VersionClaim(meta), allow)
         [] placed /\ ~(IsCoord(c, "lat") /\ IsCoord(c, "lon")) -> {}
         [] OTHER -> {[named EXCEPT !.staging = [NoStaging EXCEPT !.kind = c.kind, !.id = c.at.id, !.meta = meta,
                         !.lat = IF placed THEN Decimicro(c.at.lat) ELSE 0, !.lon = IF placed THEN Decimicro(c.at.lon) ELSE 0]]}
CompactTag(o, c) ==
    IF ~ParsesTag(c) THEN {}
    ELSE {[o EXCEPT !.strings = Interned(@, StrAttr(c, "k")),
                    !.staging.tags = Append(@, <<InternId(o.strings, StrAttr(c, "k")), StrAttr(c, "v")>>)]}
CompactNd(o, c) == IF ~ParsesNd(c) THEN {} ELSE {[o EXCEPT !.staging.refs = Append(@, c.at.ref)]}
CompactMember(o, c) ==
    IF ~ParsesMember(c) THEN {}
    ELSE {[o EXCEPT !.strings = Interned(@, OptionalStr(c, "role")),
                    !.staging.members = Append(@, <<c.at.ref, c.at.type, InternId(o.strings, OptionalStr(c, "role"))>>)]}
CompactEnd(o, allow) ==
    CASE o.staging.kind = "none" -> {o}
      [] o.staging.kind = "node" -> PushNode(o, o.staging, allow)
      [] o.staging.kind = "way"  -> PushWay(o, o.staging, allow)
      [] OTHER                   -> PushRelation(o, o.staging, allow)
CompactSink(o, c, allow) ==
    CASE c.op = "begin"  -> CompactBegin(o, c, allow)
      [] c.op = "tag"    -> CompactTag(o, c)
      [] c.op = "nd"     -> CompactNd(o, c)
      [] c.op = "member" -> CompactMember(o, c)
      [] OTHER           -> CompactEnd(o, allow)
CompactCalls(overlay, calls, allow) ==
    FoldLeft(LAMBDA os, c : UNION {CompactSink(o, c, allow) : o \in os}, {overlay}, calls)

-----------------------------------------------------------------------------
(* SortedDiff: the overlay frozen into tables sorted by OSM id.               *)

BuildIds(ids) == SetToSortSeq(ids, LAMBDA a, b : KeyLess(OsmIdKey(a), OsmIdKey(b)))
KindTable(o, kind) ==
    LET ids == BuildIds(Keys(o.index[kind])) IN
    [ids |-> ids, offsets |-> [i \in DOMAIN ids |-> o.index[kind][ids[i]]], deleted |-> BuildIds(o.deleted[kind])]
IntoSorted(o) == [k \in Range(Kinds) |-> KindTable(o, k)]
PartitionPoint(ids, Below(_)) == Cardinality({i \in DOMAIN ids : Below(ids[i])}) + 1
\* Seek::find, for ids asked in ascending order.
Find(ids, id) ==
    LET pos == PartitionPoint(ids, LAMBDA x : KeyLess(OsmIdKey(x), OsmIdKey(id)))
    IN IF pos <= Len(ids) /\ ids[pos] = id THEN pos ELSE 0
UpsertRange(ids, first, last) ==
    LET start == PartitionPoint(ids, LAMBDA x : KeyLess(OsmIdKey(x), OsmIdKey(first)))
        end   == PartitionPoint(ids, LAMBDA x : KeyLeq(OsmIdKey(x), last))
    IN start .. end - 1
SortedRecord(o, table, kind, i) ==
    LET at == table.offsets[i] IN
    CASE kind = "node" -> CompactNode(o.arena[kind], at, o.strings)
      [] kind = "way"  -> CompactWay(o.arena[kind], at, o.strings)
      [] OTHER         -> CompactRelation(o.arena[kind], at, o.strings)

-----------------------------------------------------------------------------
(* Change files on their way into a file: merge-changes concatenates or       *)
(* simplifies them (merge_changes/mod.rs, simplify.rs and emit.rs; the        *)
(* threads of a merge are MergeStream's), derive's writer produces one        *)
(* (osc/write.rs), and an overlay reads the result, or the files themselves   *)
(* out of a directory (osc/parse.rs).  Every call here ends in an overlay:    *)
(* what a change document means is what applying it would do.                 *)

\* job.mode: "stream" and "simplify" merge job.docs, "load" reads a directory
\* of job.entries (a sequence number, -1 for another name, and a document),
\* "write" writes job.items.
Merging == job.mode \in {"stream", "simplify"}

NewBatch == [calls |-> <<>>, bytes |-> 0]
AtDoc(doc, sink) == [doc |-> doc, pos |-> 1, drive |-> DriveState, sink |-> sink, batch |-> NewBatch, batches |-> <<>>,
                     elements |-> <<>>, queue |-> <<>>, written |-> 0]
Opened == Begin /\ job.cmd = "osc" /\ sel = AtDoc(<<>>, "lex") /\ out = <<>> /\ stats = NewOverlay

Prelude == <<Start("osmChange")>>
Postlude == <<End("osmChange")>>

-----------------------------------------------------------------------------
(* The calls. *)

StreamWritesScratch == Len(job.docs) > 1 /\ job.workers # 1
MergeChangesTo ==
    /\ pc = "enter" /\ Merging
    /\ IF job.docs = <<>> \/ (job.mode = "stream" /\ ~job.scratch /\ StreamWritesScratch)
       THEN Fail /\ UNCHANGED <<job, round, sel, out, stats>>
       ELSE /\ sel' = [AtDoc(job.docs[1], "lex") EXCEPT !.queue = Tail(job.docs)]
            /\ out' = Prelude
            /\ Goto("read") /\ UNCHANGED <<job, round, stats>>

\* load_all_diffs: the sequence-named files, by number, into one overlay.
Sequenced == SelectSeq(job.entries, LAMBDA x : x.seq # -1)
LoadAllDiffs ==
    /\ pc = "enter" /\ job.mode = "load"
    /\ LET queue == SortSeq(Sequenced, LAMBDA a, b : a.seq < b.seq) IN
       IF queue = <<>>
       THEN (IF job.entries # <<>> THEN Fail ELSE Done) /\ UNCHANGED <<job, round, sel, out, stats>>
       ELSE /\ sel' = [AtDoc(Head(queue).doc, "compact") EXCEPT !.queue = [i \in DOMAIN Tail(queue) |-> Tail(queue)[i].doc]]
            /\ Goto("read") /\ UNCHANGED <<job, round, out, stats>>

\* write_element_xml and write_delete_xml, as derive calls them.
WriteItem(x) ==
    CASE x.action = "delete"               -> WriteDeleteXml(x.kind, x.id, PushInfoAttrs(NoAttrs, x.claims))
      [] x.kind = "node" /\ x.dense        -> WriteDenseNodeXml(x)
      [] x.kind = "node"                   -> WriteNodeXml(x)
      [] x.kind = "way"                    -> WriteWayXml(x)
      [] OTHER                             -> WriteRelationXml(x)
WriteChanges ==
    /\ pc = "enter" /\ job.mode = "write"
    /\ IF \E i \in DOMAIN job.items : job.items[i].action # "delete" /\ job.items[i].kind = "relation" /\ Unspeakable(job.items[i])
       THEN Fail /\ UNCHANGED <<job, round, sel, out, stats>>
       ELSE /\ out' = Prelude \o FlattenSeq([i \in DOMAIN job.items |->
                          <<Start(job.items[i].action)>> \o WriteItem(job.items[i]) \o <<End(job.items[i].action)>>]) \o Postlude
            /\ sel' = AtDoc(out', "compact")
            /\ Goto("read") /\ UNCHANGED <<job, round, stats>>

-----------------------------------------------------------------------------
(* Reading: drive_osc into a LexSink or a CompactSink. *)

\* LexSink: a call is recorded as it is; a batch is sealed after an element,
\* once its text has the target size (an "end" has no text).
Record(s, c) ==
    LET grown == [calls |-> Append(s.batch.calls, c), bytes |-> s.batch.bytes + (IF c.op = "end" THEN 0 ELSE 1)]
    IN IF c.op = "end" /\ grown.bytes >= job.target
       THEN [s EXCEPT !.batches = Append(@, grown.calls), !.batch = NewBatch]
       ELSE [s EXCEPT !.batch = grown]
Finish(s) == IF s.batch.calls = <<>> THEN s ELSE [s EXCEPT !.batches = Append(@, s.batch.calls), !.batch = NewBatch]

ReadEvent ==
    /\ pc = "read" /\ sel.pos <= Len(sel.doc)
    /\ \E steps \in {Drive(sel.drive, sel.doc[sel.pos])} :
         IF steps = {} THEN Fail /\ UNCHANGED <<job, round, sel, out, stats>>
         ELSE \E step \in steps :
                LET next == [sel EXCEPT !.pos = @ + 1, !.drive = step.st] IN
                IF sel.sink = "lex"
                THEN /\ sel' = FoldLeft(Record, next, step.calls)
                     /\ UNCHANGED <<job, pc, round, out, stats, result>>
                ELSE \E left \in {CompactCalls(stats, step.calls, job.allow)} :
                       IF left = {} THEN Fail /\ UNCHANGED <<job, round, sel, out, stats>>
                       ELSE stats' \in left /\ sel' = next /\ UNCHANGED <<job, pc, round, out, result>>

EndOfInput ==
    /\ pc = "read" /\ sel.pos > Len(sel.doc)
    /\ IF Truncated(sel.drive) THEN Fail /\ UNCHANGED <<job, round, sel, out, stats>>
       ELSE LET s == Finish(sel) IN
            IF s.queue # <<>>
            THEN /\ sel' = [s EXCEPT !.doc = Head(s.queue), !.queue = Tail(s.queue), !.pos = 1, !.drive = DriveState]
                 /\ UNCHANGED <<job, pc, round, out, stats, result>>
            ELSE /\ sel' = s
                 /\ (IF s.sink = "lex" THEN Goto("encode") ELSE Done)
                 /\ UNCHANGED <<job, round, out, stats>>

-----------------------------------------------------------------------------
(* Writing the merged document. *)

\* ByteSink: a section is opened when the action changes.
Sink0 == [xml |-> <<>>, open |-> "none", buf |-> NoElement, elements |-> <<>>]
SwitchSection(b, action) ==
    (IF b.open = "none" THEN <<>> ELSE <<End(b.open)>>) \o <<Start(action)>>
ByteEnd(b) ==
    LET lead == IF b.open = b.buf.action THEN <<>> ELSE SwitchSection(b, b.buf.action)
        xml  == BufWrite(b.buf)
    IN [xml |-> b.xml \o lead \o xml, open |-> b.buf.action, buf |-> NoElement,
        elements |-> Append(b.elements, [kind |-> b.buf.kind, action |-> b.buf.action, id |-> b.buf.id,
                                         version |-> b.buf.version, xml |-> xml])]
ByteSink(b, c) ==
    CASE c.op = "begin"  -> [b EXCEPT !.buf = BufBegin(c)]
      [] c.op = "tag"    -> [b EXCEPT !.buf = BufTag(b.buf, c)]
      [] c.op = "nd"     -> [b EXCEPT !.buf = BufNd(b.buf, c)]
      [] c.op = "member" -> [b EXCEPT !.buf = BufMember(b.buf, c)]
      [] OTHER           -> ByteEnd(b)
Replay(batch) == FoldLeft(ByteSink, Sink0, batch)
ReplayFails(batch) == \E i \in DOMAIN batch : CallFails(batch[i])

\* encode_batch: a batch's sections are its own.
EncodeBatch ==
    /\ pc = "encode" /\ job.mode = "stream" /\ sel.batches # <<>>
    /\ IF ReplayFails(Head(sel.batches)) THEN Fail /\ UNCHANGED <<job, round, sel, out, stats>>
       ELSE \E b \in {Replay(Head(sel.batches))} :
              /\ out' = out \o b.xml \o (IF b.open = "none" THEN <<>> ELSE <<End(b.open)>>)
              /\ sel' = [sel EXCEPT !.batches = Tail(@), !.written = @ + Len(b.elements)]
              /\ UNCHANGED <<job, pc, round, stats, result>>
EndStream ==
    /\ pc = "encode" /\ job.mode = "stream" /\ sel.batches = <<>>
    /\ out' = out \o Postlude
    /\ sel' = [AtDoc(out', "compact") EXCEPT !.written = sel.written]
    /\ Goto("read") /\ UNCHANGED <<job, round, stats>>

\* simplify.rs: render_batch keeps every element with its bytes.
RenderBatch ==
    /\ pc = "encode" /\ job.mode = "simplify" /\ sel.batches # <<>>
    /\ IF ReplayFails(Head(sel.batches)) THEN Fail /\ UNCHANGED <<job, round, sel, out, stats>>
       ELSE /\ sel' = [sel EXCEPT !.batches = Tail(@), !.elements = @ \o Replay(Head(sel.batches)).elements]
            /\ UNCHANGED <<job, pc, round, out, stats, result>>

\* dedupe: the objects by kind and id, each one's changes in input order.
SameObject(a, b) == a.kind = b.kind /\ a.id = b.id
ChangesOf(all, e) == SelectSeq(all, LAMBDA x : SameObject(x, e))
Regression(changes) ==
    LET floor[i \in 0 .. Len(changes)] == IF i = 0 THEN -1 ELSE Raise(floor[i - 1], changes[i].version)
    IN \E i \in 2 .. Len(changes) : ~Admits(floor[i - 1], changes[i].version)
KeyBefore(a, b) ==
    LET rank(k) == CHOOSE i \in DOMAIN Kinds : Kinds[i] = k IN
    rank(a.kind) < rank(b.kind) \/ (a.kind = b.kind /\ a.id < b.id)
LastOf(all, e) == ChangesOf(all, e)[Len(ChangesOf(all, e))]
Survivors(all) == SortSeq(SetToSeq({LastOf(all, e) : e \in Range(all)}), KeyBefore)
Group(survivors, action) == SelectSeq(survivors, LAMBDA e : e.action = action)

\* A group leaves in chunks of one size, each in a section of its own.
ChunkLen(n) == (n + job.workers - 1) \div job.workers
Chunks(group, action) ==
    LET n == ChunkLen(Len(group))
        chunk(i) == SubSeq(group, (i - 1) * n + 1, IF i * n < Len(group) THEN i * n ELSE Len(group))
        wrap(c) == <<Start(action)>> \o FlattenSeq([j \in DOMAIN c |-> c[j].xml]) \o <<End(action)>>
    IN IF group = <<>> THEN <<>> ELSE FlattenSeq([i \in 1 .. (Len(group) + n - 1) \div n |-> wrap(chunk(i))])

Simplify ==
    /\ pc = "encode" /\ job.mode = "simplify" /\ sel.batches = <<>>
    /\ IF ~job.allow /\ \E e \in Range(sel.elements) : Regression(ChangesOf(sel.elements, e))
       THEN Fail /\ UNCHANGED <<job, round, sel, out, stats>>
       ELSE \E s \in {Survivors(sel.elements)} :
              /\ out' = out \o Chunks(Group(s, "create"), "create") \o Chunks(Group(s, "modify"), "modify")
                            \o Chunks(Group(s, "delete"), "delete") \o Postlude
              /\ sel' = [AtDoc(out', "compact") EXCEPT !.written = Len(s)]
              /\ Goto("read") /\ UNCHANGED <<job, round, stats>>

Next ==
    \/ MergeChangesTo \/ LoadAllDiffs \/ WriteChanges \/ ReadEvent \/ EndOfInput
    \/ EncodeBatch \/ EndStream \/ RenderBatch \/ Simplify

-----------------------------------------------------------------------------
\* job.said is what the documents say, in the order they are given: the changes
\* with their contents; job.faulty, that one of them cannot be read.
Object(kind, id) == SelectSeq(job.said, LAMBDA c : c.kind = kind /\ c.id = id)
GoesBack == \E i, j \in DOMAIN job.said :
    /\ i < j /\ SameObject(job.said[i], job.said[j])
    /\ job.said[j].meta.version # -1 /\ job.said[j].meta.version < job.said[i].meta.version

\* Applying a merged, simplified, loaded or written change document does what
\* the documents it came from say, the last change of an object deciding, and
\* the call fails exactly when one of them cannot be read, goes back in an
\* object's version or the call itself is refused: through LexSink's batches,
\* ByteSink's escapes and sections, dedupe's groups and chunks, CompactSink's
\* arenas, interned strings and version floors, and SortedDiff's tables.
ChangesApplyTrue ==
    result # "running" =>
      LET refused == \/ Merging /\ (job.docs = <<>> \/ (job.mode = "stream" /\ ~job.scratch /\ Len(job.docs) > 1 /\ job.workers # 1))
                     \/ job.mode = "load" /\ job.entries # <<>> /\ \A i \in DOMAIN job.entries : job.entries[i].seq = -1
      IN /\ result = "ok" <=> ~(refused \/ job.faulty \/ (GoesBack /\ ~job.allow))
         /\ result = "ok" =>
              /\ Merging => sel.written = IF job.mode = "stream" THEN Len(job.said)
                                          ELSE Cardinality({<<job.said[i].kind, job.said[i].id>> : i \in DOMAIN job.said})
              /\ \A kind \in AllKinds : \A id \in {-1, 1, 2} :
                   LET table == KindTable(stats, kind)
                       said  == Object(kind, id)
                       last  == said[Len(said)]
                       at    == Find(table.ids, id)
                   IN IF said = <<>> THEN at = 0 /\ Find(table.deleted, id) = 0
                      ELSE IF last.action = "delete" THEN at = 0 /\ Find(table.deleted, id) # 0
                      ELSE /\ Find(table.deleted, id) = 0 /\ at # 0
                           /\ SortedRecord(stats, table, kind, at) = last.body
                           /\ at \in UpsertRange(table.ids, id, OsmIdKey(id))

-----------------------------------------------------------------------------
(* Small change documents for MergeChanges: three changes of one or two       *)
(* objects over two files, every kind of content and of unreadable content,   *)
(* and documents out of shape.                                                *)

Empty(name, at) == Event("empty", name, at)
Tag(k, v) == Empty("tag", [k |-> k, v |-> v])
Nd(ref) == Empty("nd", [ref |-> ref])
Body(lat, lon, tags, refs, members) == [lat |-> lat, lon |-> lon, tags |-> tags, refs |-> refs, members |-> members]
NoBody == Body(0, 0, <<>>, <<>>, <<>>)

\* What an element is written with, and the body it means.
Content(kind, at, kids, body, bad) == [kind |-> kind, at |-> at, kids |-> kids, body |-> body, bad |-> bad]
Plain == Content("node", [lat |-> 14, lon |-> -15], <<>>, Body(1, -2, <<>>, <<>>, <<>>), FALSE)
Contents ==
    {Plain,
     Content("node", [lat |-> -900, lon |-> 1800], <<Tag("line", "&#10;"), Tag("k", "")>>,
             Body(-90, 180, <<<<"space", "line">>, <<"k", "">>>>, <<>>, <<>>), FALSE),
     Content("way", NoAttrs, <<Tag("k", "v"), Nd(1), Empty("bounds", NoAttrs), Nd(2)>>, Body(0, 0, <<<<"k", "v">>>>, <<1, 2>>, <<>>), FALSE),
     Content("relation", NoAttrs,
             <<Empty("member", [type |-> "way", ref |-> 1, role |-> "&#10;"]), Tag("k", "k"), Empty("member", [type |-> "node", ref |-> 2])>>,
             Body(0, 0, <<<<"k", "k">>>>, <<>>, <<[ref |-> 1, kind |-> "way", role |-> "line"], [ref |-> 2, kind |-> "node", role |-> ""]>>), FALSE),
     Content("way", NoAttrs, <<Nd(Garbled)>>, NoBody, TRUE),
     Content("way", NoAttrs, <<Empty("member", [type |-> "way", ref |-> 1])>>, NoBody, TRUE),
     Content("relation", NoAttrs, <<Empty("member", [type |-> "changeset", ref |-> 1])>>, NoBody, TRUE),
     Content("relation", NoAttrs, <<Tag("&bad;", "v")>>, NoBody, TRUE)}
\* Coordinates matter only where the element is not deleted.
Unplaced == {Content("node", NoAttrs, <<>>, NoBody, TRUE), Content("node", [lat |-> 901, lon |-> 0], <<>>, NoBody, TRUE)}

Metas == {<<NoAttrs, [version |-> -1, visible |-> TRUE, user |-> ""], FALSE>>,
          <<[version |-> 1, user |-> "line"], [version |-> 1, visible |-> TRUE, user |-> "space"], FALSE>>,
          <<[version |-> 2, user |-> "", visible |-> "false"], [version |-> 2, visible |-> FALSE, user |-> ""], FALSE>>,
          <<[uid |-> Garbled], [version |-> -1, visible |-> TRUE, user |-> ""], TRUE>>,
          <<[version |-> Garbled], [version |-> -1, visible |-> TRUE, user |-> ""], TRUE>>}

Change(action, id, c, m) ==
    [action |-> action, kind |-> c.kind, id |-> id, meta |-> m[2], bad |-> m[3] \/ c.bad,
     xml |-> IF c.kids = <<>> THEN <<Empty(c.kind, [id |-> id] @@ c.at @@ m[1])>>
             ELSE <<Event("start", c.kind, [id |-> id] @@ c.at @@ m[1])>> \o c.kids \o <<End(c.kind)>>,
     body |-> [id |-> id, meta |-> m[2]] @@ c.body]
Sectioned(c) == <<Start(c.action)>> \o c.xml \o <<End(c.action)>>
Document(changes) == Prelude \o FlattenSeq([i \in DOMAIN changes |-> Sectioned(changes[i])]) \o Postlude
Told(changes) == [i \in DOMAIN changes |-> [f \in DOMAIN changes[i] \ {"xml"} |-> changes[i][f]]]
Bad(changes) == \E i \in DOMAIN changes : changes[i].bad

Call0 == [cmd |-> "osc", mode |-> "stream", docs |-> <<>>, entries |-> <<>>, items |-> <<>>, scratch |-> TRUE, workers |-> 2,
          target |-> 1, allow |-> FALSE, said |-> <<>>, faulty |-> FALSE]
Reads(mode, docs) ==
    IF mode = "load"
    THEN [Call0 EXCEPT !.mode = mode, !.entries = Reverse([i \in DOMAIN docs |-> [seq |-> i, doc |-> docs[i]]]) \o <<[seq |-> -1, doc |-> <<>>]>>]
    ELSE [Call0 EXCEPT !.mode = mode, !.docs = docs]

Versions == {<<NoAttrs, [version |-> -1, visible |-> TRUE, user |-> ""], FALSE>>}
    \cup {<<[version |-> v], [version |-> v, visible |-> TRUE, user |-> ""], FALSE>> : v \in {1, 2}}
Histories ==
    \E a \in [1 .. 3 -> {"create", "modify", "delete"}], v \in [1 .. 3 -> Versions], i \in {<<1, 1, 1>>, <<1, 2, 1>>, <<2, -1, 1>>},
       mode \in {"stream", "simplify", "load"}, allow \in BOOLEAN :
         /\ a[1] # "modify" /\ a[2] # "create"
         /\ allow => i = <<1, 1, 1>>
         /\ i = <<2, -1, 1>> => v[1] = v[2] /\ v[2] = v[3]
         /\ LET c(n) == Change(a[n], i[n], Plain, v[n]) IN
            job = [Reads(mode, <<Document(<<c(1), c(2)>>), Document(<<c(3)>>)>>)
                     EXCEPT !.said = Told(<<c(1), c(2), c(3)>>), !.allow = allow, !.target = 2]
Single ==
    \E action \in {"create", "delete"}, c \in Contents \cup Unplaced, m \in Metas, mode \in {"stream", "simplify", "load"} :
      LET x == Change(action, -1, c, m) IN
      job = [Reads(mode, <<Document(<<x>>)>>) EXCEPT !.said = Told(<<x>>),
               !.faulty = m[3] \/ (c.bad /\ ~(action = "delete" /\ c \in Unplaced))]
Shapes ==
    LET x == Change("create", 1, Plain, <<NoAttrs, [version |-> -1, visible |-> TRUE, user |-> ""], FALSE>>)
        w == Event("start", "way", [id |-> 1])
        none == <<>>  one == <<x>>
        good == Document(one)
        \* A document, what it says, and whether it is out of shape.
        docs == {<<SubSeq(good, 1, n), none, TRUE>> : n \in 0 .. Len(good) - 1}
          \cup {<<<<Empty("osmChange", NoAttrs)>>, none, FALSE>>, <<<<Empty("osm", NoAttrs)>>, none, TRUE>>,
                <<Prelude \o x.xml \o Postlude, none, TRUE>>, <<Prelude \o good \o Postlude, none, TRUE>>,
                <<good \o <<Empty("node", [id |-> 1])>>, one, TRUE>>,
                <<Prelude \o <<Empty("delete", NoAttrs), Empty("note", NoAttrs), Start("note"), End("note")>> \o Sectioned(x) \o Postlude, one, FALSE>>,
                <<Prelude \o <<Start("note"), Empty("b", NoAttrs), End("note")>> \o Postlude, none, TRUE>>,
                <<Prelude \o <<Start("create"), Empty("tag", NoAttrs), End("create")>> \o Postlude, none, TRUE>>,
                <<Prelude \o <<Start("create"), w, Event("start", "nd", [ref |-> 1]), Tag("k", "v"), End("nd"), End("way"), End("create")>> \o Postlude, none, TRUE>>,
                <<Prelude \o <<Start("delete"), w, Event("start", "nd", [ref |-> 1]), End("nd"), End("way"), End("delete")>> \o Postlude,
                  <<[x EXCEPT !.action = "delete", !.kind = "way"]>>, FALSE>>,
                <<Prelude \o <<Event("error", "", NoAttrs)>>, none, TRUE>>}
    IN \E d \in docs, mode \in {"stream", "simplify", "load"} :
         job = [Reads(mode, <<d[1]>>) EXCEPT !.said = Told(d[2]), !.faulty = d[3]]
Calls ==
    \/ \E mode \in {"stream", "simplify"}, docs \in {<<>>, <<Document(<<>>), Document(<<>>)>>}, scratch \in BOOLEAN, workers \in 1 .. 2 :
         job = [Reads(mode, docs) EXCEPT !.scratch = scratch, !.workers = workers]
    \/ \E entries \in {<<>>, <<[seq |-> -1, doc |-> <<>>]>>} : job = [Call0 EXCEPT !.mode = "load", !.entries = entries]
Items ==
    \E dense \in BOOLEAN, kind \in Range(Kinds), action \in {"create", "delete"}, member \in {"way", "odd"}, claims \in {NoAttrs, [version |-> 1, user |-> "line"], [uid |-> 3, user |-> ""]} :
      LET m == [version |-> IF "version" \in DOMAIN claims THEN 1 ELSE -1, visible |-> TRUE, user |-> IF "version" \in DOMAIN claims THEN "line" ELSE ""]
          b == [id |-> 1, lat |-> IF kind = "node" THEN 9 ELSE 0, lon |-> IF kind = "node" THEN -9 ELSE 0, tags |-> <<<<"line", "v">>>>,
                refs |-> IF kind = "way" THEN <<1, 1>> ELSE <<>>,
                members |-> IF kind = "relation" THEN <<[ref |-> 1, kind |-> member, role |-> "line"]>> ELSE <<>>]
      IN job = [Call0 EXCEPT !.mode = "write", !.items = <<b @@ [action |-> action, kind |-> kind, dense |-> dense, claims |-> claims]>>,
                  !.faulty = kind = "relation" /\ member = "odd" /\ action # "delete",
                  !.said = <<[action |-> action, kind |-> kind, id |-> 1, meta |-> m, bad |-> FALSE, body |-> b @@ [meta |-> m]]>>]

Worlds == Histories \/ Single \/ Shapes \/ Calls \/ Items
=============================================================================
