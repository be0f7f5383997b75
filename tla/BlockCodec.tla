----------------------------- MODULE BlockCodec -----------------------------
(* The block codec: what BlockBuilder writes (write/block_builder.rs,         *)
(* write/encode.rs, write/string_table.rs), how apply-changes copies and      *)
(* mixes elements into a builder (element_writes.rs), what a PrimitiveBlock   *)
(* accepts and yields (read/block.rs, read/wire.rs, read/dense.rs,            *)
(* read/elements.rs, owned.rs), and the readers that bypass it                *)
(* (read/columnar.rs, read/project_ids.rs, scan/node.rs, scan/way.rs).        *)
(*                                                                            *)
(* A message is a sequence of fields [f, w, v, sub]: a number, a wire type, a *)
(* packed array or a scalar (varints, as naturals), a submessage.  A string   *)
(* is a number, 0 the empty string.  A signed 64-bit integer has W64 bits     *)
(* here, a signed 32-bit one W32: both wrap.                                  *)
EXTENDS CommandState, TLC

W64 == 7
W32 == 5
Nano == 2       \* nanodegrees per decimicrodegree
Milli == 3      \* milliseconds per second
MaxU32 == 2 ^ W32 - 1
MaxI32 == 2 ^ (W32 - 1) - 1
MaxI64 == 2 ^ (W64 - 1) - 1
Torn == -1      \* an array that ends inside a varint
NotText == -2   \* bytes of a string table entry that are not UTF-8
Missing == -3   \* no such string

Wrap(n, w) == ((n + 2 ^ (w - 1)) % 2 ^ w) - 2 ^ (w - 1)
I64(n) == Wrap(n, W64)
I32(n) == Wrap(n, W32)
U64(x) == x % 2 ^ W64
Zig(x) == IF x >= 0 THEN 2 * x ELSE -2 * x - 1
Unzig(n) == IF n % 2 = 0 THEN n \div 2 ELSE -((n + 1) \div 2)
Quot(a, b) == IF a >= 0 THEN a \div b ELSE -((-a) \div b)

\* Deltas of a sequence as zigzag varints, and the running sums that undo them.
Deltas(s) == [i \in DOMAIN s |-> Zig(I64(s[i] - (IF i = 1 THEN 0 ELSE s[i - 1])))]
Sums(v, w) ==
    LET at[i \in 0 .. Len(v)] == IF i = 0 THEN 0 ELSE Wrap(at[i - 1] + Unzig(v[i]), w)
    IN [i \in DOMAIN v |-> at[i]]

-----------------------------------------------------------------------------
(* Fields: an empty array or message and a zero number are not written,       *)
(* except by the writers that always write.                                   *)

Field(f, w, v, sub) == [f |-> f, w |-> w, v |-> v, sub |-> sub]
Packed(f, v) == IF v = <<>> THEN <<>> ELSE <<Field(f, "len", v, <<>>)>>
Message(f, m) == IF m = <<>> THEN <<>> ELSE <<Field(f, "len", <<>>, m)>>
Varint(f, n) == <<Field(f, "varint", <<n>>, <<>>)>>
Int64Field(f, x) == IF x = 0 THEN <<>> ELSE Varint(f, U64(x))

-----------------------------------------------------------------------------
(* StringTable: the slots, the slots an equal string is found at, and the     *)
(* slot the last add returned.  Slot zero is never found: it delimits.        *)

NewTable == [slots |-> <<0>>, index |-> {}, at |-> 0]
Add(t, s) ==
    IF \E i \in t.index : t.slots[i + 1] = s
    THEN [t EXCEPT !.at = CHOOSE i \in t.index : t.slots[i + 1] = s]
    ELSE [slots |-> Append(t.slots, s), index |-> t.index \cup {Len(t.slots)}, at |-> Len(t.slots)]
\* pre_seed copies slot for slot; a repeated string is found at its first slot.
PreSeed(strings) ==
    [slots |-> strings, at |-> 0,
     index |-> {i \in 1 .. Len(strings) - 1 : \A j \in 1 .. i - 1 : strings[j + 1] # strings[i + 1]}]

-----------------------------------------------------------------------------
(* BlockBuilder. *)

NoMeta == [present |-> FALSE, version |-> 0, ts |-> 0, cs |-> 0, uid |-> 0, user |-> 0, sid |-> 0, visible |-> TRUE]
NoLast == [id |-> 0, lat |-> 0, lon |-> 0, ts |-> 0, cs |-> 0, uid |-> 0, user |-> 0]
NoDense == [ids |-> <<>>, lats |-> <<>>, lons |-> <<>>, kv |-> <<>>, versions |-> <<>>, ts |-> <<>>, cs |-> <<>>, uids |-> <<>>, users |-> <<>>, visible |-> <<>>]

NewBuilder(cap, poison) ==
    [st |-> NewTable, kind |-> "none", count |-> 0, cap |-> cap, min |-> MaxI64, max |-> -MaxI64 - 1,
     south |-> MaxI32, north |-> -MaxI32 - 1, west |-> MaxI32, east |-> -MaxI32 - 1,
     keys |-> {}, dense |-> NoDense, meta |-> FALSE, last |-> NoLast, group |-> <<>>,
     seeded |-> 0, poison |-> poison]
Reset(b) == NewBuilder(b.cap, b.poison)
Poison(b) == [b EXCEPT !.poison = TRUE]

ShouldFlush(b) == b.count >= b.cap
CanAdd(b, kind) == b.kind = "none" \/ (b.kind = kind /\ ~ShouldFlush(b))

Lower(a, x) == IF x < a THEN x ELSE a
Upper(a, x) == IF x > a THEN x ELSE a
\* track_id and the count, once an element is in.
Counted(b, kind, id) ==
    [b EXCEPT !.kind = kind, !.count = @ + 1, !.min = Lower(@, id), !.max = Upper(@, id)]
TrackCoords(b, lat, lon) ==
    [b EXCEPT !.south = Lower(@, lat), !.north = Upper(@, lat), !.west = Lower(@, lon), !.east = Upper(@, lon)]

\* encode_tags and the tag loop of add_node: keys and values as slots.
EncodeTags(table, tags) ==
    FoldLeft(LAMBDA a, t : LET k == Add(a.st, t[1]) IN
                           LET v == Add(k, t[2]) IN
                           [st |-> v, ks |-> Append(a.ks, k.at), vs |-> Append(a.vs, v.at)],
             [st |-> table, ks |-> <<>>, vs |-> <<>>], tags)
Interleaved(ks, vs) == FlattenSeq([i \in DOMAIN ks |-> <<ks[i], vs[i]>>])

\* add_dense_metadata (and _raw: the same with a slot of the source's table).
DenseMeta(d, last, m, sid) ==
    [d EXCEPT !.versions = Append(@, U64(m.version)),
              !.ts = Append(@, Zig(I64(m.ts - last.ts))), !.cs = Append(@, Zig(I64(m.cs - last.cs))),
              !.uids = Append(@, Zig(I32(m.uid - last.uid))), !.users = Append(@, Zig(I32(sid - last.user))),
              !.visible = Append(@, IF m.visible THEN 1 ELSE 0)]
Defaults(n) == [i \in 1 .. n |-> 0]
Backfilled(d, n) ==
    [d EXCEPT !.versions = Defaults(n), !.ts = Defaults(n), !.cs = Defaults(n), !.uids = Defaults(n),
              !.users = Defaults(n), !.visible = [i \in 1 .. n |-> 1]]

\* A node's metadata: the nodes before the first one that has some, and any
\* later one that has none, get defaults.
WithMeta(b, m, sid) ==
    IF ~m.present /\ ~b.meta THEN b
    ELSE LET d == IF b.meta \/ b.count = 0 THEN b.dense ELSE Backfilled(b.dense, b.count)
             given == IF m.present THEN m ELSE NoMeta
             at == IF m.present THEN sid ELSE 0
         IN [b EXCEPT !.meta = TRUE, !.dense = DenseMeta(d, b.last, given, at),
                      !.last = [@ EXCEPT !.ts = given.ts, !.cs = given.cs, !.uid = given.uid, !.user = at]]

\* What add_node and add_node_raw push for a node, its tags as slots.
PushNode(b, e, ks, vs) ==
    LET pushed == [b EXCEPT !.dense.ids = Append(@, Zig(I64(e.id - b.last.id))),
                            !.dense.lats = Append(@, Zig(I64(e.lat - b.last.lat))),
                            !.dense.lons = Append(@, Zig(I64(e.lon - b.last.lon))),
                            !.dense.kv = @ \o Interleaved(ks, vs) \o <<0>>,
                            !.last = [@ EXCEPT !.id = e.id, !.lat = e.lat, !.lon = e.lon],
                            !.keys = @ \cup Range(ks)]
    IN TrackCoords(pushed, e.lat, e.lon)

AddNode(b, e) ==
    IF ~CanAdd(b, "node") THEN Poison(b)
    ELSE LET t == EncodeTags(b.st, e.tags)
             st == IF e.meta.present THEN Add(t.st, e.meta.user) ELSE t.st
         IN Counted(WithMeta(PushNode([b EXCEPT !.st = st], e, t.ks, t.vs), e.meta, st.at), "node", e.id)

\* encode_info_to: the numbers always, visible only when false.
EncodeInfo(m, sid) ==
    Varint(1, U64(m.version)) \o Varint(2, U64(m.ts)) \o Varint(3, U64(m.cs)) \o Varint(4, U64(m.uid))
       \o Varint(5, sid) \o (IF m.visible THEN <<>> ELSE Varint(6, 0))
Tagged(e, t, st) ==
    Int64Field(1, e.id) \o Packed(2, t.ks) \o Packed(3, t.vs)
       \o (IF e.meta.present THEN Message(4, EncodeInfo(e.meta, st.at)) ELSE <<>>)
Pushed(b, kind, f, e, st, ks, m) ==
    Counted([b EXCEPT !.st = st, !.keys = @ \cup Range(ks), !.group = @ \o Message(f, m)], kind, e.id)

EncodeWay(b, e, t, st) ==
    Pushed(b, "way", 3, e, st, t.ks,
           Tagged(e, t, st) \o Packed(8, Deltas(e.refs))
              \o (IF e.located THEN Packed(9, Deltas([i \in DOMAIN e.locs |-> e.locs[i][1]]))
                                       \o Packed(10, Deltas([i \in DOMAIN e.locs |-> e.locs[i][2]]))
                  ELSE <<>>))
\* add_way and add_way_with_locations.
AddWay(b, e) ==
    IF (e.located /\ Len(e.refs) # Len(e.locs)) \/ ~CanAdd(b, "way") THEN Poison(b)
    ELSE LET t == EncodeTags(b.st, e.tags)
         IN EncodeWay(b, e, t, IF e.meta.present THEN Add(t.st, e.meta.user) ELSE t.st)

MemberTypes == 0 .. 2
Roles(table, members) ==
    FoldLeft(LAMBDA a, m : LET r == Add(a.st, m.role) IN [st |-> r, sids |-> Append(a.sids, r.at)],
             [st |-> table, sids |-> <<>>], members)
EncodeRelation(b, e, t, st, roles) ==
    Pushed(b, "relation", 4, e, roles.st, t.ks,
           Tagged(e, t, st) \o Packed(8, roles.sids)
              \o Packed(9, Deltas([i \in DOMAIN e.members |-> e.members[i].id]))
              \o Packed(10, [i \in DOMAIN e.members |-> e.members[i].type]))
\* A member of an unknown type would be written as a node: refused.
AddRelation(b, e) ==
    IF (\E m \in Range(e.members) : m.type \notin MemberTypes) \/ ~CanAdd(b, "relation") THEN Poison(b)
    ELSE LET t == EncodeTags(b.st, e.tags) IN
         LET st == IF e.meta.present THEN Add(t.st, e.meta.user) ELSE t.st
         IN EncodeRelation(b, e, t, st, Roles(st, e.members))

AddElement(b, e) ==
    CASE e.kind = "node" -> AddNode(b, e)
      [] e.kind = "way" -> AddWay(b, e)
      [] e.kind = "relation" -> AddRelation(b, e)

\* encode_dense_nodes_group.
DenseGroup(d, meta) ==
    <<Field(2, "len", <<>>,
        Packed(1, d.ids)
          \o (IF meta THEN Message(5, Packed(1, d.versions) \o Packed(2, d.ts) \o Packed(3, d.cs)
                                        \o Packed(4, d.uids) \o Packed(5, d.users) \o Packed(6, d.visible))
              ELSE <<>>)
          \o Packed(8, d.lats) \o Packed(9, d.lons) \o Packed(10, d.kv))>>

\* encode_tag_index: sorted keys, none of them twice; else nothing is written.
TagIndex(keys) == IF keys = <<>> \/ \E i \in 2 .. Len(keys) : keys[i - 1] >= keys[i] THEN <<>> ELSE keys
SortedKeys(b) == SortSeq([i \in 1 .. Cardinality(b.keys) |-> b.st.slots[SetToSeq(b.keys)[i] + 1]], LAMBDA x, y : x < y)
Dedup(keys) == SelectSeq([i \in DOMAIN keys |-> IF i > 1 /\ keys[i - 1] = keys[i] THEN Missing ELSE keys[i]], LAMBDA k : k # Missing)

\* encode_block, for a builder that is not poisoned and holds elements.
Encoded(b) ==
    [st |-> b.st.slots, scalars |-> <<>>,
     groups |-> IF b.kind = "node" THEN <<DenseGroup(b.dense, b.meta)>>
                ELSE IF b.group = <<>> THEN <<>> ELSE <<b.group>>,
     index |-> [kind |-> b.kind, min |-> b.min, max |-> b.max, count |-> b.count,
                bbox |-> IF b.kind = "node" THEN <<b.south, b.north, b.west, b.east>> ELSE <<>>],
     tagdata |-> TagIndex(IF b.seeded > 0 THEN Dedup(SortedKeys(b)) ELSE SortedKeys(b))]

-----------------------------------------------------------------------------
(* Wire messages: which fields a message keeps as numbers, as packed arrays   *)
(* and as its one submessage; every other field is skipped.                   *)

WireNode == [scalar |-> {1, 8, 9}, packed |-> {2, 3}, msg |-> 4]
WireWay == [scalar |-> {1}, packed |-> {2, 3, 8, 9, 10}, msg |-> 4]
WireRelation == [scalar |-> {1}, packed |-> {2, 3, 8, 9, 10}, msg |-> 4]
WireDenseNodes == [scalar |-> {}, packed |-> {1, 8, 9, 10}, msg |-> 5]
WireDenseInfo == [scalar |-> {}, packed |-> 1 .. 6, msg |-> 0]
WireInfo == [scalar |-> 1 .. 6, packed |-> {}, msg |-> 0]

Blank == [err |-> FALSE, has |-> {}, num |-> [f \in 1 .. 10 |-> 0], pk |-> [f \in 1 .. 10 |-> <<>>], info |-> FALSE, sub |-> <<>>]

\* take_packed: an empty occurrence says nothing, a second one is refused.
TakePacked(a, x) ==
    IF x.v = <<>> THEN a
    ELSE IF a.pk[x.f] # <<>> THEN [a EXCEPT !.err = TRUE]
    ELSE [a EXCEPT !.pk[x.f] = x.v]
\* take_message: the same for the submessage, which an empty one makes present.
TakeMessage(a, x) ==
    IF a.sub = <<>> THEN [a EXCEPT !.info = TRUE, !.sub = x.sub]
    ELSE IF x.sub = <<>> THEN a
    ELSE [a EXCEPT !.err = TRUE]
TakeField(schema, a, x) ==
    IF a.err \/ x.w = "torn" THEN [a EXCEPT !.err = TRUE]
    ELSE IF x.f \in schema.packed THEN TakePacked(a, x)
    ELSE IF x.f \in schema.scalar /\ x.w = "varint" THEN [a EXCEPT !.num[x.f] = x.v[1], !.has = @ \cup {x.f}]
    ELSE IF x.f = schema.msg /\ x.w = "len" THEN TakeMessage(a, x)
    ELSE a
Parse(schema, m) == FoldLeft(LAMBDA a, x : TakeField(schema, a, x), Blank, m)

\* WireInfo::parse: a version or a changeset of minus one is absent.
Unsaid(p) == {f \in {1} : I32(p.num[f]) = -1} \cup {f \in {3} : I64(p.num[f]) = -1}
ParseInfo(m) == LET p == Parse(WireInfo, m) IN [p EXCEPT !.has = @ \ Unsaid(p)]

\* WireGroup: the messages of a group by field.
Messages(g, f) == SelectSeq(g, LAMBDA x : x.f = f /\ x.w = "len")
Parsed(messages, schema) == [i \in DOMAIN messages |-> Parse(schema, messages[i].sub)]
Group(g) ==
    [fields |-> g, nodes |-> Parsed(Messages(g, 1), WireNode), dense |-> Parsed(Messages(g, 2), WireDenseNodes),
     ways |-> Parsed(Messages(g, 3), WireWay), relations |-> Parsed(Messages(g, 4), WireRelation)]

\* scan_block_fields: the last occurrence of a scalar counts; the two
\* granularities must fit an int32.
DefaultScale == [gran |-> Nano, lat |-> 0, lon |-> 0, date |-> Milli, err |-> FALSE]
ScaleField(a, x) ==
    CASE x.f \in {17, 18} /\ (I64(x.v[1]) > MaxI32 \/ I64(x.v[1]) < -MaxI32 - 1) -> [a EXCEPT !.err = TRUE]
      [] x.f = 17 -> [a EXCEPT !.gran = I64(x.v[1])]
      [] x.f = 18 -> [a EXCEPT !.date = I64(x.v[1])]
      [] x.f = 19 -> [a EXCEPT !.lat = I64(x.v[1])]
      [] x.f = 20 -> [a EXCEPT !.lon = I64(x.v[1])]
      [] OTHER -> a
Scale(scalars) == FoldLeft(ScaleField, DefaultScale, scalars)
\* A block as its readers see it: strings, scale, parsed groups.
Open(b) == [st |-> b.st, s |-> Scale(b.scalars), groups |-> [i \in DOMAIN b.groups |-> Group(b.groups[i])]]

-----------------------------------------------------------------------------
(* validate_block: what must hold before a PrimitiveBlock exists.             *)

Whole(v) == Torn \notin Range(v)
TagArraysOK(p) ==
    /\ \A f \in {2, 3} : Whole(p.pk[f]) /\ \A s \in Range(p.pk[f]) : s <= MaxU32
    /\ Len(p.pk[2]) = Len(p.pk[3])
InfoOK(p) == p.info => ~ParseInfo(p.sub).err
TaggedOK(p) == ~p.err /\ InfoOK(p) /\ TagArraysOK(p)
WayGeometryOK(p) ==
    /\ \A f \in 8 .. 10 : Whole(p.pk[f])
    /\ (p.pk[9] # <<>> \/ p.pk[10] # <<>>) => Len(p.pk[8]) = Len(p.pk[9]) /\ Len(p.pk[9]) = Len(p.pk[10])
MemberArraysOK(p) ==
    /\ \A f \in 8 .. 10 : Whole(p.pk[f])
    /\ Len(p.pk[8]) = Len(p.pk[9]) /\ Len(p.pk[9]) = Len(p.pk[10])

\* validate_dense_keys_vals walks the keys: a zero ends a run, anything else
\* needs a value.
RECURSIVE RunsFrom(_, _, _)
RunsFrom(kv, i, in_run) ==
    IF i > Len(kv) THEN IF in_run THEN 1 ELSE 0
    ELSE IF kv[i] = Torn \/ kv[i] > MaxI32 THEN -MaxI64
    ELSE IF kv[i] = 0 THEN 1 + RunsFrom(kv, i + 1, FALSE)
    ELSE IF i = Len(kv) \/ kv[i + 1] = Torn \/ kv[i + 1] > MaxI32 THEN -MaxI64
    ELSE RunsFrom(kv, i + 2, TRUE)
DenseKeysValsOK(kv, n) == kv = <<>> \/ RunsFrom(kv, 1, FALSE) = n
DenseInfoOK(m, n) ==
    LET p == Parse(WireDenseInfo, m)
        core == {f \in 1 .. 5 : p.pk[f] # <<>>}
    IN /\ ~p.err
       /\ \A f \in 1 .. 6 : Whole(p.pk[f]) /\ Len(p.pk[f]) \in {0, n}
       /\ core \in {{}, 1 .. 5}
       /\ core = {} => p.pk[6] = <<>>
DenseOK(p) ==
    /\ ~p.err /\ \A f \in {1, 8, 9} : Whole(p.pk[f]) /\ Len(p.pk[f]) = Len(p.pk[1])
    /\ DenseKeysValsOK(p.pk[10], Len(p.pk[1]))
    /\ p.info => DenseInfoOK(p.sub, Len(p.pk[1]))

ValidateGroup(g) ==
    /\ \A x \in Range(g.fields) : x.w # "torn"
    /\ \A p \in Range(g.nodes) : TaggedOK(p)
    /\ \A p \in Range(g.ways) : TaggedOK(p) /\ WayGeometryOK(p)
    /\ \A p \in Range(g.relations) : TaggedOK(p) /\ MemberArraysOK(p)
    /\ Len(g.dense) <= 1 /\ \A p \in Range(g.dense) : DenseOK(p)
GroupCount(g) ==
    [node |-> Len(g.nodes) + (IF g.dense = <<>> THEN 0 ELSE Len(g.dense[1].pk[1])),
     way |-> Len(g.ways), relation |-> Len(g.relations)]
BlockKinds(b) == {kind \in AllKinds : \E g \in Range(b.groups) : GroupCount(g)[kind] > 0}
ElementCount(b) == FoldLeft(LAMBDA a, g : LET n == GroupCount(g) IN a + n.node + n.way + n.relation, 0, b.groups)
\* KindSet::refuse_under: no kind but the one the blob's index claims.
RefuseUnder(kinds, claim) == claim # "none" /\ \E k \in kinds : k # claim
ValidateBlock(b, claim) ==
    /\ ~b.s.err
    /\ \A g \in Range(b.groups) : ValidateGroup(g)
    /\ NotText \notin Range(b.st)
    /\ ~RefuseUnder(BlockKinds(b), claim)
\* classify_group looks at the first field of a group only; block_type says
\* "mixed" as soon as two groups differ.
ClassifyGroup(g) ==
    IF g.fields = <<>> THEN "empty"
    ELSE IF g.fields[1].w # "len" \/ g.fields[1].f \notin 1 .. 4 THEN "mixed"
    ELSE <<"nodes", "dense", "ways", "relations">>[g.fields[1].f]
BlockType(b) ==
    LET types == {ClassifyGroup(g) : g \in Range(b.groups)} \ {"empty"}
    IN IF types = {} THEN "empty" ELSE IF Cardinality(types) > 1 THEN "mixed" ELSE CHOOSE t \in types : TRUE

-----------------------------------------------------------------------------
(* Reading a validated block: the elements as the accessors give them.        *)

Str(b, i) == IF i + 1 \in DOMAIN b.st THEN b.st[i + 1] ELSE Missing
\* tags(): up to the first pair with a string the table does not have;
\* tags_checked() fails there.
Pairs(ks, vs) == [i \in DOMAIN ks |-> <<ks[i], vs[i]>>]
Unresolved(b, pairs) == {i \in DOMAIN pairs : Str(b, pairs[i][1]) = Missing \/ Str(b, pairs[i][2]) = Missing}
Tags(b, pairs) ==
    LET n == IF Unresolved(b, pairs) = {} THEN Len(pairs) ELSE Min(Unresolved(b, pairs)) - 1
    IN [i \in 1 .. n |-> <<Str(b, pairs[i][1]), Str(b, pairs[i][2])>>]

\* The accessors' coordinates wrap where scale_to_decimicro refuses.
NanoOf(off, gran, raw) == I64(off + I64(gran * raw))
Decimicro(off, gran, raw) == I32(Quot(NanoOf(off, gran, raw), Nano))
Seconds(date, ts) == Quot(I64(ts * date), Milli)

MetaOf(b, version, ts, cs, uid, sid, visible) ==
    [present |-> TRUE, version |-> version, ts |-> ts, cs |-> IF cs = -1 THEN 0 ELSE cs, uid |-> uid,
     sid |-> sid, user |-> IF sid < 0 THEN Missing ELSE Str(b, sid), visible |-> visible]
\* element_metadata: nothing without a version.
Said(p, f) == IF f \in p.has THEN p.num[f] ELSE 0
InfoMeta(b, p) ==
    IF 1 \notin p.has THEN NoMeta
    ELSE [MetaOf(b, I32(p.num[1]), Seconds(b.s.date, I64(Said(p, 2))), I64(Said(p, 3)), I32(Said(p, 4)),
                 I32(Said(p, 5)), 6 \in p.has => p.num[6] # 0)
          EXCEPT !.user = IF 5 \in p.has THEN @ ELSE 0]
ElementMeta(b, p) == IF p.info THEN InfoMeta(b, ParseInfo(p.sub)) ELSE NoMeta
\* DenseNodeInfoIter and dense_node_metadata: columns of running sums; a
\* version of minus one says there is none.
DenseMetas(b, q, n) ==
    LET ts == Sums(q.pk[2], W64)  cs == Sums(q.pk[3], W64)  uids == Sums(q.pk[4], W32)  users == Sums(q.pk[5], W32)
    IN [i \in 1 .. n |->
          IF i \notin DOMAIN q.pk[1] \/ I32(q.pk[1][i]) = -1 THEN NoMeta
          ELSE MetaOf(b, I32(q.pk[1][i]), Seconds(b.s.date, ts[i]), cs[i], uids[i], users[i],
                      i \in DOMAIN q.pk[6] => q.pk[6][i] # 0)]

Item(kind, shape, id, lat, lon, pairs, meta, p) ==
    [kind |-> kind, shape |-> shape, id |-> id, lat |-> lat, lon |-> lon, pairs |-> pairs, meta |-> meta, p |-> p]

\* DenseNodeIter: the tags of the next node end at a zero key or the end.
RunEnd(kv, i) == Min({j \in i .. Len(kv) : (j - i) % 2 = 0 /\ kv[j] = 0} \cup {Len(kv) + 1})
RunStarts(kv, n) ==
    LET at[i \in 1 .. n + 1] == IF i = 1 THEN 1 ELSE IF at[i - 1] > Len(kv) THEN at[i - 1] ELSE RunEnd(kv, at[i - 1]) + 1
    IN at
Run(kv, i) == IF i > Len(kv) THEN <<>> ELSE [j \in 1 .. (RunEnd(kv, i) - i) \div 2 |-> <<kv[i + 2 * j - 2], kv[i + 2 * j - 1]>>]
DenseItems(b, s, p) ==
    LET n == Len(p.pk[1])
        ids == Sums(p.pk[1], W64)  lats == Sums(p.pk[8], W64)  lons == Sums(p.pk[9], W64)
        starts == RunStarts(p.pk[10], n)
        metas == IF p.info THEN DenseMetas(b, Parse(WireDenseInfo, p.sub), n) ELSE [i \in 1 .. n |-> NoMeta]
    IN [i \in 1 .. n |-> Item("node", "dense", ids[i], Decimicro(s.lat, s.gran, lats[i]), Decimicro(s.lon, s.gran, lons[i]),
                              Run(p.pk[10], starts[i]), metas[i], p)]
NodeItem(b, s, p) ==
    Item("node", "plain", Unzig(p.num[1]), Decimicro(s.lat, s.gran, Unzig(p.num[8])), Decimicro(s.lon, s.gran, Unzig(p.num[9])),
         Pairs(p.pk[2], p.pk[3]), ElementMeta(b, p), p)
TaggedItem(b, kind, p) == Item(kind, kind, I64(p.num[1]), 0, 0, Pairs(p.pk[2], p.pk[3]), ElementMeta(b, p), p)

DensePart(b, g) == FlattenSeq([i \in DOMAIN g.dense |-> DenseItems(b, b.s, g.dense[i])])
NodePart(b, g) == [i \in DOMAIN g.nodes |-> NodeItem(b, b.s, g.nodes[i])]
TaggedPart(b, kind, ps) == [i \in DOMAIN ps |-> TaggedItem(b, kind, ps[i])]
\* elements() yields a group's dense nodes first, for_each_element its plain ones.
ElementsOf(b) ==
    FlattenSeq([i \in DOMAIN b.groups |->
        LET g == b.groups[i] IN DensePart(b, g) \o NodePart(b, g) \o TaggedPart(b, "way", g.ways) \o TaggedPart(b, "relation", g.relations)])
ForEachElement(b) ==
    FlattenSeq([i \in DOMAIN b.groups |->
        LET g == b.groups[i] IN NodePart(b, g) \o DensePart(b, g) \o TaggedPart(b, "way", g.ways) \o TaggedPart(b, "relation", g.relations)])

\* Way::refs, node_locations and Relation::members.
Refs(p) == Sums(p.pk[8], W64)
Locations(s, p) ==
    LET lats == Sums(p.pk[9], W64)  lons == Sums(p.pk[10], W64)
    IN [i \in DOMAIN lats |-> <<Decimicro(s.lat, s.gran, lats[i]), Decimicro(s.lon, s.gran, lons[i])>>]
RoleOf(b, sid) == IF sid < 0 THEN Missing ELSE Str(b, sid)
Members(b, p) ==
    LET ids == Sums(p.pk[9], W64)
    IN [i \in DOMAIN ids |-> [id |-> ids[i], type |-> I32(p.pk[10][i]), role |-> RoleOf(b, I32(p.pk[8][i]))]]

\* owned.rs: an element on its own; a missing user or role is an error.
Owned(b, x) ==
    [kind |-> x.kind, id |-> x.id, lat |-> x.lat, lon |-> x.lon, tags |-> Tags(b, x.pairs), meta |-> [x.meta EXCEPT !.sid = 0],
     refs |-> IF x.kind = "way" THEN Refs(x.p) ELSE <<>>,
     located |-> x.kind = "way" /\ x.p.pk[9] # <<>>,
     locs |-> IF x.kind = "way" THEN Locations(b.s, x.p) ELSE <<>>,
     members |-> IF x.kind = "relation" THEN Members(b, x.p) ELSE <<>>]
ReadFails(e) == e.meta.user = Missing \/ \E m \in Range(e.members) : m.role = Missing

\* arrays_end_together and validated: where an iterator over an accepted block
\* would panic.
Together(p, fs) == \A f \in fs : Whole(p.pk[f]) /\ \A h \in fs : Len(p.pk[f]) = Len(p.pk[h])
KeyWithoutValue(kv, n) ==
    \E i \in 1 .. n : LET at == RunStarts(kv, n)[i] IN at <= Len(kv) /\ RunEnd(kv, at) > Len(kv) /\ (Len(kv) + 1 - at) % 2 = 1
Panics(p, shape) ==
    CASE shape = "dense" -> p.err \/ ~Together(p, {1, 8, 9}) \/ (p.info /\ Parse(WireDenseInfo, p.sub).err)
                              \/ ~Whole(p.pk[10]) \/ KeyWithoutValue(p.pk[10], Len(p.pk[1]))
      [] shape = "plain" -> p.err \/ ~Together(p, {2, 3}) \/ (p.info /\ ParseInfo(p.sub).err)
      [] shape = "way" -> p.err \/ ~Together(p, {2, 3}) \/ ~Together(p, {9, 10}) \/ (p.info /\ ParseInfo(p.sub).err)
      [] shape = "relation" -> p.err \/ ~Together(p, {2, 3}) \/ ~Together(p, {8, 9, 10}) \/ (p.info /\ ParseInfo(p.sub).err)

-----------------------------------------------------------------------------
(* The readers beside it. *)

\* KindIds: the IDs of the kinds asked for, plain nodes after the dense ones.
KindIds(b, kinds) ==
    LET tagged(k, ps) == IF k \in kinds THEN [i \in DOMAIN ps |-> <<k, I64(ps[i].num[1])>>] ELSE <<>>
        dense(g) == FlattenSeq([i \in DOMAIN g.dense |-> Sums(g.dense[i].pk[1], W64)])
        nodes(g) == dense(g) \o [i \in DOMAIN g.nodes |-> Unzig(g.nodes[i].num[1])]
    IN FlattenSeq([i \in DOMAIN b.groups |->
         LET g == b.groups[i] IN
         tagged("way", g.ways) \o tagged("relation", g.relations)
           \o (IF "node" \in kinds THEN [j \in DOMAIN nodes(g) |-> <<"node", nodes(g)[j]>>] ELSE <<>>)])

\* decode_dense_columns: three columns, as long as the shortest.
DenseColumns(b) ==
    LET s == b.s
        column(f, value(_)) == FlattenSeq([i \in DOMAIN b.groups |->
            FlattenSeq([j \in DOMAIN b.groups[i].dense |->
                LET at == Sums(b.groups[i].dense[j].pk[f], W64) IN [k \in DOMAIN at |-> value(at[k])]])])
        ids == column(1, LAMBDA x : x)
        lats == column(8, LAMBDA x : Decimicro(s.lat, s.gran, x))
        lons == column(9, LAMBDA x : Decimicro(s.lon, s.gran, x))
    IN [i \in 1 .. Min({Len(ids), Len(lats), Len(lons)}) |-> <<ids[i], lats[i], lons[i]>>]

\* extract_node_coords: exact coordinates, or an error when one does not fit.
Exact(off, gran, raw) == Quot(off + gran * raw, Nano)
Fits(x) == -MaxI32 - 1 <= x /\ x <= MaxI32
ScanDense(s, p) ==
    LET ids == Sums(p.pk[1], W64)  lats == Sums(p.pk[8], W64)  lons == Sums(p.pk[9], W64)
    IN [i \in DOMAIN ids |-> <<ids[i], Exact(s.lat, s.gran, lats[i]), Exact(s.lon, s.gran, lons[i])>>]
NodeTuples(b) ==
    LET s == b.s IN
    FlattenSeq([i \in DOMAIN b.groups |->
        LET g == b.groups[i] IN
        FlattenSeq([j \in DOMAIN g.dense |-> ScanDense(s, g.dense[j])])
          \o [j \in DOMAIN g.nodes |->
                 LET p == g.nodes[j] IN
                 <<Unzig(p.num[1]), Exact(s.lat, s.gran, Unzig(p.num[8])), Exact(s.lon, s.gran, Unzig(p.num[9]))>>]])
TooFar(tuples) == \E t \in Range(tuples) : ~Fits(t[2]) \/ ~Fits(t[3])
NodeScanFails(b, tuples) ==
    \/ b.s.err
    \/ \E g \in Range(b.groups) :
          \/ \E x \in Range(g.fields) : x.w = "torn"
          \/ Len(g.dense) > 1
          \/ \E p \in Range(g.dense) : p.err \/ ~Together(p, {1, 8, 9})
          \/ \E p \in Range(g.nodes) : p.err
    \/ TooFar(tuples)

\* scan_way_refs.
WayRefs(b) ==
    FlattenSeq([i \in DOMAIN b.groups |->
        LET ways == b.groups[i].ways IN [j \in DOMAIN ways |-> <<I64(ways[j].num[1]), Sums(ways[j].pk[8], W64)>>]])
WayScanFails(b) ==
    \E g \in Range(b.groups) :
       \/ \E x \in Range(g.fields) : x.w = "torn"
       \/ \E p \in Range(g.dense) : p.err
       \/ \E p \in Range(g.ways) : p.err \/ ~Whole(p.pk[8])

-----------------------------------------------------------------------------
(* Elements copied by their string indices into a builder that was seeded     *)
(* with their block's string table.  A step is [b, out, err].                 *)

Step(b, o, err) == [b |-> b, out |-> o, err |-> err]
\* take_owned and flush: a poisoned builder never gives a block again.
Flush(r) ==
    IF r.err \/ r.b.poison THEN [r EXCEPT !.err = TRUE]
    ELSE Step(Reset(r.b), IF r.b.kind = "none" THEN r.out ELSE Append(r.out, Encoded(r.b)), FALSE)
EnsureCapacity(r, kind) == IF CanAdd(r.b, kind) THEN r ELSE Flush(r)
Seed(r, src) ==
    IF r.err \/ r.b.kind # "none" \/ Str(src, 0) # 0 THEN [r EXCEPT !.err = TRUE]
    ELSE [r EXCEPT !.b = [Reset(r.b) EXCEPT !.st = PreSeed(src.st), !.seeded = Len(src.st)]]
SeedForBase(r, src) == IF r.err \/ r.b.seeded > 0 THEN r ELSE Seed(Flush(r), src)

SidIn(sid, seeded) == 0 <= sid /\ sid < seeded
\* A bad index poisons the builder and is reported.
RefuseRawIndex(r) == [r EXCEPT !.b = Poison(@), !.err = TRUE]

\* A key with index zero would end the node's tags: it is interned anew.
AddNodeRaw(r, x) ==
    IF r.err \/ ~CanAdd(r.b, "node") \/ r.b.seeded = 0 THEN [r EXCEPT !.err = TRUE]
    ELSE IF \/ x.meta.present /\ ~SidIn(x.meta.sid, r.b.seeded)
            \/ \E t \in Range(x.pairs) : ~SidIn(t[1], r.b.seeded) \/ ~SidIn(t[2], r.b.seeded)
         THEN RefuseRawIndex(r)
    ELSE LET st == IF \E t \in Range(x.pairs) : t[1] = 0 THEN Add(r.b.st, 0) ELSE r.b.st
             ks == [i \in DOMAIN x.pairs |-> IF x.pairs[i][1] = 0 THEN st.at ELSE x.pairs[i][1]]
             vs == [i \in DOMAIN x.pairs |-> x.pairs[i][2]]
         IN [r EXCEPT !.b = Counted(WithMeta(PushNode([@ EXCEPT !.st = st], x, ks, vs), x.meta, x.meta.sid), "node", x.id)]

\* check_raw_strings: values, roles, the user, then the keys.
RawStringsOK(b, p, roles, info) ==
    /\ b.seeded > 0
    /\ \A s \in Range(p.pk[3]) \cup Range(p.pk[2]) : SidIn(s, b.seeded)
    /\ \A s \in Range(roles) : SidIn(I32(s), b.seeded)
    /\ p.info => LET q == ParseInfo(info) IN 5 \in q.has => SidIn(I32(q.num[5]), b.seeded)
RawMessage(x, info, a8, a9, a10) ==
    Int64Field(1, x.id) \o Packed(2, x.p.pk[2]) \o Packed(3, x.p.pk[3]) \o (IF x.p.info THEN Message(4, info) ELSE <<>>)
      \o Packed(8, a8) \o Packed(9, a9) \o Packed(10, a10)
AddRawBytes(r, x, f, roles, info, m) ==
    IF r.err \/ ~CanAdd(r.b, x.kind) THEN [r EXCEPT !.err = TRUE]
    ELSE IF ~RawStringsOK(r.b, x.p, roles, info) THEN RefuseRawIndex(r)
    ELSE [r EXCEPT !.b = Pushed(@, x.kind, f, x, @.st, x.p.pk[2], m)]

\* output_info: the timestamp in seconds, whatever the block's granularity.
OutputInfo(date, m) ==
    IF date = Milli THEN m
    ELSE [i \in DOMAIN m |-> IF m[i].f = 2 /\ m[i].w = "varint" THEN [m[i] EXCEPT !.v = <<U64(Seconds(date, I64(m[i].v[1])))>>] ELSE m[i]]
\* refreshed_locations without a stale ref: the locations in the default
\* framing, and an error when one does not fit.
Reframed(off, gran, v) == LET at == Sums(v, W64) IN [i \in DOMAIN at |-> Exact(off, gran, at[i])]
DefaultFraming(s) == s.gran = Nano /\ s.lat = 0 /\ s.lon = 0
BaseWay(r, s, x, info, keep) ==
    IF ~keep THEN AddRawBytes(r, x, 3, <<>>, info, RawMessage(x, info, x.p.pk[8], <<>>, <<>>))
    ELSE IF x.p.pk[9] = <<>> \/ DefaultFraming(s)
         THEN AddRawBytes(r, x, 3, <<>>, info, RawMessage(x, info, x.p.pk[8], x.p.pk[9], x.p.pk[10]))
    ELSE LET lats == Reframed(s.lat, s.gran, x.p.pk[9])  lons == Reframed(s.lon, s.gran, x.p.pk[10])
         IN IF \E c \in Range(lats) \cup Range(lons) : ~Fits(c) THEN [r EXCEPT !.err = TRUE]
            ELSE AddRawBytes(r, x, 3, <<>>, info, RawMessage(x, info, x.p.pk[8], Deltas(lats), Deltas(lons)))
BaseRelation(r, x, info) ==
    AddRawBytes(r, x, 4, x.p.pk[8], info, RawMessage(x, info, x.p.pk[8], x.p.pk[9], x.p.pk[10]))
BaseElement(r, src, x, keep) ==
    CASE x.kind = "node" -> AddNodeRaw(r, x)
      [] x.kind = "way" -> BaseWay(r, src.s, x, OutputInfo(src.s.date, x.p.sub), keep)
      [] x.kind = "relation" -> BaseRelation(r, x, OutputInfo(src.s.date, x.p.sub))
WriteBase(r, src, x, keep) == BaseElement(SeedForBase(EnsureCapacity(r, x.kind), src), src, x, keep)
\* The change's elements, and the owned elements of the other commands; an
\* "add" is a caller of the public builder that does not ask first.
WriteOwned(r, e) == IF r.err THEN r ELSE [r EXCEPT !.b = AddElement(@, e)]
Write(r, src, w, keep) ==
    CASE w.how = "base" -> WriteBase(r, src, ElementsOf(src)[w.at], keep)
      [] w.how = "osc" -> WriteOwned(EnsureCapacity(r, w.e.kind), w.e)
      [] w.how = "add" -> WriteOwned(r, w.e)

\* A worker's tasks, one after the other on one builder: round is the task,
\* stats.at the write it is at, sel the builder, out the blocks.
Task == job.tasks[round]
Became(r) == sel' = r.b /\ out' = r.out
BeginTask ==
    /\ pc = "enter"
    /\ IF round = Len(job.tasks) THEN Done /\ UNCHANGED <<job, round, sel, out, stats>>
       ELSE /\ round' = round + 1
            /\ stats' = [at |-> 0]
            /\ IF sel.count > 0 \/ ~ValidateBlock(Open(job.tasks[round + 1].src), "none") THEN Fail ELSE Goto("write")
            /\ UNCHANGED <<job, sel, out>>
WriteOne ==
    /\ pc = "write" /\ stats.at < Len(Task.writes)
    /\ stats' = [at |-> stats.at + 1]
    /\ \E src \in {Open(Task.src)} : \E r \in {Write(Step(sel, out, FALSE), src, Task.writes[stats.at + 1], job.keep)} :
          Became(r) /\ (IF r.err THEN Fail ELSE Goto("write"))
    /\ UNCHANGED <<job, round>>
EndTask ==
    /\ pc = "write" /\ stats.at = Len(Task.writes)
    /\ \E r \in {Flush(Step(sel, out, FALSE))} : Became(r) /\ (IF r.err THEN Fail ELSE Goto("enter"))
    /\ UNCHANGED <<job, round, stats>>

-----------------------------------------------------------------------------
(* packed_varint_count: eight bytes at a time, and byte by byte when a varint *)
(* may be too long.  A byte is [more, low]: its high bit and the other seven. *)

Counted0 == [n |-> 0, run |-> 0, long |-> FALSE, err |-> FALSE]
CountWord(a, word) ==
    LET ends == {i \in 0 .. 7 : ~word[i + 1].more}
        lead == IF ends = {} THEN 8 ELSE Min(ends)
    IN [a EXCEPT !.n = @ + Cardinality(ends), !.long = @ \/ a.run + lead >= 9,
                 !.run = IF ends = {} THEN Lower(a.run + 8, 9) ELSE 7 - Max(ends)]
CountByte(a, x) ==
    IF ~x.more THEN [a EXCEPT !.n = @ + 1, !.run = 0]
    ELSE [a EXCEPT !.run = @ + 1, !.long = @ \/ a.run + 1 >= 9]
ExactByte(a, x) ==
    IF a.err THEN a
    ELSE IF a.run = 9 /\ (x.more \/ x.low > 1) THEN [a EXCEPT !.err = TRUE]
    ELSE IF a.run = 9 \/ ~x.more THEN [a EXCEPT !.n = @ + 1, !.run = 0]
    ELSE [a EXCEPT !.run = @ + 1]
Ended(a) == IF a.err \/ a.run # 0 THEN -1 ELSE a.n
PackedVarintCountExact(data) == Ended(FoldLeft(ExactByte, Counted0, data))
PackedVarintCount(data) ==
    LET words == Len(data) \div 8
        head == FoldLeft(CountWord, Counted0, [w \in 1 .. words |-> SubSeq(data, 8 * w - 7, 8 * w)])
        all == FoldLeft(CountByte, head, SubSeq(data, 8 * words + 1, Len(data)))
    IN IF all.long THEN PackedVarintCountExact(data) ELSE Ended(all)
\* packed_uint32_count: no payload bit above the thirty-second.
Uint32Byte(a, x) ==
    IF a.err THEN a
    ELSE IF (a.run = 4 /\ x.low > 15) \/ (a.run > 4 /\ x.low # 0) THEN [a EXCEPT !.err = TRUE]
    ELSE IF ~x.more THEN [a EXCEPT !.n = @ + 1, !.run = 0]
    ELSE IF a.run = 9 THEN [a EXCEPT !.err = TRUE]
    ELSE [a EXCEPT !.run = @ + 1]
PackedUint32Count(data) == Ended(FoldLeft(Uint32Byte, Counted0, data))

-----------------------------------------------------------------------------
(* HeaderBuilder::build and WireHeaderBlock::parse.  A degree is ten units;   *)
(* an option is a sequence of at most one.  The fields: 1 bbox, 4 required,   *)
(* 5 optional features, 16 program, 17 source, 32 to 34 replication.          *)

NotFinite == 99
Sort == 21
Historical == 22
Schema == 23
DenseFeature == 24

BBoxRefused(h) ==
    h.bbox # <<>> /\ LET left == h.bbox[1]  bottom == h.bbox[2]  right == h.bbox[3]  top == h.bbox[4] IN
        \/ NotFinite \in Range(h.bbox)
        \/ ~h.bbox_from_input /\ (left < -18 \/ left > 18 \/ right < -18 \/ right > 18)
        \/ ~h.bbox_from_input /\ (bottom < -9 \/ bottom > 9 \/ top < -9 \/ top > 9)
        \/ ~h.bbox_from_input /\ (left > right \/ bottom > top)
\* bytes unless empty, and bytes or a number always.
Text(f, s) == IF s = 0 THEN <<>> ELSE <<Field(f, "len", <<s>>, <<>>)>>
TextAlways(f, o) == [i \in DOMAIN o |-> Field(f, "len", <<o[i]>>, <<>>)]
NumberAlways(f, o) == [i \in DOMAIN o |-> Field(f, "varint", <<U64(o[i])>>, <<>>)]
Build(h) ==
    (IF h.bbox = <<>> THEN <<>>
     ELSE Message(1, Varint(1, Zig(h.bbox[1])) \o Varint(2, Zig(h.bbox[3])) \o Varint(3, Zig(h.bbox[4])) \o Varint(4, Zig(h.bbox[2]))))
      \o Text(4, Schema) \o Text(4, DenseFeature) \o (IF h.historical THEN Text(4, Historical) ELSE <<>>)
      \o (IF h.sorted THEN Text(5, Sort) ELSE <<>>) \o FlattenSeq([i \in DOMAIN h.features |-> Text(5, h.features[i])])
      \o TextAlways(16, <<h.program>>) \o TextAlways(17, h.source)
      \o NumberAlways(32, h.timestamp) \o NumberAlways(33, h.sequence) \o TextAlways(34, h.url)

NoHeaderBlock == [bbox |-> <<>>, required |-> <<>>, optional |-> <<>>, program |-> <<>>, source |-> <<>>, timestamp |-> <<>>, sequence |-> <<>>, url |-> <<>>]
BBoxField(a, x) == IF x.f \in 1 .. 4 /\ x.w = "varint" THEN [a EXCEPT ![x.f] = Unzig(x.v[1])] ELSE a
HeaderField(a, x) ==
    CASE x.f = 1 -> LET box == FoldLeft(BBoxField, <<0, 0, 0, 0>>, x.sub) IN [a EXCEPT !.bbox = <<box[1], box[4], box[2], box[3]>>]
      [] x.f = 4 -> [a EXCEPT !.required = @ \o x.v]
      [] x.f = 5 -> [a EXCEPT !.optional = @ \o x.v]
      [] x.f = 16 -> [a EXCEPT !.program = x.v]
      [] x.f = 17 -> [a EXCEPT !.source = x.v]
      [] x.f = 32 -> [a EXCEPT !.timestamp = <<I64(x.v[1])>>]
      [] x.f = 33 -> [a EXCEPT !.sequence = <<I64(x.v[1])>>]
      [] x.f = 34 -> [a EXCEPT !.url = x.v]
      [] OTHER -> a
ParseHeaderBlock(m) == FoldLeft(HeaderField, NoHeaderBlock, m)

-----------------------------------------------------------------------------
(* The calls. *)

ReadBlock ==
    /\ job.cmd = "read block" /\ pc = "enter"
    /\ IF ValidateBlock(Open(job.block), job.claim) THEN Done ELSE Fail
    /\ UNCHANGED <<job, round, sel, out, stats>>
CountPacked ==
    /\ job.cmd = "count packed" /\ pc = "enter"
    /\ out' = <<PackedVarintCount(job.data), PackedUint32Count(job.data)>>
    /\ Done /\ UNCHANGED <<job, round, sel, stats>>
WriteHeader ==
    /\ job.cmd = "header" /\ pc = "enter"
    /\ IF BBoxRefused(job.header) THEN Fail /\ UNCHANGED out ELSE Done /\ out' = Build(job.header)
    /\ UNCHANGED <<job, round, sel, stats>>

Opened ==
    /\ Begin /\ out = <<>> /\ stats = [at |-> 0]
    /\ sel = NewBuilder(IF job.cmd = "rewrite block" THEN job.cap ELSE 0, FALSE)
Next ==
    \/ job.cmd = "rewrite block" /\ (BeginTask \/ WriteOne \/ EndTask)
    \/ ReadBlock
    \/ CountPacked
    \/ WriteHeader

-----------------------------------------------------------------------------
(* What must come out.  Every write of every task in order: the element as    *)
(* its source gives it, and whether its message would be empty (an ID of zero *)
(* and nothing else is not written at all, though the index counts it).       *)

Canon(e) == [e EXCEPT !.meta = IF [@ EXCEPT !.present = FALSE] = NoMeta THEN NoMeta ELSE @]
Kept(e) == IF job.keep THEN e ELSE [e EXCEPT !.located = FALSE, !.locs = <<>>]
Empty(e) == e.kind # "node" /\ e.id = 0 /\ e.tags = <<>> /\ e.refs = <<>> /\ e.members = <<>>
FromBase(x, e) ==
    [e |-> Canon(Kept(e)), hollow |-> Empty(e) /\ x.pairs = <<>> /\ (x.p.info => x.p.sub = <<>>)]
FromChange(e) == [e |-> Canon([e EXCEPT !.located = @ /\ e.locs # <<>>]), hollow |-> Empty(e) /\ ~e.meta.present]
Looked(t, src, ok) ==
    [writes |-> t.writes, src |-> src, items |-> IF ok THEN ElementsOf(src) ELSE <<>>, ok |-> ok]
Expected(tasks) ==
    FlattenSeq([t \in DOMAIN tasks |-> [i \in DOMAIN tasks[t].writes |->
        LET w == tasks[t].writes[i] IN
        IF w.how = "base" THEN FromBase(tasks[t].items[w.at], Owned(tasks[t].src, tasks[t].items[w.at])) ELSE FromChange(w.e)]])
ReadBack(b, items) == [i \in DOMAIN items |-> Canon(Owned(b, items[i]))]

\* A block against the writes it stands for: readable under the kind its index
\* claims, the elements as given, the index and the tag keys true of them.
ShapeOf(kind) == CASE kind = "node" -> "dense" [] kind = "way" -> "ways" [] kind = "relation" -> "relations"
BlockIsTrue(b, opened, given) ==
    LET ids == {x.e.id : x \in Range(given)}
        written == SelectSeq(given, LAMBDA x : ~x.hollow)
        keys == UNION {{t[1] : t \in Range(x.e.tags)} : x \in Range(given)}
        lats == {x.e.lat : x \in Range(given)}  lons == {x.e.lon : x \in Range(given)}
    IN /\ ValidateBlock(opened, b.index.kind)
       /\ BlockType(opened) = IF written = <<>> THEN "empty" ELSE ShapeOf(b.index.kind)
       /\ \A x \in Range(given) : x.e.kind = b.index.kind
       /\ b.index.min = Min(ids) /\ b.index.max = Max(ids)
       /\ b.index.bbox = IF b.index.kind = "node" THEN <<Min(lats), Max(lats), Min(lons), Max(lons)>> ELSE <<>>
       /\ b.tagdata = SetToSortSeq(keys, <)
       /\ ReadBack(opened, ElementsOf(opened)) = [i \in DOMAIN written |-> written[i].e]
UpTo(k) == FoldLeft(LAMBDA a, b : a + b.index.count, 0, SubSeq(out, 1, k))
\* A call fails for one of these.
BadBase(src, x) ==
    \/ Str(src, 0) # 0
    \/ Unresolved(src, x.pairs) # {}
    \/ ReadFails(Owned(src, x))
    \/ x.kind # "node" /\ x.p.info /\ LET q == ParseInfo(x.p.sub) IN 5 \in q.has /\ ~SidIn(I32(q.num[5]), Len(src.st))
    \/ x.kind = "way" /\ job.keep /\ LET s == src.s IN
          ~DefaultFraming(s) /\ \E c \in Range(Reframed(s.lat, s.gran, x.p.pk[9])) \cup Range(Reframed(s.lon, s.gran, x.p.pk[10])) : ~Fits(c)
BadOwned(e) == (e.located /\ Len(e.refs) # Len(e.locs)) \/ \E m \in Range(e.members) : m.type \notin MemberTypes
BadTask(t) ==
    \/ ~t.ok
    \/ \E w \in Range(t.writes) :
          \/ w.how = "base" /\ BadBase(t.src, t.items[w.at])
          \/ w.how # "base" /\ BadOwned(w.e)
Unasked == \E t \in Range(job.tasks) : \E w \in Range(t.writes) : w.how = "add"
BlocksAreTrue(given) ==
    /\ UpTo(Len(out)) = Len(given)
    /\ \A k \in DOMAIN out : out[k].index.count <= Upper(job.cap, 1)
                                /\ BlockIsTrue(out[k], Open(out[k]), SubSeq(given, UpTo(k - 1) + 1, UpTo(k)))
RewriteBlockIsTrue ==
    \E tasks \in {[t \in DOMAIN job.tasks |->
                       LET src == Open(job.tasks[t].src) IN Looked(job.tasks[t], src, ValidateBlock(src, "none"))]} :
       IF \E t \in Range(tasks) : BadTask(t) THEN result = "failed"
       ELSE IF result = "failed" THEN Unasked
       ELSE BlocksAreTrue(Expected(tasks))

\* A block that is accepted can be read to its end by every reader, and they agree.
IdsOf(kind, items) == LET of == SelectSeq(items, LAMBDA x : x.kind = kind) IN [i \in DOMAIN of |-> of[i].id]
ReadersAgree(b, items) ==
    LET nodes == Of("node", items)  dense == SelectSeq(items, LAMBDA x : x.shape = "dense")  ways == Of("way", items)
    IN /\ \A x \in Range(items) : ~Panics(x.p, x.shape)
       /\ ElementCount(b) = Len(items) /\ BlockKinds(b) = {x.kind : x \in Range(items)}
       /\ \A kinds \in SUBSET AllKinds : \A k \in AllKinds :
             LET of == SelectSeq(KindIds(b, kinds), LAMBDA t : t[1] = k)
             IN [i \in DOMAIN of |-> of[i][2]] = IF k \in kinds THEN IdsOf(k, items) ELSE <<>>
       /\ DenseColumns(b) = [i \in DOMAIN dense |-> <<dense[i].id, dense[i].lat, dense[i].lon>>]
       /\ \E tuples \in {NodeTuples(b)} :
             IF NodeScanFails(b, tuples) THEN TooFar(tuples)
             ELSE tuples = [i \in DOMAIN nodes |-> <<nodes[i].id, nodes[i].lat, nodes[i].lon>>]
       /\ ~WayScanFails(b) /\ WayRefs(b) = [i \in DOMAIN ways |-> <<ways[i].id, Refs(ways[i].p)>>]
       /\ \E each \in {ForEachElement(b)} : Range(each) = Range(items) /\ Len(each) = Len(items)
ReadBlockIsTrue ==
    \E b \in {Open(job.block)} :
       IF ~ValidateBlock(b, "none") THEN result = "failed"
       ELSE \E items \in {ElementsOf(b)} :
              /\ (result = "ok") = (job.claim # "none" => {x.kind : x \in Range(items)} \subseteq {job.claim})
              /\ ReadersAgree(b, items)

\* The count of a packed array: the varints it was made of, if it ends with
\* one and none is wider than the type.
FitsIn(x, bits) ==
    x.len <= 10 /\ \A i \in 1 .. x.len : (IF i < x.len THEN x.low ELSE x.last) < 2 ^ Upper(0, Lower(7, bits - 7 * (i - 1)))
TrueCount(bits) == IF job.torn = 0 /\ \A x \in Range(job.varints) : FitsIn(x, bits) THEN Len(job.varints) ELSE -1
CountPackedIsTrue == out = <<TrueCount(64), TrueCount(32)>>

WriteHeaderIsTrue ==
    LET h == job.header  p == ParseHeaderBlock(out) IN
    result = "ok" =>
        /\ p.bbox = h.bbox /\ p.program = <<h.program>> /\ p.source = h.source
        /\ p.timestamp = h.timestamp /\ p.sequence = h.sequence /\ p.url = h.url
        /\ p.optional = (IF h.sorted THEN <<Sort>> ELSE <<>>) \o h.features
        /\ (Historical \in Range(p.required)) = h.historical
        /\ (h.bbox # <<>> /\ ~h.bbox_from_input) => p.bbox[1] <= p.bbox[3] /\ p.bbox[2] <= p.bbox[4] /\ p.bbox[3] <= 18 /\ p.bbox[4] <= 9

\* The block codec (write/block_builder.rs, read/block.rs): the blocks a builder
\* gives hold the elements it was given under a true index, however copied and
\* new elements alternate, or the call fails for a reason in its input; a block
\* that validation accepts reads to its end without a panic and the same way for
\* every reader; array counts and file headers are what was encoded.
CodecIsTrue ==
    result # "running" =>
        CASE job.cmd = "rewrite block" -> RewriteBlockIsTrue
          [] job.cmd = "read block" -> ReadBlockIsTrue
          [] job.cmd = "count packed" -> CountPackedIsTrue
          [] job.cmd = "header" -> WriteHeaderIsTrue

-----------------------------------------------------------------------------
(* The blocks and elements it is checked on. *)

Meta(v, ts, cs, uid, user, visible) == [NoMeta EXCEPT !.present = TRUE, !.version = v, !.ts = ts, !.cs = cs, !.uid = uid, !.user = user, !.visible = visible]
Bare(kind, id) == [kind |-> kind, id |-> id, lat |-> 0, lon |-> 0, tags |-> <<>>, meta |-> NoMeta, refs |-> <<>>, located |-> FALSE, locs |-> <<>>, members |-> <<>>]
Changed ==
    {Bare("node", 0), [Bare("node", -3) EXCEPT !.lat = MaxI32, !.lon = -MaxI32 - 1, !.tags = <<<<0, 1>>, <<2, 0>>>>],
     [Bare("node", MaxI64) EXCEPT !.lat = -2, !.meta = Meta(2, 5, 3, 4, 2, FALSE)], [Bare("node", -MaxI64 - 1) EXCEPT !.meta = Meta(0, 0, 0, 0, 0, TRUE), !.tags = <<<<2, 2>>>>],
     Bare("way", 0), [Bare("way", 4) EXCEPT !.refs = <<MaxI64, -MaxI64 - 1>>, !.tags = <<<<3, 1>>, <<0, 3>>>>, !.meta = Meta(1, -4, 2, 1, 0, FALSE)],
     [Bare("way", 5) EXCEPT !.refs = <<1, 2>>, !.located = TRUE, !.locs = <<<<3, -4>>, <<MaxI32, 0>>>>],
     [Bare("way", 6) EXCEPT !.refs = <<1>>, !.located = TRUE], Bare("relation", 0),
     [Bare("relation", 7) EXCEPT !.members = <<[id |-> 3, type |-> 2, role |-> 0], [id |-> -1, type |-> 0, role |-> 4]>>, !.tags = <<<<1, 4>>>>],
     [Bare("relation", 8) EXCEPT !.members = <<[id |-> 3, type |-> 3, role |-> 0]>>]}

\* Messages of every kind, well-formed and not.
Info1 == Varint(1, 3) \o Varint(2, 5) \o Varint(5, 1)
Info2 == Varint(1, U64(-1)) \o Varint(3, U64(-1)) \o Varint(5, 9)
Info3 == Varint(2, 7) \o Varint(6, 0) \o Varint(4, 2)
TornField == <<Field(9, "torn", <<>>, <<>>)>>
Tg(ks, vs) == Packed(2, ks) \o Packed(3, vs)
NodeMessages ==
    {Varint(1, Zig(2)) \o Varint(8, Zig(5)) \o Varint(9, Zig(-6)) \o Tg(<<0, 1>>, <<2, 0>>) \o Message(4, Info1), Varint(8, Zig(40)) \o Tg(<<9>>, <<1>>),
     Varint(1, Zig(-1)) \o Message(4, Info2) \o Message(4, <<>>), Varint(1, Zig(3)) \o Message(4, Info3 \o Varint(1, 0) \o Varint(5, U64(-2))), Tg(<<1>>, <<>>), TornField}
WayMessages ==
    {Varint(1, 2) \o Tg(<<1, 2>>, <<2, 2>>) \o Packed(8, Deltas(<<3, 4>>)) \o Packed(9, Deltas(<<1, 9>>)) \o Packed(10, Deltas(<<2, 3>>)) \o Message(4, Info3),
     Varint(1, U64(-2)) \o <<Field(8, "varint", <<4>>, <<>>), Field(8, "len", <<>>, <<>>)>> \o Message(4, Info1), Packed(8, <<2>>) \o Packed(8, <<2>>),
     Varint(1, 3) \o Tg(<<1, 2>>, <<2, 9>>) \o <<Field(4, "len", <<>>, <<>>)>> \o Message(4, Info1), Packed(8, <<2, Torn>>), Packed(8, <<2>>) \o Packed(9, <<2>>),
     Tg(<<MaxU32 + 1>>, <<1>>), Varint(1, 5) \o Packed(8, <<2>>) \o Packed(9, <<60>>) \o Packed(10, <<0>>), Message(4, Info2), Message(4, Info1) \o Message(4, Info1), <<>>}
RelationMessages ==
    {Varint(1, 2) \o Packed(8, <<0, 2>>) \o Packed(9, Deltas(<<5, 1>>)) \o Packed(10, <<1, 2>>) \o Tg(<<2>>, <<1>>), Packed(8, <<U64(-1)>>) \o Packed(9, <<2>>) \o Packed(10, <<7>>),
     Packed(8, <<1>>) \o Packed(9, <<2>>), Varint(1, 9) \o Packed(8, <<1>>) \o Packed(9, <<2>>) \o Packed(10, <<5>>)}
Positions(n) == Packed(1, Deltas([i \in 1 .. n |-> 3 - 2 * i])) \o Packed(8, Deltas([i \in 1 .. n |-> 7 * i])) \o Packed(9, Deltas([i \in 1 .. n |-> -3 * i]))
Columns(v, n) == Packed(1, v) \o Packed(2, Deltas([i \in 1 .. n |-> 4 * i])) \o Packed(3, Deltas([i \in 1 .. n |-> -i])) \o Packed(4, [i \in 1 .. n |-> 2]) \o Packed(5, [i \in 1 .. n |-> 2])
DenseMessages ==
    {Positions(2) \o Packed(10, <<1, 2, 0, 0>>) \o Message(5, Columns(<<U64(-1), 2>>, 2)), Positions(2) \o Packed(10, <<0, 2, 1>>), Positions(2) \o Packed(10, <<1, 2>>),
     Positions(1) \o Message(5, Columns(<<3>>, 1) \o Packed(6, <<0>>)), Positions(1) \o Packed(10, <<9, 1, 0>>), Positions(1) \o Packed(10, <<1>>), Positions(1) \o Packed(10, <<1, 0>>), Positions(1) \o Message(5, Packed(1, <<1>>)),
     Positions(1) \o Message(5, Packed(6, <<1>>)), Positions(1) \o <<Field(5, "len", <<>>, <<>>)>>, Positions(1) \o Message(5, Columns(<<3, 4>>, 2)),
     Positions(2) \o Packed(1, <<2>>), Packed(1, <<2>>) \o Packed(8, <<2, 2>>) \o Packed(9, <<2>>), Positions(1) \o Packed(10, <<MaxI32 + 1, 1, 0>>), <<>>}
Piece(f, messages) == {<<Field(f, "len", <<>>, m)>> : m \in messages}
Pieces == Piece(1, NodeMessages) \cup Piece(2, DenseMessages) \cup Piece(3, WayMessages) \cup Piece(4, RelationMessages) \cup {<<>>, Varint(3, 1), TornField}
Scales == {<<>>, Varint(17, 3), Varint(17, U64(-2)) \o Varint(19, 1) \o Varint(18, 1), Varint(18, 7) \o Varint(20, U64(-40)), Varint(17, MaxI32 + 1), Varint(19, MaxI64) \o Varint(17, 4) \o Varint(17, 1)}
Strings == {<<0, 1, 2>>, <<0, 2, 2>>, <<0, 0, 1>>}
Block(st, scalars, groups) == [st |-> st, scalars |-> scalars, groups |-> groups]
ReadJob(b, claim) == job = [cmd |-> "read block", block |-> b, claim |-> claim]
ReadWorlds ==
    \/ \E a, b \in Pieces, apart \in BOOLEAN : ReadJob(Block(<<0, 1, 2>>, <<>>, IF apart THEN <<a, b>> ELSE <<a \o b>>), "none")
    \/ \E a \in Pieces, scalars \in Scales, claim \in {"none", "node", "way"}, st \in {<<0, 1, 2>>, <<NotText>>} : ReadJob(Block(st, scalars, <<a>>), claim)

\* What a task may write of its block and of the change.
W(how, e, at) == [how |-> how, e |-> e, at |-> at]
None == Bare("none", 0)
TaskOf(src, writes) == [src |-> src, writes |-> writes]
RewriteJob(cap, keep, tasks) == job = [cmd |-> "rewrite block", cap |-> cap, keep |-> keep, tasks |-> tasks]
Given(src) == {W("base", None, i) : i \in IF ValidateBlock(src, "none") THEN 1 .. Len(ElementsOf(src)) ELSE {}}
Nothing == Block(<<0>>, <<>>, <<>>)
RewriteWorlds ==
    \/ \E cap \in 0 .. 2, a, b \in Changed, c \in {Bare("node", 0), Bare("way", 0)}, how \in {"osc", "add"} :
          RewriteJob(cap, TRUE, <<TaskOf(Nothing, <<W("osc", a, 0), W(how, b, 0)>>), TaskOf(Nothing, <<W("osc", c, 0)>>)>>)
    \/ \E g \in Pieces, st \in Strings \cup {<<1, 0>>}, scalars \in Scales, e \in Changed \cup {None}, first, keep \in BOOLEAN :
          /\ e = None \/ (scalars = <<>> /\ keep)
          /\ e = None => st # <<1, 0>>
          /\ \E src \in {Block(st, scalars, <<g>>)} : \E base \in {Given(Open(src))} : \E x, y \in base :
                IF e = None THEN first /\ RewriteJob(2, keep, <<TaskOf(src, <<x, y>>)>>)
                ELSE y = x /\ RewriteJob(2, TRUE, <<TaskOf(src, IF first THEN <<x, W("osc", e, 0), x>> ELSE <<W("osc", e, 0), x>>), TaskOf(Nothing, <<W("osc", Bare("node", 1), 0)>>)>>)

Vn(len, low, last) == [len |-> len, low |-> low, last |-> last]
Bytes(x) == [i \in 1 .. x.len |-> [more |-> i < x.len, low |-> IF i < x.len THEN x.low ELSE x.last]]
PackedWorlds ==
    \E a \in {Vn(len, low, last) : len \in 1 .. 11, low \in {0, 5}, last \in {0, 1, 2, 15, 16}}, n \in 0 .. 7, torn \in {0, 1, 9}, b \in {Vn(len, 0, 1) : len \in {0, 1, 8, 9, 10}} :
        LET all == [i \in 1 .. n |-> Vn(1, 0, 1)] \o <<a>> \o (IF b.len > 0 THEN <<b, a>> ELSE <<>>) IN
        job = [cmd |-> "count packed", varints |-> all, torn |-> torn, data |-> FlattenSeq([i \in DOMAIN all |-> Bytes(all[i])]) \o [i \in 1 .. torn |-> [more |-> TRUE, low |-> 0]]]
HeaderWorlds ==
    \E bbox \in {<<>>, <<-18, -9, 18, 9>>, <<0, 0, 0, 0>>, <<3, 2, 1, 4>>, <<0, 5, 1, 4>>, <<0, 0, 19, 1>>, <<0, -10, 1, 1>>, <<NotFinite, 0, 1, 1>>}, from, sorted, historical \in BOOLEAN,
      features \in {<<>>, <<7>>, <<7, Sort>>}, o \in {<<<<>>, <<>>, <<>>, <<>>>>, <<<<0>>, <<0>>, <<0>>, <<0>>>>, <<<<3>>, <<-5>>, <<6>>, <<4>>>>}, program \in {0, 5} :
        job = [cmd |-> "header", header |-> [bbox |-> bbox, bbox_from_input |-> from, sorted |-> sorted, historical |-> historical, features |-> features,
                                             program |-> program, source |-> o[1], timestamp |-> o[2], sequence |-> o[3], url |-> o[4]]]
Worlds == ReadWorlds \/ RewriteWorlds \/ PackedWorlds \/ HeaderWorlds
=============================================================================
