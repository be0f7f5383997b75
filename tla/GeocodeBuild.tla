---------------------------- MODULE GeocodeBuild ----------------------------
(* build-geocode-index: what the builder reads, the assignment of ways and    *)
(* areas to cells, and the small planets it is checked on.                    *)
EXTENDS CommandState, GeocodeIndex

-----------------------------------------------------------------------------
(* build-geocode-index (geocode_index/builder): relations, the nodes the ways *)
(* need, addresses and ways, admin polygons, interpolations, cells.  Tags are *)
(* functions on the keys an element has.  sel is the builder's working state, *)
(* out the files of the index, stats what it reports.  job.cancel names the   *)
(* checkpoint a cancellation is seen at, or "never".                          *)

Opened == Begin /\ sel = [pool |-> NewPool] /\ out = [header |-> <<>>] /\ stats = <<>>

Tag(e, k) == IF k \in DOMAIN e.tags THEN e.tags[k] ELSE ""
Has(e, k) == k \in DOMAIN e.tags

\* BuildConfig::validate.  The cover's budget bounds the street and coarse
\* levels, the flood fill's the admin level.
MaxBuildLevel == LeafLevel
MaxAdminLevel == 2
ConfigValid(c) ==
    /\ c.street \in 0 .. MaxBuildLevel /\ c.coarse \in 0 .. MaxBuildLevel /\ c.admin \in 0 .. MaxAdminLevel
    /\ c.coarse < c.street
    /\ RadiusValid(c.fineRadius, c.street) /\ RadiusValid(c.coarseRadius, c.coarse)

At(place) == pc = place /\ job.cancel # place
\* host.invocation.check.
Cancelled == pc = job.cancel /\ Fail /\ UNCHANGED <<job, round, sel, out, stats>>

\* build_geocode_index(_to).
Validate ==
    /\ At("enter")
    /\ IF ConfigValid(job.config) /\ ~job.scratchInside THEN Goto("open") ELSE Fail
    /\ UNCHANGED <<job, round, sel, out, stats>>

\* build_generation: the index policy, and the replication sequence in its width.
SeqMax == 3
OpenInput ==
    /\ At("open")
    /\ IF IndexdataPolicy(job.file, job.force) /\ job.seq <= SeqMax THEN Goto("pass1") ELSE Fail
    /\ UNCHANGED <<job, round, sel, out, stats>>

\* run_pass1: the boundary relations with a level and a name, and their ways.
BoundaryRole(role) == CASE role = "inner" -> "inner" [] role \in {"outer", ""} -> "outer" [] OTHER -> "ignore"
AdminLevels == 2 .. 10
PostalLevel == 11
BoundaryLevel(r) ==
    CASE Tag(r, "boundary") = "administrative" -> IF Has(r, "admin_level") THEN {r.tags["admin_level"]} \cap AdminLevels ELSE {}
      [] Tag(r, "boundary") = "postal_code" -> {PostalLevel}
      [] OTHER -> {}
BoundaryName(r) ==
    LET keys == IF Tag(r, "boundary") = "postal_code" /\ Has(r, "postal_code") THEN {"postal_code"} ELSE {"name"} \cap DOMAIN r.tags
    IN {r.tags[k] : k \in keys}
Members(r, role) == SelectSeq(r.members, LAMBDA m : m.kind = "way" /\ BoundaryRole(m.role) = role)
MemberIds(members) == [i \in DOMAIN members |-> members[i].id]
AdminRelation(acc, r) ==
    IF BoundaryLevel(r) = {} \/ BoundaryName(r) = {} THEN acc
    ELSE LET level == CHOOSE l \in BoundaryLevel(r) : TRUE
             code == IF level = 2 THEN Tag(r, "code") ELSE ""
             strings == InternAll(acc.pool, <<CHOOSE n \in BoundaryName(r) : TRUE, code>>, job.hash, job.poolMax)
         IN [pool |-> strings.pool,
             rels |-> Append(acc.rels, [id |-> r.id, level |-> level, name |-> strings.at[1], code |-> strings.at[2],
                                        outer |-> MemberIds(Members(r, "outer")), inner |-> MemberIds(Members(r, "inner"))])]
RunPass1 ==
    /\ At("pass1")
    /\ LET sched == KindSchedule(job.file, "relation")
           found == FoldLeft(AdminRelation, [pool |-> sel.pool, rels |-> <<>>], Of("relation", Elements(sched)))
       IN IF Refused(sched) THEN Fail /\ UNCHANGED sel
          ELSE /\ sel' = [pool |-> found.pool, rels |-> found.rels, needed |-> UNION {Range(r.outer \o r.inner) : r \in Range(found.rels)}]
               /\ Goto("schedules")
    /\ UNCHANGED <<job, round, out, stats>>

\* build_pass2_schedules: the blobs by their index; the others by their contents.
\* The node ID bound comes from the indexes, and from the nodes of the others.
Holds(b, kind) == \E e \in Range(b.items) : e.kind = kind
Scheduled(kind) == SelectSeq(job.file, LAMBDA b : b.claim = kind \/ (b.claim = "none" /\ Holds(b, kind)))
MaxNodeId ==
    Max({0} \cup {b.hi : b \in {b \in Range(job.file) : b.claim = "node"}}
            \cup UNION {Ids("node", b.items) : b \in {b \in Range(job.file) : b.claim = "none"}})
BuildSchedules ==
    /\ At("schedules")
    /\ IF Undecodable(SelectSeq(job.file, LAMBDA b : b.claim = "none")) THEN Fail ELSE Goto("pass1_5")
    /\ UNCHANGED <<job, round, sel, out, stats>>

\* WayGeocodeFlags::classify.
IsStreet(w) == Has(w, "highway") /\ Has(w, "name") /\ w.tags["highway"] # "excluded"
IsBuildingAddr(w) == Has(w, "building") /\ Has(w, "housenumber") /\ Has(w, "street")
IsInterp(w) == Has(w, "interpolation") /\ ~Has(w, "housenumber")
Wanted(w) == IsStreet(w) \/ IsBuildingAddr(w) \/ IsInterp(w) \/ w.id \in sel.needed

\* run_pass1_5, record_way_refs: the nodes of the ways wanted, the negative ones
\* counted and left out, like those over the bound.
RunPass15 ==
    /\ At("pass1_5")
    /\ LET sched == Scheduled("way")
           refs == FlattenSeq([i \in DOMAIN SelectSeq(Of("way", Elements(sched)), Wanted) |-> SelectSeq(Of("way", Elements(sched)), Wanted)[i].refs])
       IN IF Refused(sched) THEN Fail /\ UNCHANGED <<sel, stats>>
          ELSE /\ sel' = [pool |-> sel.pool, rels |-> sel.rels, needed |-> sel.needed, referenced |-> {n \in Range(refs) : n \in 0 .. MaxNodeId}]
               /\ stats' = [negative |-> Len(SelectSeq(refs, LAMBDA n : n < 0))]
               /\ Goto("pass2a")
    /\ UNCHANGED <<job, round, out>>

\* install_coord: a node seen again must be where it was.
InDomain(p) == p[1] \in -HalfTurn .. HalfTurn /\ p[2] \in Latitudes
Conflicting(nodes) == \E a, b \in nodes : a.id = b.id /\ a.at # b.at /\ a.id \in sel.referenced
CoordStore(nodes) == [id \in {n.id : n \in nodes} \cap sel.referenced |-> (CHOOSE n \in nodes : n.id = id).at]

\* An address point: its strings interned in the order number, street, postcode.
AddAddr(acc, e) ==
    LET strings == InternAll(acc.pool, <<Tag(e, "housenumber"), Tag(e, "street"), Tag(e, "postcode")>>, job.hash, job.poolMax)
    IN [acc EXCEPT !.pool = strings.pool,
                   !.addrs = Append(@, [at |-> e.at, number |-> strings.at[1], street |-> strings.at[2], postcode |-> strings.at[3]])]

\* run_pass2, the nodes.
RunPass2A ==
    /\ At("pass2a")
    /\ LET sched == Scheduled("node")
           nodes == Of("node", Elements(sched))
           addressed == SelectSeq(nodes, LAMBDA n : Has(n, "housenumber") /\ Has(n, "street"))
           found == FoldLeft(AddAddr, [pool |-> sel.pool, addrs |-> <<>>], addressed)
       IN IF Refused(sched) \/ (\E n \in Range(nodes) : n.id > MaxNodeId \/ ~InDomain(n.at)) \/ Conflicting(Range(nodes))
          THEN Fail /\ UNCHANGED sel
          ELSE /\ sel' = [pool |-> found.pool, rels |-> sel.rels, needed |-> sel.needed, addrs |-> found.addrs, coords |-> CoordStore(Range(nodes))]
               /\ Goto("pass2b")
    /\ UNCHANGED <<job, round, out, stats>>

\* classify_way_into: what a way becomes.  The mean of a building's coordinates
\* is rounded toward zero.
Coords(w) == LET known == SelectSeq(w.refs, LAMBDA n : n \in DOMAIN sel.coords) IN [i \in DOMAIN known |-> sel.coords[known[i]]]
Toward0(n, d) == IF n < 0 THEN -((-n) \div d) ELSE n \div d
Mean(coords) ==
    LET sum(c) == MapThenSumSet(LAMBDA i : coords[i][c], DOMAIN coords) IN <<Toward0(sum(1), Len(coords)), Toward0(sum(2), Len(coords))>>
NodeCountMax == 6
TooLong(w) == (IsInterp(w) \/ IsStreet(w)) /\ Len(Coords(w)) > NodeCountMax
Mode(w) == IF w.tags["interpolation"] \in {"all", "even", "odd"} THEN w.tags["interpolation"] ELSE "none"

AddGeom(acc, w) == IF w.id \in sel.needed THEN [acc EXCEPT !.geom = WithKey(@, w.id, Coords(w))] ELSE acc
AddInterp(acc, w) ==
    LET coords == Coords(w)  s == Intern(acc.pool, Tag(w, "street"), job.hash, job.poolMax)
    IN IF ~IsInterp(w) \/ Len(coords) < 2 THEN acc
       ELSE [acc EXCEPT !.pool = s.pool, !.interpNodes = @ \o coords,
                        !.interps = Append(@, [way |-> w.id, first |-> Len(acc.interpNodes), count |-> Len(coords), street |-> s.at, mode |-> Mode(w),
                                               complete |-> Len(coords) = Len(w.refs), start |-> 0, end |-> 0])]
AddBuilding(acc, w) ==
    IF IsInterp(w) \/ ~IsBuildingAddr(w) THEN acc ELSE AddAddr(acc, [tags |-> w.tags, at |-> Mean(Coords(w))])
AddStreet(acc, w) ==
    LET coords == Coords(w)  s == Intern(acc.pool, Tag(w, "name"), job.hash, job.poolMax)
    IN IF IsInterp(w) \/ ~IsStreet(w) \/ Len(coords) < 2 THEN acc
       ELSE [acc EXCEPT !.pool = s.pool, !.streetNodes = @ \o coords,
                        !.streets = Append(@, [first |-> Len(acc.streetNodes), count |-> Len(coords), name |-> s.at])]

\* run_pass2, the ways: blob by blob, geometry, interpolations, buildings, streets.
WayBlob(acc, b) ==
    LET ways == SelectSeq(Of("way", b.items), LAMBDA w : Wanted(w) /\ Coords(w) # <<>>)
    IN FoldLeft(AddStreet, FoldLeft(AddBuilding, FoldLeft(AddInterp, FoldLeft(AddGeom, acc, ways), ways), ways), ways)
MissingRefs(ways) == MapThenSumSet(LAMBDA i : Len(ways[i].refs) - Len(Coords(ways[i])), DOMAIN ways)
RunPass2B ==
    /\ At("pass2b")
    /\ LET sched == Scheduled("way")
           ways == SelectSeq(Of("way", Elements(sched)), Wanted)
           none == [pool |-> sel.pool, addrs |-> sel.addrs, geom |-> <<>>, interps |-> <<>>, interpNodes |-> <<>>, streets |-> <<>>, streetNodes |-> <<>>]
       IN IF \E w \in Range(ways) : TooLong(w) THEN Fail /\ UNCHANGED <<sel, out, stats>>
          ELSE \E found \in {FoldLeft(WayBlob, none, sched)} :
               /\ sel' = [pool |-> found.pool, rels |-> sel.rels, geom |-> found.geom, interps |-> found.interps]
               /\ out' = [header |-> <<>>, addrs |-> found.addrs, streets |-> found.streets, streetNodes |-> found.streetNodes, interpNodes |-> found.interpNodes]
               /\ stats' = [negative |-> stats.negative, missing |-> MissingRefs(ways)]
               /\ Goto("admin")
    /\ UNCHANGED <<job, round>>

-----------------------------------------------------------------------------
(* The second half of build-geocode-index: admin polygons, interpolation      *)
(* sections, the cells, the header and the smoke test (builder/admin.rs,      *)
(* interp.rs, pass3.rs, mod.rs).                                              *)

\* admin_vertex_cap.
VertexCap(level, base) == base * (CASE level <= 2 -> 4 [] level = 3 -> 3 [] level = 4 -> 2 [] level = 5 -> 2 [] OTHER -> 1)
Simplified(ring, cap) == IF cap = 0 THEN ring ELSE SimplifyRing(ring, cap)

\* hole_inside_outer: most of the vertices sampled.
HoleSamples == 3
HoleInside(hole, outer) ==
    LET step == Max({1, Len(hole) \div HoleSamples})
        tested == {i \in DOMAIN hole : (i - 1) % step = 0 /\ (i - 1) \div step < HoleSamples}
    IN 2 * Cardinality({i \in tested : PointInRingWithAntimeridian(hole[i], outer)}) > Cardinality(tested)

\* assemble_one_relation: a polygon for every outer ring, with the holes it owns;
\* no outcome when the search for rings exceeds its budget.
SegmentsOf(ids) == LET known == SelectSeq(ids, LAMBDA w : w \in DOMAIN sel.geom) IN [i \in DOMAIN known |-> sel.geom[known[i]]]
Polygon(rel, outer, inner) ==
    LET cap == VertexCap(rel.level, job.config.maxVerts)
        owned == SelectSeq(inner, LAMBDA h : HoleInside(h, outer))
        holes == SelectSeq([i \in DOMAIN owned |-> Simplified(owned[i], cap)], LAMBDA h : Len(h) >= 3)
        vertices(ring) == FoldLeft(LAMBDA acc, h : acc \o <<RingSentinel>> \o h, ring, holes)
    IN SetToSeq({[level |-> rel.level, name |-> rel.name, code |-> rel.code, area |-> Abs(SignedArea2(outer)), vertices |-> vertices(ring)] :
                   ring \in {ring \in {Simplified(outer, cap)} : Len(ring) >= 3}})
AssembleOne(rel) ==
    {FlattenSeq([i \in DOMAIN outer |-> Polygon(rel, outer[i], inner)]) :
        <<outer, inner>> \in UNION {{<<o, i>> : i \in IF o = <<>> THEN {<<>>} ELSE AssembleRingsBounded(SegmentsOf(rel.inner))} : o \in AssembleRingsBounded(SegmentsOf(rel.outer))}}

\* assemble_admin_polygons, missing_admin_way_geometry, and the refusal of an
\* index that would hold nothing.
Assembled(outcomes) == FlattenSeq([i \in DOMAIN outcomes |-> FoldSet(LAMBDA a, acc : a, <<>>, outcomes[i])])
Dropped(outcomes) == Cardinality({i \in DOMAIN outcomes : outcomes[i] \subseteq {<<>>}})
MissingMembers == MapThenSumSet(LAMBDA i : Len(SelectSeq(sel.rels[i].outer \o sel.rels[i].inner, LAMBDA w : w \notin DOMAIN sel.geom)), DOMAIN sel.rels)
AssembleAdmin ==
    /\ At("admin")
    /\ \E outcomes \in {[i \in DOMAIN sel.rels |-> AssembleOne(sel.rels[i])]} : \E polys \in {Assembled(outcomes)} :
        IF polys = <<>> /\ out.addrs = <<>> /\ out.streets = <<>> /\ sel.interps = <<>>
        THEN Fail /\ UNCHANGED <<sel, stats>>
        ELSE /\ sel' = [pool |-> sel.pool, interps |-> sel.interps, polys |-> polys]
             /\ stats' = [negative |-> stats.negative, missing |-> stats.missing, dropped |-> Dropped(outcomes), missingMembers |-> MissingMembers]
             /\ Goto("interp")
    /\ UNCHANGED <<job, round, out>>

\* coord_key, way_nodes, NodeAddrs::at.
CoordKey(p) == <<NormalizeLongitude(p[1]), p[2]>>
WayNodes(w) ==
    IF w.mode = "none" \/ ~w.complete \/ w.count < 2 THEN {}
    ELSE {[i \in DOMAIN nodes |-> CoordKey(nodes[i])] : nodes \in Span(out.interpNodes, w.first, w.count)}
AddrsAt(key) == {a \in Range(out.addrs) : CoordKey(a.at) = key}

\* parse_house_number, node_number.
DigitValue == [s \in {"0", "1", "2", "3", "5", "6", "9", "99"} |->
    CASE s = "0" -> 0 [] s = "1" -> 1 [] s = "2" -> 2 [] s = "3" -> 3 [] s = "5" -> 5 [] s = "6" -> 6 [] s = "9" -> 9 [] s = "99" -> 99]
NumberMax == 9
ParseHouseNumber(s) == IF s \in DOMAIN DigitValue THEN {DigitValue[s]} \cap (1 .. NumberMax) ELSE {}
NodeNumber(key, street) ==
    LET numbers == {a.number : a \in {a \in AddrsAt(key) : a.street = street}}
        s == PoolString(sel.pool, CHOOSE n \in numbers : TRUE)
    IN CASE numbers = {} -> [is |-> "absent", n |-> 0]
         [] Cardinality(numbers) > 1 -> [is |-> "refused", n |-> 0]
         [] ParseHouseNumber(s) # {} -> [is |-> "anchor", n |-> CHOOSE n \in ParseHouseNumber(s) : TRUE]
         [] s \in DOMAIN DigitValue -> [is |-> "refused", n |-> 0]
         [] OTHER -> [is |-> "passed", n |-> 0]

\* common_end_street: the one street both ends have.
StreetsAt(key) == {a.street : a \in AddrsAt(key)} \ {0}
CommonEndStreet(first, last) == LET common == StreetsAt(first) \cap StreetsAt(last) IN IF Cardinality(common) = 1 THEN common ELSE {}

\* resolve_one_way: the sections between consecutive anchors, as a set that is
\* empty when the way does not resolve.
StepOf(mode) == IF mode = "all" THEN 1 ELSE 2
Pairs(number, anchors) ==
    [k \in 1 .. Len(anchors) - 1 |-> [first |-> anchors[k], last |-> anchors[k + 1], start |-> number[anchors[k]].n, end |-> number[anchors[k + 1]].n]]
Sections(w, number) ==
    LET pairs == Pairs(number, SelectSeq([i \in DOMAIN number |-> i], LAMBDA i : number[i].is = "anchor"))
    IN IF \/ \E i \in DOMAIN number : number[i].is = "refused" \/ (i \in {1, Len(number)} /\ number[i].is # "anchor")
          \/ \E p \in Range(pairs) : p.start = p.end \/ ~StepsThrough(w.mode, p.start, p.end)
       THEN {}
       ELSE {SelectSeq(pairs, LAMBDA p : Abs(p.end - p.start) > StepOf(w.mode))}
ResolveOne(w) ==
    UNION {UNION {{[street |-> s, sections |-> found] : found \in Sections(w, [i \in DOMAIN nodes |-> NodeNumber(nodes[i], s)])} :
             s \in IF w.street # 0 THEN {w.street} ELSE CommonEndStreet(nodes[1], Last(nodes))} : nodes \in WayNodes(w)}

\* resolve_interpolation_ways_mmap: a record for every section of a way that
\* resolves, the way itself with no numbers when it does not.
Resolved(w, outcome) ==
    IF outcome = {} THEN <<w>>
    ELSE LET r == CHOOSE r \in outcome : TRUE
         IN [k \in DOMAIN r.sections |->
               [w EXCEPT !.first = @ + r.sections[k].first - 1, !.count = r.sections[k].last - r.sections[k].first + 1, !.street = r.street,
                         !.start = r.sections[k].start, !.end = r.sections[k].end]]
Written(w) == [first |-> w.first, count |-> w.count, street |-> w.street, start |-> w.start, end |-> w.end, mode |-> IF w.mode = "none" THEN "all" ELSE w.mode]
ResolveInterp ==
    /\ At("interp")
    /\ IF sel.pool.overflowed THEN Fail /\ UNCHANGED <<sel, out, stats>>
       ELSE \E resolved \in {[i \in DOMAIN sel.interps |-> ResolveOne(sel.interps[i])]} :
            \E records \in {FlattenSeq([i \in DOMAIN sel.interps |-> Resolved(sel.interps[i], resolved[i])])} :
               /\ out' = [header |-> <<>>, addrs |-> out.addrs, streets |-> out.streets, streetNodes |-> out.streetNodes, interpNodes |-> out.interpNodes,
                          interps |-> [i \in DOMAIN records |-> Written(records[i])], strings |-> sel.pool.data]
               /\ stats' = [negative |-> stats.negative, missing |-> stats.missing, dropped |-> stats.dropped, missingMembers |-> stats.missingMembers,
                            unresolved |-> Cardinality({i \in DOMAIN resolved : resolved[i] = {}})]
               /\ sel' = [polys |-> sel.polys]
               /\ Goto("admincells")
    /\ UNCHANGED <<job, round>>

\* write_admin_data.
AdminFiles(polys) ==
    FoldLeft(LAMBDA acc, p : [polys |-> Append(acc.polys, [level |-> p.level, name |-> p.name, code |-> p.code, area |-> p.area,
                                                           first |-> Len(acc.vertices), count |-> Len(p.vertices)]),
                              vertices |-> acc.vertices \o p.vertices], [polys |-> <<>>, vertices |-> <<>>], polys)

\* cover_pip_ring_boundary: the ring in the frame the containment test uses, with
\* the antimeridian itself when that frame is unwrapped.
FrameEdges(frame) == {<<frame[i], frame[(i % Len(frame)) + 1]>> : i \in DOMAIN frame}
Meridian(lats) == {<< <<HalfTurn, Min(lats)>>, <<HalfTurn, Max(lats)>> >>}
RingBoundary(ring, level) ==
    UNION {CoverPathRaw(e[1], e[2], level) :
             e \in FrameEdges(PipRingFrame(ring)) \cup IF RingCrossesAntimeridian(ring) THEN Meridian({v[2] : v \in Range(ring)}) ELSE {}}

\* admin_cells_for_polygon: the boundary's cells, then the cells the flood reaches.
RECURSIVE Flood(_, _, _, _, _)
Flood(queue, visited, inside, edge, ok) ==
    IF queue = {} THEN inside
    ELSE LET level == job.config.admin
             entered == {c \in queue : c \notin edge /\ ok[c]}
             next == UNION {AllNeighbors(c, level) : c \in entered} \ visited
         IN Flood(next, visited \cup next, inside \cup entered, edge, ok)
Flooded(seeds, edge, ok) == Flood({c \in seeds : ok[c]}, seeds, {}, edge, ok)
Inside(rings, edge, level) ==
    Flooded(UNION {AllNeighbors(c, level) : c \in edge} \ edge, edge,
            [c \in DOMAIN CornerTable[level] |-> PointInPolygon(Center(c, level), rings[1], Tail(rings))])
CellEntries(index, edge, inside) ==
    {[cell |-> c, index |-> index, interior |-> FALSE] : c \in edge} \cup {[cell |-> c, index |-> index, interior |-> TRUE] : c \in inside}
CellsOfRings(index, rings, edge) == CellEntries(index, edge, Inside(rings, edge, job.config.admin))
AdminCellsFor(index, vertices) ==
    UNION {IF rings = <<>> THEN {} ELSE CellsOfRings(index, rings, UNION {RingBoundary(r, job.config.admin) : r \in Range(rings)}) :
             rings \in {ParseRings(vertices)}}

\* assign_admin_cells, write_admin_index: cells ascending, each with its list.
AdminIndex(entries) ==
    LET cells == Ascending({e.cell : e \in entries})
        of(c) == {e \in entries : e.cell = c}
        list(c) == <<CountOf(Cardinality(of(c)))>> \o [k \in 1 .. Cardinality(of(c)) |-> [count |-> 0, index |-> Ascending({e.index : e \in of(c)})[k], segment |-> 0]]
    IN IF \E c \in Range(cells) : Cardinality(of(c)) > ListMax THEN {}
       ELSE {[cells |-> [i \in DOMAIN cells |-> [cell |-> cells[i], at |-> MapThenSumSet(LAMBDA j : ListLen(Cardinality(of(cells[j]))), 1 .. i - 1)]],
              list |-> FlattenSeq([i \in DOMAIN cells |-> list(cells[i])])]}
AssignAdminCells ==
    /\ At("admincells")
    /\ \E files \in {AdminFiles(sel.polys)} :
        /\ out' = [out EXCEPT !.header = [polys |-> files.polys, vertices |-> files.vertices]]
        /\ sel' = [admin |-> UNION {AdminCellsFor(i - 1, sel.polys[i].vertices) : i \in DOMAIN sel.polys}]
    /\ Goto("stage_a") /\ UNCHANGED <<job, round, stats>>

\* cover_segment_fused: the fine cells of a segment, and each coarse cell once;
\* the first few coarse cells are remembered in place, the others in a set.
InlineSlots == 1
BucketRecord(kind, index, segment, cell) == [cell |-> cell, kind |-> kind, index |-> index, segment |-> segment]
Fused(a, b, kind, index, segment) ==
    FoldLeft(LAMBDA s, fine :
        LET coarse == Parent(fine, job.config.coarse)
            known == coarse \in Range(s.slots) \/ coarse \in s.overflow
        IN [fine |-> Append(s.fine, BucketRecord(kind, index, segment, fine)), coarse |-> IF known THEN s.coarse ELSE Append(s.coarse, BucketRecord(kind, index, segment, coarse)),
            slots |-> IF ~known /\ Len(s.slots) < InlineSlots THEN Append(s.slots, coarse) ELSE s.slots,
            overflow |-> IF ~known /\ Len(s.slots) = InlineSlots THEN s.overflow \cup {coarse} \cup Range(s.slots) ELSE s.overflow],
        [fine |-> <<>>, coarse |-> <<>>, slots |-> <<>>, overflow |-> {}], CoverSegment(a, b, job.config.street))

\* cover_way_segments over the ways of one kind.
CoverWays(kind, ways, nodes, buckets) ==
    FoldLeft(LAMBDA acc, i :
        FoldLeft(LAMBDA acc2, seg :
            LET w == ways[i]  f == Fused(nodes[w.first + seg + 1], nodes[w.first + seg + 2], kind, i - 1, seg)
            IN [fine |-> acc2.fine \o f.fine, coarse |-> acc2.coarse \o f.coarse],
            acc, [k \in 1 .. ways[i].count - 1 |-> k - 1]),
        buckets, [i \in DOMAIN ways |-> i])
StageAStreets(buckets) == CoverWays("street", out.streets, out.streetNodes, buckets)
StageAInterps(buckets) == CoverWays("interp", out.interps, out.interpNodes, buckets)
StageAAddrs(buckets) ==
    LET record(i, level) == BucketRecord("addr", i - 1, 0, CellAt(out.addrs[i].at, level))
    IN [fine |-> buckets.fine \o [i \in DOMAIN out.addrs |-> record(i, job.config.street)],
        coarse |-> buckets.coarse \o [i \in DOMAIN out.addrs |-> record(i, job.config.coarse)]]
StageA ==
    /\ At("stage_a")
    /\ sel' = [admin |-> sel.admin, buckets |-> StageAInterps(StageAAddrs(StageAStreets([fine |-> <<>>, coarse |-> <<>>]))), fine |-> {}]
    /\ Goto("stage_b_fine") /\ UNCHANGED <<job, round, out, stats>>

\* run_stage_b: window after window of buckets, each sorted by cell; a group
\* becomes a cell and up to three lists, none longer than its count can say.
BucketSize == 64
Buckets == 0 .. (2 * FaceSize) \div BucketSize
BucketForCell(cell) == cell \div BucketSize
GroupLists(group) == [k \in SearchKinds |-> LET es == SelectSeq(group, LAMBDA r : r.kind = k)
                                            IN IF es = <<>> THEN <<>> ELSE <<CountOf(Len(es))>> \o [i \in DOMAIN es |-> [count |-> 0, index |-> es[i].index, segment |-> es[i].segment]]]
AddCell(acc, group) ==
    LET lists == GroupLists(group)
    IN [cells |-> Append(acc.cells, [cell |-> group[1].cell, at |-> [k \in SearchKinds |-> IF lists[k] = <<>> THEN NoData ELSE Len(acc.lists[k])]]),
        lists |-> [k \in SearchKinds |-> acc.lists[k] \o lists[k]]]
Groups(records) ==
    LET cells == Ascending({r.cell : r \in Range(records)}) IN [i \in DOMAIN cells |-> SelectSeq(records, LAMBDA r : r.cell = cells[i])]
StageB(records) ==
    LET inOrder == FlattenSeq([b \in 1 .. Cardinality(Buckets) |-> Groups(SelectSeq(records, LAMBDA r : BucketForCell(r.cell) = b - 1))])
        ascending == \A i \in 1 .. Len(inOrder) - 1 : inOrder[i][1].cell < inOrder[i + 1][1].cell
        fits == \A g \in Range(inOrder) : \A k \in SearchKinds : Len(GroupLists(g)[k]) <= ListMax + 1
    IN IF ascending /\ fits THEN {FoldLeft(AddCell, [cells |-> <<>>, lists |-> [k \in SearchKinds |-> <<>>]], inOrder)} ELSE {}
StageBFine ==
    /\ At("stage_b_fine")
    /\ LET made == StageB(sel.buckets.fine)
       IN IF made = {} THEN Fail /\ UNCHANGED sel ELSE sel' = [sel EXCEPT !.fine = made] /\ Goto("stage_b_coarse")
    /\ UNCHANGED <<job, round, out, stats>>
\* The coarse cells, the admin index and the header end the writing.
StageBCoarse ==
    /\ At("stage_b_coarse")
    /\ LET made == StageB(sel.buckets.coarse)  index == AdminIndex(sel.admin)
       IN IF made = {} \/ index = {} THEN Fail /\ UNCHANGED out
          ELSE /\ \E fine \in sel.fine, coarse \in made, admin \in index :
                    out' = [addrs |-> out.addrs, streets |-> out.streets, streetNodes |-> out.streetNodes, interpNodes |-> out.interpNodes,
                            interps |-> out.interps, strings |-> out.strings, polys |-> out.header.polys, vertices |-> out.header.vertices,
                            fine |-> fine, coarse |-> coarse, admin |-> admin,
                            header |-> [street |-> job.config.street, coarse |-> job.config.coarse, admin |-> job.config.admin,
                                        fineRadius |-> job.config.fineRadius, coarseRadius |-> job.config.coarseRadius, seq |-> job.seq,
                                        counts |-> [addr |-> Len(out.addrs), street |-> Len(out.streets), interp |-> Len(out.interps), admin |-> Len(out.header.polys),
                                                    fineCells |-> Len(fine.cells), coarseCells |-> Len(coarse.cells), adminCells |-> Len(admin.cells)]]]
               /\ Goto("smoke")
    /\ UNCHANGED <<job, round, sel, stats>>

\* The smoke test opens what was written and looks up the first address.
SmokeOutcome ==
    IF out.addrs = <<>> THEN "skipped"
    ELSE IF \A k \in {"addr", "street"} : Query(out, out.addrs[1].at).near[k] = {} THEN "no match" ELSE "passed"
Smoke ==
    /\ At("smoke")
    /\ IF StructureValid(out) THEN stats' = [counts |-> out.header.counts, dropped |-> stats.dropped, unresolved |-> stats.unresolved, smoke |-> SmokeOutcome] /\ Done
       ELSE Fail /\ UNCHANGED stats
    /\ sel' = <<>> /\ UNCHANGED <<job, round, out>>

Next ==
    Cancelled \/ Validate \/ OpenInput \/ RunPass1 \/ BuildSchedules \/ RunPass15 \/ RunPass2A \/ RunPass2B \/ AssembleAdmin \/ ResolveInterp
    \/ AssignAdminCells \/ StageA \/ StageBFine \/ StageBCoarse \/ Smoke

-----------------------------------------------------------------------------
(* Small worlds for build-geocode-index, and what its index must answer.      *)

GNode(id, at, tags) == [kind |-> "node", id |-> id, at |-> at, tags |-> tags, refs |-> <<>>, members |-> <<>>]
GWay(id, refs, tags) == [kind |-> "way", id |-> id, at |-> <<0, 0>>, tags |-> tags, refs |-> refs, members |-> <<>>]
GRel(id, members, tags) == [kind |-> "relation", id |-> id, at |-> <<0, 0>>, tags |-> tags, refs |-> <<>>, members |-> members]
GMember(id, role) == [kind |-> "way", id |-> id, role |-> role]
GBlob(claim, items) == [claim |-> claim, hi |-> Max({0} \cup {e.id : e \in Range(items)}), bad |-> FALSE, items |-> items]

AddrTags(number, street) == [k \in {"housenumber", "street"} |-> IF k = "street" THEN street ELSE number]
StreetTags(name) == [k \in {"highway", "name"} |-> IF k = "name" THEN name ELSE "road"]
InterpTags(mode) == [k \in {"interpolation"} |-> mode]
BorderTags(level, name) == [k \in {"boundary", "admin_level", "name"} |-> IF k = "name" THEN name ELSE IF k = "boundary" THEN "administrative" ELSE level]

\* Streets, addresses and an interpolation across the antimeridian and a face's edge.
TownNodes(numbers, street2) ==
    <<GNode(1, <<6, 2>>, AddrTags(numbers[1], "oak")), GNode(2, <<-7, 2>>, AddrTags(numbers[2], street2)), GNode(3, <<-7, 5>>, AddrTags(numbers[3], "oak")),
      GNode(4, <<-3, 1>>, <<>>), GNode(5, <<2, 1>>, <<>>), GNode(6, <<2, 6>>, <<>>)>>
TownWays(mode, missing) ==
    <<GWay(10, <<1, 2, 3>>, InterpTags(mode)), GWay(11, <<4, 5, 6>> \o missing, StreetTags("elm")),
      GWay(12, <<5, 6>>, [k \in {"building", "housenumber", "street"} |-> IF k = "street" THEN "elm" ELSE IF k = "building" THEN "yes" ELSE "2"])>>
\* A border around the antimeridian with a hole, and one inside another.
BorderNodes ==
    <<GNode(1, <<5, 1>>, <<>>), GNode(2, <<-4, 1>>, <<>>), GNode(3, <<-4, 7>>, <<>>), GNode(4, <<5, 7>>, <<>>),
      GNode(5, <<7, 3>>, <<>>), GNode(6, <<-7, 3>>, <<>>), GNode(7, <<-7, 5>>, <<>>), GNode(8, <<7, 5>>, <<>>)>>
BorderWays == <<GWay(20, <<1, 2, 3>>, <<>>), GWay(21, <<3, 4, 1>>, <<>>), GWay(22, <<5, 6, 7, 8, 5>>, <<>>)>>
BorderRels(role) ==
    <<GRel(30, <<GMember(20, "outer"), GMember(21, ""), GMember(22, role)>>, BorderTags(4, "shire")),
      GRel(31, <<GMember(22, "outer")>>, BorderTags(4, "town")), GRel(32, <<GMember(22, "outer")>>, BorderTags(99, "no level")),
      GRel(33, <<GMember(20, "outer"), GMember(29, "outer")>>, BorderTags(2, "open"))>>

Layouts == {"indexed", "unindexed", "split"}
Laid(layout, nodes, ways, rels) ==
    CASE layout = "indexed" -> <<GBlob("node", nodes), GBlob("way", ways), GBlob("relation", rels)>>
      [] layout = "unindexed" -> <<GBlob("none", nodes \o ways \o rels)>>
      [] layout = "split" -> <<GBlob("node", SubSeq(nodes, 1, 2)), GBlob("node", SubSeq(nodes, 3, Len(nodes))), GBlob("way", SubSeq(ways, 1, 1)), GBlob("way", Tail(ways))>>
                             \o (IF rels = <<>> THEN <<>> ELSE <<GBlob("relation", rels)>>)

Strings == {"1", "3", "5", "9", "2", "6", "99", "12a", "0", "oak", "elm", "shire", "town", "no level", "open"}
Hashes == {[s \in Strings |-> 0], [s \in Strings |-> CHOOSE i \in 1 .. Cardinality(Strings) : Cardinality({t \in {"1", "3", "5"} : t = s}) = i \/ i = Cardinality(Strings)]}
GConfig(street, coarse, admin, fineRadius, coarseRadius, maxVerts) ==
    [street |-> street, coarse |-> coarse, admin |-> admin, fineRadius |-> fineRadius, coarseRadius |-> coarseRadius, maxVerts |-> maxVerts]
GConfigs == {GConfig(3, 2, 2, 2, 5, 0), GConfig(3, 1, 1, 3, 2, 1), GConfig(2, 1, 2, 2, 9, 0), GConfig(3, 2, 2, 0, 0, 0)}
GJob(file, config, hash, poolMax, force, cancel) ==
    [cmd |-> "geocode", file |-> file, config |-> config, hash |-> hash, poolMax |-> poolMax, force |-> force, cancel |-> cancel, seq |-> 1, scratchInside |-> FALSE]

Town(layout, numbers, street2, mode, missing) == Laid(layout, TownNodes(numbers, street2), TownWays(mode, missing), <<>>)
Border(layout, role) == Laid(layout, BorderNodes, BorderWays, BorderRels(role))
Borders == {Border(layout, role) : <<layout, role>> \in Layouts \X {"inner", "outer"}}
HashOne == [s \in Strings |-> 0]
Basic == GConfig(3, 2, 2, 2, 5, 0)
Worlds ==
    \/ \E numbers \in {<<"1", "5", "9">>, <<"1", "12a", "5">>, <<"1", "0", "5">>, <<"3", "3", "1">>}, street2 \in {"oak", "elm"}, mode \in {"all", "odd", "sometimes"} :
        job = GJob(Town("indexed", numbers, street2, mode, <<>>), Basic, HashOne, 20, TRUE, "never")
    \/ \E layout \in Layouts, missing \in {<<>>, <<-1, 40>>}, config \in GConfigs :
        job = GJob(Town(layout, <<"1", "12a", "5">>, "oak", "odd", missing), config, HashOne, 20, TRUE, "never")
    \/ \E file \in Borders, config \in GConfigs : job = GJob(file, config, HashOne, 20, TRUE, "never")
    \/ \E layout \in Layouts, hash \in Hashes, poolMax \in {2, 20}, force \in BOOLEAN :
        job = GJob(Border(layout, "inner"), GConfig(2, 1, 2, 2, 5, 0), hash, poolMax, force, "never")
    \/ \E cancel \in {"pass2a", "stage_a", "stage_b_coarse"}, file \in Borders : job = GJob(file, Basic, HashOne, 20, TRUE, cancel)
    \/ \E config \in {GConfig(3, 3, 2, 2, 5, 0), GConfig(3, 2, 3, 2, 5, 0), GConfig(3, 2, 2, 4, 5, 0)}, file \in Borders : job = GJob(file, config, HashOne, 20, TRUE, "never")
    \/ \E seq \in {SeqMax, SeqMax + 1}, inside \in BOOLEAN :
        job = [GJob(Border("split", "inner"), Basic, HashOne, 20, TRUE, "never") EXCEPT !.seq = seq, !.scratchInside = inside]
    \/ \E broken \in {<<GBlob("node", <<GNode(1, <<1, 1>>, <<>>), GNode(1, <<1, 2>>, <<>>)>>), GBlob("way", <<GWay(2, <<1>>, StreetTags("elm"))>>)>>,
                      <<GBlob("node", <<GNode(1, <<1, 1>>, <<>>), GNode(1, <<1, 1>>, <<>>)>>), GBlob("way", <<GWay(2, <<1>>, StreetTags("elm"))>>)>>,
                      <<GBlob("node", <<GNode(1, <<1, 1>>, <<>>), GNode(3, <<4, 1>>, <<>>)>>), GBlob("way", <<GWay(2, <<1, 3>>, StreetTags("elm"))>>)>>,
                      <<[GBlob("node", <<GNode(1, <<1, 1>>, <<>>), GNode(3, <<4, 1>>, AddrTags("1", "oak"))>>) EXCEPT !.hi = 2]>>,
                      <<GBlob("node", <<GNode(1, <<9, 1>>, AddrTags("1", "oak"))>>)>>,
                      <<GBlob("node", <<GNode(1, <<1, 1>>, AddrTags("1", "oak")), GWay(2, <<1>>, <<>>)>>)>>,
                      <<GBlob("node", [i \in 1 .. ListMax + 1 |-> GNode(i, <<1, 1>>, AddrTags("1", "oak"))])>>, <<>>} :
        job = GJob(broken, Basic, HashOne, 20, TRUE, "never")

\* ---- What an index must answer ----

QueryPoints == {-8, -5, -1, 0, 3, 7} \X {0, 3, 6}
Within(dists) == LET near == {d \in dists : d < Max({Sq(job.config.fineRadius), Sq(job.config.coarseRadius)})} IN IF near = {} THEN {} ELSE {Min(near)}
SegmentsIn(ways, nodes) == UNION {{<<nodes[w.first + k], nodes[w.first + k + 1]>> : k \in 1 .. w.count - 1} : w \in Range(ways)}
SourceNodes == Of("node", Elements(job.file))
Located(w) == LET known == SelectSeq(w.refs, LAMBDA n : n \in Ids("node", Elements(job.file))) IN [i \in DOMAIN known |-> (CHOOSE n \in Range(SourceNodes) : n.id = known[i]).at]
SourceAddresses ==
    {[at |-> n.at, number |-> n.tags["housenumber"], street |-> n.tags["street"]] : n \in {n \in Range(SourceNodes) : Has(n, "housenumber") /\ Has(n, "street")}}
    \cup {[at |-> Mean(Located(w)), number |-> w.tags["housenumber"], street |-> w.tags["street"]] :
            w \in {w \in Range(Of("way", Elements(job.file))) : IsBuildingAddr(w) /\ Located(w) # <<>>}}
SourceStreets ==
    UNION {{<<Located(w)[k], Located(w)[k + 1]>> : k \in 1 .. Len(Located(w)) - 1} : w \in {w \in Range(Of("way", Elements(job.file))) : IsStreet(w)}}
AnswerAt(q, addresses, streets, sections) ==
    LET near(segs) == Within({PointToSegmentDistanceSq(q, s[1], s[2]) : s \in segs})
    IN [near |-> [k \in SearchKinds |->
            CASE k = "addr" -> Within({ApproxDistanceSq(q, a.at) : a \in addresses}) [] k = "street" -> near(streets) [] k = "interp" -> near(sections)],
        admin |-> Smallest(out, {i \in 0 .. Len(out.polys) - 1 : AdminContains(out, out.polys[i + 1], q)})]
NumbersBetween(q) ==
    \A n \in HouseNumberAt(out, q) : \E w \in Range(out.interps) : n \in Min({w.start, w.end}) .. Max({w.start, w.end}) /\ StepsThrough(w.mode, w.start, n)

\* An index that build-geocode-index finishes holds every address and every
\* street of the file with its own strings, and a query or the candidates at any
\* point answer what a search through all of it would: the nearest of each kind
\* within the larger radius, a number between the section's ends, the smallest
\* polygon of every level around the point.  A cancelled or refused build ends
\* without an index.
GeocodeIsTrue ==
    result = "ok" =>
        LET addresses == SourceAddresses
            streets == SourceStreets
            sections == SegmentsIn(SelectSeq(out.interps, LAMBDA w : Interpolates(out, w)), out.interpNodes)
        IN /\ {[at |-> a.at, number |-> out.strings[a.number + 1], street |-> out.strings[a.street + 1]] : a \in Range(out.addrs)} = addresses
           /\ SegmentsIn(out.streets, out.streetNodes) = streets
           /\ \A q \in QueryPoints : \E answer \in {AnswerAt(q, addresses, streets, sections)} :
                Query(out, q) = answer /\ IntoResult(out, q) = answer /\ NumbersBetween(q)
           /\ ConfigValid(job.config) /\ ~Refused(job.file) /\ job.cancel = "never"
=============================================================================
