---------------------------- MODULE GeocodeIndex ----------------------------
(* The geocode index: geometry on an integer grid (geo.rs, commands/extract's  *)
(* antimeridian rules), grid cells, the index's files                         *)
(* (geocode_index/format.rs) and the reverse-geocoding query over them        *)
(* (geocode_index/reader.rs).                                                 *)
EXTENDS Integers, Sequences, FiniteSets, SequencesExt, FiniteSetsExt

-----------------------------------------------------------------------------
(* The geometry of geo.rs on an integer grid.  A position is <<lon, lat>>;    *)
(* longitudes wrap at Turn, a full turn.  A degree of longitude is as long as *)
(* one of latitude (cos_lat is left out), and segments run along an axis, so  *)
(* that every distance squared is an integer.                                 *)

Turn == 16
HalfTurn == Turn \div 2

\* wrapped_longitude_delta(_e7): into [-HalfTurn, HalfTurn).
WrappedDelta(delta) == ((delta + HalfTurn) % Turn) - HalfTurn

\* normalize_longitude_e7: the antimeridian has one name.
NormalizeLongitude(lon) == IF WrappedDelta(lon) = -HalfTurn THEN HalfTurn ELSE WrappedDelta(lon)

Sq(n) == n * n
Abs(n) == IF n < 0 THEN -n ELSE n
ApproxDistanceSq(p, q) == Sq(q[2] - p[2]) + Sq(WrappedDelta(q[1] - p[1]))

\* project_on_segment: the distance to the closest point of a segment in one frame.
Clamp(n, a, b) == IF n < Min({a, b}) THEN Min({a, b}) ELSE IF n > Max({a, b}) THEN Max({a, b}) ELSE n
ProjectOnSegment(p, a, b) == ApproxDistanceSq(p, <<Clamp(p[1], a[1], b[1]), Clamp(p[2], a[2], b[2])>>)

\* point_to_segment_distance_sq: the far end, and the point, are taken in the
\* start's frame; a point behind the start is also tried one turn further, unless
\* the gap to the end already exceeds what was found.
TurnedPast(p, a, b) ==
    IF b[1] >= a[1] /\ p[1] < a[1] THEN {p[1] + Turn} ELSE IF b[1] < a[1] /\ p[1] > a[1] THEN {p[1] - Turn} ELSE {}
NearOrTurned(near, p, a, b) ==
    Min({near} \cup {ProjectOnSegment(<<o, p[2]>>, a, b) : o \in {o \in TurnedPast(p, a, b) : Sq(o - b[1]) < near}})
InFrame(p, a, b) == NearOrTurned(ProjectOnSegment(p, a, b), p, a, b)
PointToSegmentDistanceSq(p, a, b) ==
    InFrame(<<a[1] + WrappedDelta(p[1] - a[1]), p[2]>>, a, <<a[1] + WrappedDelta(b[1] - a[1]), b[2]>>)

\* point_in_ring: a ray to the east crosses the ring's edges an odd number of times.
Crosses(p, a, b) ==
    /\ (a[2] > p[2]) # (b[2] > p[2])
    /\ LET side == (p[1] - a[1]) * (b[2] - a[2]) - (b[1] - a[1]) * (p[2] - a[2])
       IN IF b[2] > a[2] THEN side < 0 ELSE side > 0
Before(ring, i) == ring[IF i = 1 THEN Len(ring) ELSE i - 1]
PointInRing(p, ring) ==
    Len(ring) >= 3 /\ Cardinality({i \in DOMAIN ring : Crosses(p, ring[i], Before(ring, i))}) % 2 = 1

RingCrossesAntimeridian(ring) ==
    Len(ring) >= 2 /\ \E i \in DOMAIN ring : Abs(ring[i][1] - Before(ring, i)[1]) > HalfTurn

\* unwrap_ring_longitudes: every vertex within half a turn of the one before.
Unwrapped(prev, lon) ==
    LET near == {k \in -2 .. 2 : Abs(lon + k * Turn - prev) <= HalfTurn}
        least == CHOOSE k \in near : \A j \in near : Abs(k) <= Abs(j)
    IN lon + least * Turn
UnwrapRing(ring) ==
    FoldLeft(LAMBDA acc, v : Append(acc, <<IF acc = <<>> THEN v[1] ELSE Unwrapped(Last(acc)[1], v[1]), v[2]>>), <<>>, ring)

\* pip_ring_frame, point_in_ring_with_antimeridian.
PipRingFrame(ring) == IF RingCrossesAntimeridian(ring) THEN UnwrapRing(ring) ELSE ring
PointInRingWithAntimeridian(p, ring) ==
    IF RingCrossesAntimeridian(ring)
    THEN \E turn \in {0, Turn, -Turn} : PointInRing(<<p[1] + turn, p[2]>>, UnwrapRing(ring))
    ELSE PointInRing(p, ring)

\* point_in_polygon(_rings).
PointInPolygon(p, exterior, holes) ==
    PointInRingWithAntimeridian(p, exterior) /\ ~\E h \in Range(holes) : PointInRingWithAntimeridian(p, h)

\* signed_area, twice.
SignedArea2(ring) ==
    IF Len(ring) < 3 THEN 0
    ELSE LET at(i) == <<ring[i][1] - ring[1][1], ring[i][2] - ring[1][2]>>
             cross(p, q) == p[1] * q[2] - q[1] * p[2]
         IN MapThenSumSet(LAMBDA i : cross(at(i), at((i % Len(ring)) + 1)), DOMAIN ring)

\* dp_split: the farthest point of a stretch from its chord, the first of equals,
\* if it is farther than epsilon.  epsilon is m / 2^Rounds of the diagonal.
Rounds == 4
DistTimesLen(a, b, p) ==
    LET d == <<b[1] - a[1], b[2] - a[2]>>  r == <<p[1] - a[1], p[2] - a[2]>>
        len == Sq(d[1]) + Sq(d[2])  dot == r[1] * d[1] + r[2] * d[2]
    IN IF len = 0 \/ dot <= 0 THEN (Sq(r[1]) + Sq(r[2])) * Max({len, 1})
       ELSE IF dot >= len THEN (Sq(r[1] - d[1]) + Sq(r[2] - d[2])) * len
       ELSE Sq(r[1] * d[2] - r[2] * d[1])
Farther(ring, s, e, dist, m, diag) ==
    LET len == Sq(ring[e][1] - ring[s][1]) + Sq(ring[e][2] - ring[s][2])
    IN dist * 2 ^ (2 * Rounds) > m * m * diag * Max({len, 1})
FirstGreatest(dist) == CHOOSE i \in DOMAIN dist : \A j \in DOMAIN dist : dist[j] < dist[i] \/ (dist[j] = dist[i] /\ i <= j)
SplitAt(ring, s, e, dist, m, diag) ==
    {far \in {FirstGreatest(dist)} : Farther(ring, s, e, dist[far], m, diag)}
DpSplit(ring, s, e, m, diag) ==
    IF e <= s + 1 THEN {} ELSE SplitAt(ring, s, e, [i \in s + 1 .. e - 1 |-> DistTimesLen(ring[s], ring[e], ring[i])], m, diag)

\* dp_count and dp_mark: the points kept under an epsilon.
RECURSIVE DpMark(_, _, _, _, _)
DpMark(ring, s, e, m, diag) ==
    UNION {{k} \cup DpMark(ring, s, k, m, diag) \cup DpMark(ring, k, e, m, diag) : k \in DpSplit(ring, s, e, m, diag)}
DpCount(ring, m, diag) == IF Len(ring) <= 2 THEN Len(ring) ELSE 2 + Cardinality(DpMark(ring, 1, Len(ring), m, diag))

\* simplify_ring: bisects for the least epsilon that fits.
DiagonalSq(ring) ==
    LET side(c) == Max({v[c] : v \in Range(ring)}) - Min({v[c] : v \in Range(ring)}) IN Sq(side(1)) + Sq(side(2))
Bisected(ring, cap) ==
    FoldLeft(LAMBDA lohi, k : LET mid == (lohi[1] + lohi[2]) \div 2
                              IN IF DpCount(ring, mid, DiagonalSq(ring)) > cap THEN <<mid, lohi[2]>> ELSE <<lohi[1], mid>>,
             <<0, 2 ^ Rounds>>, [k \in 1 .. Rounds |-> k])[2]
KeptOf(ring, keep) == FoldLeft(LAMBDA acc, i : IF i \in keep THEN Append(acc, ring[i]) ELSE acc, <<>>, [i \in DOMAIN ring |-> i])
SimplifyRing(ring, cap) ==
    IF Len(ring) <= cap \/ Len(ring) < 2 THEN ring
    ELSE KeptOf(ring, {1, Len(ring)} \cup DpMark(ring, 1, Len(ring), Bisected(ring, cap), DiagonalSq(ring)))

\* assemble_rings_search: depth first from each unused segment, the candidates in
\* the order their ends were entered, backing out of dead ends, until the ring
\* closes.  steps counts the candidates tried, against budget.
Ends(seg) == IF seg = <<>> THEN <<>> ELSE <<seg[1], Last(seg)>>
EndpointMap(segs, at) ==
    FlattenSeq([i \in DOMAIN segs |-> [e \in DOMAIN SelectSeq(Ends(segs[i]), LAMBDA v : v = at) |-> i]])
Closed(ring) == Len(ring) > 2 /\ Last(ring) = ring[1]
Extended(ring, seg) == IF seg[1] = Last(ring) THEN ring \o Tail(seg) ELSE ring \o Tail(Reverse(seg))
RECURSIVE SearchFrame(_, _, _)
SearchFrame(segs, budget, s) ==
    IF Closed(s.ring) THEN [s EXCEPT !.found = TRUE]
    ELSE FoldLeft(LAMBDA t, i :
                      IF t.found \/ t.exceeded \/ i \in t.used THEN t
                      ELSE IF t.steps >= budget THEN [t EXCEPT !.exceeded = TRUE]
                      ELSE LET deeper == SearchFrame(segs, budget, [t EXCEPT !.used = @ \cup {i}, !.steps = @ + 1, !.ring = Extended(@, segs[i])])
                           IN IF deeper.found THEN deeper ELSE [t EXCEPT !.steps = deeper.steps, !.exceeded = deeper.exceeded],
                  s, EndpointMap(segs, Last(s.ring)))
RingTried(a, s) ==
    [rings |-> IF s.found THEN Append(a.rings, s.ring) ELSE a.rings,
     used |-> IF s.found THEN s.used ELSE a.used, steps |-> s.steps, exceeded |-> s.exceeded]
AssembleRingsSearch(segs, budget) ==
    FoldLeft(LAMBDA a, i :
                 IF a.exceeded \/ i \in a.used \/ segs[i] = <<>> THEN a
                 ELSE RingTried(a, SearchFrame(segs, budget, [ring |-> segs[i], used |-> a.used \cup {i}, steps |-> a.steps, found |-> FALSE, exceeded |-> FALSE])),
             [rings |-> <<>>, used |-> {}, steps |-> 0, exceeded |-> FALSE], [i \in DOMAIN segs |-> i])

\* assemble_rings_bounded, ring_search_budget: what was tried may cost count^2
\* and a fixed number of further steps; a set, {} when the search was given up.
ExtraSteps == 1
RingSearchBudget(count) == count * count + ExtraSteps
AssembleRingsBounded(segs) == {a.rings : a \in {a \in {AssembleRingsSearch(segs, RingSearchBudget(Len(segs)))} : ~a.exceeded}}
AssembleRings(segs) == AssembleRingsSearch(segs, 1000).rings

-----------------------------------------------------------------------------
(* The cell hierarchy of the geocode index and the cover of a way's segments  *)
(* (builder/cover.rs).  Two faces of Side x Side leaves stand for the cube's  *)
(* six; an id is, as in S2, the position of the cell's leaves on a curve that *)
(* fills the face, so that the ids under a cell are an interval around it.    *)
(* The cover's numeric tolerance is left out: segments run along an axis.     *)

Side == 8
LeafLevel == 3
Latitudes == 0 .. Side - 1
Width(level) == Side \div 2 ^ level

\* CellID::from_face_ij: the bits of the two coordinates interleaved.
Interleave2(i, j) == MapThenSumSet(LAMBDA b : 4 ^ b * (2 * ((i \div 2 ^ b) % 2) + ((j \div 2 ^ b) % 2)), 0 .. LeafLevel - 1)
LeafTable == [i \in Latitudes, j \in Latitudes |-> 2 * Interleave2(i, j) + 1]
FaceSize == 2 * Side * Side
FaceOf(lon) == (WrappedDelta(lon) + HalfTurn) \div Side
Leaf(p) == FaceOf(p[1]) * FaceSize + LeafTable[(WrappedDelta(p[1]) + HalfTurn) % Side, p[2]]

\* CellID::parent, range_min, range_max.
Leaves(level) == 4 ^ (LeafLevel - level)
Parent(id, level) == (id \div (2 * Leaves(level))) * 2 * Leaves(level) + Leaves(level)
RangeMin(id, level) == id - (Leaves(level) - 1)
RangeMax(id, level) == id + (Leaves(level) - 1)

CellAt(p, level) == Parent(Leaf(p), level)

\* The low corner of every cell.
Corners(level) == {<<x, y>> \in (-HalfTurn .. HalfTurn - 1) \X Latitudes : x % Width(level) = 0 /\ y % Width(level) = 0}
CornerTable == [level \in 0 .. LeafLevel |->
                  [id \in {CellAt(c, level) : c \in Corners(level)} |-> CHOOSE c \in Corners(level) : CellAt(c, level) = id]]
Corner(id, level) == CornerTable[level][id]
Moved(p, by) == <<p[1] + by, p[2] + by>>
Center(id, level) == Moved(Corner(id, level), Width(level) \div 2)

\* all_neighbors, edge_neighbors: around the world, not over its edges.
CellsOff(c, w, level, steps) ==
    {CellAt(<<c[1] + s[1] * w, c[2] + s[2] * w>>, level) : s \in {s \in steps : c[2] + s[2] * w \in Latitudes}}
Around(id, level, steps) == CellsOff(Corner(id, level), Width(level), level, steps) \ {id}
AllSteps == (-1 .. 1) \X (-1 .. 1)
EdgeSteps == {<<1, 0>>, <<-1, 0>>, <<0, 1>>, <<0, -1>>}
NeighborTable == [level \in 0 .. LeafLevel |-> [id \in DOMAIN CornerTable[level] |-> Around(id, level, AllSteps)]]
EdgeTable == [level \in 0 .. LeafLevel |-> [id \in DOMAIN CornerTable[level] |-> Around(id, level, EdgeSteps)]]
AllNeighbors(id, level) == NeighborTable[level][id]
EdgeNeighbors(id, level) == EdgeTable[level][id]

\* walk_face: the cells of one face along the longer axis of a segment in it.
Steps(from, to) == IF from <= to THEN [k \in 1 .. to - from + 1 |-> from + k - 1] ELSE [k \in 1 .. from - to + 1 |-> from - k + 1]
Along(p, q) == IF p[2] = q[2] THEN [k \in DOMAIN Steps(p[1], q[1]) |-> <<Steps(p[1], q[1])[k], p[2]>>]
               ELSE [k \in DOMAIN Steps(p[2], q[2]) |-> <<p[1], Steps(p[2], q[2])[k]>>]
Unrepeated(seq) == FoldLeft(LAMBDA acc, c : IF acc # <<>> /\ Last(acc) = c THEN acc ELSE Append(acc, c), <<>>, seq)
CellsOn(path, level) == Unrepeated([k \in DOMAIN path |-> CellAt(path[k], level)])
WalkFace(p, q, level) == CellsOn(IF p[1] > q[1] \/ p[2] > q[2] THEN Along(q, p) ELSE Along(p, q), level)

\* clip_to_square: a segment's part on a face, {} when it has none.
ClipToSquare(p, q, face) ==
    LET lo == face * Side  hi == face * Side + Side - 1
    IN IF Max({p[1], q[1]}) < lo \/ Min({p[1], q[1]}) > hi THEN {}
       ELSE {<< <<Clamp(p[1], lo, hi), p[2]>>, <<Clamp(q[1], lo, hi), q[2]>> >>}

\* walk_chord: both ends on one face, or the part on each face they reach.
WalkChord(p, q, level) ==
    LET face(lon) == lon \div Side
        on(f) == FoldSet(LAMBDA c, acc : WalkFace(c[1], c[2], level), <<>>, ClipToSquare(p, q, f))
    IN IF face(p[1]) = face(q[1]) THEN WalkFace(p, q, level)
       ELSE on(Min({face(p[1]), face(q[1])})) \o on(Max({face(p[1]), face(q[1])}))

\* plan: the pieces a path is cut into; walk_path: their chords one by one.
MaxPiece == 5
Plan(a, b) == Max({1, (Max({Abs(b[1] - a[1]), Abs(b[2] - a[2])}) + MaxPiece - 1) \div MaxPiece})
WalkPath(a, b, level) ==
    LET pieces == Plan(a, b)
        at(k) == IF k = pieces THEN b ELSE <<a[1] + (k * (b[1] - a[1])) \div pieces, a[2] + (k * (b[2] - a[2])) \div pieces>>
    IN FlattenSeq([k \in 1 .. pieces |-> WalkChord(at(k - 1), at(k), level)])

\* collect_with, collect_path: sorted, without duplicates.
Ascending(S) == [k \in 1 .. Cardinality(S) |-> CHOOSE x \in S : Cardinality({y \in S : y < x}) = k - 1]
CollectPath(a, b, level) == Ascending(Range(WalkPath(a, b, level)))

\* cover_segment: a segment of exactly half a turn runs both ways round.
CoverSegment(a, b, level) ==
    LET delta == WrappedDelta(b[1] - a[1])
        toward(d) == <<a[1] + d, b[2]>>
        cells == IF Plan(a, toward(delta)) = 1 THEN WalkPath(a, toward(delta), level) ELSE CollectPath(a, toward(delta), level)
    IN IF Abs(delta) = HalfTurn THEN Ascending(UNION {Range(CollectPath(a, toward(d), level)) : d \in {HalfTurn, -HalfTurn}})
       ELSE cells

\* cover_path_raw: the path in the ring's own frame.
CoverPathRaw(a, b, level) == Range(WalkPath(a, b, level))

\* cell_lower_bound_sq: no part of a cell is nearer to the query.
LatGap(p, c, w) == Max({c[2] - p[2], p[2] - (c[2] + w), 0})
LonGap(p, c, w) ==
    IF \E turn \in {-Turn, 0, Turn} : p[1] + turn \in c[1] .. c[1] + w THEN 0
    ELSE Min({Abs(WrappedDelta(c[1] - p[1])), Abs(WrappedDelta(p[1] - (c[1] + w)))})
GapSq(p, c, w) == Sq(LatGap(p, c, w)) + Sq(LonGap(p, c, w))
CellLowerBoundSq(p, id, level) == GapSq(p, Corner(id, level), Width(level))

\* block_reach_sq: everything nearer lies in the 3x3 block around the query's
\* cell; 0 when the block leaves the face.
Margin(x, y, c, w) == Min({x - (c[1] - w), c[1] + 2 * w - x, y - (c[2] - w), c[2] + 2 * w - y})
BlockMarginSq(p, c, w, lo) ==
    IF c[1] - w < lo \/ c[1] + 2 * w > lo + Side \/ c[2] - w < 0 \/ c[2] + 2 * w > Side THEN 0
    ELSE Sq(Margin(WrappedDelta(p[1]), p[2], c, w))
BlockReachSq(p, level) == BlockMarginSq(p, Corner(CellAt(p, level), level), Width(level), FaceOf(p[1]) * Side - HalfTurn)

-----------------------------------------------------------------------------
(* The files of a geocode index (geocode_index/format.rs) and its string pool *)
(* (builder/strings.rs).  A record file is a sequence; an offset counts       *)
(* records, a list is its count and then its items.                           *)

NoData == -1
ListMax == 6
RingSentinel == <<99, 99>>

\* Table::span, Table::list: a run of records, as a set that is empty when the
\* run does not lie in the file.
Span(file, offset, count) ==
    IF count = 0 THEN {<<>>} ELSE IF offset < 0 \/ offset + count > Len(file) THEN {} ELSE {SubSeq(file, offset + 1, offset + count)}
ListAt(file, offset) ==
    IF offset = NoData THEN {<<>>}
    ELSE IF offset < 0 \/ offset >= Len(file) THEN {}
    ELSE Span(file, offset + 1, file[offset + 1].count)
Entries(file, offset) == IF ListAt(file, offset) = {} THEN <<>> ELSE CHOOSE l \in ListAt(file, offset) : TRUE
Get(file, index) == IF index \in 0 .. Len(file) - 1 THEN {file[index + 1]} ELSE {}

\* list_byte_len; the entries' count must fit its width.
CountOf(n) == [count |-> n, index |-> 0, segment |-> 0]
ListLen(n) == n + 1

\* Table::find_by_key, any_key_between: binary searches in a table sorted by cell.
RECURSIVE FindFrom(_, _, _, _)
FindFrom(cells, key, lo, hi) ==
    IF lo >= hi THEN {}
    ELSE LET mid == lo + (hi - lo) \div 2  at == cells[mid + 1].cell
         IN IF at = key THEN {cells[mid + 1]} ELSE IF at < key THEN FindFrom(cells, key, mid + 1, hi) ELSE FindFrom(cells, key, lo, mid)
FindByKey(cells, key) == FindFrom(cells, key, 0, Len(cells))
RECURSIVE FirstFrom(_, _, _, _)
FirstFrom(cells, key, lo, hi) ==
    IF lo >= hi THEN lo
    ELSE LET mid == lo + (hi - lo) \div 2 IN IF cells[mid + 1].cell < key THEN FirstFrom(cells, key, mid + 1, hi) ELSE FirstFrom(cells, key, lo, mid)
AnyKeyBetween(cells, lo, hi) == \E c \in Get(cells, FirstFrom(cells, lo, 0, Len(cells))) : c.cell <= hi

\* parse_rings: the rings between the sentinels, those of fewer than three
\* vertices dropped.
ParseRings(vertices) ==
    LET kept(rings, ring) == IF Len(ring) >= 3 THEN Append(rings, ring) ELSE rings
        end == FoldLeft(LAMBDA s, v : IF v = RingSentinel THEN [rings |-> kept(s.rings, s.ring), ring |-> <<>>] ELSE [s EXCEPT !.ring = Append(@, v)],
                        [rings |-> <<>>, ring |-> <<>>], vertices)
    IN kept(end.rings, end.ring)

\* InterpolationType::steps.
StepsThrough(mode, start, end) == CASE mode = "even" -> start % 2 = 0 /\ end % 2 = 0 [] mode = "odd" -> start % 2 = 1 /\ end % 2 = 1 [] OTHER -> TRUE

\* validate_radius: finite, not negative, at most MaxRadiusWidths cells.
MaxRadiusWidths == 3
RadiusValid(radius, level) == radius >= 0 /\ radius <= MaxRadiusWidths * Width(level)

\* StringPool: the strings in the order of their offsets, the first offset of
\* every hash, and the further offsets with the hash of that first one.
NewPool == [data |-> <<"">>, index |-> <<>>, collisions |-> <<>>, overflowed |-> FALSE]
PoolString(pool, offset) == pool.data[offset + 1]
FindWithHash(pool, s, hash) ==
    IF hash \notin DOMAIN pool.index THEN {}
    ELSE LET first == pool.index[hash]
             more == IF first \in DOMAIN pool.collisions THEN Range(pool.collisions[first]) ELSE {}
         IN {o \in {first} \cup more : PoolString(pool, o) = s}
PoolOffset(pool, max) == IF Len(pool.data) >= max THEN {} ELSE {Len(pool.data)}
WithKey(f, k, v) == [x \in DOMAIN f \cup {k} |-> IF x = k THEN v ELSE f[x]]
PoolAdded(pool, s, hash) ==
    LET offset == Len(pool.data)  grown == [pool EXCEPT !.data = Append(@, s)]
    IN IF hash \notin DOMAIN pool.index THEN [grown EXCEPT !.index = WithKey(@, hash, offset)]
       ELSE LET first == pool.index[hash]
                more == IF first \in DOMAIN pool.collisions THEN pool.collisions[first] ELSE <<>>
            IN [grown EXCEPT !.collisions = WithKey(@, first, Append(more, offset))]
InternWithHash_NoLook(pool, s, hash, max) ==
    IF hash \in DOMAIN pool.index THEN [pool |-> pool, at |-> pool.index[hash]]
    ELSE [pool |-> PoolAdded(pool, s, hash), at |-> Len(pool.data)]
InternWithHash(pool, s, hash, max) ==
    LET found == FindWithHash(pool, s, hash)
    IN IF found # {} THEN [pool |-> pool, at |-> Min(found)]
       ELSE IF PoolOffset(pool, max) = {} THEN [pool |-> [pool EXCEPT !.overflowed = TRUE], at |-> 0]
       ELSE IF pool.overflowed THEN [pool |-> pool, at |-> 0]
       ELSE [pool |-> PoolAdded(pool, s, hash), at |-> Len(pool.data)]
Intern(pool, s, hash, max) == IF s = "" THEN [pool |-> pool, at |-> 0] ELSE InternWithHash(pool, s, hash[s], max)

\* A run of strings interned in order.
InternAll(pool, strings, hash, max) ==
    FoldLeft(LAMBDA acc, s : LET one == Intern(acc.pool, s, hash, max) IN [pool |-> one.pool, at |-> Append(acc.at, one.at)], [pool |-> pool, at |-> <<>>], strings)

-----------------------------------------------------------------------------
(* The reader of a geocode index (geocode_index/reader.rs): opening it, and   *)
(* the answer to a query.  ix is the index's files; its fine and its coarse   *)
(* level each have a table of cells and three files of lists.                 *)

Far == 1000
SearchKinds == {"addr", "street", "interp"}

\* validate_string_offset, validate_span, validate_list.
StringOffsetValid(ix, offset) == offset \in 0 .. Len(ix.strings) - 1
SpanValid(file, offset, count) == Span(file, offset, count) # {}
ListValid(file, offset) == ListAt(file, offset) # {}

\* validate_geo_tree, validate_admin_tree, validate_way_geometry, validate_structure.
GeoTreeValid(tree) ==
    /\ \A i, j \in DOMAIN tree.cells : i < j => tree.cells[i].cell < tree.cells[j].cell
    /\ \A c \in Range(tree.cells) : \A k \in SearchKinds : ListValid(tree.lists[k], c.at[k])
AdminTreeValid(ix) == \A c \in Range(ix.admin.cells) : ListValid(ix.admin.list, c.at)
WayGeometryValid(ix) ==
    /\ \A w \in Range(ix.streets) : SpanValid(ix.streetNodes, w.first, w.count) /\ StringOffsetValid(ix, w.name)
    /\ \A w \in Range(ix.interps) : SpanValid(ix.interpNodes, w.first, w.count) /\ StringOffsetValid(ix, w.street)
    /\ \A p \in Range(ix.polys) : SpanValid(ix.vertices, p.first, p.count) /\ StringOffsetValid(ix, p.name) /\ StringOffsetValid(ix, p.code)
    /\ \A a \in Range(ix.addrs) : \A s \in {a.number, a.street, a.postcode} : StringOffsetValid(ix, s)
StructureValid(ix) ==
    /\ ix.header.counts = [addr |-> Len(ix.addrs), street |-> Len(ix.streets), interp |-> Len(ix.interps), admin |-> Len(ix.polys),
                           fineCells |-> Len(ix.fine.cells), coarseCells |-> Len(ix.coarse.cells), adminCells |-> Len(ix.admin.cells)]
    /\ GeoTreeValid(ix.fine) /\ GeoTreeValid(ix.coarse) /\ AdminTreeValid(ix)
    /\ StringOffsetValid(ix, 0) /\ WayGeometryValid(ix)

\* open_in: the level presence is looked up at, and the coarse cells with interpolations.
PresenceCellRadii == 1
PresenceLevel(ix) ==
    LET wide == {l \in 0 .. ix.header.coarse : Width(l) >= PresenceCellRadii * ix.header.coarseRadius} IN IF wide = {} THEN 0 ELSE Max(wide)
CoarseInterpCells(ix) == SelectSeq(ix.coarse.cells, LAMBDA c : c.at["interp"] # NoData)

PresentKinds(ix) == {k \in SearchKinds : ix.header.counts[k] > 0}

\* way_length, accumulated_length, segment_length.
SegmentLength(a, b) == Abs(WrappedDelta(b[1] - a[1])) + Abs(b[2] - a[2])
PathLength(nodes) == MapThenSumSet(LAMBDA i : SegmentLength(nodes[i], nodes[i + 1]), 1 .. Len(nodes) - 1)
InterpWayNodes(ix, w) == Span(ix.interpNodes, w.first, w.count)
WayLength(ix, w) == MapThenSumSet(PathLength, InterpWayNodes(ix, w))

\* interpolation_total_length: whether a way can be interpolated along.
MinTotalLen == 1
Interpolates(ix, w) == w.start # 0 /\ w.end # 0 /\ StepsThrough(w.mode, w.start, w.end) /\ WayLength(ix, w) >= MinTotalLen

\* segment_distance: the segments run along an axis, so the snap is the clamp.
SegmentHits(nodesFile, ways, e, q) ==
    {[index |-> e.index, segment |-> e.segment,
      dist |-> PointToSegmentDistanceSq(q, nodesFile[w.first + e.segment + 1], nodesFile[w.first + e.segment + 2])] :
        w \in {w \in Get(ways, e.index) : e.segment + 1 < w.count /\ SpanValid(nodesFile, w.first, w.count)}}
AddressHits(ix, e, q) == {[index |-> e.index, segment |-> 0, dist |-> ApproxDistanceSq(q, a.at)] : a \in Get(ix.addrs, e.index)}
StreetHits(ix, e, q) == SegmentHits(ix.streetNodes, ix.streets, e, q)
InterpHits(ix, e, q) ==
    {h \in SegmentHits(ix.interpNodes, ix.interps, e, q) : \A w \in Get(ix.interps, h.index) : Interpolates(ix, w)}
Hits(ix, kind, e, q) ==
    CASE kind = "addr" -> AddressHits(ix, e, q) [] kind = "street" -> StreetHits(ix, e, q) [] kind = "interp" -> InterpHits(ix, e, q)

\* The two sinks: BestTracker keeps the nearest of a kind, CandidateCollector all.
NoHits == [k \in SearchKinds |-> <<>>]
BestOffer(hits, h) == IF hits = <<>> \/ h.dist < hits[1].dist THEN <<h>> ELSE hits
CollectOffer(hits, h) == Append(hits, h)
Offer(mode, hits, h) == IF mode = "best" THEN BestOffer(hits, h) ELSE CollectOffer(hits, h)
SinkBound(mode, sink, k) == IF mode = "best" /\ sink[k] # <<>> THEN sink[k][1].dist ELSE Far
Found(sink) == {k \in SearchKinds : sink[k] # <<>>}

\* search_cell.
SearchCell(ix, tree, q, cell, maxSq, kinds, mode, sink) ==
    [k \in SearchKinds |->
        IF k \notin kinds THEN sink[k]
        ELSE FoldLeft(LAMBDA hits, e : FoldSet(LAMBDA h, acc : IF h.dist < maxSq THEN Offer(mode, acc, h) ELSE acc, hits, Hits(ix, k, e, q)),
                      sink[k], Entries(tree.lists[k], cell.at[k]))]
SearchById(ix, tree, q, id, maxSq, kinds, mode, sink) ==
    FoldSet(LAMBDA cell, acc : SearchCell(ix, tree, q, cell, maxSq, kinds, mode, acc), sink, FindByKey(tree.cells, id))

Neighborhood(cell, level) == <<cell>> \o Ascending(AllNeighbors(cell, level) \ {cell})
CellNeighborhood(q, level) == Neighborhood(CellAt(q, level), level)

\* possibly_within: which kinds the cells around the query may still hold.
Present(cells, block, level) == \E id \in Range(block) : AnyKeyBetween(cells, RangeMin(id, level), RangeMax(id, level))
PossiblyIn(ix, kinds, bounds, allClasses, block, level, reach) ==
    LET noOthers == allClasses /\ kinds \cap {"addr", "street"} # {} /\ bounds["addr"] <= reach /\ bounds["street"] <= reach
                    /\ ~Present(ix.coarse.cells, block, level)
    IN (IF noOthers THEN {} ELSE kinds \ {"interp"})
       \cup {k \in kinds \cap {"interp"} : bounds[k] > reach \/ Present(CoarseInterpCells(ix), block, level)}
PossiblyWithin(ix, q, kinds, bounds, allClasses) ==
    IF "interp" \notin kinds /\ ~(allClasses /\ kinds # {}) THEN kinds
    ELSE UNION {PossiblyIn(ix, kinds, bounds, allClasses, CellNeighborhood(q, level), level, BlockReachSq(q, level)) : level \in {PresenceLevel(ix)}}
CoarseMissing(ix, q, kinds) == PossiblyWithin(ix, q, kinds, [k \in SearchKinds |-> Sq(ix.header.coarseRadius)], FALSE)

BoundsFor(mode, sink, kinds, maxSq) == [k \in SearchKinds |-> IF k \in kinds THEN Min({SinkBound(mode, sink, k), maxSq}) ELSE 0]
Reach(bounds) == Max({bounds[k] : k \in SearchKinds})

\* The walk over the edge neighbours, nearest bound deciding what is left out.
Fresh(c, cells, level) == Ascending(EdgeNeighbors(c.id, level) \ {x.id : x \in Range(cells)})
Enqueued(q, cells, fresh, level) ==
    cells \o [i \in DOMAIN fresh |-> [id |-> fresh[i], bound |-> CellLowerBoundSq(q, fresh[i], level), searched |-> FALSE]]
WithSink(q, level, s, c, sink, reach) ==
    [sink |-> sink, cells |-> IF c.bound >= reach THEN s.cells ELSE Enqueued(q, s.cells, Fresh(c, s.cells, level), level)]
Visited(ix, tree, q, level, maxSq, kinds, mode, s, c) ==
    LET wanted == BoundsFor(mode, s.sink, kinds, maxSq)
        sinks == {IF c.searched THEN s.sink ELSE SearchById(ix, tree, q, c.id, maxSq, {k \in SearchKinds : c.bound < wanted[k]}, mode, s.sink)}
    IN IF c.bound >= Reach(wanted) THEN s
       ELSE CHOOSE v \in {WithSink(q, level, s, c, sink, Reach(BoundsFor(mode, sink, kinds, maxSq))) : sink \in sinks} : TRUE
RECURSIVE Walk(_, _, _, _, _, _, _, _, _)
Walk(ix, tree, q, level, maxSq, kinds, mode, s, cursor) ==
    IF cursor > Len(s.cells) THEN s.sink
    ELSE Walk(ix, tree, q, level, maxSq, kinds, mode,
              FoldLeft(LAMBDA t, c : Visited(ix, tree, q, level, maxSq, kinds, mode, t, c), s, SubSeq(s.cells, cursor, Len(s.cells))),
              Len(s.cells) + 1)

\* search_level: the block around the query; then, unless nothing wanted can be
\* outside it, the walk.
SearchBlock(ix, tree, q, maxSq, kinds, mode, sink, block) ==
    FoldLeft(LAMBDA acc, id : SearchById(ix, tree, q, id, maxSq, kinds, mode, acc), sink, block)
WalkFor(ix, tree, q, level, maxSq, still, mode, searched, block, reach) ==
    IF Reach(BoundsFor(mode, searched, still, maxSq)) <= reach THEN searched
    ELSE Walk(ix, tree, q, level, maxSq, still, mode,
              [sink |-> searched, cells |-> [i \in DOMAIN block |-> [id |-> block[i], bound |-> 0, searched |-> TRUE]]], 1)
SearchOutside(ix, tree, q, level, maxSq, left, presence, mode, searched, block, reach, bounds) ==
    IF Reach(bounds) <= reach THEN searched
    ELSE WalkFor(ix, tree, q, level, maxSq, IF presence THEN PossiblyWithin(ix, q, left, bounds, TRUE) ELSE left, mode, searched, block, reach)
AfterBlock(ix, tree, q, level, maxSq, left, presence, mode, searched, block) ==
    SearchOutside(ix, tree, q, level, maxSq, left, presence, mode, searched, block, BlockReachSq(q, level), BoundsFor(mode, searched, left, maxSq))
SearchLevel(ix, tree, q, level, maxSq, kinds, handOff, presence, mode, sink) ==
    CHOOSE end \in UNION {{AfterBlock(ix, tree, q, level, maxSq, IF handOff THEN kinds \cap Found(searched) ELSE kinds, presence, mode, searched, block) :
                              searched \in {SearchBlock(ix, tree, q, maxSq, kinds, mode, sink, block)}} : block \in {CellNeighborhood(q, level)}} : TRUE

\* admin_polygon_contains.
AdminContains(ix, poly, q) ==
    /\ poly.count >= 3
    /\ \E vertices \in Span(ix.vertices, poly.first, poly.count) :
        LET rings == ParseRings(vertices) IN rings # <<>> /\ PointInPolygon(q, rings[1], Tail(rings))

\* search_admin_ranked: the smallest polygon of every level around the query;
\* search_admin_all: every polygon once.
LevelSlots == 12
AdminSeen(ix, q) ==
    UNION {UNION {{e.index : e \in Range(Entries(ix.admin.list, c.at))} : c \in FindByKey(ix.admin.cells, id)} :
             id \in Range(CellNeighborhood(q, ix.header.admin))}
SearchAdminAll(ix, q) == {i \in AdminSeen(ix, q) : \E p \in Get(ix.polys, i) : AdminContains(ix, p, q)}
Smallest(ix, found) ==
    {[level |-> l, area |-> Min({ix.polys[i + 1].area : i \in {i \in found : ix.polys[i + 1].level = l}})] :
        l \in {ix.polys[i + 1].level : i \in found} \cap (0 .. LevelSlots - 1)}
SearchAdminRanked(ix, q) == Smallest(ix, SearchAdminAll(ix, q))

\* Both entry points search the fine level, then the coarse one for what is missing.
Fine(ix, q, mode) ==
    SearchLevel(ix, ix.fine, q, ix.header.street, Sq(ix.header.fineRadius), PresentKinds(ix),
                mode = "best" /\ Sq(ix.header.coarseRadius) >= Sq(ix.header.fineRadius), FALSE, mode, NoHits)
ThenCoarse(ix, q, mode, near, missing) ==
    IF missing = {} THEN near ELSE SearchLevel(ix, ix.coarse, q, ix.header.coarse, Sq(ix.header.coarseRadius), missing, FALSE, TRUE, mode, near)
AfterFine(ix, q, mode, near) == ThenCoarse(ix, q, mode, near, CoarseMissing(ix, q, PresentKinds(ix) \ Found(near)))
Searched(ix, q, mode) == AfterFine(ix, q, mode, Fine(ix, q, mode))

\* interpolated_number_at_length, rounding half away from zero.
Rounded(n, d) == IF n >= 0 THEN (2 * n + d) \div (2 * d) ELSE -((2 * (-n) + d) \div (2 * d))
Snap(q, a, b) ==
    LET end == a[1] + WrappedDelta(b[1] - a[1])
        at(turn) == <<Clamp(a[1] + WrappedDelta(q[1] - a[1]) + turn, a[1], end), Clamp(q[2], a[2], b[2])>>
    IN CHOOSE s \in {at(t) : t \in {-Turn, 0, Turn}} : ApproxDistanceSq(q, s) = PointToSegmentDistanceSq(q, a, b)
PassedAt(nodes, segment, q) ==
    PathLength(SubSeq(nodes, 1, segment + 1)) + SegmentLength(nodes[segment + 1], Snap(q, nodes[segment + 1], nodes[segment + 2]))
NumberAt(w, passed, length) ==
    IF w.mode = "all" THEN w.start + Rounded(passed * (w.end - w.start), length) ELSE w.start + 2 * Rounded(passed * (w.end - w.start), 2 * length)
InterpolatedNumber(ix, h, q) ==
    LET w == ix.interps[h.index + 1] IN NumberAt(w, PassedAt(CHOOSE n \in InterpWayNodes(ix, w) : TRUE, h.segment, q), WayLength(ix, w))

\* Reader::query, and Candidates::into_result over Reader::candidates: the
\* distances, the smallest areas, the house number.
Nearest(hits) == IF hits = <<>> THEN {} ELSE {Min({h.dist : h \in Range(hits)})}
NearestOf(hits) == [k \in SearchKinds |-> Nearest(hits[k])]
Query(ix, q) == [near |-> NearestOf(Searched(ix, q, "best")), admin |-> SearchAdminRanked(ix, q)]
IntoResult(ix, q) == [near |-> NearestOf(Searched(ix, q, "all")), admin |-> Smallest(ix, SearchAdminAll(ix, q))]
HouseNumberAt(ix, q) == {InterpolatedNumber(ix, h, q) : h \in Range(Searched(ix, q, "best")["interp"])}
=============================================================================
