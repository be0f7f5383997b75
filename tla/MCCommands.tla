----------------------------- MODULE MCCommands -----------------------------
(* The commands that select from or report on files, and change documents,    *)
(* each on the small files of its worlds; the check commands' worlds come     *)
(* first.                                                                     *)
EXTENDS CommandState, TLC

-----------------------------------------------------------------------------
(* The check commands on small files.                                         *)

I == INSTANCE Check

----------------------------------------------------------------------------
(* check --index: one or two data blobs of small blocks under headers that    *)
(* are true, or wrong in one place.                                           *)

El(i, at, keys) == [id |-> i, at |-> at, keys |-> keys]
Fd(is, elems) == [is |-> is, elems |-> elems, uneven |-> FALSE, runs |-> IF is = "dense" THEN Len(elems) ELSE 0]
Bk(groups, granularity, offset) == [groups |-> groups, strings |-> 3, granularity |-> granularity, offset |-> offset]
DenseRun == Fd("dense", <<El(-1, 2, {1}), El(3, -1, {}), El(2, 0, {2})>>)
Blocks ==
    {Bk(<<<<DenseRun>>>>, g, o) : g \in {4, 2, -3}, o \in {0, 1}}
    \cup {Bk(g, 4, 0) : g \in {
        <<<<DenseRun, Fd("skipped", <<>>)>>, <<Fd("node", <<El(7, 1, {2})>>)>>>>,
        <<<<Fd("node", <<El(7, 9, {})>>)>>>>, <<<<Fd("way", <<El(1, 0, {1, 2})>>), Fd("way", <<El(5, 0, {})>>)>>>>,
        <<<<DenseRun>>, <<Fd("way", <<El(4, 0, {})>>)>>>>, <<<<DenseRun, Fd("node", <<El(4, 0, {})>>)>>>>,
        <<<<Fd("relation", <<El(2, 0, {0})>>)>>>>, <<<<Fd("dense", <<>>)>>>>, <<>>,
        <<<<DenseRun, DenseRun>>>>, <<<<Fd("way", <<El(1, 0, {3})>>)>>>>, <<<<[DenseRun EXCEPT !.uneven = TRUE]>>>>,
        <<<<[DenseRun EXCEPT !.runs = 2]>>>>}}
NoWire == [present |-> FALSE, version |-> 3, len |-> 42, kind |-> "node", lo |-> 0, hi |-> 0, count |-> 0, box |-> <<0, 0>>]
Wires(block) ==
    LET w == I!Serialize(I!IndexOf(block)) IN
    {NoWire, w, [w EXCEPT !.version = 2], [w EXCEPT !.version = 1, !.len = 26], [w EXCEPT !.len = 26], [w EXCEPT !.version = 7],
     [w EXCEPT !.kind = "way"], [w EXCEPT !.count = @ + 1], [w EXCEPT !.lo = @ - 1], [w EXCEPT !.hi = @ + 1],
     [w EXCEPT !.box = <<0, 0>>], [w EXCEPT !.version = 2, !.box = <<0, 0>>], [w EXCEPT !.box = <<-3, 3>>], [w EXCEPT !.box = <<-1, 1>>]}
TagWire(has, ok, keys) == [present |-> has, readable |-> ok, keys |-> keys]
TagWires(block) ==
    LET keys == I!Run(block).keys IN
    {TagWire(FALSE, FALSE, {}), TagWire(TRUE, FALSE, {}), TagWire(TRUE, TRUE, keys), TagWire(TRUE, TRUE, keys \ {2}), TagWire(TRUE, TRUE, keys \cup {0})}
Frame(type, index, tags, block, bad) == [type |-> type, index |-> index, tags |-> tags, block |-> block, bad |-> bad]
Plain == Bk(<<<<Fd("way", <<El(9, 0, {})>>)>>>>, 4, 0)
FirstFrame == Frame("header", NoWire, TagWire(FALSE, FALSE, {}), Plain, FALSE)
LastFrame(indexed, bad) == Frame("data", IF indexed THEN I!Serialize(I!IndexOf(Plain)) ELSE NoWire, TagWire(FALSE, FALSE, {}), Plain, bad)
IndexWorlds ==
    \/ \E block \in Blocks, cap \in {0, 1} : \E w \in Wires(block), t \in TagWires(block), more \in {<<>>, <<LastFrame(TRUE, FALSE)>>, <<LastFrame(FALSE, FALSE)>>} :
          job = [cmd |-> "check-index", cap |-> cap, file |-> <<FirstFrame, Frame("data", w, t, block, FALSE)>> \o more]
    \/ \E file \in {<<>>, <<LastFrame(TRUE, FALSE)>>, <<FirstFrame, LastFrame(TRUE, TRUE)>>} : job = [cmd |-> "check-index", cap |-> 0, file |-> file]

----------------------------------------------------------------------------
(* check --refs: nodes 1 and 2 (and 9, beyond the allocation), ways and       *)
(* relations referencing them or others, before or after them.                *)

Nd(i, at) == [kind |-> "node", id |-> i, at |-> at, group |-> 1]
Wy(i, refs) == [kind |-> "way", id |-> i, refs |-> refs, group |-> 2]
Rl(i, members) == [kind |-> "relation", id |-> i, members |-> members, group |-> 3]
Bb(claim, items) == [claim |-> claim, bad |-> FALSE, items |-> items]
Memberships == {<<>>, <<<<"node", 9>>, <<"way", 2>>>>, <<<<"relation", 3>>, <<"way", 9>>, <<"relation", 4>>>>, <<<<"other", 1>>>>, <<<<"way", -1>>>>}
RefFile(how, n, w1, w2, m1, m2) ==
    LET a == <<n, Nd(9, 0)>>  b == <<Wy(1, w1)>>  c == <<Wy(2, w2), Wy(9, <<>>)>>  d == <<Rl(1, m1)>>  e == <<Rl(3, m2)>>
    IN CASE how = "indexed"   -> <<Bb("node", <<n>>), Bb("node", <<Nd(9, 0)>>), Bb("way", b), Bb("way", c), Bb("relation", d \o e)>>
         [] how = "unindexed" -> <<Bb("none", d \o b), Bb("none", c \o a), Bb("none", e)>>
         [] how = "bad"       -> <<Bb("none", a), [Bb("none", d) EXCEPT !.bad = TRUE]>>
         [] how = "foreign"   -> <<Bb("node", a), Bb("way", b \o d), Bb("way", c)>>
         [] OTHER             -> <<Bb("node", a), Bb("none", b)>>
RefWorlds ==
    \E how \in {"indexed", "unindexed", "bad", "foreign", "partial"}, n \in {Nd(1, 0), Nd(-1, 0)}, w1 \in {<<1, 9, 1>>, <<9>>},
       w2 \in {<<9>>, <<2, 2>>, <<-2>>}, m1 \in Memberships, relations \in BOOLEAN, c \in {<<FALSE, 0>>, <<TRUE, 0>>, <<TRUE, 1>>} :
          job = [cmd |-> "check-refs", file |-> RefFile(how, n, w1, w2, m1, <<<<"relation", 1>>>>), relations |-> relations,
                 show |-> c[1], cap |-> c[2], bound |-> [k \in AllKinds |-> 5]]

----------------------------------------------------------------------------
(* check --ids. *)

IdFile(how, i, j) ==
    LET n(k) == Nd(i[k], 0)  w(k) == Wy(j[k], <<>>)
    IN CASE how = "indexed" -> <<Bb("node", <<n(1), n(2)>>), Bb("node", <<n(3)>>), Bb("way", <<w(1)>>), Bb("way", <<w(2)>>)>>
         [] how = "mixed up" -> <<Bb("way", <<w(1)>>), Bb("node", <<n(1), n(2)>>), Bb("relation", <<Rl(1, <<>>)>>), Bb("way", <<w(2)>>)>>
         [] how = "unindexed" -> <<Bb("none", <<n(1), w(1)>>), Bb("none", <<n(2), n(3), Rl(1, <<>>)>>)>>
         [] how = "bad"      -> <<Bb("none", <<n(1)>>), [Bb("none", <<n(2)>>) EXCEPT !.bad = TRUE]>>
         [] how = "foreign"  -> <<Bb("node", <<n(1), w(1)>>)>>
         [] OTHER            -> <<Bb("node", <<n(1)>>), Bb("none", <<w(1)>>)>>
IdWorlds ==
    \E how \in {"indexed", "mixed up", "unindexed", "bad", "foreign", "partial"}, i \in [1 .. 3 -> {-1, 1, 2, 9}], j \in {<<1, 2>>, <<9, 9>>},
       full \in BOOLEAN, c \in {<<AllKinds, 0>>, <<AllKinds, 1>>, <<{"node"}, 0>>} :
          job = [cmd |-> "check-ids", file |-> IdFile(how, i, j), full |-> full, filter |-> c[1], cap |-> c[2],
                 bound |-> [k \in AllKinds |-> 5]]

----------------------------------------------------------------------------
(* check --locations. *)

Wl(i, refs, locs) == [kind |-> "way", id |-> i, refs |-> refs, locs |-> locs]
LocFile(how, at, w1, w2) ==
    LET a == <<Nd(1, at[1]), Nd(3, at[2])>>  b == <<Nd(at[4], at[3]), Nd(4, 1)>>
    IN CASE how = "indexed"   -> <<Bb("node", a), Bb("node", b), Bb("way", <<w1>>), Bb("way", <<w2>>)>>
         [] how = "unindexed" -> <<Bb("none", <<w1>> \o a), Bb("none", b \o <<w2>>)>>
         [] how = "hidden"    -> <<Bb("node", a \o <<w1>>), Bb("relation", b), Bb("way", <<w2>>)>>
         [] how = "foreign"   -> <<Bb("node", a), Bb("way", <<w1, Nd(1, 1)>>)>>
         [] how = "bad"       -> <<Bb("node", a), [Bb("way", <<w2>>) EXCEPT !.bad = TRUE]>>
         [] OTHER             -> <<Bb("node", a), Bb("none", b)>>
LocWorlds ==
    \/ \E how \in {"indexed", "unindexed", "hidden", "foreign", "bad", "partial"}, at \in {<<0, 1, 2, 1>>, <<1, 1, 1, 3>>, <<9, 1, 2, 3>>, <<1, 9, 1, 3>>, <<2, 2, 0, -1>>},
          r \in {<<1, 3>>, <<4, 7>>, <<5, 2>>, <<-1, 1>>}, l \in {<<>>, <<1, 2>>, <<0, 9>>}, slots \in {0, 2, 3}, agreement \in BOOLEAN, cap \in {0, 2} :
          job = [cmd |-> "check-locations", file |-> LocFile(how, at, Wl(1, r, l), Wl(2, <<2, 7, 1>>, <<1, 1, 1>>)), locs |-> TRUE, history |-> FALSE,
                 slots |-> slots, agreement |-> agreement, cap |-> cap]
    \/ \E h \in {<<FALSE, FALSE>>, <<TRUE, TRUE>>} :
          job = [cmd |-> "check-locations", file |-> LocFile("indexed", <<0, 1, 2, 1>>, Wl(1, <<1>>, <<1>>), Wl(2, <<1>>, <<1>>)), locs |-> h[1], history |-> h[2],
                 slots |-> 2, agreement |-> FALSE, cap |-> 0]

Checks == {"check-index", "check-refs", "check-ids", "check-locations"}

CheckOpened ==
    \/ IndexWorlds /\ I!Opened
    \/ RefWorlds /\ I!RefsOpened
    \/ IdWorlds /\ I!VerifyOpened
    \/ LocWorlds /\ I!LocOpened

CheckNext ==
    \/ job.cmd = "check-index" /\ I!Next
    \/ job.cmd = "check-refs" /\ I!RefsNext
    \/ job.cmd = "check-ids" /\ I!VerifyNext
    \/ job.cmd = "check-locations" /\ I!LocNext

\* The check commands: the index, reference, ID and location reports of a file
\* are what its elements and headers say.
ChecksAreTrue ==
    /\ job.cmd = "check-index" => I!IndexReportIsTrue
    /\ job.cmd = "check-refs" => I!RefsAreTrue
    /\ job.cmd = "check-ids" => I!IdsAreTrue
    /\ job.cmd = "check-locations" => I!LocationsAreTrue

-----------------------------------------------------------------------------
(* The commands that select from or report on files, and change documents,    *)
(* each on the small files of its worlds.                                     *)

E == INSTANCE Extract
T == INSTANCE Selection
F == INSTANCE Diff
C == INSTANCE MergeChanges
N == INSTANCE Inspect
X == INSTANCE Contents

Node(i, at, tags) == [kind |-> "node", id |-> i, at |-> at, tags |-> tags]
Way(i, refs, tags) == [kind |-> "way", id |-> i, refs |-> refs, tags |-> tags]
Rel(i, members, smart, tags) == [kind |-> "relation", id |-> i, members |-> members, smart |-> smart, tags |-> tags]

\* A blob with the index a writer gives it.
Blob(claim, items) ==
    [claim |-> claim, items |-> items, dense |-> TRUE, bad |-> FALSE, tagged |-> claim # "none",
     spans |-> {e.at : e \in Range(Of("node", items))}, keys |-> UNION {e.tags : e \in Range(items)},
     lo |-> Min({e.id : e \in Range(items)}), hi |-> Max({e.id : e \in Range(items)})]

\* Five blobs of three nodes, two ways and two relations, laid out and spoilt
\* in the ways an input can be.
Layout(how, n1, n2, n3, w1, w2, r1, r2) ==
    LET a == Blob("node", <<n1, n2>>)  b == Blob("node", <<n3>>)  c == Blob("way", <<w1>>)
        d == Blob("way", <<w2>>)       e == Blob("relation", <<r1, r2>>)
    IN CASE how = "plain"     -> <<a, b, c, d, e>>
         [] how = "unsorted"  -> <<e, d, b, c, a>>
         [] how = "unindexed" -> <<Blob("none", <<n1, n2, n3, w1>>), Blob("none", <<w2, r1, r2>>)>>
         [] how = "wrongbox"  -> <<[a EXCEPT !.spans = {"both"}], [b EXCEPT !.dense = FALSE], c, d, e>>
         [] how = "foreign"   -> <<[a EXCEPT !.items = <<n1, w1>>], b, d, e>>
         [] how = "bad"       -> <<a, [b EXCEPT !.bad = TRUE], c, d, e>>
         [] OTHER             -> <<a, [b EXCEPT !.claim = "none"], c, d, e>>
Hows == {"plain", "unsorted", "unindexed", "wrongbox", "foreign", "bad", "partial"}
Members1 == {{<<"node", 3>>}, {<<"way", 2>>}, {<<"way", 1>>, <<"relation", 2>>}}
Members2 == {{}, {<<"relation", 1>>}}

Extracts ==
    LET call(how, at, m1, m2, smart, shapes, strategy, clean, force) ==
          [cmd |-> "extract",
           file |-> Layout(how, Node(1, at[1], {}), Node(2, at[2], {}), Node(3, at[3], {}), Way(1, {1, 2}, {}),
                           Way(2, {3}, {}), Rel(1, m1, smart, {}), Rel(2, m2, FALSE, {})),
           sorted |-> how # "unsorted", shapes |-> shapes, strategy |-> strategy, clean |-> clean,
           force |-> force, multi |-> Len(shapes) > 1]
        one == [1 .. 3 -> {"r1", "near", "far"}]
        two == [1 .. 3 -> {"r1", "r2", "both", "far"}]
        w1  == {<<"way", 1>>}
    IN {call(how, at, m1, m2, smart, <<"bbox">>, strategy, FALSE, TRUE) :
            how \in Hows, at \in one, m1 \in Members1, m2 \in Members2, smart \in BOOLEAN,
            strategy \in {"simple", "complete", "smart"}}
       \cup {call(how, at, w1, {}, FALSE, shapes, strategy, clean, FALSE) :
            how \in Hows, at \in one, shapes \in {<<"bbox">>, <<"polygon">>},
            strategy \in {"simple", "smart"}, clean \in BOOLEAN}
       \cup {call(how, at, w1, {}, FALSE, shapes, "simple", FALSE, TRUE) :
            how \in Hows \ {"bad"}, at \in two, shapes \in {<<"bbox", "bbox">>, <<"bbox", "polygon">>}}
       \cup {call(how, at, w1, {}, TRUE, <<"bbox", "bbox">>, "smart", FALSE, TRUE) :
            how \in {"plain", "unsorted"}, at \in two}

\* Tags: node 1, way 2 and the relations have a, b, both or none.
Exprs == {{[kinds |-> {"node"}, key |-> "a"]}, {[kinds |-> {"relation"}, key |-> "a"]},
          {[kinds |-> {"way"}, key |-> "b"], [kinds |-> AllKinds, key |-> "a"]},
          {[kinds |-> AllKinds, key |-> "*"]},
          {[kinds |-> {"way"}, key |-> "a"], [kinds |-> {"relation"}, key |-> "*"]}}
TagFilters ==
    {[cmd |-> "tags-filter",
      file |-> Layout(how, Node(1, "far", t[1]), Node(2, "far", {}), Node(3, "far", {"b"}), Way(1, {1, 2}, {"b"}),
                      Way(2, {3}, t[2]), Rel(1, m1, FALSE, t[3]), Rel(2, m2, FALSE, {"b"})),
      exprs |-> x, refs |-> mode \in {"refs", "strip", "inverted", "distrust"}, removeTags |-> mode = "strip",
      invert |-> mode = "inverted", distrust |-> mode = "distrust", force |-> force] :
        how \in Hows \ {"wrongbox"}, t \in [1 .. 3 -> {{}, {"a"}}], m1 \in Members1, m2 \in Members2,
        x \in Exprs, mode \in {"single", "refs", "strip", "inverted", "distrust"}, force \in {FALSE}}

Changes == [action : {"create", "modify", "delete"}, kind : {"node", "way"}, id : {1}, tags : {{}, {"a"}}]
OscFilters ==
    {[cmd |-> "tags-filter-osc", file |-> <<>>, force |-> FALSE, invert |-> FALSE, distrust |-> FALSE,
      exprs |-> {[kinds |-> {"node", "way"}, key |-> "a"]}, batches |-> <<<<c, d>>, <<e>>>>] :
        c \in Changes, d \in Changes, e \in Changes}

NoneAsked == [k \in AllKinds |-> {}]
Selections ==
    {[cmd |-> c[1], refs |-> c[2] # "plain", removeTags |-> c[2] = "strip", addSelf |-> c[2] = "self",
      file |-> Layout(how, Node(1, "far", {}), Node(2, "far", {"b"}), Node(3, "far", {}), Way(1, {1, 2}, {"b"}),
                      Way(2, {3}, {}), Rel(1, m1, FALSE, {"b"}), Rel(2, m2, FALSE, {})),
      ids |-> ids, force |-> force] :
        c \in {<<"getid", "plain">>, <<"getid", "refs">>, <<"getid", "strip">>, <<"removeid", "plain">>,
               <<"getparents", "plain">>, <<"getparents", "self">>},
        how \in Hows \ {"wrongbox", "foreign"}, m1 \in Members1, m2 \in Members2, force \in BOOLEAN,
        ids \in {[NoneAsked EXCEPT !["node"] = {1}], [NoneAsked EXCEPT !["node"] = {3}, !["way"] = {1}],
                 [NoneAsked EXCEPT !["way"] = {2}], [NoneAsked EXCEPT !["relation"] = {1}],
                 [NoneAsked EXCEPT !["relation"] = {2}, !["node"] = {2}], NoneAsked}}

Version(kind, id, v, ts, visible) == [kind |-> kind, id |-> id, version |-> v, ts |-> ts, visible |-> visible]
TimeFilters ==
    {[cmd |-> "time-filter", sorted |-> sorted, history |-> history, cutoff |-> 1,
      file |-> <<[claim |-> "none", bad |-> FALSE, items |-> <<Version("node", i[1], v[1], t[1], TRUE), Version("node", i[2], v[2], t[2], see)>>],
                 [claim |-> "none", bad |-> bad, items |-> <<Version(kind, i[3], v[3], t[3], TRUE)>>]>>] :
        sorted \in {TRUE}, history \in BOOLEAN, bad \in {FALSE}, kind \in {"node", "way"}, see \in BOOLEAN,
        i \in [1 .. 3 -> {-2, 1, 2}], v \in {<<1, 2, 3>>, <<1, 1, 2>>, <<0, 1, 2>>, <<2, 1, 3>>},
        t \in [1 .. 3 -> {0, 2}] \cup {<<-1, 0, 0>>, <<0, 0, -1>>}}
    \cup {[cmd |-> "time-filter", sorted |-> s, history |-> h, cutoff |-> 1,
           file |-> <<[claim |-> "none", bad |-> TRUE, items |-> <<>>]>>] : s \in BOOLEAN, h \in BOOLEAN}

Seqs(items, n) == UNION {[1 .. k -> items] : k \in 0 .. n}
SeqDiffs ==
    \/ \E o \in Seqs(1 .. 3, 3), n \in Seqs(1 .. 2, 4), w \in {7, 99}, e \in {2, 99} :
           job = [cmd |-> "seqdiff", old |-> o, new |-> n, maxWork |-> w, maxEdits |-> e]
    \/ \E o, n \in Seqs({"k", "l"} \X (1 .. 2), 2) :
           job = [cmd |-> "tagdiff", old |-> o, new |-> n, maxWork |-> 99, maxEdits |-> 99]

Init ==
    \/ job \in Extracts /\ E!Opened
    \/ job \in TagFilters \cup OscFilters /\ T!TagsOpened
    \/ job \in Selections /\ T!Opened
    \/ job \in TimeFilters /\ T!TimeOpened
    \/ F!Worlds /\ F!Opened
    \/ SeqDiffs /\ F!SeqOpened
    \/ C!Worlds /\ C!Opened
    \/ CheckOpened
    \/ N!CountWorlds /\ N!CountOpened
    \/ N!Worlds /\ N!Opened
    \/ X!Worlds /\ X!Opened
    \/ X!DigestWorlds /\ X!DigestOpened

Next ==
    \/ job.cmd = "extract" /\ E!Next
    \/ job.cmd \in {"tags-filter", "tags-filter-osc"} /\ T!TagsNext
    \/ job.cmd \in {"getid", "removeid", "getparents"} /\ T!Next
    \/ job.cmd = "time-filter" /\ T!TimeNext
    \/ job.cmd \in {"diff", "derive"} /\ F!Next
    \/ job.cmd \in {"seqdiff", "tagdiff"} /\ F!SeqNext
    \/ job.cmd = "osc" /\ C!Next
    \/ job.cmd \in Checks /\ CheckNext
    \/ job.cmd = "tags-count" /\ N!CountNext
    \/ job.cmd \in N!Inspections /\ N!Next
    \/ job.cmd = "export" /\ X!Next
    \/ job.cmd = "digest" /\ X!DigestNext
    \/ result # "running" /\ UNCHANGED cvars

Spec == Init /\ [][Next]_cvars

\* extract (commands/extract) writes for every region exactly what its strategy
\* selects, or fails for a reason the file gives.
ExtractIsTrue == job.cmd = "extract" => E!ExtractIsTrue

\* The other selections: tags-filter, getid, removeid, getparents and
\* time-filter write exactly the elements the request selects from the file's
\* elements, however the blobs and their indexes are laid out.
SelectionIsTrue ==
    /\ job.cmd \in {"tags-filter", "tags-filter-osc"} => T!FilterIsTrue
    /\ job.cmd \in {"getid", "removeid", "getparents"} => T!SelectIsTrue
    /\ job.cmd = "time-filter" => T!TimeFilterIsTrue

\* The commands that report on files: what diff prints or derives, with the
\* details of a modified element, is what comparing the elements one by one
\* says, however the files are cut into blobs, units and chunks; what the
\* checks, tag counts and inspections report of a file is so; export writes the
\* features the elements make, and digests tell files apart by their content.
ReportIsTrue ==
    /\ job.cmd \in {"diff", "derive"} => F!DiffIsTrue
    /\ job.cmd \in {"seqdiff", "tagdiff"} => F!DetailsAreTrue
    /\ job.cmd \in Checks => ChecksAreTrue
    /\ job.cmd = "tags-count" => N!TagCountsAreTrue
    /\ job.cmd \in N!Inspections => N!InspectTellsTrue
    /\ job.cmd = "export" => X!ExportIsTrue
    /\ job.cmd = "digest" => X!DigestIsTrue

\* Change documents (osc/, commands/merge_changes): merged, simplified, loaded
\* from a directory or written, applying them does what they say.
ChangesApplyTrue == job.cmd = "osc" => C!ChangesApplyTrue
=============================================================================
