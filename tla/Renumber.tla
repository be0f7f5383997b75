------------------------------ MODULE Renumber ------------------------------
(* commands/renumber: new IDs by position, references by rank.  Nodes, ways   *)
(* and relations are rewritten in that order, each kind's blobs on the        *)
(* ordered pool (OrderedPool), whose consumer is what is modelled here; R1    *)
(* collects the relations' IDs before they are rewritten.  A way has refs, a  *)
(* relation members <<kind, id>>, both sequences; wire says how an element is *)
(* encoded: "packed", "absent" (no such field) or a form that cannot be       *)
(* patched.  job.maxId is i64::MAX, job.bound how far the shared node set is  *)
(* allocated at most.                                                         *)
EXTENDS CommandState, TLC

File == job.files[1]
NoOrder == -1

Opened ==
    /\ Begin /\ out = <<>>
    /\ sel = [node |-> {}, way |-> {}, relation |-> {}, overflow |-> {}, last |-> NoOrder]
    /\ stats = [node |-> 0, way |-> 0, relation |-> 0, orphans |-> 0, internal |-> FALSE, header |-> {}]

\* build_all_blob_schedules: by what each index claims.
Schedule(kind) == SelectSeq(File.blobs, LAMBDA b : b.claim = kind)
Claimed(sched) == FoldLeft(LAMBDA n, b : n + b.count, 0, sched)

\* validate_start_ids, require_sorted, the header, the schedules.
RenumberTo ==
    /\ pc = "enter"
    /\ IF (\E k \in AllKinds : job.start[k] < 1) \/ ~File.header.sorted THEN Fail /\ UNCHANGED stats
       ELSE /\ stats' = [stats EXCEPT !.header = {[BuildHeader(InputHeaders, "sorted", "reencoded") EXCEPT
                                                      !.ts = "none", !.seq = "none", !.url = "none"]}]
            /\ Goto("schedules")
    /\ UNCHANGED <<job, round, sel, out>>

\* positional_bases: where each blob's numbers start, unless a number of a
\* nonempty blob is past the largest.
PositionalBases(kind) ==
    [i \in DOMAIN Schedule(kind) |-> job.start[kind] + Claimed(SubSeq(Schedule(kind), 1, i - 1))]
BasesFit(kind) ==
    \A i \in DOMAIN Schedule(kind) : Schedule(kind)[i].count > 0 =>
        PositionalBases(kind)[i] + Schedule(kind)[i].count - 1 <= job.maxId

BuildAllBlobSchedules ==
    /\ pc = "schedules"
    /\ IF (\E b \in Range(File.blobs) : b.claim = "none") \/ ~BasesFit("node")
       THEN Fail /\ UNCHANGED round ELSE Goto("nodes") /\ round' = 1
    /\ UNCHANGED <<job, sel, out, stats>>

----------------------------------------------------------------------------
(* IdSpace: the new ID of an old one. *)

Live(kind, id) == job.start[kind] + Cardinality({x \in sel[kind] : x < id})
Orphan(kind, id) == id \notin sel[kind]
Resolve(kind, id) ==
    IF Orphan(kind, id) THEN job.start[kind] + Cardinality(sel[kind]) + id ELSE Live(kind, id)

\* Of a relation's members, those whose type is one of the three.
RefsOf(e) ==
    CASE e.kind = "node" -> <<>>
      [] e.kind = "way"  -> [i \in DOMAIN e.refs |-> <<"node", e.refs[i]>>]
      [] OTHER           -> SelectSeq(e.members, LAMBDA m : m[1] \in AllKinds)
RefsRefused(e) ==
    \/ \E i \in DOMAIN RefsOf(e) : RefsOf(e)[i][2] < 0 \/ Resolve(RefsOf(e)[i][1], RefsOf(e)[i][2]) > job.maxId
    \/ e.kind = "relation" /\ \E m \in Range(e.members) : m[2] < 0
Orphans(items) ==
    FoldLeft(LAMBDA n, e : n + Len(SelectSeq(RefsOf(e), LAMBDA r : Orphan(r[1], r[2]))), 0, items)

----------------------------------------------------------------------------
(* The rewriters. *)

\* Span::push, inside a blob; StrictOrder::admit, against the blob before.
Strict(items) == \A i \in 1 .. Len(items) - 1 : items[i].id < items[i + 1].id
Admit_Anything(items) == TRUE
Admit(items) == items # <<>> => sel.last < items[1].id

\* The forms no splice can patch: unpacked or split fields, a way without refs.
Unspliceable(e) == ~(e.wire = "packed" \/ (e.wire = "absent" /\ e.kind = "relation"))

ForeignKind(b, kind) == \E e \in Range(b.items) : e.kind # kind

\* What every rewriter refuses, and the claimed count, which only the stages
\* that number by position hold the blob to.
BlockRefused(b, kind) ==
    b.bad \/ ~Strict(b.items) \/ ForeignKind(b, kind) \/ \E e \in Range(b.items) : e.id < 0 \/ Unspliceable(e)
CountRefused(b) == b.count # Len(b.items)

\* The block under the index of its new IDs; a stage writes no empty block.
Rewritten(items) ==
    IF items = <<>> THEN <<>> ELSE <<[Framed(items) EXCEPT !.tags = "none"]>>

\* reframe_way: the refs through the node space.
ReframeWay(e, id) == [e EXCEPT !.id = id, !.refs = [i \in DOMAIN @ |-> Resolve("node", @[i])]]
\* reframe_relation: a member of an unknown type keeps its number.
ReframeRelation(e, id) ==
    [e EXCEPT !.id = id,
              !.members = [i \in DOMAIN @ |-> IF @[i][1] \in AllKinds THEN <<@[i][1], Resolve(@[i][1], @[i][2])>> ELSE @[i]]]

\* reframe_dense_with_new_ids, reframe_ways_with_new_ids by position,
\* reframe_relations_with_new_ids by rank.
ReframeDense(items, base) == [i \in DOMAIN items |-> [items[i] EXCEPT !.id = base + i - 1]]
ReframeWays(items, base) == [i \in DOMAIN items |-> ReframeWay(items[i], base + i - 1)]
ReframeRelations(items) == [i \in DOMAIN items |-> ReframeRelation(items[i], Live("relation", items[i].id))]

\* run_rewrite_stage's consumer: the order, the block, the totals.
Consume(kind, items, new, more) ==
    /\ out' = out \o Rewritten(new)
    /\ stats' = [stats EXCEPT ![kind] = @ + Len(new), !.orphans = @ + Orphans(items)]
    /\ sel' = [more EXCEPT !.last = IF items = <<>> THEN sel.last ELSE Last(items).id]
    /\ round' = round + 1
    /\ UNCHANGED <<pc, result>>
Refuse == Fail /\ UNCHANGED <<round, sel, out, stats>>

\* pass1_parallel_scan: a node whose ID the shared set has no room for
\* goes to the worker's overflow list.
NodeBlob ==
    /\ pc = "nodes" /\ round <= Len(Schedule("node"))
    /\ LET b    == Schedule("node")[round]
           base == PositionalBases("node")[round]
           room == Min({Max({s.hi : s \in Range(Schedule("node"))}), job.bound})
           ids  == {e.id : e \in Range(b.items)}
       IN IF b.items = <<>> \/ BlockRefused(b, "node") \/ CountRefused(b) \/ ~Admit(b.items) THEN Refuse
          ELSE Consume("node", b.items, ReframeDense(b.items, base),
                       [sel EXCEPT !.node = @ \cup {i \in ids : i <= room}, !.overflow = @ \cup {i \in ids : i > room}])
    /\ UNCHANGED job

WayBlob ==
    /\ pc = "ways" /\ round <= Len(Schedule("way"))
    /\ LET b    == Schedule("way")[round]
           base == PositionalBases("way")[round]
       IN IF \/ BlockRefused(b, "way") \/ CountRefused(b) \/ ~Admit(b.items)
             \/ \E e \in Range(b.items) : RefsRefused(e)
          THEN Refuse
          ELSE Consume("way", b.items, ReframeWays(b.items, base),
                       [sel EXCEPT !.way = @ \cup {e.id : e \in Range(b.items)}])
    /\ UNCHANGED job

RelationBlob ==
    /\ pc = "relations" /\ round <= Len(Schedule("relation"))
    /\ LET b == Schedule("relation")[round]
       IN IF BlockRefused(b, "relation") \/ ~Admit(b.items) \/ \E e \in Range(b.items) : RefsRefused(e) THEN Refuse
          ELSE Consume("relation", b.items, ReframeRelations(b.items), sel)
    /\ UNCHANGED job

----------------------------------------------------------------------------
(* Between the stages. *)

\* set_matches_written, and pass 1 against its schedule: never the input's
\* fault.
Internal == Fail /\ stats' = [stats EXCEPT !.internal = TRUE] /\ UNCHANGED <<round, sel>>

EndNodes ==
    /\ pc = "nodes" /\ round > Len(Schedule("node"))
    /\ LET ids == sel.node \cup sel.overflow IN
       IF stats.node # Claimed(Schedule("node")) \/ Cardinality(ids) # stats.node THEN Internal
       ELSE IF ~BasesFit("way") THEN Fail /\ UNCHANGED <<round, sel, stats>>
       ELSE /\ sel' = [sel EXCEPT !.node = ids, !.last = NoOrder] /\ round' = 1 /\ Goto("ways")
            /\ UNCHANGED stats
    /\ UNCHANGED <<job, out>>

EndWays ==
    /\ pc = "ways" /\ round > Len(Schedule("way"))
    /\ IF Cardinality(sel.way) # stats.way THEN Internal ELSE Goto("r1") /\ UNCHANGED <<round, sel, stats>>
    /\ UNCHANGED <<job, out>>

\* relation_r1_collect_ids reads the relations alone.
RelationsR1 ==
    /\ pc = "r1"
    /\ LET rels == Of("relation", Elements(Schedule("relation")))
           ids  == {e.id : e \in Range(rels)}
       IN IF \/ Undecodable(Schedule("relation")) \/ ~Strict(rels) \/ \E i \in ids : i < 0
             \/ ids # {} /\ job.start["relation"] + Cardinality(ids) - 1 > job.maxId
          THEN Fail /\ UNCHANGED <<round, sel>>
          ELSE sel' = [sel EXCEPT !.relation = ids, !.last = NoOrder] /\ round' = 1 /\ Goto("relations")
    /\ UNCHANGED <<job, out, stats>>

EndRelations ==
    /\ pc = "relations" /\ round > Len(Schedule("relation"))
    /\ IF Cardinality(sel.relation) # stats.relation THEN Internal ELSE Done /\ UNCHANGED <<round, sel, stats>>
    /\ UNCHANGED <<job, out>>

Next ==
    \/ RenumberTo \/ BuildAllBlobSchedules \/ NodeBlob \/ EndNodes \/ WayBlob \/ EndWays
    \/ RelationsR1 \/ RelationBlob \/ EndRelations

----------------------------------------------------------------------------
(* Properties. *)

\* Old and new names: of the elements, by position, and of their references.
Names(kind) ==
    LET old == Of(kind, Elements(File.blobs))  new == Of(kind, Elements(out))
        refs(k) == LET o == Of(k, Elements(File.blobs))  n == Of(k, Elements(out)) IN
                   UNION {{<<RefsOf(o[i])[j], RefsOf(n[i])[j]>> : j \in DOMAIN RefsOf(o[i])} : i \in DOMAIN o}
    IN {<<old[i].id, new[i].id>> : i \in DOMAIN old}
       \cup {<<p[1][2], p[2][2]>> : p \in {q \in refs("way") \cup refs("relation") : q[1][1] = kind}}

Sound(file) ==
    /\ file.header.sorted
    /\ \A b \in Range(file.blobs) : ~b.bad /\ b.claim # "none" /\ ~BlockRefused(b, b.claim) /\ b.items # <<>> /\ ~CountRefused(b)
    /\ \A k \in AllKinds : Strict(Of(k, Elements(file.blobs)))
    /\ \A e \in Range(Elements(file.blobs)) : \A r \in Range(RefsOf(e)) \cup (IF e.kind = "relation" THEN Range(e.members) ELSE {}) : r[2] >= 0

\* A renumbered file has the input's elements, kind by kind and in order, under
\* consecutive IDs from the asked start.  References follow: in the whole file
\* two names of a kind are equal after exactly if they were equal before, so a
\* reference names the element it named, and an orphan names nothing.  Blob
\* indexes are true, the header claims what holds, the counts add up, and the
\* command's internal cross-checks never fire.  It fails only for a bad start,
\* an unsorted, unindexed, wrongly indexed or unpatchable input, or numbers
\* past the largest ID.
RenumberIsTrue ==
    /\ result = "ok" =>
          LET old == Elements(File.blobs)  new == Elements(out)  h == CHOOSE x \in stats.header : TRUE IN
          /\ new = Of("node", new) \o Of("way", new) \o Of("relation", new)
          /\ \A k \in AllKinds :
                /\ [i \in DOMAIN Of(k, new) |-> Of(k, new)[i].id] = [i \in DOMAIN Of(k, old) |-> job.start[k] + i - 1]
                /\ \A p, q \in Names(k) : p[1] = q[1] <=> p[2] = q[2]
                /\ \A p \in Names(k) : p[1] \in Ids(k, old) <=> p[2] \in Ids(k, new)
                /\ stats[k] = Count(k, new)
          /\ \A b \in Range(out) : Claim(b) = PayloadIndex(b.items)
          /\ h.sorted /\ ~WayEnrichment(h) /\ h.seq = "none"
          /\ stats.orphans = FoldLeft(LAMBDA n, e : n + Len(SelectSeq(RefsOf(e), LAMBDA r : r[2] \notin Ids(r[1], old))), 0, old)
    /\ ~stats.internal
    /\ result = "failed" =>
          \/ ~Sound(File) \/ \E k \in AllKinds : job.start[k] < 1
          \/ \E k \in AllKinds : job.start[k] + Len(Of(k, Elements(File.blobs))) - 1 > job.maxId
          \/ \E e \in Range(Elements(File.blobs)) : \E r \in Range(RefsOf(e)) :
                job.start[r[1]] + Len(Of(r[1], Elements(File.blobs))) + r[2] > job.maxId

-----------------------------------------------------------------------------
(* Renumber's small files: two node blobs, a way blob, two relations, with    *)
(* orphans, negative and repeated IDs, and starts next to the largest ID.     *)

Elem(kind, id, refs, members, wire) == [kind |-> kind, id |-> id, refs |-> refs, members |-> members, wire |-> wire]
Node(id) == Elem("node", id, <<>>, <<>>, "packed")

Indexed1(how, kind, items) ==
    LET n == Len(items) IN
    [claim |-> IF how = "none" THEN "none" ELSE kind, lo |-> 0,
     hi |-> IF n = 0 THEN 0 ELSE Max({e.id : e \in Range(items)}),
     count |-> IF how = "false" THEN n + 1 ELSE n, tags |-> "true", bad |-> how = "bad", items |-> items]

NodeBlobs ==
    {<<Node(1)>>, <<Node(3)>>, <<Node(1), Node(3)>>, <<Node(3), Node(1)>>, <<Node(-1)>>, <<>>}
Ways ==
    {<<Elem("way", 4, refs, <<>>, wire)>> : refs \in {<<1, 3>>, <<2, 3, 2>>, <<-1>>}, wire \in {"packed", "absent", "split"}}
    \cup {<<Elem("way", 4, <<1>>, <<>>, "packed"), Elem("way", 5, <<8>>, <<>>, "packed")>>, <<>>}
Relations ==
    {<<Elem("relation", 2, <<>>, <<<<"relation", 6>>, <<"node", n>>, <<"way", 4>>>>, "packed"),
       Elem("relation", r, <<>>, <<<<"relation", 2>>, <<"other", 1>>>>, "packed")>> : n \in {1, 2, -2}, r \in {2, 6}}
    \cup {<<Elem("relation", 2, <<>>, <<>>, "absent")>>, <<Node(1)>>}

Worlds ==
    \E a, b \in NodeBlobs, w \in Ways, r \in Relations, how \in {"true", "false", "none", "bad"}, s \in {<<1, 1, 1>>, <<5, 9, 9>>, <<0, 1, 1>>},
      sorted \in BOOLEAN, bound \in {2, 9} :
        /\ (how # "true" \/ s[1] # 1) => (a = <<Node(1)>> /\ w \in Ways)
        /\ ~sorted => (a = <<>> /\ b = <<>>)
        /\ job = [cmd |-> "renumber", start |-> [node |-> s[1], way |-> s[2], relation |-> s[3]], maxId |-> 12, bound |-> bound, cap |-> 2,
                  files |-> <<[present |-> TRUE,
                    header |-> [sorted |-> sorted, locs |-> TRUE, pins |-> TRUE, members |-> TRUE, ts |-> 7, seq |-> 1, url |-> "u", box |-> {1}],
                    blobs |-> <<Indexed1("true", "node", a), Indexed1(how, "node", b), Indexed1("true", "way", w), Indexed1(IF how = "bad" THEN "true" ELSE how, "relation", r)>>]>>]
=============================================================================
