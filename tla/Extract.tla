------------------------------ MODULE Extract -------------------------------
(* commands/extract: one or several regions cut from one file, by the simple, *)
(* complete-ways or smart strategy.  The state machine is the command: each   *)
(* action is one phase over the blobs its schedule keeps (a classifying scan, *)
(* ClassifyPool, or a writing pass over the ordered pool).  A place is where  *)
(* a node lies: inside region 1, region 2 or both, "near" (outside both but   *)
(* inside their outward-rounded boxes) or "far".                              *)
EXTENDS CommandState

\* round is the region of a one-region pass; 0: all regions in one pass.  sel
\* holds, per region, the ID sets and the node blobs to be copied raw.
Regions == DOMAIN job.shapes
Active == IF round = 0 THEN Regions ELSE {round}

\* Region::contains_decimicro on the inward-rounded box, and the outward one
\* that blobs are skipped by.
Inside(r, place) == place = "both" \/ place = (IF r = 1 THEN "r1" ELSE "r2")
Near(r, place) == Inside(r, place) \/ place = "near"

NoIds == [nodes |-> {}, wayNodes |-> {}, ways |-> {}, rels |-> {}, extraNodes |-> {}, extraWays |-> {}, verified |-> {}]
NoStats == [inBox |-> 0, nodesFromWays |-> 0, nodesFromRels |-> 0, ways |-> 0, waysFromRels |-> 0, rels |-> 0]

Opened ==
    /\ Begin
    /\ sel = [r \in Regions |-> NoIds]
    /\ out = [r \in Regions |-> <<>>] /\ stats = [r \in Regions |-> NoStats]

----------------------------------------------------------------------------
(* extract, extract_multi, extract_to: which path. *)

SinglePass == job.strategy = "simple" /\ job.sorted

\* Several regions are tried in one pass where the strategy is simple and
\* nothing is cleaned.
ExtractMulti ==
    /\ pc = "enter"
    /\ IF PartlyIndexed(job.file) THEN Fail /\ UNCHANGED round
       ELSE IF job.multi /\ job.strategy = "simple" /\ ~job.clean
       THEN Goto("multi") /\ UNCHANGED round
       ELSE Goto("extract") /\ round' = 1
    /\ UNCHANGED <<job, sel, out, stats>>

\* The one pass needs a header that declares the order; otherwise the regions
\* are extracted one at a time.
TryMultiSinglePass ==
    /\ pc = "multi"
    /\ IF job.sorted THEN Goto("nodes") /\ UNCHANGED round ELSE Goto("extract") /\ round' = 1
    /\ UNCHANGED <<job, sel, out, stats>>

ExtractTo ==
    /\ pc = "extract"
    /\ IF job.strategy # "simple" /\ ~IndexdataPolicy(job.file, job.force) THEN Fail
       ELSE Goto(CASE SinglePass -> "nodes" [] job.strategy = "simple" -> "unsorted" [] OTHER -> "pass1")
    /\ UNCHANGED <<job, round, sel, out, stats>>

\* The next region, or every output is published.
Advance ==
    IF round = 0 \/ round = Len(job.shapes)
    THEN Done /\ UNCHANGED round
    ELSE Goto("extract") /\ round' = round + 1

----------------------------------------------------------------------------
(* What is selected. *)

\* spatial_blob_filter: only a node blob's index can keep it out, by its box;
\* the shared pass asks the box around all regions.
Wants(b) == b.claim = "node" => \E p \in b.spans : Near(round, p)
MultiWants(b) == b.claim = "node" => \E p \in b.spans : p # "far"
Wanted == SelectSeq(job.file, Wants)
NodeSchedule == SelectSeq(KindSchedule(job.file, "node"), Wants)
MultiNodeSchedule == SelectSeq(KindSchedule(job.file, "node"), MultiWants)

NodesIn(r, sched) == {e.id : e \in {x \in Range(Of("node", Elements(sched))) : Inside(r, x.at)}}
WaysOn(nodes, sched) == {x \in Range(Of("way", Elements(sched))) : x.refs \cap nodes # {}}

\* relation_has_matched_member: relation members do not count.
RelsOn(nodes, ways, sched) ==
    {x \in Range(Of("relation", Elements(sched))) :
        \E m \in x.members : (m[1] = "node" /\ m[2] \in nodes) \/ (m[1] = "way" /\ m[2] \in ways)}

\* add_parent_relations: a worklist over (child, parent) edges.
Edges(sched) ==
    UNION {{<<m[2], x.id>> : m \in {k \in x.members : k[1] = "relation"}}
           : x \in Range(Of("relation", Elements(sched)))}
WithParents[edges \in SUBSET ((0 .. 3) \X (0 .. 3)), ids \in SUBSET (0 .. 3), work \in SUBSET (0 .. 3)] ==
    IF work = {} THEN ids
    ELSE LET child == CHOOSE c \in work : TRUE
             new   == {e[2] : e \in {x \in edges : x[1] = child}} \ ids
         IN WithParents[edges, ids \cup new, (work \ {child}) \cup new]

----------------------------------------------------------------------------
(* The simple strategy on a sorted file: classify a kind, then write it.      *)

\* build_blob_schedule_with_passthrough: a candidate's box lies inside every
\* region, which must be a box, and nothing is cleaned.
Candidate(b) ==
    /\ b.claim = "node" /\ ~job.clean
    /\ \A r \in Active : job.shapes[r] = "bbox" /\ \A p \in b.spans : Inside(r, p)

\* verify_candidate: every node of it is inside and it holds dense nodes only.
Verified_ByIndex(b) == Candidate(b)
Verified(b) ==
    /\ Candidate(b) /\ b.dense
    /\ \A r \in Active, e \in Range(b.items) : e.kind = "node" /\ Inside(r, e.at)

ClassifyNodesIn(sched) ==
    /\ pc = "nodes"
    /\ IF Refused(sched) THEN Fail /\ UNCHANGED sel
       ELSE /\ sel' = [r \in Regions |-> IF r \in Active THEN [NoIds EXCEPT !.nodes = NodesIn(r, sched),
                                           !.verified = {b \in Range(sched) : Verified(b)}] ELSE sel[r]]
            /\ Goto("write nodes")
    /\ UNCHANGED <<job, round, out, stats>>

\* The passthrough consumer writes a verified blob's frame as it is, in its
\* place between the decoded ones.
Raw(b) == b.items

WriteNodesIn(sched) ==
    /\ pc = "write nodes"
    /\ LET kept(r) == FlattenSeq([b \in DOMAIN sched |->
                         IF sched[b] \in sel[r].verified THEN Raw(sched[b])
                         ELSE SelectSeq(Of("node", sched[b].items), LAMBDA e : e.id \in sel[r].nodes)])
       IN /\ out' = [r \in Regions |-> IF r \in Active THEN out[r] \o kept(r) ELSE out[r]]
          /\ stats' = [r \in Regions |-> IF r \in Active THEN [stats[r] EXCEPT !.inBox = Len(kept(r))] ELSE stats[r]]
    /\ Goto("ways")
    /\ UNCHANGED <<job, round, sel>>

ClassifyWaysPhase ==
    /\ pc = "ways"
    /\ LET sched == KindSchedule(job.file, "way") IN
       IF Refused(sched) THEN Fail /\ UNCHANGED sel
       ELSE /\ sel' = [r \in Regions |-> IF r \in Active
                          THEN [sel[r] EXCEPT !.ways = {w.id : w \in WaysOn(sel[r].nodes, sched)}] ELSE sel[r]]
            /\ Goto("write ways")
    /\ UNCHANGED <<job, round, out, stats>>

ClassifyRelationsPhase ==
    /\ pc = "relations"
    /\ LET sched == KindSchedule(job.file, "relation") IN
       IF Refused(sched) THEN Fail /\ UNCHANGED sel
       ELSE /\ sel' = [r \in Regions |-> IF r \in Active
                          THEN [sel[r] EXCEPT !.rels = {x.id : x \in RelsOn(sel[r].nodes, sel[r].ways, sched)}]
                          ELSE sel[r]]
            /\ Goto("write relations")
    /\ UNCHANGED <<job, round, out, stats>>

WriteKind(kind, field) ==
    LET kept(r) == SelectSeq(Of(kind, Elements(KindSchedule(job.file, kind))), LAMBDA e : e.id \in sel[r][field])
    IN /\ out' = [r \in Regions |-> IF r \in Active THEN out[r] \o kept(r) ELSE out[r]]
       /\ stats' = [r \in Regions |-> IF r \in Active THEN [stats[r] EXCEPT ![field] = Len(kept(r))] ELSE stats[r]]

WriteWaysPhase ==
    /\ pc = "write ways" /\ WriteKind("way", "ways") /\ Goto("relations")
    /\ UNCHANGED <<job, round, sel>>

WriteRelationsPhase ==
    /\ pc = "write relations" /\ WriteKind("relation", "rels") /\ Advance
    /\ UNCHANGED <<job, sel>>

\* extract_simple_single_pass: one region at a time.
ClassifyNodes == round # 0 /\ ClassifyNodesIn(NodeSchedule)
WriteNodes == round # 0 /\ WriteNodesIn(NodeSchedule)
ClassifyWays == round # 0 /\ ClassifyWaysPhase
WriteWays == round # 0 /\ WriteWaysPhase
ClassifyRelations == round # 0 /\ ClassifyRelationsPhase
WriteRelations == round # 0 /\ WriteRelationsPhase

\* try_extract_multi_single_pass: all regions in the one pass.
MultiClassifyNodes == round = 0 /\ ClassifyNodesIn(MultiNodeSchedule)
MultiWriteNodes == round = 0 /\ WriteNodesIn(MultiNodeSchedule)
MultiClassifyWays == round = 0 /\ ClassifyWaysPhase
MultiWriteWays == round = 0 /\ WriteWaysPhase
MultiClassifyRelations == round = 0 /\ ClassifyRelationsPhase
MultiWriteRelations == round = 0 /\ WriteRelationsPhase

----------------------------------------------------------------------------
(* The two-pass strategies. *)

\* extract_simple_two_pass: three scans over what the filter wants, each kind
\* matched against what the one before collected.
ClassifyUnsorted ==
    /\ pc = "unsorted"
    /\ IF Refused(Wanted) THEN Fail /\ UNCHANGED sel
       ELSE LET nodes == NodesIn(round, Wanted)
                ways  == {w.id : w \in WaysOn(nodes, Wanted)}
            IN /\ sel' = [sel EXCEPT ![round] = [NoIds EXCEPT !.nodes = nodes, !.ways = ways,
                              !.rels = {x.id : x \in RelsOn(nodes, ways, Wanted)}]]
               /\ Goto("write all")
    /\ UNCHANGED <<job, round, out, stats>>

\* The relation handler: smart brings in the members of the matched areas.
Extras(rels, kind) ==
    UNION {{m[2] : m \in {k \in x.members : k[1] = kind}} : x \in {y \in rels : job.strategy = "smart" /\ y.smart}}

\* collect_pass1_generic: also the matched ways' nodes and the parents of
\* matched relations.
Pass1(parents) ==
    /\ IF Refused(Wanted) THEN Fail /\ UNCHANGED sel
       ELSE LET nodes == NodesIn(round, Wanted)
                ways  == WaysOn(nodes, Wanted)
                rels  == RelsOn(nodes, {w.id : w \in ways}, Wanted)
                ids   == {x.id : x \in rels}
            IN /\ sel' = [sel EXCEPT ![round] =
                      [nodes |-> nodes, ways |-> {w.id : w \in ways},
                       wayNodes |-> UNION {w.refs : w \in ways},
                       rels |-> IF parents THEN WithParents[Edges(Wanted), ids, ids] ELSE ids, verified |-> {},
                       extraNodes |-> Extras(rels, "node"), extraWays |-> Extras(rels, "way")]]
               /\ Goto(IF job.strategy = "smart" THEN "pass2" ELSE "write all")
    /\ UNCHANGED <<job, round, out, stats>>

\* Three scans over a sorted file's schedules, or three reads of the file.
CollectPass1_NoParents == pc = "pass1" /\ job.sorted /\ Pass1(FALSE)
CollectPass1 == pc = "pass1" /\ job.sorted /\ Pass1(TRUE)
CollectPass1Unsorted == pc = "pass1" /\ ~job.sorted /\ Pass1(TRUE)

\* extract_smart's second pass: the nodes of the areas' other ways.
SmartPass2 ==
    /\ pc = "pass2"
    /\ LET more == {w \in Range(Of("way", Elements(KindSchedule(job.file, "way")))) :
                       w.id \in sel[round].extraWays \ sel[round].ways}
       IN sel' = [sel EXCEPT ![round].extraNodes = @ \cup UNION {w.refs : w \in more}]
    /\ Goto("write all")
    /\ UNCHANGED <<job, round, out, stats>>

\* pread_write_pass: every blob, in file order; the counts go to the first set
\* that holds the ID.
WriteAll ==
    /\ pc = "write all"
    /\ IF Undecodable(job.file) THEN Fail /\ UNCHANGED <<round, out, stats>>
       ELSE LET s == sel[round]
                nodes == s.nodes \cup s.wayNodes \cup s.extraNodes
                ways  == s.ways \cup s.extraWays
                kept  == SelectSeq(Elements(job.file), LAMBDA e :
                            CASE e.kind = "node" -> e.id \in nodes
                              [] e.kind = "way"  -> e.id \in ways
                              [] OTHER           -> e.id \in s.rels)
                count(kind, ids) == Len(SelectSeq(kept, LAMBDA e : e.kind = kind /\ e.id \in ids))
            IN /\ out' = [out EXCEPT ![round] = kept]
               /\ stats' = [stats EXCEPT ![round] =
                      [inBox |-> count("node", s.nodes), nodesFromWays |-> count("node", s.wayNodes \ s.nodes),
                       nodesFromRels |-> count("node", s.extraNodes \ (s.nodes \cup s.wayNodes)),
                       ways |-> count("way", s.ways), waysFromRels |-> count("way", s.extraWays \ s.ways),
                       rels |-> count("relation", s.rels)]]
               /\ Advance
    /\ UNCHANGED <<job, sel>>

\* extract_block_pass2 for simple and complete, extract_block_pass3 for smart.
WriteSimple == job.strategy = "simple" /\ WriteAll
WriteComplete == job.strategy = "complete" /\ WriteAll
WriteSmart == job.strategy = "smart" /\ WriteAll

Next ==
    \/ ExtractMulti \/ TryMultiSinglePass \/ ExtractTo
    \/ ClassifyNodes \/ WriteNodes \/ ClassifyWays \/ WriteWays \/ ClassifyRelations \/ WriteRelations
    \/ MultiClassifyNodes \/ MultiWriteNodes \/ MultiClassifyWays \/ MultiWriteWays
    \/ MultiClassifyRelations \/ MultiWriteRelations
    \/ ClassifyUnsorted \/ CollectPass1 \/ CollectPass1Unsorted \/ SmartPass2
    \/ WriteSimple \/ WriteComplete \/ WriteSmart

----------------------------------------------------------------------------
(* Properties. *)

\* The region's content, from the file's elements alone.
AllOf(kind) == Range(Of(kind, Elements(job.file)))
RefNodes(r) == {n.id : n \in {x \in AllOf("node") : Inside(r, x.at)}}
RefWays(r) == {w \in AllOf("way") : w.refs \cap RefNodes(r) # {}}
RefRels(r) ==
    {x \in AllOf("relation") : \E m \in x.members :
        m \in {<<"node", n>> : n \in RefNodes(r)} \cup {<<"way", w.id>> : w \in RefWays(r)}}
RefParents(r) ==
    LET all == {x.id : x \in AllOf("relation")}
        closed(S) == /\ {x.id : x \in RefRels(r)} \subseteq S
                     /\ \A x \in AllOf("relation") : (\E m \in x.members : m[1] = "relation" /\ m[2] \in S) => x.id \in S
    IN {i \in all : \A S \in SUBSET all : closed(S) => i \in S}
RefAreas(r) == {x \in RefRels(r) : x.smart}
RefAreaWays(r) == {w \in AllOf("way") : \E x \in RefAreas(r) : <<"way", w.id>> \in x.members}

Belongs(r, e) ==
    CASE e.kind = "node" ->
           \/ e.id \in RefNodes(r)
           \/ job.strategy # "simple" /\ \E w \in RefWays(r) : e.id \in w.refs
           \/ job.strategy = "smart" /\ \/ \E x \in RefAreas(r) : <<"node", e.id>> \in x.members
                                        \/ \E w \in RefAreaWays(r) : e.id \in w.refs
      [] e.kind = "way" ->
           e \in RefWays(r) \/ (job.strategy = "smart" /\ e \in RefAreaWays(r))
      [] OTHER -> IF job.strategy = "simple" THEN e \in RefRels(r) ELSE e.id \in RefParents(r)

\* A published extract holds exactly what its region and strategy select, each
\* element once and in the input's order, whatever was skipped by the index,
\* copied raw or rewritten, and its statistics count what is in it.  A call
\* fails only where a blob cannot be decoded, contradicts its index, or lacks
\* indexdata the strategy needs; it then publishes nothing.
ExtractIsTrue ==
    /\ result = "ok" => \A r \in Regions :
          /\ out[r] = SelectSeq(Elements(job.file), LAMBDA e : Belongs(r, e))
          /\ LET s == stats[r] IN
             /\ s.inBox + s.nodesFromWays + s.nodesFromRels = Len(Of("node", out[r]))
             /\ s.ways + s.waysFromRels = Len(Of("way", out[r]))
             /\ s.rels = Len(Of("relation", out[r]))
             /\ s.inBox = Cardinality(RefNodes(r))
    /\ result = "failed" =>
          \/ Refused(job.file) \/ PartlyIndexed(job.file)
          \/ job.strategy # "simple" /\ ~Indexed(job.file) /\ ~job.force
=============================================================================
