----------------------------- MODULE MCRewrites -----------------------------
(* The commands that rewrite whole files, on small files, and what they share:*)
(* the reading of frames and the codec of a block and of a header.            *)
EXTENDS CommandState, TLC

B == INSTANCE BlobMerge
C == INSTANCE CatDegrade
N == INSTANCE Renumber
L == INSTANCE AddLocations
G == INSTANCE GeocodeBuild
F == INSTANCE Frames
K == INSTANCE BlockCodec

CodecJobs == {"rewrite block", "read block", "count packed", "header"}

Elem(kind, id, v, from, rich) ==
    [kind |-> kind, id |-> id, version |-> v, from |-> from, meta |-> TRUE,
     locs |-> kind = "way" /\ rich, pins |-> kind = "way" /\ rich, members |-> kind = "way" /\ rich]

\* A blob with a true index, a false one or none.
Blob(how, items) ==
    LET plain == [claim |-> "none", lo |-> 0, hi |-> 0, count |-> 0, tags |-> "none", bad |-> how = "bad", items |-> items]
        i == B!PayloadIndex(items)
    IN IF items = <<>> \/ how = "none" \/ ~B!Classifiable(items) THEN plain
       ELSE [plain EXCEPT !.claim = i.kind, !.lo = i.lo, !.hi = IF how = "false" THEN i.hi + 1 ELSE i.hi,
                          !.count = i.count, !.tags = IF how = "false" THEN "false" ELSE "true"]

Header(sorted, rich) ==
    [sorted |-> sorted, locs |-> rich, pins |-> rich, members |-> rich, ts |-> 7, seq |-> 1, url |-> "u", box |-> {1}]
File(sorted, rich, blobs) == [header |-> Header(sorted, rich), present |-> TRUE, blobs |-> blobs]

\* What a blob may hold: from which file, rich or not.
Contents(from, rich) ==
    LET n(id, v) == Elem("node", id, v, from, FALSE)  w(id, v) == Elem("way", id, v, from, rich)
    IN {<<n(1, 1)>>, <<n(2, 1), n(3, 1)>>, <<n(-1, 1), n(2, 2)>>, <<n(1, 2), n(3, 1)>>, <<n(3, 1), n(2, 1)>>,
        <<n(2, 1), n(2, 1)>>, <<w(1, 1)>>, <<w(1, 2), w(2, 1)>>, <<w(1, 1), n(1, 1)>>, <<>>}
Ordered(from, rich) == {c \in Contents(from, rich) : B!InFileOrder(c)}

\* The calls: sort, the deduplicating cat, cat, reindex and repack.
Sorts ==
    \E distrust, splice, sorted \in BOOLEAN, how \in {"none", "true", "false", "bad"}, a, b, c \in Contents(1, TRUE) :
        job = [cmd |-> "sort", force |-> TRUE, distrust |-> distrust, splice |-> splice,
               files |-> <<File(sorted, TRUE, <<Blob(how, a), Blob("true", b), Blob("true", c)>>)>>]
Merges ==
    \/ \E splice, sorted \in BOOLEAN, how \in {"true", "false"}, a, b \in Ordered(1, TRUE), c \in Ordered(2, TRUE) :
           job = [cmd |-> "merge", force |-> FALSE, distrust |-> FALSE, splice |-> splice,
                  files |-> <<File(TRUE, TRUE, <<Blob("true", a), Blob("true", b)>>), File(sorted, TRUE, <<Blob(how, c)>>)>>]
    \/ job = [cmd |-> "merge", force |-> FALSE, distrust |-> FALSE, splice |-> FALSE,
              files |-> <<[File(TRUE, FALSE, <<>>) EXCEPT !.present = FALSE]>>]
Cats ==
    \E force, rich \in BOOLEAN, how \in {"none", "true", "bad"}, how2 \in {"none", "true", "false"},
      a, b \in Contents(1, TRUE),
      t \in {<<"cat", AllKinds, FALSE, FALSE>>, <<"cat", AllKinds, TRUE, FALSE>>, <<"cat", {"way"}, TRUE, FALSE>>,
             <<"cat", AllKinds, TRUE, TRUE>>, <<"cat", {"node"}, TRUE, TRUE>>, <<"reindex", AllKinds, FALSE, FALSE>>} :
        job = [cmd |-> t[1], force |-> force, kinds |-> t[2], typed |-> t[3], clean |-> t[4], cap |-> 2,
               files |-> <<File(TRUE, rich, <<Blob(how, a), Blob(how2, b)>>)>>]
CatPairs ==
    \E kinds \in {AllKinds, {"way"}}, rich \in BOOLEAN, how \in {"none", "true"}, a \in Contents(1, TRUE), b \in Contents(2, TRUE) :
        job = [cmd |-> "cat", force |-> TRUE, kinds |-> kinds, typed |-> kinds # AllKinds, clean |-> FALSE, cap |-> 2,
               files |-> <<File(TRUE, TRUE, <<Blob(how, a)>>), File(TRUE, rich, <<Blob("true", b)>>)>>]
Repacks ==
    \E cap \in 1 .. 3, rich, force \in BOOLEAN, how \in {"none", "true", "bad"}, a, b, c \in Ordered(1, TRUE) :
        job = [cmd |-> "repack", force |-> force, kinds |-> AllKinds, typed |-> FALSE, clean |-> FALSE, cap |-> cap,
               files |-> <<File(TRUE, rich, <<Blob("true", a \o b), Blob(how, b), Blob("true", c)>>)>>]

\* Degrades: what to edit, and how to encode anew.  The two hashes choose
\* different elements to drop; where none is dropped the hash is not read.
Hashes ==
    {[x \in AllKinds \X (-1 .. 5) |-> x[2] % 3], [x \in AllKinds \X (-1 .. 5) |-> IF x[1] = "way" THEN 0 ELSE 5 - x[2]]}
AnyHash == CHOOSE h \in Hashes : TRUE
Degrade(flags, reencode, unsort, strip, drop, hash, cap, force, blobs) ==
    job = [cmd |-> "degrade", flags |-> flags, reencode |-> reencode, unsort |-> unsort, stripLocations |-> strip,
           drop |-> drop, hash |-> hash, cap |-> cap, force |-> force, files |-> <<File(TRUE, TRUE, blobs)>>]
Degrades ==
    \/ \E flags \in SUBSET {"strip indexdata", "strip tagdata", "corrupt tagdata", "corrupt indexdata", "corrupt kind", "strip bbox"},
         reencode \in BOOLEAN, how \in {"none", "true"}, a, b \in Contents(1, TRUE) :
           Degrade(flags, reencode, "no", FALSE, 0, AnyHash, 2, TRUE, <<Blob(how, a), Blob("true", b)>>)
    \/ \E unsort \in {"no", "cross", "intra"}, drop \in 0 .. 2, hash \in Hashes, cap \in 1 .. 3, force, strip \in BOOLEAN,
         how \in {"none", "true", "bad"}, a, b \in Contents(1, TRUE) :
           /\ drop = 0 => hash = AnyHash
           /\ LET more == <<Elem("node", 4, 1, 1, FALSE), Elem("node", 5, 1, 1, FALSE)>> IN
              Degrade(IF strip THEN {"strip indexdata"} ELSE {}, TRUE, unsort, strip, drop, hash, cap, force,
                      <<Blob(how, a), Blob("true", more), Blob(how, b)>>)
    \/ job = [cmd |-> "degrade", flags |-> {"strip bbox"}, reencode |-> FALSE, unsort |-> "no", stripLocations |-> FALSE, drop |-> 0,
              hash |-> AnyHash, cap |-> 2, force |-> TRUE, files |-> <<[File(TRUE, FALSE, <<>>) EXCEPT !.present = FALSE]>>]

Init ==
    \/ (Sorts \/ Merges) /\ B!Opened
    \/ (Cats \/ CatPairs \/ Repacks) /\ C!Opened
    \/ Degrades /\ C!DegradeOpened
    \/ N!Worlds /\ N!Opened
    \/ L!Worlds /\ L!Opened
    \/ G!Worlds /\ G!Opened
    \/ F!Worlds /\ F!Opened
    \/ K!Worlds /\ K!Opened

Next ==
    \/ job.cmd \in {"sort", "merge"} /\ B!Next
    \/ job.cmd \in {"cat", "reindex", "repack"} /\ C!Next
    \/ job.cmd = "degrade" /\ C!DegradeNext
    \/ job.cmd = "renumber" /\ N!Next
    \/ job.cmd = "altw" /\ L!Next
    \/ job.cmd = "geocode" /\ G!Next
    \/ job.cmd \in {"frames", "estimate", "inflate"} /\ F!Next
    \/ job.cmd \in CodecJobs /\ K!Next
    \/ result # "running" /\ UNCHANGED cvars

Spec == Init /\ [][Next]_cvars

\* sort and the deduplicating cat (commands/sort, cat/dedupe): what is written
\* is the merge of what was read, and a refusal has its reason.
MergeIsTrue == job.cmd \in {"sort", "merge"} => B!MergeIsTrue

\* Every other command that writes the elements it reads: cat, reindex and
\* repack (commands/cat), degrade (commands/degrade), renumber
\* (commands/renumber) and add-locations-to-ways (commands/altw) write what the
\* definition over the elements alone says, under indexes and header flags that
\* are true of it; and the frame readers they read with (read/frame.rs,
\* header_walker.rs, direct_reader.rs, decompress.rs) hand out the frames and the
\* bodies that are in the file.  A block or a header that is written reads back
\* as what was put into it, through every reader, and a malformed one is refused
\* (write/block_builder.rs, read/block.rs, scan).
RewriteIsTrue ==
    /\ job.cmd \in {"cat", "reindex", "repack"} => C!CatIsTrue
    /\ job.cmd = "degrade" => C!DegradeIsTrue
    /\ job.cmd = "renumber" => N!RenumberIsTrue
    /\ job.cmd = "altw" => L!AddLocationsIsTrue
    /\ job.cmd \in {"frames", "estimate", "inflate"} => F!FramesAreTrue
    /\ job.cmd \in CodecJobs => K!CodecIsTrue

\* build-geocode-index and its reader (geocode_index): an index holds what the
\* file has, and every query answers what a search through all of it would.
GeocodeIsTrue == job.cmd = "geocode" => G!GeocodeIsTrue
=============================================================================
