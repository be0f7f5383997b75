------------------------------- MODULE Frames -------------------------------
(* The walk over the frames of a PBF file (read/frame.rs) on each of its byte *)
(* sources, the blob reader and the header walker built on it (read/blob.rs,  *)
(* read/header_walker.rs), and the payload of a frame: its envelope and its   *)
(* decompression (read/blob_wire.rs, read/decompress.rs).                     *)
(*                                                                            *)
(* A file has frames, one after the other; a frame has the header length its  *)
(* prefix declares, the fields of its header and a body.  job.size is the     *)
(* length of the file when it was opened (a cut file is shorter than its      *)
(* frames), job.now what can be read of it later.  A field is [f, len, v, n]: *)
(* a name, whether its wire type is length-delimited, a value, a number.      *)
EXTENDS CommandState, TLC

Prefix == 2
MaxHeader == 4
MaxData == 4
Probe == 3
Align == 2
Capacity == 4
SampleCap == 2
Nowhere == -1

Least(a, b) == IF a < b THEN a ELSE b

-----------------------------------------------------------------------------
(* WireBlobHeader::parse. *)

NoHeader == [type |-> "", size |-> 0, index |-> "none", indexed |-> FALSE, odd |-> FALSE, tags |-> "none", tagged |-> FALSE, members |-> "none", err |-> "none"]

\* One field; a second index or tag index makes both unusable.
HeaderField(want, h, x) ==
    IF h.err # "none" THEN h
    ELSE IF x.len # (x.f # "datasize") THEN IF x.f \in {"type", "datasize"} THEN [h EXCEPT !.err = "wire"] ELSE h
    ELSE IF x.v = "torn" THEN [h EXCEPT !.err = "wire"]
    ELSE CASE x.f = "type" -> IF x.v = "not text" THEN [h EXCEPT !.err = "wire"] ELSE [h EXCEPT !.type = x.v]
           [] x.f = "datasize" -> [h EXCEPT !.size = x.n]
           [] x.f = "indexdata" /\ want.indexdata /\ x.v # "empty" ->
                 [h EXCEPT !.index = IF ~h.indexed /\ x.v \in {"index", "unreadable"} THEN x.v ELSE "none",
                           !.odd = @ \/ (~h.indexed /\ x.v = "odd length"), !.indexed = TRUE]
           [] x.f = "tagdata" /\ want.tagdata /\ x.v # "empty" ->
                 [h EXCEPT !.tags = IF h.tagged THEN "none" ELSE x.v, !.tagged = TRUE]
           [] x.f = "waymembers" /\ want.waymembers /\ x.v # "empty" -> [h EXCEPT !.members = x.v]
           [] OTHER -> h

ParseHeader(fields, want) ==
    LET h == FoldLeft(LAMBDA a, x : HeaderField(want, a, x), NoHeader, fields)
    IN IF h.err = "none" /\ h.type = "" THEN [h EXCEPT !.err = "wire"] ELSE h

\* BlobIndex::deserialize of what the header carries.
Readable(h) == h.index = "index"

-----------------------------------------------------------------------------
(* The sources.  A source is at a position; a DirectReader has read up to hi, *)
(* a PreadSource has a window.  A read returns what it got and may fail: io,  *)
(* or eof from an exact read.  A transfer may be short but adds something.    *)

Source == [at |-> job.start, hi |-> job.start, eof |-> FALSE, wat |-> 0, wlen |-> 0]
Out(got, src, err) == [got |-> got, src |-> src, err |-> err]
Faults(src) == IF job.faulty THEN {Out(0, src, "io")} ELSE {}

\* DirectReader::fill_with: what the buffer may reach to.
FillEnds(hi) == (hi + 1) .. Least(hi - (hi % Align) + Capacity, job.now)
AtEnd(hi) == hi >= job.size \/ FillEnds(hi) = {}

RECURSIVE DirectRead(_, _)
DirectRead(s, n) ==
    IF n = 0 THEN {Out(0, s, "none")}
    ELSE IF s.at < s.hi
    THEN LET t == Least(n, s.hi - s.at) IN
         {[o EXCEPT !.got = @ + t] : o \in DirectRead([s EXCEPT !.at = @ + t], n - t)}
    ELSE IF s.eof \/ AtEnd(s.hi) THEN {Out(0, [s EXCEPT !.eof = TRUE], "none")}
    ELSE Faults(s) \cup UNION {DirectRead([s EXCEPT !.hi = e], n) : e \in FillEnds(s.hi)}

\* DirectReader::skip_with: from the aligned offset below the target.
RECURSIVE SkipFill(_, _)
SkipFill(s, target) ==
    IF s.hi >= target THEN {Out(1, [s EXCEPT !.at = target], "none")}
    ELSE IF AtEnd(s.hi) THEN {Out(0, [s EXCEPT !.eof = TRUE, !.at = s.hi], "none")}
    ELSE Faults(s) \cup UNION {SkipFill([s EXCEPT !.hi = e], target) : e \in FillEnds(s.hi)}

DirectSkip(s, n) ==
    LET target == s.at + n  aligned == target - (target % Align) IN
    IF target <= s.hi THEN {Out(1, [s EXCEPT !.at = target], "none")}
    ELSE IF aligned = target
    THEN IF target > job.size THEN {Out(0, [s EXCEPT !.eof = TRUE, !.at = s.hi], "none")}
         ELSE {Out(1, [s EXCEPT !.at = target, !.hi = target], "none")}
    ELSE SkipFill([s EXCEPT !.hi = aligned, !.at = aligned], target)

\* read_aligned_in: an exact read through aligned transfers.
RECURSIVE ReadAligned(_, _, _)
ReadAligned(start, have, need) ==
    LET span == need + ((-need) % Align)  base == have - (have % Align)
        most == Least(span, job.now - start)
    IN IF have >= need THEN {"none"}
       ELSE (IF job.faulty THEN {"io"} ELSE {})
            \cup IF most <= have THEN {"eof"} ELSE UNION {ReadAligned(start, h, need) : h \in (have + 1) .. most}
PreadExact(at, n) ==
    IF n = 0 THEN {"none"}
    ELSE IF job.source = "direct walker" THEN ReadAligned(at - (at % Align), 0, (at % Align) + n)
    ELSE {IF at + n <= job.now THEN "none" ELSE "eof"} \cup (IF job.faulty THEN {"io"} ELSE {})

\* PreadSource: a probe covers the prefix and some of the header; the rest of a
\* header is one more exact read; a skip is a comparison with the size at open.
Window(s) == IF s.at >= s.wat /\ s.at - s.wat < s.wlen THEN s.wlen - (s.at - s.wat) ELSE 0
Remaining(s) == IF job.size > s.at THEN job.size - s.at ELSE 0
Walked(s, n) == LET t == Least(Window(s), n) IN Out(t, [s EXCEPT !.at = @ + t], "none")
PreadFill(s, n) ==
    LET probe == Least(Remaining(s), Probe) IN
    IF Window(s) > 0 THEN {Walked(s, n)}
    ELSE IF Remaining(s) < n THEN {Out(0, s, "none")}
    ELSE {IF e = "none" THEN Walked([s EXCEPT !.wat = s.at, !.wlen = probe], n) ELSE Out(0, s, e) : e \in PreadExact(s.at, probe)}
PreadAppend(s, n) ==
    LET take == Least(Remaining(s), n)  w == Least(Window(s), take) IN
    {IF e = "none" THEN Out(take, [s EXCEPT !.at = @ + take], "none") ELSE Out(0, [s EXCEPT !.at = @ + w], e) : e \in PreadExact(s.at + w, take - w)}
PreadSkip(s, n) ==
    {IF n > Remaining(s) THEN Out(0, [s EXCEPT !.wlen = 0], "none") ELSE Out(1, [s EXCEPT !.wlen = 0, !.at = @ + n], "none")}

\* Every other source: a stream, and seek_relative and one more byte to skip.
PlainRead(s, n) ==
    LET got == IF job.now > s.at THEN Least(n, job.now - s.at) ELSE 0 IN {Out(got, [s EXCEPT !.at = @ + got], "none")} \cup (IF n > 0 THEN Faults(s) ELSE {})
SeekSkip(s, n) == IF n = 0 THEN {Out(1, s, "none")} ELSE PlainRead([s EXCEPT !.at = @ + (n - 1)], 1)

Walkers == {"walker", "direct walker"}
Fill(s, n) == IF job.source = "direct" THEN DirectRead(s, n) ELSE IF job.source \in Walkers THEN PreadFill(s, n) ELSE PlainRead(s, n)
AppendBytes(s, n) == IF job.source = "direct" THEN DirectRead(s, n) ELSE IF job.source \in Walkers THEN PreadAppend(s, n) ELSE PlainRead(s, n)
SkipBytes(s, n) == IF job.source = "direct" THEN DirectSkip(s, n) ELSE IF job.source \in Walkers THEN PreadSkip(s, n) ELSE SeekSkip(s, n)

-----------------------------------------------------------------------------
(* Frames.  sel is the walk: its source, the position and ordinal of the next *)
(* frame (Nowhere: not known), the header whose payload is due, whether it    *)
(* failed, and the guard against partly indexed files.                        *)

Id(start, ordinal) == [start |-> start, ordinal |-> ordinal]
NoId == Id(Nowhere, Nowhere)
NoPending == [on |-> FALSE, id |-> NoId, k |-> 0, h |-> NoHeader, indexed |-> "not"]
Guard(on) == [on |-> on, first |-> "unset", unindexed |-> NoId]

WalkStart ==
    LET pos == IF job.source = "stream" THEN Nowhere ELSE job.start IN
    [src |-> Source, pos |-> pos, ord |-> IF pos \in {Nowhere, 0} THEN 0 ELSE Nowhere, pending |-> NoPending, failed |-> FALSE, guard |-> Guard(job.refuse)]

StartOf(k) == FoldLeft(LAMBDA a, x : a + Prefix + x.len + x.data, 0, SubSeq(job.frames, 1, k - 1))
FrameAt(at) == CHOOSE k \in DOMAIN job.frames : StartOf(k) = at

NextId(w) == Id(w.pos, w.ord)
Poison(w) == [w EXCEPT !.failed = TRUE, !.pending = NoPending, !.pos = Nowhere]
Event(ev, why, id, k, h) == [ev |-> ev, why |-> why, id |-> id, k |-> k, h |-> h]
Step(w, e) == [w |-> w, e |-> e]
FailAt(w, id, why) == Step(Poison(w), Event("error", why, id, 0, NoHeader))

CheckHeaderLen(len) == IF len = 0 THEN "no header" ELSE IF len >= MaxHeader THEN "header too big" ELSE "none"
CheckHeader(h, id) ==
    LET atStart == IF id.start # Nowhere THEN id.start = job.start ELSE id.ordinal = 0 IN
    CASE h.err # "none" -> h.err
      [] h.type = "OSMHeader" /\ ~atStart -> "second header"
      [] h.size < 0 -> "negative size"
      [] h.size >= MaxData -> "too big"
      [] OTHER -> "none"

\* The prefix was read; src is behind it, at the header of frame k.
HeaderBytes(w, id, src, k) ==
    LET len == job.frames[k].len
        h == ParseHeader(job.frames[k].fields, [job.want EXCEPT !.indexdata = @ \/ w.guard.on])
        given == IF job.want.indexdata THEN h ELSE [h EXCEPT !.index = "none", !.indexed = FALSE, !.odd = FALSE]
        read(o) ==
            IF o.err = "io" THEN FailAt(w, id, "io")
            ELSE IF o.err = "eof" \/ o.got < len THEN FailAt(w, id, "truncated")
            ELSE IF CheckHeader(h, id) # "none" THEN FailAt(w, id, CheckHeader(h, id))
            ELSE Step([w EXCEPT !.src = o.src, !.pos = IF id.start = Nowhere THEN Nowhere ELSE id.start + Prefix + len,
                                !.pending = [on |-> TRUE, id |-> id, k |-> k, h |-> given, indexed |-> IF Readable(h) THEN "indexed" ELSE "not"]],
                      Event("header", "none", id, k, given))
    IN IF CheckHeaderLen(len) # "none" THEN {FailAt(w, id, CheckHeaderLen(len))}
       ELSE {read(o) : o \in AppendBytes(src, len)}

ReadHeader(w, id) ==
    UNION {IF o.err # "none" THEN {FailAt(w, id, "io")}
           ELSE IF o.got < Prefix
           THEN {Step([w EXCEPT !.src = o.src, !.pos = IF id.start = Nowhere THEN Nowhere ELSE id.start + o.got], Event("end", "none", id, 0, NoHeader))}
           ELSE HeaderBytes(w, id, o.src, FrameAt(o.src.at - Prefix)) : o \in Fill(w.src, Prefix)}

\* Frames::next_header.
NextHeaders(w) ==
    IF w.pending.on THEN {FailAt(w, NoId, "payload due")}
    ELSE (IF job.cancel THEN {FailAt(w, NoId, "cancelled")} ELSE {}) \cup ReadHeader(w, NextId(w))

\* PartialIndexGuard::observe, and Frames::finish.
Observe(g, indexed, id) ==
    [g EXCEPT !.unindexed = IF indexed = "not" /\ @ = NoId THEN id ELSE @,
              !.first = IF @ = "unset" THEN indexed ELSE @]
Finish(w, src) ==
    LET p == w.pending
        counted == w.guard.on /\ p.h.type = "OSMData"
        g == IF counted THEN Observe(w.guard, p.indexed, p.id) ELSE w.guard
        next == [w EXCEPT !.src = src, !.pending = NoPending, !.guard = g,
                          !.pos = IF @ = Nowhere THEN Nowhere ELSE @ + p.h.size, !.ord = IF @ = Nowhere THEN Nowhere ELSE @ + 1]
    IN IF counted /\ w.guard.first # "unset" /\ w.guard.first # p.indexed THEN FailAt(next, g.unindexed, "partial")
       ELSE Step(next, Event("frame", "none", p.id, p.k, p.h))

\* Frames::read_payload and skip_payload.
Payload(w, outcomes) ==
    {IF o.err = "io" THEN FailAt(w, w.pending.id, "io")
     ELSE IF o.err = "eof" \/ o.got = 0 THEN FailAt(w, w.pending.id, "truncated")
     ELSE Finish(w, o.src) : o \in outcomes}
ReadPayload(w) ==
    IF ~w.pending.on THEN {FailAt(w, NoId, "no header read")}
    ELSE LET n == w.pending.h.size IN Payload(w, {[o EXCEPT !.got = IF @ < n THEN 0 ELSE 1] : o \in AppendBytes(w.src, n)})
SkipPayload(w) ==
    IF ~w.pending.on THEN {FailAt(w, NoId, "no header read")} ELSE Payload(w, SkipBytes(w.src, w.pending.h.size))

\* Frames::reposition.
Reposition(w, pos) ==
    [w EXCEPT !.pending = NoPending, !.guard = Guard(@.on), !.pos = pos, !.ord = IF pos = 0 /\ job.start = 0 THEN 0 ELSE Nowhere]

-----------------------------------------------------------------------------
(* A frame's body: WireBlob::parse (and parse_raw_envelope), whose payload is *)
(* [kind, n, state]: n bytes when decompressed, of a stream that is whole,    *)
(* cut or corrupt.                                                            *)

Undeclared == -9
NoBody == [kind |-> "none", n |-> 0, state |-> "whole", declared |-> Undeclared, err |-> "none"]
BodyField(b, x) ==
    CASE b.err # "none" -> b
      [] x.state = "torn" -> [b EXCEPT !.err = "wire"]
      [] x.f \in {"raw", "zlib", "zstd"} ->
            IF b.kind # "none" THEN [b EXCEPT !.err = "two payloads"] ELSE [b EXCEPT !.kind = x.f, !.n = x.n, !.state = x.state]
      [] x.f = "raw_size" -> [b EXCEPT !.declared = x.n]
      [] OTHER -> b
ParseBody(fields) == FoldLeft(BodyField, NoBody, fields)

-----------------------------------------------------------------------------
(* The readers on a walk: BlobReader's iterator, its header walk and its      *)
(* seeks, and HeaderWalker.  A caller makes at most job.calls calls.          *)

Walking == job.cmd = "frames" /\ result = "running"
Take(steps, at) ==
    \E s \in steps : /\ sel' = s.w
                     /\ out' = IF s.e.ev = "header" THEN out ELSE Append(out, s.e)
                     /\ pc' = IF s.e.ev = "header" THEN "payload" ELSE IF s.e.ev = "end" THEN "ended" ELSE at
                     /\ UNCHANGED <<job, stats, result>>

NextHeader ==
    /\ Walking /\ pc = "walk" /\ ~sel.failed /\ round < job.calls
    /\ round' = round + 1
    /\ Take(NextHeaders(sel), "walk")

\* Read: RawFrame::into_blob, unless the frame is an unknown one to skip.
ReadFrame ==
    /\ Walking /\ pc = "payload" /\ job.source \notin Walkers
    /\ LET body == ParseBody(job.frames[sel.pending.k].body)
           blob(s) == IF s.e.ev # "frame" \/ (job.skipUnknown /\ s.e.h.type = "other") \/ body.err = "none" THEN s
                      ELSE FailAt(s.w, s.e.id, body.err)
       IN Take({blob(s) : s \in ReadPayload(sel)}, "walk")
    /\ UNCHANGED round

SkipFrame ==
    /\ Walking /\ pc = "payload" /\ job.source # "stream"
    /\ Take(SkipPayload(sel), "walk")
    /\ UNCHANGED round

\* leading_header: the first frame is an OSMHeader, or there is none.
LeadingHeader ==
    /\ Walking /\ pc = "enter" /\ job.leading
    /\ \E a \in NextHeaders(sel) : \E s \in (IF a.e.ev = "header" THEN ReadPayload(a.w) ELSE {a}) :
          LET body == ParseBody(job.frames[s.e.k].body)
              e == IF s.e.ev = "end" \/ (s.e.ev = "frame" /\ s.e.h.type # "OSMHeader") THEN Event("error", "missing header", NoId, 0, NoHeader)
                   ELSE IF s.e.ev = "frame" /\ body.err # "none" THEN FailAt(s.w, s.e.id, body.err).e ELSE s.e
          IN /\ sel' = IF e.ev = "error" /\ e.why # "missing header" THEN Poison(s.w) ELSE s.w
             /\ out' = Append(out, e)
             /\ pc' = IF e.ev = "error" THEN "ended" ELSE "walk"
    /\ UNCHANGED <<job, round, stats, result>>
WithoutHeader ==
    /\ Walking /\ pc = "enter" /\ ~job.leading
    /\ pc' = "walk" /\ UNCHANGED <<job, round, sel, out, stats, result>>

\* A call out of turn, which next_frame_header and its payload calls allow.
OutOfTurn ==
    /\ Walking /\ job.source \in {"buffered", "direct"} /\ job.careless
    /\ \/ pc = "payload" /\ Take(NextHeaders(sel), "walk")
       \/ pc = "walk" /\ ~sel.failed /\ Take(ReadPayload(sel) \cup SkipPayload(sel), "walk")
    /\ UNCHANGED round

\* seek and seek_raw, which also forgets a failure; a seek may fail.
Seek ==
    /\ Walking /\ job.source = "seekable" /\ pc \in {"walk", "ended"} /\ round < job.calls
    /\ round' = round + 1
    /\ \E k \in DOMAIN job.frames, raw \in BOOLEAN, ok \in {TRUE, ~job.faulty} :
          LET w == Reposition(sel, IF ok THEN StartOf(k) ELSE Nowhere) IN
          /\ sel' = IF ok THEN [w EXCEPT !.src.at = StartOf(k), !.failed = @ /\ ~raw] ELSE w
          /\ out' = Append(out, Event("seek", IF ok THEN "none" ELSE "io", NoId, k, NoHeader))
    /\ pc' = "walk"
    /\ UNCHANGED <<job, stats, result>>

Leave ==
    /\ Walking
    /\ pc = "ended" \/ (pc = "walk" /\ (sel.failed \/ round = job.calls))
    /\ pc' = "done" /\ result' = IF sel.failed THEN "failed" ELSE "ok"
    /\ UNCHANGED <<job, round, sel, out, stats>>

-----------------------------------------------------------------------------
(* estimate_blob_count: exact if the file ends within the sample.             *)

NoSample == [frames |-> 0, blobs |-> 0, bytes |-> 0, end |-> 0]
Sample ==
    /\ job.cmd = "estimate" /\ result = "running" /\ stats.frames < SampleCap
    /\ \E a \in NextHeaders(sel) : \E s \in (IF a.e.ev = "header" THEN SkipPayload(a.w) ELSE {a}) :
          LET size == Prefix + job.frames[s.e.k].len + s.e.h.size
              data == s.e.h.type = "OSMData"
          IN /\ sel' = s.w
             /\ CASE s.e.ev = "end" -> /\ result' = IF job.size = 0 THEN "failed" ELSE "ok"
                                       /\ out' = <<[blobs |-> stats.blobs, exact |-> TRUE]>> /\ UNCHANGED stats
                  [] s.e.ev = "error" \/ (stats.frames = 0 /\ s.e.h.type # "OSMHeader") -> result' = "failed" /\ UNCHANGED <<out, stats>>
                  [] OTHER -> /\ stats' = [frames |-> stats.frames + 1, blobs |-> stats.blobs + (IF data THEN 1 ELSE 0),
                                           bytes |-> stats.bytes + (IF data THEN size ELSE 0), end |-> IF data THEN s.e.id.start + size ELSE stats.end]
                              /\ UNCHANGED <<out, result>>
    /\ pc' = pc /\ UNCHANGED <<job, round>>
Extrapolate ==
    /\ job.cmd = "estimate" /\ result = "running" /\ stats.frames = SampleCap
    /\ LET mean == IF stats.blobs = 0 THEN 0 ELSE stats.bytes \div stats.blobs
           rest == IF job.size > stats.end THEN job.size - stats.end ELSE 0
       IN out' = <<[blobs |-> stats.blobs + (IF mean = 0 THEN 0 ELSE rest \div mean), exact |-> FALSE]>>
    /\ result' = "ok" /\ pc' = pc /\ UNCHANGED <<job, round, sel, stats>>

-----------------------------------------------------------------------------
(* Decompression: blobs decoded one after the other into a buffer of the pool *)
(* or of the caller.  sel is the blob under work (phase "idle": none) with    *)
(* what its buffer holds and can hold, the pool's idle buffers, their bytes,  *)
(* and the buffers of blobs that are still in use.                            *)

MaxMessage == 3
Limit == MaxMessage + 1
Growth == 2
Guess == 2
PoolBuffers == 2
PoolBytes == 7
PoolCapacity == 5

Largest(a, b) == IF a < b THEN b ELSE a
Inflating == job.cmd = "inflate" /\ result = "running"
NoWork == [phase |-> "idle", body |-> NoBody, len |-> 0, cap |-> 0, idle |-> <<>>, retained |-> 0, held |-> <<>>]
Answer(why) == /\ out' = Append(out, [why |-> why, n |-> IF why = "ok" THEN sel.len ELSE 0])
               /\ sel' = [sel EXCEPT !.phase = "idle", !.len = 0, !.cap = 0, !.held = IF why = "ok" /\ job.pooled /\ sel.body.kind # "raw" THEN Append(@, sel.cap) ELSE @]
               /\ UNCHANGED <<job, pc, round, stats, result>>

\* WireBlob::estimated_capacity, or a guess from the compressed bytes.
EstimatedCapacity(b) == Least(Largest(b.declared, 0), MaxMessage)
WantedCapacity(b) == IF EstimatedCapacity(b) = 0 /\ job.pooled THEN Least(b.n * Guess, MaxMessage) ELSE EstimatedCapacity(b)

\* decompress_blob, decompress_blob_raw and their kin up to the decoder.  A raw
\* payload is the answer; pool_get takes the last idle buffer.
StartBlob ==
    /\ Inflating /\ sel.phase = "idle" /\ Len(out) < Len(job.blobs)
    /\ LET b == ParseBody(job.blobs[Len(out) + 1])
           pop == job.pooled /\ sel.idle # <<>>
           had == IF pop THEN Last(sel.idle) ELSE 0
       IN /\ sel' = [sel EXCEPT !.phase = IF b.err # "none" \/ b.kind = "none" THEN "bad" ELSE b.kind, !.body = b,
                                !.len = 0, !.cap = IF b.kind = "raw" THEN b.n ELSE Largest(had, WantedCapacity(b)),
                                !.idle = IF pop /\ b.err = "none" /\ b.kind \in {"zlib", "zstd"} THEN Front(@) ELSE @,
                                !.retained = IF pop /\ b.err = "none" /\ b.kind \in {"zlib", "zstd"} THEN @ - had ELSE @]
    /\ UNCHANGED <<job, pc, round, out, stats, result>>

BadBlob == Inflating /\ sel.phase = "bad" /\ Answer(IF sel.body.err = "none" THEN "empty" ELSE sel.body.err)

RawBlob ==
    /\ Inflating /\ sel.phase = "raw"
    /\ IF sel.body.n > MaxMessage THEN Answer("too big")
       ELSE sel' = [sel EXCEPT !.phase = "check", !.len = sel.body.n] /\ UNCHANGED <<job, pc, round, out, stats, result>>

\* zstd_decompress_into: at most Limit bytes are taken.
ZstdBlob ==
    /\ Inflating /\ sel.phase = "zstd"
    /\ IF sel.body.n > MaxMessage THEN Answer("too big")
       ELSE IF sel.body.state # "whole" THEN Answer("broken")
       ELSE sel' = [sel EXCEPT !.phase = "check", !.len = sel.body.n, !.cap = Largest(@, sel.body.n)] /\ UNCHANGED <<job, pc, round, out, stats, result>>

\* zlib_inflate_into_slice: a buffer larger than Limit is shown to the decoder
\* up to Limit.
Room(cap) == Least(cap, Limit) - sel.len

\* zlib_decompress_into: one call of the decoder, which adds m bytes to the
\* room the buffer has (grown first when it is full, never past Limit for the
\* decoder to see) and says whether the stream ended.
Inflate ==
    /\ Inflating /\ sel.phase = "zlib"
    /\ IF sel.len >= Limit THEN Answer("too big")
       ELSE LET cap == IF sel.len = sel.cap THEN sel.cap + Least(Largest(sel.cap, Growth), Limit - sel.len) ELSE sel.cap
                left == sel.body.n - sel.len
            IN IF left = 0 /\ sel.body.state # "whole" THEN Answer("broken")
               ELSE \E m \in 0 .. Least(left, Room(cap)) :
                       /\ m > 0 \/ left = 0
                       /\ \E end \in (IF m = left /\ sel.body.state = "whole" THEN BOOLEAN ELSE {FALSE}) :
                             /\ end \/ left > 0
                             /\ sel' = [sel EXCEPT !.cap = cap, !.len = @ + m, !.phase = IF end THEN "check" ELSE "zlib"]
                    /\ UNCHANGED <<job, pc, round, out, stats, result>>

\* zlib_size_within_cap and check_raw_size.
CheckSize ==
    /\ Inflating /\ sel.phase = "check"
    /\ Answer(IF sel.len > MaxMessage THEN "too big"
              ELSE IF sel.body.declared # Undeclared /\ sel.body.declared # sel.len THEN "raw size" ELSE "ok")

\* PooledBuffer::drop and DecompressPool::put.
Release ==
    /\ Inflating
    /\ \E i \in DOMAIN sel.held :
          LET cap == sel.held[i]
              keep == cap <= PoolCapacity /\ Len(sel.idle) < PoolBuffers /\ sel.retained + cap <= PoolBytes
          IN sel' = [sel EXCEPT !.held = RemoveAt(@, i), !.idle = IF keep THEN Append(@, cap) ELSE @,
                                !.retained = IF keep THEN @ + cap ELSE @]
    /\ UNCHANGED <<job, pc, round, out, stats, result>>

Finished ==
    /\ Inflating /\ sel.phase = "idle" /\ Len(out) = Len(job.blobs) /\ sel.held = <<>>
    /\ result' = "ok" /\ UNCHANGED <<job, pc, round, sel, out, stats>>

-----------------------------------------------------------------------------

Opened ==
    /\ Begin /\ out = <<>> /\ stats = NoSample
    /\ sel = IF job.cmd = "inflate" THEN NoWork ELSE WalkStart

Next ==
    \/ NextHeader \/ ReadFrame \/ SkipFrame \/ LeadingHeader \/ WithoutHeader \/ OutOfTurn \/ Seek \/ Leave
    \/ Sample \/ Extrapolate
    \/ StartBlob \/ BadBlob \/ RawBlob \/ ZstdBlob \/ Inflate \/ CheckSize \/ Release \/ Finished

-----------------------------------------------------------------------------
(* What a file says, from its layout alone. *)

TypeOf(x) == LET t == SelectSeq(x.fields, LAMBDA y : y.f = "type" /\ y.len) IN IF t = <<>> THEN "" ELSE Last(t).v
SizeOf(x) == LET t == SelectSeq(x.fields, LAMBDA y : y.f = "datasize" /\ ~y.len) IN IF t = <<>> THEN 0 ELSE Last(t).n
Indexes(x) == SelectSeq(x.fields, LAMBDA y : y.f = "indexdata" /\ y.len /\ y.v # "empty")
HasIndex(x) == Len(Indexes(x)) = 1 /\ Indexes(x)[1].v = "index"
Garbled(x) ==
    \/ \E y \in Range(x.fields) : y.v = "torn" \/ (y.f = "type" /\ (~y.len \/ y.v = "not text")) \/ (y.f = "datasize" /\ y.len)
    \/ TypeOf(x) = ""
FirstPlain(k) == CHOOSE j \in 1 .. k : TypeOf(job.frames[j]) = "OSMData" /\ ~HasIndex(job.frames[j])
                                       /\ \A i \in 1 .. j - 1 : TypeOf(job.frames[i]) = "OSMData" => HasIndex(job.frames[i])

\* Why frame k cannot be walked over.
FrameFault(k) ==
    LET x == job.frames[k]  behind == StartOf(k) + Prefix + x.len IN
    CASE x.len = 0 -> "no header"
      [] x.len >= MaxHeader -> "header too big"
      [] behind > job.size -> "truncated"
      [] Garbled(x) -> "wire"
      [] TypeOf(x) = "OSMHeader" /\ StartOf(k) # job.start -> "second header"
      [] SizeOf(x) < 0 -> "negative size"
      [] SizeOf(x) >= MaxData -> "too big"
      [] behind + SizeOf(x) > job.size -> "truncated"
      [] job.refuse /\ TypeOf(x) = "OSMData" /\ \E j \in 1 .. k - 1 : TypeOf(job.frames[j]) = "OSMData" /\ HasIndex(job.frames[j]) # HasIndex(x) -> "partial"
      [] OTHER -> "none"

Positioned == job.source # "stream"
IdOf(k) == Id(IF Positioned THEN StartOf(k) ELSE Nowhere, IF job.start = 0 THEN k - 1 ELSE Nowhere)
Exists(k) == k \in DOMAIN job.frames /\ StartOf(k) + Prefix <= job.size
FirstFrame == CHOOSE k \in 1 .. Len(job.frames) + 1 : StartOf(k) = job.start

\* A walk without seeks: the frames in file order, each at its own place, then
\* the fault of the next one or the end of the file.  Only a fault of the
\* device, a cancellation or a call out of turn ends it earlier.
WalkIsTrue ==
    LET n == Len(out)
        last == out[n]
        seen == IF n > 0 /\ last.ev # "frame" THEN Front(out) ELSE out
        next == FirstFrame + Len(seen)
    IN /\ \A i \in DOMAIN seen :
             LET k == FirstFrame + i - 1  x == job.frames[k] IN
             /\ seen[i].ev = "frame" /\ seen[i].k = k /\ seen[i].id = IdOf(k) /\ FrameFault(k) = "none"
             /\ StartOf(k) + Prefix + x.len <= job.now
             /\ seen[i].h.type = TypeOf(x) /\ seen[i].h.size = SizeOf(x)
             /\ (seen[i].h.index = "index") = (job.want.indexdata /\ HasIndex(x))
       /\ n > 0 /\ last.ev = "end" => ~Exists(next)
       /\ n > 0 /\ last.ev = "error" =>
             \/ last.why = "io" /\ (job.faulty \/ job.now < job.size) /\ last.id = IdOf(next)
             \/ last.why = "truncated" /\ job.now < job.size /\ last.id = IdOf(next)
             \/ last.why = "cancelled" /\ job.cancel /\ last.id = NoId
             \/ last.why \in {"payload due", "no header read"} /\ job.careless
             \/ last.why = "missing header" /\ job.leading /\ (~Exists(1) \/ TypeOf(job.frames[1]) # "OSMHeader")
             \/ /\ Exists(next) /\ FrameFault(next) = "none" /\ last.why = ParseBody(job.frames[next].body).err /\ last.why # "none"
                /\ last.id = IdOf(next)
             \/ Exists(next) /\ last.why = FrameFault(next) /\ last.why # "none"
                /\ last.id = IdOf(IF last.why = "partial" THEN FirstPlain(next) ELSE next)

\* A walk with seeks: a frame is reported where it is or nowhere, and follows
\* the frame or the seek before it; after a failure only seek_raw goes on.
SeeksAreTrue ==
    \A i \in DOMAIN out :
        LET e == out[i]  before == IF i = 1 THEN Event("seek", "none", NoId, FirstFrame, NoHeader) ELSE out[i - 1] IN
        /\ e.why = "partial" => \E j \in 1 .. i - 1 : \A m \in j .. i - 1 : out[m].ev = "frame" /\ out[m].h.type = "OSMData"
        /\ e.ev = "frame" =>
           /\ e.id.start \in {Nowhere, StartOf(e.k)} /\ e.id.ordinal \in {Nowhere, e.k - 1}
           /\ before.ev = "seek" /\ before.why = "none" => e.k = before.k /\ e.id.start = StartOf(e.k)
           /\ before.ev = "frame" => e.k = before.k + 1
           /\ before.ev # "error"

\* The estimate: exact when the sample reaches the end, and the number of data
\* blobs when they are all of one size.
EstimateIsTrue ==
    LET data == {k \in DOMAIN job.frames : TypeOf(job.frames[k]) = "OSMData"} IN
    result = "ok" =>
        /\ out[1].exact => out[1].blobs = Cardinality({k \in data : Exists(k)})
        /\ (/\ job.size = StartOf(Len(job.frames) + 1) /\ stats.blobs > 0
            /\ \A j, k \in data : job.frames[j].data + job.frames[j].len = job.frames[k].data + job.frames[k].len
            /\ \A k \in DOMAIN job.frames : k = 1 \/ k \in data) => out[1].blobs = Cardinality(data)

\* Each blob's answer is its payload's bytes, or a reason it has; the pool
\* accounts for the buffers it keeps and stays within its limits.
DecodeIsTrue ==
    /\ \A i \in DOMAIN out :
          LET b == ParseBody(job.blobs[i])
              fits == b.n <= MaxMessage /\ (b.kind = "raw" \/ b.state = "whole")
          IN CASE out[i].why = "ok" -> b.err = "none" /\ b.kind # "none" /\ fits /\ b.declared \in {Undeclared, b.n} /\ out[i].n = b.n
               [] out[i].why = "too big" -> b.err = "none" /\ b.n > MaxMessage
               [] out[i].why = "broken" -> b.err = "none" /\ b.state # "whole"
               [] out[i].why = "raw size" -> b.err = "none" /\ fits /\ b.declared \notin {Undeclared, b.n}
               [] out[i].why = "empty" -> b.err = "none" /\ b.kind = "none"
               [] OTHER -> b.err = out[i].why
    /\ sel.retained = FoldLeft(LAMBDA a, x : a + x, 0, sel.idle)
    /\ sel.retained <= PoolBytes /\ Len(sel.idle) <= PoolBuffers /\ \A c \in Range(sel.idle) : c <= PoolCapacity

\* The frame walk (read/frame.rs) and the decoder behind it (read/decompress.rs):
\* every source and every mix of reading and skipping walks the same frames to
\* the same end, errors name the frame they are about, and a payload is decoded
\* whole or refused.
FramesAreTrue ==
    CASE job.cmd = "frames" -> IF job.source = "seekable" THEN SeeksAreTrue ELSE WalkIsTrue
      [] job.cmd = "estimate" -> EstimateIsTrue
      [] OTHER -> DecodeIsTrue

-----------------------------------------------------------------------------
(* The files it is checked on. *)

Fld(f, v, n) == [f |-> f, len |-> f # "datasize", v |-> v, n |-> n]
Good == <<[f |-> "raw", n |-> 1, state |-> "whole"]>>
Frame(len, type, data, more) == [len |-> len, fields |-> <<Fld("type", type, 0), Fld("datasize", "", data)>> \o more, data |-> data, body |-> Good]
Ix(v) == <<Fld("indexdata", v, 0)>>
HeaderFrame == Frame(2, "OSMHeader", 1, <<>>)
Data(len, data, v) == Frame(len, "OSMData", data, Ix(v))
OtherFrames ==
    {Data(1, 3, "index"), Data(3, 0, "index"), Data(2, 2, "empty"), Data(2, 1, "odd length"), Data(2, 2, "unreadable"),
     Frame(1, "OSMData", 2, Ix("index") \o Ix("index")), Frame(1, "OSMData", 2, Ix("empty") \o Ix("index")), Frame(3, "other", 3, <<>>),
     HeaderFrame, Frame(0, "OSMData", 1, <<>>), Frame(4, "OSMData", 1, <<>>), Frame(2, "", 1, <<>>), Frame(2, "not text", 1, <<>>),
     Frame(1, "OSMData", 1, <<Fld("type", "torn", 0)>>), Frame(1, "OSMData", 1, <<[Fld("datasize", "", 1) EXCEPT !.len = TRUE]>>),
     Frame(1, "OSMData", 0, <<Fld("datasize", "", -1)>>), Frame(1, "OSMData", 0, <<Fld("datasize", "", MaxData)>>),
     Frame(1, "OSMData", 1, <<[Fld("indexdata", "index", 0) EXCEPT !.len = FALSE], Fld("tagdata", "t", 0), Fld("waymembers", "m", 0)>>),
     [Data(1, 1, "index") EXCEPT !.body = Good \o Good]}
WalkJob(source, frames, size) ==
    [cmd |-> "frames", source |-> source, start |-> 0, frames |-> frames, size |-> size, now |-> size, refuse |-> FALSE, faulty |-> FALSE, cancel |-> FALSE,
     careless |-> FALSE, leading |-> FALSE, skipUnknown |-> FALSE, calls |-> 5, want |-> [indexdata |-> TRUE, tagdata |-> TRUE, waymembers |-> FALSE]]
SizeOfFile(frames) == FoldLeft(LAMBDA a, x : a + Prefix + x.len + x.data, 0, frames)
Sources == {"stream", "named", "buffered", "direct", "walker", "direct walker"}
Plain == <<HeaderFrame, Data(1, 3, "index"), Data(3, 2, "index")>>
WalkWorlds ==
    \/ \E a, b \in OtherFrames, source \in Sources, refuse, leading \in BOOLEAN :
          LET file == <<HeaderFrame, a, b>> IN
          job = [WalkJob(source, file, SizeOfFile(file)) EXCEPT !.refuse = refuse, !.leading = leading /\ source \notin Walkers, !.want.indexdata = ~leading, !.skipUnknown = leading]
    \/ \E size \in 0 .. SizeOfFile(Plain), source \in Sources, faulty, cancel \in BOOLEAN : job = [WalkJob(source, Plain, size) EXCEPT !.faulty = faulty, !.cancel = cancel]
    \/ \E size \in 1 .. SizeOfFile(Plain), now \in 0 .. SizeOfFile(Plain), source \in Walkers :
          now < size /\ job = [WalkJob(source, Plain, size) EXCEPT !.now = now]
    \/ \E source \in {"buffered", "direct"} : job = [WalkJob(source, Plain, SizeOfFile(Plain)) EXCEPT !.careless = TRUE]
    \/ \E source \in Sources \ Walkers, a \in OtherFrames : job = [WalkJob(source, <<a>>, SizeOfFile(<<a>>)) EXCEPT !.leading = TRUE]
    \/ \E start \in {0, 5}, faulty \in BOOLEAN, a \in {Data(3, 2, "index"), Data(2, 2, "empty"), Frame(2, "", 1, <<>>)} :
          LET file == <<HeaderFrame, Data(1, 1, "index"), a, Data(1, 1, "index")>> IN
          job = [WalkJob("seekable", file, SizeOfFile(file)) EXCEPT !.start = start, !.faulty = faulty, !.refuse = ~faulty, !.calls = 4]
EstimateWorlds ==
    \E first \in {HeaderFrame, Data(1, 1, "index")}, a, b \in {Data(1, 1, "index"), Data(2, 2, "empty"), Frame(3, "other", 3, <<>>)}, more \in 0 .. 3, cut \in {0, 1, 2, 4} :
        LET file == <<first, a>> \o [i \in 1 .. more |-> b] IN
        job = [WalkJob("walker", file, SizeOfFile(file) - cut) EXCEPT !.cmd = "estimate"]
Packed(f, n, state) == [f |-> f, n |-> n, state |-> state]
Bodies == {<<Packed(f, n, state)>> : f \in {"zlib", "zstd", "raw"}, n \in {0, 2, 3, 4, 6}, state \in {"whole", "cut"}}
          \cup {<<Packed("raw_size", d, "whole"), Packed("zlib", n, "whole")>> : d \in {0, 2, 3, 9}, n \in {2, 3}}
          \cup {<<>>, <<Packed("zlib", 1, "whole"), Packed("raw", 1, "whole")>>, <<Packed("raw_size", 1, "torn")>>, <<Packed("other", 1, "whole"), Packed("raw_size", 5, "whole"), Packed("raw", 2, "whole")>>}
InflateWorlds ==
    \E pooled \in BOOLEAN, a, b \in Bodies, c \in {<<Packed("zlib", 3, "whole")>>} : job = [cmd |-> "inflate", pooled |-> pooled, blobs |-> <<a, b, c>>]
Worlds == WalkWorlds \/ EstimateWorlds \/ InflateWorlds
=============================================================================
