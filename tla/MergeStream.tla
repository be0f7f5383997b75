---------------------------- MODULE MergeStream -----------------------------
(***************************************************************************)
(* commands/merge_changes/stream.rs: several change files concatenated.    *)
(* Reader threads parse the inputs and seal batches against a ledger of    *)
(* credit; jobs on the executor encode the batches; the coordinator writes *)
(* those of the head input straight to the output and spills the others,   *)
(* to copy them when their turn comes.  collect() is the same without      *)
(* spills: every batch's result kept, in its slot.                         *)
(*                                                                         *)
(* A batch is <<input, seq>>, its credit seq + 1.  An input is the number  *)
(* of its batches; its reader may fail after them, and any batch's         *)
(* encoding may fail or panic.                                             *)
(***************************************************************************)
EXTENDS Integers, Sequences, FiniteSets, SequencesExt, FiniteSetsExt, Functions, TLC

CONSTANTS MaxInputs, MaxBatches, MaxTotal, Budget

VARIABLES world,      \* the inputs, the plan and the faults: fixed
          cancelled,
          rd,         \* input -> its reader: where it is and its next seq
          ledger,     \* [used, stopped]
          jobs,       \* the batches spawned on the executor
          chan,       \* the messages on their way to the coordinator
          st,         \* input -> InputState
          coord,      \* the coordinator: where it is, head, started, result
          out         \* what the output holds

vars == <<world, cancelled, rd, ledger, jobs, chan, st, coord, out>>

Inputs == 0 .. world.n - 1
Credit(s) == s + 1
Batches(i) == [s \in 1 .. world.count[i] |-> <<i, s - 1>>]
Whole == FlattenSeq([i \in 1 .. world.n |-> Batches(i - 1)])
\* mod.rs gives the run a scratch directory unless it can never spill.
HasScratch == ~world.collects /\ world.n > 1 /\ world.readers > 1

Worlds ==
    UNION {{w \in [n : {n}, count : [0 .. n - 1 -> 0 .. MaxBatches], readers : 1 .. n,
                   collects : BOOLEAN, unread : {-1} \cup 0 .. n - 1,
                   bad : {<<-1, -1>>} \cup ((0 .. n - 1) \X (0 .. MaxBatches - 1))] :
               /\ SumFunction(w.count) <= MaxTotal
               /\ w.bad[1] # -1 => w.bad[2] < w.count[w.bad[1]]
               /\ w.bad[1] = -1 \/ w.unread = -1
               /\ n = 3 => w.bad[1] = -1 /\ w.unread = -1 /\ ~w.collects} : n \in 1 .. MaxInputs}

Init ==
    /\ world \in Worlds
    /\ cancelled = FALSE
    /\ rd = [i \in Inputs |-> [pc |-> "idle", seq |-> 0]]
    /\ ledger = [used |-> 0, stopped |-> FALSE]
    /\ jobs = {}
    /\ chan = <<>>
    /\ st = [i \in Inputs |-> [waiting |-> {}, next |-> 0, batches |-> -1, complete |-> FALSE,
                               sink |-> IF i = 0 THEN "output" ELSE "pending", spill |-> <<>>]]
    /\ coord = [pc |-> "start", head |-> 0, started |-> 0, result |-> <<"none">>]
    /\ out = <<>>

-----------------------------------------------------------------------------
(* read_input, one thread an input. *)

Send(m) == chan' = Append(chan, m)

\* parse_osc_path fills a batch, or ends the input; the reader's one terminal
\* message is its last, a failure of its own or its count.
ReadOn(i) ==
    /\ rd[i].pc = "read"
    /\ \/ /\ rd[i].seq < world.count[i] /\ ~ledger.stopped
          /\ rd' = [rd EXCEPT ![i].pc = "acquire"] /\ UNCHANGED chan
       \/ /\ rd[i].seq = world.count[i] \/ ledger.stopped
          /\ rd' = [rd EXCEPT ![i].pc = "gone"]
          /\ Send(IF world.unread = i \/ ledger.stopped
                  THEN [kind |-> "failed", input |-> i]
                  ELSE [kind |-> "done", input |-> i, batches |-> rd[i].seq])
    /\ UNCHANGED <<world, cancelled, ledger, jobs, st, coord, out>>

\* seal: Ledger::acquire refuses once stopped or cancelled, grants what fits
\* or what finds nothing charged; then the batch is a job on the executor.
Acquire(i) ==
    /\ rd[i].pc = "acquire"
    /\ \/ /\ ledger.stopped \/ cancelled
          /\ rd' = [rd EXCEPT ![i].pc = "gone"]
          /\ Send([kind |-> "failed", input |-> i])
          /\ UNCHANGED <<ledger, jobs>>
       \/ /\ ~ledger.stopped /\ ~cancelled
          /\ ledger.used = 0 \/ ledger.used + Credit(rd[i].seq) <= Budget
          /\ ledger' = [ledger EXCEPT !.used = @ + Credit(rd[i].seq)]
          /\ jobs' = jobs \cup {<<i, rd[i].seq>>}
          /\ rd' = [rd EXCEPT ![i].pc = "read", ![i].seq = @ + 1]
          /\ UNCHANGED chan
    /\ UNCHANGED <<world, cancelled, st, coord, out>>

\* The job of a batch: its answer, an error or a caught panic included.
Encode(b) ==
    /\ b \in jobs /\ jobs' = jobs \ {b}
    /\ Send([kind |-> "member", input |-> b[1], seq |-> b[2],
             ok |-> b # world.bad /\ ~ledger.stopped])
    /\ UNCHANGED <<world, cancelled, rd, ledger, st, coord, out>>

-----------------------------------------------------------------------------
(* The coordinator. *)

Leave(result) ==
    /\ coord' = [coord EXCEPT !.pc = "leaving", !.result = result]
    /\ UNCHANGED rd

Smaller(a, b) == IF a < b THEN a ELSE b

\* The first readers, as many as the plan allows.
StartReaders ==
    /\ coord.pc = "start"
    /\ coord' = [coord EXCEPT !.pc = "top", !.started = Smaller(world.readers, world.n)]
    /\ rd' = [i \in Inputs |-> [rd[i] EXCEPT !.pc = IF i < world.readers THEN "read" ELSE @]]
    /\ UNCHANGED <<world, cancelled, ledger, jobs, chan, st, out>>

\* A finished input makes room for the next reader; then the loop's
\* cancellation check.
ThenNextReader(finished) ==
    LET starts == finished /\ coord.started < world.n IN
    /\ rd' = IF starts THEN [rd EXCEPT ![coord.started].pc = "read"] ELSE rd
    /\ coord' = [coord EXCEPT !.started = IF starts THEN @ + 1 ELSE @,
                              !.pc = IF cancelled THEN "leaving" ELSE "top",
                              !.result = IF cancelled THEN <<"cancelled">> ELSE @]

\* drain: the run of batches that are next in their input, to the output for
\* the head and to the spill file for another.
RECURSIVE Ready(_, _)
Ready(s, next) == IF next \in s.waiting THEN <<next>> \o Ready(s, next + 1) ELSE <<>>
Drained(s, run) ==
    [s EXCEPT !.waiting = @ \ Range(run), !.next = @ + Len(run),
              !.sink = IF @ = "pending" /\ run # <<>> THEN "spill" ELSE @]
Of(i, run) == [k \in DOMAIN run |-> <<i, run[k]>>]
CreditOf(run) == FoldSeq(LAMBDA s, acc : acc + Credit(s), 0, run)

\* close_if_complete: the input's last batch has been drained.
Completes(s) == ~s.complete /\ s.batches = s.next
Closed(i, s) ==
    IF ~Completes(s) THEN s
    ELSE [s EXCEPT !.complete = TRUE,
                   !.sink = IF i # coord.head /\ @ = "spill" THEN "closed" ELSE @]

Member(m) ==
    LET i == m.input
        s == [st[i] EXCEPT !.waiting = @ \cup {m.seq}]
        run == Ready(s, s.next)
        d == Drained(s, run)
        spills == d.sink = "spill"
    IN IF \/ m.seq < st[i].next \/ m.seq \in st[i].waiting
          \/ st[i].batches # -1 /\ m.seq >= st[i].batches
       THEN Leave(<<"protocol">>) /\ UNCHANGED <<st, out, ledger>>
       ELSE IF spills /\ ~HasScratch
       THEN Leave(<<"no scratch">>) /\ UNCHANGED <<st, out, ledger>>
       ELSE /\ out' = IF d.sink = "output" THEN out \o Of(i, run) ELSE out
            /\ st' = [st EXCEPT ![i] = [Closed(i, d) EXCEPT
                                          !.spill = IF spills THEN @ \o Of(i, run) ELSE @]]
            /\ ledger' = [ledger EXCEPT !.used = @ - CreditOf(run)]
            /\ ThenNextReader(Completes(d))

Done(m) ==
    LET i == m.input  s == [st[i] EXCEPT !.batches = m.batches] IN
    IF \/ st[i].batches # -1 \/ st[i].next > m.batches
       \/ \E q \in st[i].waiting : q >= m.batches
    THEN Leave(<<"protocol">>) /\ UNCHANGED <<st, out, ledger>>
    ELSE /\ st' = [st EXCEPT ![i] = Closed(i, s)]
         /\ ThenNextReader(Completes(s))
         /\ UNCHANGED <<out, ledger>>

\* collect_results: every result is kept in its slot and its credit given back
\* at once; a reader's place is free when it has reported, whatever is still
\* being encoded.
Received(i) == Cardinality(st[i].waiting)
Collect(m) ==
    LET i == m.input IN
    IF m.kind = "member"
    THEN IF m.seq \in st[i].waiting \/ (st[i].batches # -1 /\ m.seq >= st[i].batches)
         THEN Leave(<<"protocol">>) /\ UNCHANGED <<st, out, ledger>>
         ELSE /\ st' = [st EXCEPT ![i].waiting = @ \cup {m.seq},
                                  ![i].complete = st[i].batches = Received(i) + 1]
              /\ ledger' = [ledger EXCEPT !.used = @ - Credit(m.seq)]
              /\ ThenNextReader(FALSE) /\ UNCHANGED out
    ELSE IF st[i].batches # -1 \/ Received(i) > m.batches
         THEN Leave(<<"protocol">>) /\ UNCHANGED <<st, out, ledger>>
         ELSE /\ st' = [st EXCEPT ![i].batches = m.batches,
                                  ![i].complete = Received(i) = m.batches]
              /\ ThenNextReader(TRUE) /\ UNCHANGED <<out, ledger>>

Over == IF world.collects THEN \A i \in Inputs : st[i].complete ELSE coord.head = world.n
HeadDone == ~world.collects /\ coord.head < world.n /\ st[coord.head].batches = st[coord.head].next

\* One message: a failure ends the merge, whichever input it is of.
Receive ==
    /\ coord.pc = "top" /\ ~Over /\ ~HeadDone
    /\ chan # <<>> /\ chan' = Tail(chan)
    /\ LET m == Head(chan) IN
       CASE m.kind = "failed" -> Leave(<<"failed", m.input>>) /\ UNCHANGED <<st, out, ledger>>
         [] m.kind = "member" /\ ~m.ok ->
               Leave(<<"bad", m.input, m.seq>>) /\ UNCHANGED <<st, out, ledger>>
         [] m.kind = "member" /\ m.ok /\ ~world.collects -> Member(m)
         [] m.kind = "done" /\ ~world.collects -> Done(m)
         [] OTHER -> Collect(m)
    /\ UNCHANGED <<world, cancelled, jobs>>

Promoted == [st EXCEPT ![coord.head + 1].sink = "output", ![coord.head + 1].spill = <<>>]

AdvanceHead_LosesSpill ==
    /\ coord.pc = "top" /\ HeadDone
    /\ \/ /\ coord.head + 1 = world.n
          /\ coord' = [coord EXCEPT !.head = @ + 1] /\ UNCHANGED <<st, out>>
       \/ /\ coord.head + 1 < world.n
          /\ st' = Promoted
          /\ out' = out \o (IF st[coord.head + 1].sink = "closed" THEN st[coord.head + 1].spill ELSE <<>>)
          /\ coord' = [coord EXCEPT !.head = @ + 1]
       \/ /\ cancelled /\ coord.head + 1 < world.n /\ st[coord.head + 1].spill # <<>>
          /\ coord' = [coord EXCEPT !.pc = "leaving", !.result = <<"cancelled">>]
          /\ UNCHANGED <<st, out>>
    /\ UNCHANGED <<world, cancelled, rd, ledger, jobs, chan>>

\* advance_head: the next input becomes the head; what it spilled is copied,
\* a chunk and a cancellation check at a time, and its later batches go to the
\* output.
AdvanceHead ==
    /\ coord.pc = "top" /\ HeadDone
    /\ \/ /\ coord.head + 1 = world.n
          /\ coord' = [coord EXCEPT !.head = @ + 1] /\ UNCHANGED <<st, out>>
       \/ /\ coord.head + 1 < world.n
          /\ st' = Promoted
          /\ out' = out \o st[coord.head + 1].spill
          /\ coord' = [coord EXCEPT !.head = @ + 1]
       \/ /\ cancelled /\ coord.head + 1 < world.n /\ st[coord.head + 1].spill # <<>>
          /\ coord' = [coord EXCEPT !.pc = "leaving", !.result = <<"cancelled">>]
          /\ UNCHANGED <<st, out>>
    /\ UNCHANGED <<world, cancelled, rd, ledger, jobs, chan>>

\* The loop's end, and StopOnDrop on every way out: the readers that wait for
\* credit are refused it.
StopLedger ==
    /\ coord.pc = "leaving" \/ (coord.pc = "top" /\ Over)
    /\ ledger' = [ledger EXCEPT !.stopped = TRUE]
    /\ coord' = [coord EXCEPT !.pc = "join", !.result = IF coord.pc = "top" THEN <<"ok">> ELSE @]
    /\ UNCHANGED <<world, cancelled, rd, jobs, chan, st, out>>

\* thread::scope joins the readers, the executor's scope its jobs.
JoinAll ==
    /\ coord.pc = "join" /\ jobs = {} /\ \A i \in Inputs : rd[i].pc \in {"idle", "gone"}
    /\ coord' = [coord EXCEPT !.pc = "returned"]
    /\ UNCHANGED <<world, cancelled, rd, ledger, jobs, chan, st, out>>

Cancel ==
    /\ ~cancelled /\ cancelled' = TRUE
    /\ UNCHANGED <<world, rd, ledger, jobs, chan, st, coord, out>>

ReaderStep(i) == ReadOn(i) \/ Acquire(i)
CoordStep == StartReaders \/ Receive \/ AdvanceHead \/ StopLedger \/ JoinAll
Next ==
    \/ CoordStep \/ Cancel
    \/ \E i \in Inputs : ReaderStep(i)
    \/ \E b \in jobs : Encode(b)

\* Readers are threads; the executor runs what is spawned on it, the
\* coordinator yielding to it while it waits.
Fairness ==
    /\ WF_vars(CoordStep)
    /\ \A i \in 0 .. MaxInputs - 1 : WF_vars(i \in Inputs /\ ReaderStep(i))
    /\ WF_vars(\E b \in jobs : Encode(b))

Spec == Init /\ [][Next]_vars /\ Fairness

-----------------------------------------------------------------------------
(* Properties. *)

\* What is charged is what is being encoded, on its way, or waiting for an
\* earlier batch of its input; so the batches in memory stay within the
\* budget, a single oversized one apart.
InMemory ==
    jobs \cup {<<chan[k].input, chan[k].seq>> : k \in {j \in DOMAIN chan : chan[j].kind = "member"}}
    \cup (IF world.collects THEN {} ELSE UNION {{<<i, s>> : s \in st[i].waiting} : i \in Inputs})
CreditBounds ==
    coord.pc \in {"start", "top"} =>
       /\ ledger.used = FoldSet(LAMBDA b, acc : acc + Credit(b[2]), 0, InMemory)
       /\ ledger.used <= Budget \/ Cardinality(InMemory) = 1

\* The output is at every moment a prefix of the inputs' batches, input after
\* input and in each input's order; a merge that answers Ok wrote, or
\* collected, all of them; one that fails names a reader or a batch that fails;
\* no message is ever out of protocol, and no plan without a scratch directory
\* spills.
MergeIsTrue ==
    /\ IsPrefix(out, Whole)
    /\ coord.result[1] \notin {"protocol", "no scratch"}
    /\ coord.pc = "returned" =>
          CASE coord.result[1] = "ok" ->
                  /\ world.unread = -1 /\ world.bad[1] = -1
                  /\ IF world.collects
                     THEN \A i \in Inputs : st[i].waiting = 0 .. world.count[i] - 1
                     ELSE out = Whole
            [] coord.result[1] = "failed" -> world.unread = coord.result[2] \/ cancelled
            [] coord.result[1] = "bad" -> world.bad = <<coord.result[2], coord.result[3]>>
            [] OTHER -> cancelled

\* The merge always returns: no failure leaves a reader waiting for credit or
\* the coordinator for a message.
MergeReturns == <>(coord.pc = "returned")
=============================================================================
