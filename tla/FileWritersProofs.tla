------------------------- MODULE FileWritersProofs --------------------------
(***************************************************************************)
(* Proofs about the positioned-write pool and the parallel gzip writer,    *)
(* for any number of workers and operations, any lengths and capacities.   *)
(***************************************************************************)
EXTENDS MCFileWriters, TLAPS

-----------------------------------------------------------------------------
(* The positioned-write pool. *)

WriteOps == [op : Nat, offset : Nat]
InHand(w) == wpc[w] \in {"check", "write", "failed"}

PoolType ==
    /\ lens \in Seq(Nat \ {0}) /\ op \in 1 .. Len(lens) + 1 /\ offset \in Nat
    /\ next_worker \in P!Pool /\ senders \in BOOLEAN
    /\ queue \in [P!Pool -> Seq(WriteOps)] /\ cur \in [P!Pool -> WriteOps]
    /\ wpc \in [P!Pool -> {"recv", "check", "write", "failed", "exit", "gone"}]
    /\ rx = {w \in P!Pool : wpc[w] # "gone"}
    /\ dpc \in {"next", "send", "after", "close", "join", "done"}

\* Who may be gone, and what an end of the run without a failure means.
PoolEnds ==
    /\ senders <=> dpc \notin {"join", "done"}
    /\ \A w \in P!Pool : wpc[w] \in {"exit", "gone"} => stopped \/ (~senders /\ queue[w] = << >>)
    /\ \A w \in P!Pool : wpc[w] = "gone" => queue[w] = << >>
    /\ dpc = "send" => op <= Len(lens)
    /\ dpc \in {"close", "join", "done"} /\ ~stopped => op = Len(lens) + 1 /\ ~fails_upstream
    /\ dpc = "done" => \A w \in P!Pool : wpc[w] = "gone"
    /\ verdict = "ok" => dpc = "done" /\ ~stopped
    /\ first \notin {"closed", "stopped", "ok"}

\* start[k] is the first byte of operation k; the operations dispatched so far
\* cover the file up to offset, one after the other.
Bytes(start, k) == start[k] .. start[k] + lens[k] - 1
Laid(start) ==
    /\ start \in [1 .. op -> Nat] /\ start[1] = 1 /\ start[op] = offset
    /\ \A k, j \in 1 .. op : k < j => start[k] + lens[k] <= start[j]
    /\ \A p \in 1 .. offset - 1 : \E k \in 1 .. op - 1 : p \in Bytes(start, k)

\* o is an operation dispatched, at its place.
Placed(start, o) == o.op \in 1 .. op - 1 /\ o.offset = start[o.op]
Carried(start) ==
    \A w \in P!Pool : /\ InHand(w) => Placed(start, cur[w])
                      /\ \A i \in 1 .. Len(queue[w]) : Placed(start, queue[w][i])

\* Every byte of the file is the header's or in place.
FileTrue(start) ==
    /\ 0 \in DOMAIN file /\ file[0] = 0
    /\ \A p \in DOMAIN file : p = 0 \/ (file[p] \in 1 .. op - 1 /\ p \in Bytes(start, file[p]))

\* Unless something failed, an operation is on its way or written.
OnTheWay(k) ==
    \E w \in P!Pool : \/ InHand(w) /\ cur[w].op = k
                      \/ \E i \in 1 .. Len(queue[w]) : queue[w][i].op = k
Written(start, k) == \A p \in Bytes(start, k) : p \in DOMAIN file /\ file[p] = k
Accounted(start) == ~stopped => \A k \in 1 .. op - 1 : OnTheWay(k) \/ Written(start, k)

Whereabouts(start) == Laid(start) /\ Carried(start) /\ FileTrue(start) /\ Accounted(start)

PoolInv == PoolType /\ PoolEnds /\ \E start : Whereabouts(start)

-----------------------------------------------------------------------------
(* Sequences and functions. *)

LEMMA AppendFacts ==
    ASSUME NEW S, NEW s \in Seq(S), NEW e \in S
    PROVE  /\ Append(s, e) \in Seq(S) /\ Len(s) \in Nat /\ Len(Append(s, e)) = Len(s) + 1
           /\ \A i \in 1 .. Len(s) : Append(s, e)[i] = s[i]
           /\ Append(s, e)[Len(s) + 1] = e
  OBVIOUS

LEMMA TailFacts ==
    ASSUME NEW S, NEW s \in Seq(S), s # << >>
    PROVE  /\ Head(s) \in S /\ Head(s) = s[1] /\ Tail(s) \in Seq(S)
           /\ Len(s) \in Nat \ {0} /\ Len(Tail(s)) = Len(s) - 1
           /\ \A i \in 1 .. Len(Tail(s)) : Tail(s)[i] = s[i + 1]
  OBVIOUS

LEMMA EmptySeq == Len(<< >>) = 0 /\ \A S : << >> \in Seq(S)
  OBVIOUS

\* Indices of a sequence and of its tail.
LEMMA TailIndex ==
    ASSUME NEW n \in Nat \ {0}
    PROVE  /\ 1 \in 1 .. n
           /\ \A i \in 1 .. n - 1 : i + 1 \in 1 .. n
           /\ \A i \in 1 .. n : i = 1 \/ (i - 1 \in 1 .. n - 1 /\ (i - 1) + 1 = i)
  OBVIOUS

LEMMA AppendIndex ==
    ASSUME NEW n \in Nat
    PROVE  /\ n + 1 \in 1 .. n + 1
           /\ \A i \in 1 .. n : i \in 1 .. n + 1
           /\ \A i \in 1 .. n + 1 : i \in 1 .. n \/ i = n + 1
  OBVIOUS

-----------------------------------------------------------------------------
(* Steps of the positioned-write pool that move no operation. *)

LEMMA CarryStays ==
    ASSUME NEW start, Carried(start), UNCHANGED <<op, queue, cur>>,
           \A v \in P!Pool : InHand(v)' => InHand(v)
    PROVE  Carried(start)'
  BY Zenon DEF Carried, Placed

LEMMA CarriedAt ==
    ASSUME NEW start, Carried(start), NEW v \in P!Pool, InHand(v)' => InHand(v),
           cur'[v] = cur[v], queue'[v] = queue[v], op' = op
    PROVE  /\ InHand(v)' => cur'[v].op \in 1 .. op' - 1 /\ cur'[v].offset = start[cur'[v].op]
           /\ \A i \in 1 .. Len(queue'[v]) :
                 queue'[v][i].op \in 1 .. op' - 1 /\ queue'[v][i].offset = start[queue'[v][i].op]
  <1>1. InHand(v)' => cur[v].op \in 1 .. op - 1 /\ cur[v].offset = start[cur[v].op]
    BY Zenon DEF Carried, Placed
  <1>2. \A i \in 1 .. Len(queue[v]) :
           queue[v][i].op \in 1 .. op - 1 /\ queue[v][i].offset = start[queue[v][i].op]
    BY Zenon DEF Carried, Placed
  <1> QED
    BY <1>1, <1>2

LEMMA AccountStays ==
    ASSUME NEW start, Accounted(start), UNCHANGED <<op, lens, file, queue, cur>>, stopped => stopped',
           \A v \in P!Pool : InHand(v) => InHand(v)'
    PROVE  Accounted(start)'
  <1>1. ASSUME NEW k, OnTheWay(k)
        PROVE  OnTheWay(k)'
    <2>1. PICK v \in P!Pool : \/ InHand(v) /\ cur[v].op = k
                              \/ \E i \in 1 .. Len(queue[v]) : queue[v][i].op = k
      BY <1>1, Zenon DEF OnTheWay
    <2>2. \/ InHand(v)' /\ cur'[v].op = k
          \/ \E i \in 1 .. Len(queue'[v]) : queue'[v][i].op = k
      BY <2>1, Zenon
    <2> QED
      BY <2>2, Zenon DEF OnTheWay
  <1>2. ASSUME NEW k, Written(start, k)
        PROVE  Written(start, k)'
    BY <1>2, Zenon DEF Written, Bytes
  <1> QED
    BY <1>1, <1>2, Zenon DEF Accounted

\* The dispatcher goes on or ends; the workers and the file are as before.
LEMMA DispatcherMoves ==
    ASSUME PoolInv, PoolEnds', UNCHANGED <<lens, op, offset, next_worker, queue, rx, wpc, cur, file>>,
           dpc' \in {"next", "send", "after", "close", "join", "done"}, senders' \in BOOLEAN,
           stopped => stopped'
    PROVE  PoolInv'
  <1>1. PoolType'
    BY Zenon DEF PoolInv, PoolType
  <1>2. PICK start : Whereabouts(start)
    BY Zenon DEF PoolInv
  <1>3. Laid(start)' /\ Carried(start)' /\ FileTrue(start)'
    BY <1>2, Zenon DEF Whereabouts, Laid, Bytes, Carried, InHand, Placed, FileTrue
  <1>4. Accounted(start)'
    <2>1. \A v \in P!Pool : InHand(v) => InHand(v)'
      BY Zenon DEF InHand
    <2> QED
      BY <1>2, <2>1, AccountStays, Zenon DEF Whereabouts
  <1> QED
    BY <1>1, <1>3, <1>4, Zenon DEF PoolInv, Whereabouts

LEMMA Recorded ==
    ASSUME NEW e, e # NoFailure, P!Record(e)
    PROVE  first' # NoFailure /\ (first # NoFailure => first' = first) /\ first' \in {e, first}
  BY Zenon DEF P!Record

\* A sender's worker is gone only after a failure.
LEMMA NobodyGone ==
    ASSUME PoolInv, senders, NEW w \in P!Pool, w \notin rx
    PROVE  stopped
  BY Zenon DEF PoolInv, PoolType, PoolEnds

LEMMA NextOpStep ==
    ASSUME PoolInv, P!NextOp
    PROVE  PoolInv'
  <1>1. /\ dpc = "next"
        /\ UNCHANGED <<lens, fails_upstream, op, offset, next_worker, senders, queue, rx, wpc, cur,
                       file, verdict>>
    BY Zenon DEF P!NextOp, P!stream, P!pool
  <1>2. \/ op \in 1 .. Len(lens) /\ dpc' = "send" /\ first' = first
        \/ op \notin 1 .. Len(lens) /\ ~fails_upstream /\ dpc' = "close" /\ first' = first
        \/ dpc' = "close" /\ \E e \in {"upstream", "panic"} : P!Record(e)
    BY Zenon DEF P!NextOp, P!Ops, P!Ends
  <1>3. \/ first' = first
        \/ dpc' = "close" /\ first' # NoFailure /\ first' \in {"upstream", "panic", first}
    BY <1>2, Recorded, FileWritersAssumption
  <1>4. op \in 1 .. Len(lens) + 1 /\ Len(lens) \in Nat
    BY DEF PoolInv, PoolType
  <1>5. PoolEnds'
    <2>1. PoolEnds
      BY Zenon DEF PoolInv
    <2>2. CASE op \in 1 .. Len(lens) /\ dpc' = "send" /\ first' = first
      BY <1>1, <1>4, <2>1, <2>2 DEF PoolEnds, stopped
    <2>3. CASE op \notin 1 .. Len(lens) /\ ~fails_upstream /\ dpc' = "close" /\ first' = first
      <3>1. op = Len(lens) + 1
        BY <1>4, <2>3
      <3> QED
        BY <1>1, <2>1, <2>3, <3>1 DEF PoolEnds, stopped
    <2>4. CASE dpc' = "close" /\ first' # NoFailure /\ first' \in {"upstream", "panic", first}
      BY <1>1, <2>1, <2>4 DEF PoolEnds, stopped
    <2>5. CASE dpc' = "close" /\ first' = first /\ stopped
      BY <1>1, <2>1, <2>5 DEF PoolEnds, stopped
    <2> QED
      BY <1>2, <1>3, <2>2, <2>3, <2>4, <2>5, Recorded, FileWritersAssumption DEF stopped
  <1>6. dpc' \in {"next", "send", "after", "close", "join", "done"} /\ (stopped => stopped')
    BY <1>2, <1>3 DEF stopped
  <1> QED
    BY <1>1, <1>5, <1>6, DispatcherMoves DEF PoolInv, PoolType

LEMMA AfterDrainStep ==
    ASSUME PoolInv, P!AfterDrain
    PROVE  PoolInv'
  <1>1. /\ dpc = "after"
        /\ UNCHANGED <<lens, fails_upstream, op, offset, next_worker, senders, queue, rx, wpc, cur,
                       file, verdict>>
    BY Zenon DEF P!AfterDrain, P!stream, P!pool
  <1>2. \/ stopped /\ dpc' = "close" /\ first' = first
        \/ dpc' = "next" /\ first' = first
        \/ op \in 1 .. Len(lens) /\ dpc' = "send" /\ first' = first
    BY Zenon DEF P!AfterDrain, P!Ops, P!Ends, P!stopped, P!Record, stopped
  <1>3. op \in 1 .. Len(lens) + 1 /\ Len(lens) \in Nat
    BY DEF PoolInv, PoolType
  <1>4. PoolEnds'
    BY <1>1, <1>2, <1>3 DEF PoolInv, PoolEnds, stopped
  <1>5. dpc' \in {"next", "send", "after", "close", "join", "done"} /\ (stopped => stopped')
    BY <1>2 DEF stopped
  <1> QED
    BY <1>1, <1>4, <1>5, DispatcherMoves DEF PoolInv, PoolType

LEMMA DropSendersStep ==
    ASSUME PoolInv, P!DropSenders
    PROVE  PoolInv'
  <1>1. /\ dpc = "close" /\ senders' = FALSE /\ dpc' = "join"
        /\ UNCHANGED <<lens, fails_upstream, op, offset, next_worker, queue, rx, wpc, cur,
                       file, verdict, first>>
    BY Zenon DEF P!DropSenders, P!stream, P!pool
  <1>2. PoolEnds'
    BY <1>1 DEF PoolInv, PoolEnds, stopped
  <1> QED
    BY <1>1, <1>2, DispatcherMoves, Zenon DEF stopped

LEMMA JoinPoolStep ==
    ASSUME PoolInv, P!Join
    PROVE  PoolInv'
  <1>1. /\ dpc = "join" /\ dpc' = "done" /\ (verdict' = "ok" => ~stopped)
        /\ \A w \in P!Pool : wpc[w] = "gone"
        /\ UNCHANGED <<lens, fails_upstream, op, offset, next_worker, senders, queue, rx, wpc, cur,
                       file, first>>
    <2>1. CASE verdict' = IF P!stopped THEN first ELSE "ok"
      BY <2>1 DEF P!Join, P!Joined, P!stream, P!pool, P!stopped, stopped, PoolInv, PoolEnds
    <2>2. CASE ~P!stopped /\ verdict' = "sync"
      BY <2>2 DEF P!Join, P!Joined, P!stream, P!pool, P!stopped, stopped
    <2> QED
      BY <2>1, <2>2, Zenon DEF P!Join
  <1>2. PoolEnds'
    BY <1>1 DEF PoolInv, PoolEnds, stopped
  <1> QED
    BY <1>1, <1>2, DispatcherMoves DEF stopped, PoolInv, PoolType

-----------------------------------------------------------------------------
(* The dispatcher hands an operation over. *)

\* The layout grows by the operation that is sent.
LEMMA LayoutGrows ==
    ASSUME PoolType, NEW start, Laid(start), op <= Len(lens), op' = op + 1,
           offset' = offset + lens[op], lens' = lens
    PROVE  \E more : /\ Laid(more)'
                     /\ \A k \in 1 .. op : more[k] = start[k]
  <1>7. PICK more : more = [k \in 1 .. op + 1 |-> IF k <= op THEN start[k] ELSE offset + lens[op]]
    BY Zenon
  <1>1. /\ op \in Nat \ {0} /\ Len(lens) \in Nat /\ offset \in Nat /\ op \in 1 .. Len(lens)
        /\ \A k \in 1 .. Len(lens) : lens[k] \in Nat \ {0}
    BY DEF PoolType
  <1>2. /\ \A k \in 1 .. op : more[k] = start[k] /\ start[k] \in Nat
        /\ more[op + 1] = offset + lens[op] /\ start[op] = offset /\ start[1] = 1
        /\ \A k \in 1 .. op + 1 : k \in 1 .. op \/ k = op + 1
    BY <1>1, <1>7 DEF Laid
  <1>3. more \in [1 .. op + 1 -> Nat] /\ more[1] = 1
    <2>1. lens[op] \in Nat
      BY <1>1
    <2>2. ASSUME NEW k \in 1 .. op + 1
          PROVE  (IF k <= op THEN start[k] ELSE offset + lens[op]) \in Nat
      <3>1. k <= op => k \in 1 .. op
        BY <1>1
      <3>2. offset + lens[op] \in Nat
        BY <1>1, <2>1
      <3> QED
        BY <1>2, <3>1, <3>2, Zenon
    <2>3. 1 \in 1 .. op
      BY <1>1
    <2> QED
      BY <1>2, <1>7, <2>2, <2>3, Zenon
  <1>4. ASSUME NEW k \in 1 .. op + 1, NEW j \in 1 .. op + 1, k < j
        PROVE  more[k] + lens[k] <= more[j]
    <2>1. k \in 1 .. op /\ lens[k] \in Nat
      BY <1>1, <1>4
    <2>2. CASE j \in 1 .. op
      BY <1>2, <1>4, <2>1, <2>2 DEF Laid
    <2>3. CASE j = op + 1
      <3>1. CASE k = op
        BY <1>1, <1>2, <2>1, <2>3, <3>1
      <3>2. CASE k # op
        <4>1. k < op /\ op \in 1 .. op
          BY <1>1, <2>1, <3>2
        <4>2. start[k] + lens[k] <= start[op]
          BY <2>1, <4>1 DEF Laid
        <4> QED
          BY <1>1, <1>2, <2>1, <2>3, <4>2
      <3> QED
        BY <3>1, <3>2
    <2> QED
      BY <1>2, <2>2, <2>3
  <1>5. ASSUME NEW p \in 1 .. offset' - 1
        PROVE  \E k \in 1 .. op : p \in more[k] .. more[k] + lens[k] - 1
    <2>1. CASE p <= offset - 1
      <3>1. PICK k \in 1 .. op - 1 : p \in start[k] .. start[k] + lens[k] - 1
        BY <1>1, <1>5, <2>1 DEF Laid, Bytes
      <3>2. k \in 1 .. op
        BY <1>1
      <3> QED
        BY <1>2, <3>1, <3>2
    <2>2. CASE p >= offset
      <3>1. op \in 1 .. op /\ p \in more[op] .. more[op] + lens[op] - 1
        BY <1>1, <1>2, <1>5, <2>2
      <3> QED
        BY <3>1
    <2> QED
      BY <1>1, <1>5, <2>1, <2>2
  <1>6. Laid(more)'
    <2>1. op' - 1 = op /\ more[op'] = offset'
      BY <1>1, <1>2
    <2> QED
      BY <1>3, <1>4, <1>5, <2>1, Zenon DEF Laid, Bytes
  <1> QED
    BY <1>2, <1>6, Zenon

LEMMA SendStep ==
    ASSUME PoolInv, P!Send
    PROVE  PoolInv'
  <1> DEFINE w == next_worker
  <1>1. /\ dpc = "send" /\ w \in P!Pool
        /\ UNCHANGED <<lens, fails_upstream, senders, rx, wpc, cur, file, verdict>>
    BY Zenon DEF P!Send, P!stream, PoolInv, PoolType
  <1>2. senders /\ op \in 1 .. Len(lens) /\ Len(lens) \in Nat /\ op \in Nat /\ offset \in Nat
    BY <1>1 DEF PoolInv, PoolEnds, PoolType
  <1>3. CASE w \notin rx
    <2>1. stopped
      BY <1>1, <1>2, <1>3, NobodyGone, Zenon
    <2>2. dpc' = "close" /\ first' = first /\ UNCHANGED <<queue, next_worker, offset, op>>
      BY <1>3, <2>1, Zenon DEF P!Send, P!Ends, P!Record, stopped
    <2>3. PoolEnds'
      BY <1>1, <2>1, <2>2 DEF PoolInv, PoolEnds, stopped
    <2> QED
      BY <1>1, <1>2, <2>2, <2>3, DispatcherMoves DEF stopped
  <1>4. CASE w \in rx
    <2> DEFINE o == P!WriteOp(op, offset)
    <2>1. /\ queue' = [queue EXCEPT ![w] = Append(queue[w], o)]
          /\ next_worker' = (next_worker + 1) % PoolSize
          /\ offset' = offset + lens[op] /\ op' = op + 1 /\ dpc' = "after" /\ first' = first
      BY <1>4, Zenon DEF P!Send, P!RoundRobin, P!Advance
    <2>2. o \in WriteOps /\ o.op = op /\ o.offset = offset
      BY <1>2 DEF P!WriteOp, WriteOps
    <2> HIDE DEF o
    <2>3. /\ queue'[w] = Append(queue[w], o) /\ queue[w] \in Seq(WriteOps)
          /\ \A v \in P!Pool \ {w} : queue'[v] = queue[v]
      BY <1>1, <2>1, Zenon DEF PoolInv, PoolType
    <2>4. /\ queue'[w] \in Seq(WriteOps) /\ Len(queue[w]) \in Nat
          /\ Len(queue'[w]) = Len(queue[w]) + 1
          /\ \A i \in 1 .. Len(queue[w]) : queue'[w][i] = queue[w][i]
          /\ queue'[w][Len(queue[w]) + 1] = o
      BY <2>2, <2>3, AppendFacts
    <2>5. PoolType'
      <3>1. queue' \in [P!Pool -> Seq(WriteOps)]
        BY <1>1, <2>1, <2>4, <2>3, Zenon DEF PoolInv, PoolType
      <3>2. next_worker' \in P!Pool
        BY <1>1, <2>1, FileWritersAssumption DEF P!Pool
      <3>3. op' \in 1 .. Len(lens) + 1 /\ offset' \in Nat
        BY <1>2, <2>1 DEF PoolInv, PoolType
      <3> QED
        BY <1>1, <2>1, <3>1, <3>2, <3>3, SMTT(20) DEF PoolInv, PoolType
    <2>6. PoolEnds'
      <3>1. wpc[w] # "gone"
        BY <1>4, Zenon DEF PoolInv, PoolType
      <3>2. ~stopped => wpc[w] # "exit"
        BY <1>1, <1>2, Zenon DEF PoolInv, PoolEnds
      <3>3. \A v \in P!Pool : wpc'[v] \in {"exit", "gone"} => stopped' \/ (~senders' /\ queue'[v] = << >>)
        BY <1>1, <1>2, <2>1, <2>3, <3>1, <3>2, Zenon DEF PoolInv, PoolEnds, stopped
      <3>4. \A v \in P!Pool : wpc'[v] = "gone" => queue'[v] = << >>
        BY <1>1, <2>3, <3>1, Zenon DEF PoolInv, PoolEnds
      <3> QED
        BY <1>1, <1>2, <2>1, <3>3, <3>4 DEF PoolInv, PoolEnds, stopped
    <2>7. PICK start : Whereabouts(start)
      BY Zenon DEF PoolInv
    <2>8. PICK more : Laid(more)' /\ \A k \in 1 .. op : more[k] = start[k]
      BY <1>1, <1>2, <2>1, <2>7, LayoutGrows DEF PoolInv, Whereabouts
    <2>9. /\ op' - 1 = op /\ op \in 1 .. op /\ \A k \in 1 .. op - 1 : k \in 1 .. op /\ k # op
          /\ \A k \in 1 .. op : k \in 1 .. op - 1 \/ k = op
          /\ start[op] = offset
      BY <1>2, <2>1, <2>7 DEF Whereabouts, Laid
    <2>10. \A q : Placed(start, q) => q.op \in 1 .. op' - 1 /\ q.offset = more[q.op]
      BY <2>8, <2>9, Zenon DEF Placed
    <2>11. Carried(more)'
      <3>1. o.op \in 1 .. op' - 1 /\ o.offset = more[o.op]
        BY <2>2, <2>8, <2>9, Zenon
      <3>2. \A i \in 1 .. Len(queue'[w]) :
               queue'[w][i].op \in 1 .. op' - 1 /\ queue'[w][i].offset = more[queue'[w][i].op]
        <4>1. \A i \in 1 .. Len(queue[w]) : Placed(start, queue[w][i])
          BY <1>1, <2>7, Zenon DEF Whereabouts, Carried
        <4>2. \A i \in 1 .. Len(queue'[w]) : i \in 1 .. Len(queue[w]) \/ i = Len(queue[w]) + 1
          BY <2>4, AppendIndex, Zenon
        <4> QED
          BY <2>4, <2>10, <3>1, <4>1, <4>2, Zenon
      <3>3. ASSUME NEW v \in P!Pool, v # w
            PROVE  \A i \in 1 .. Len(queue'[v]) :
                      queue'[v][i].op \in 1 .. op' - 1 /\ queue'[v][i].offset = more[queue'[v][i].op]
        BY <2>3, <2>7, <2>10, <3>3, Zenon DEF Whereabouts, Carried
      <3>4. ASSUME NEW v \in P!Pool, InHand(v)'
            PROVE  cur'[v].op \in 1 .. op' - 1 /\ cur'[v].offset = more[cur'[v].op]
        BY <1>1, <2>7, <2>10, <3>4, Zenon DEF Whereabouts, Carried, InHand
      <3> QED
        BY <3>2, <3>3, <3>4, Zenon DEF Carried, Placed
    <2>12. \A k \in 1 .. op - 1 : Bytes(start, k) = Bytes(more, k)'
      BY <1>1, <2>8, <2>9, Zenon DEF Bytes
    <2>13. FileTrue(more)'
      BY <1>1, <2>7, <2>9, <2>12, Zenon DEF Whereabouts, FileTrue
    <2>14. Accounted(more)'
      <3>1. ASSUME NEW k, k = op
            PROVE  OnTheWay(k)'
        <4>1. Len(queue[w]) + 1 \in 1 .. Len(queue'[w])
          BY <2>4
        <4>2. queue'[w][Len(queue[w]) + 1].op = op
          BY <2>2, <2>4, Zenon
        <4>3. \E i \in 1 .. Len(queue'[w]) : queue'[w][i].op = op
          BY <4>1, <4>2, Zenon
        <4> QED
          BY <1>1, <3>1, <4>3, Zenon DEF OnTheWay
      <3>2. ASSUME NEW k \in 1 .. op - 1, OnTheWay(k)
            PROVE  OnTheWay(k)'
        <4>1. PICK v \in P!Pool : \/ InHand(v) /\ cur[v].op = k
                                  \/ \E i \in 1 .. Len(queue[v]) : queue[v][i].op = k
          BY <3>2, Zenon DEF OnTheWay
        <4>2. CASE InHand(v) /\ cur[v].op = k
          BY <1>1, <4>2, Zenon DEF OnTheWay, InHand
        <4>3. CASE \E i \in 1 .. Len(queue[v]) : queue[v][i].op = k
          <5>1. \E i \in 1 .. Len(queue'[v]) : queue'[v][i].op = k
            BY <2>3, <2>4, <4>3, AppendIndex, Zenon
          <5> QED
            BY <5>1, Zenon DEF OnTheWay
        <4> QED
          BY <4>1, <4>2, <4>3, Zenon
      <3>3. \A k \in 1 .. op - 1 : Written(start, k) => Written(more, k)'
        BY <1>1, <2>12, Zenon DEF Written
      <3> QED
        <4>1. ~stopped' => ~stopped
          BY <2>1, Zenon DEF stopped
        <4>2. ASSUME ~stopped, NEW k \in 1 .. op
              PROVE  OnTheWay(k)' \/ Written(more, k)'
          BY <2>7, <2>9, <3>1, <3>2, <3>3, <4>2, Zenon DEF Whereabouts, Accounted
        <4> QED
          BY <2>9, <4>1, <4>2, Zenon DEF Accounted
    <2> QED
      BY <2>5, <2>6, <2>8, <2>11, <2>13, <2>14, Zenon DEF PoolInv, Whereabouts
  <1> QED
    BY <1>3, <1>4, Zenon

-----------------------------------------------------------------------------
(* The workers of the pool. *)

\* A worker's step that leaves the dispatcher and the layout alone.
LEMMA WorkerMoves ==
    ASSUME PoolInv, NEW w \in P!Pool, NEW place \in {"recv", "check", "write", "failed", "exit", "gone"},
           wpc' = [wpc EXCEPT ![w] = place], queue' \in [P!Pool -> Seq(WriteOps)],
           cur' \in [P!Pool -> WriteOps], rx' = {v \in P!Pool : wpc'[v] # "gone"},
           UNCHANGED <<lens, fails_upstream, dpc, op, offset, next_worker, senders, verdict>>,
           first' = first \/ (stopped' /\ first' \notin {"closed", "stopped", "ok"}),
           \A v \in P!Pool \ {w} : queue'[v] = queue[v],
           place \in {"exit", "gone"} => stopped' \/ (~senders /\ queue'[w] = << >>),
           place = "gone" => queue'[w] = << >>, wpc[w] # "gone"
    PROVE  PoolType' /\ PoolEnds'
  <1>1. /\ wpc'[w] = place /\ \A v \in P!Pool \ {w} : wpc'[v] = wpc[v]
        /\ wpc' \in [P!Pool -> {"recv", "check", "write", "failed", "exit", "gone"}]
    BY Zenon DEF PoolInv, PoolType
  <1>2. PoolType'
    BY <1>1, Zenon DEF PoolInv, PoolType
  <1>3. stopped => stopped'
    BY Zenon DEF stopped
  <1>4. \A v \in P!Pool : wpc'[v] \in {"exit", "gone"} => stopped' \/ (~senders' /\ queue'[v] = << >>)
    BY <1>1, <1>3, Zenon DEF PoolInv, PoolEnds
  <1>5. \A v \in P!Pool : wpc'[v] = "gone" => queue'[v] = << >>
    BY <1>1, Zenon DEF PoolInv, PoolEnds
  <1>6. dpc # "done"
    BY Zenon DEF PoolInv, PoolEnds
  <1> QED
    BY <1>2, <1>3, <1>4, <1>5, <1>6, Zenon DEF PoolInv, PoolEnds, stopped

LEMMA ReceiveOpStep ==
    ASSUME PoolInv, NEW w \in P!Pool, P!Receive(w)
    PROVE  PoolInv'
  <1>1. /\ wpc[w] = "recv"
        /\ UNCHANGED <<lens, fails_upstream, dpc, op, offset, next_worker, senders, rx, file, first,
                       verdict>>
    BY Zenon DEF P!Receive, P!stream, P!dispatch
  <1>2. PICK start : Whereabouts(start)
    BY Zenon DEF PoolInv
  <1>3. queue[w] \in Seq(WriteOps)
    BY Zenon DEF PoolInv, PoolType
  <1>4. CASE queue[w] # << >>
    <2>1. /\ cur' = [cur EXCEPT ![w] = Head(queue[w])] /\ queue' = [queue EXCEPT ![w] = Tail(queue[w])]
          /\ wpc' = [wpc EXCEPT ![w] = "check"]
      BY <1>4, Zenon DEF P!Receive, P!Goto
    <2> DEFINE n == Len(queue[w])
    <2>2. /\ Head(queue[w]) \in WriteOps /\ Head(queue[w]) = queue[w][1] /\ Tail(queue[w]) \in Seq(WriteOps)
          /\ n \in Nat \ {0} /\ Len(Tail(queue[w])) = n - 1
          /\ \A i \in 1 .. n - 1 : Tail(queue[w])[i] = queue[w][i + 1]
      BY <1>3, <1>4, TailFacts
    <2>3. /\ cur'[w] = queue[w][1] /\ queue'[w] = Tail(queue[w]) /\ wpc'[w] = "check"
          /\ \A v \in P!Pool \ {w} : cur'[v] = cur[v] /\ queue'[v] = queue[v] /\ wpc'[v] = wpc[v]
          /\ cur' \in [P!Pool -> WriteOps] /\ queue' \in [P!Pool -> Seq(WriteOps)]
      BY <2>1, <2>2, Zenon DEF PoolInv, PoolType
    <2>4. /\ 1 \in 1 .. n
          /\ \A i \in 1 .. n - 1 : i + 1 \in 1 .. n
          /\ \A i \in 1 .. n : i = 1 \/ (i - 1 \in 1 .. n - 1 /\ (i - 1) + 1 = i)
      BY <2>2, TailIndex, Zenon
    <2>5. rx' = {v \in P!Pool : wpc'[v] # "gone"}
      <3>1. \A v \in P!Pool : wpc'[v] # "gone" <=> wpc[v] # "gone"
        BY <1>1, <2>3, Zenon
      <3> QED
        BY <1>1, <3>1, Zenon DEF PoolInv, PoolType
    <2>6. PoolType' /\ PoolEnds'
      BY <1>1, <2>1, <2>3, <2>5, WorkerMoves, Zenon
    <2>7. Laid(start)' /\ FileTrue(start)'
      BY <1>1, <1>2, Zenon DEF Whereabouts, Laid, FileTrue, Bytes
    <2> HIDE DEF n
    <2>8. Carried(start)'
      <3>1. \A i \in 1 .. n : Placed(start, queue[w][i])
        BY <1>2, Zenon DEF Whereabouts, Carried, n
      <3>2. InHand(w)' => Placed(start, cur[w])'
        BY <1>1, <2>3, <2>4, <3>1, Zenon DEF Placed
      <3>3. \A i \in 1 .. Len(queue'[w]) :
               queue'[w][i].op \in 1 .. op' - 1 /\ queue'[w][i].offset = start[queue'[w][i].op]
        <4>1. ASSUME NEW i \in 1 .. Len(queue'[w])
              PROVE  Placed(start, queue'[w][i])
          <5>1. i \in 1 .. n - 1 /\ i + 1 \in 1 .. n /\ queue'[w][i] = queue[w][i + 1]
            BY <2>2, <2>3, <2>4, <4>1, Zenon
          <5> QED
            BY <3>1, <5>1, Zenon
        <4> QED
          BY <1>1, <4>1, Zenon DEF Placed
      <3>4. ASSUME NEW v \in P!Pool, v # w
            PROVE  /\ InHand(v)' => cur'[v].op \in 1 .. op' - 1 /\ cur'[v].offset = start[cur'[v].op]
                   /\ \A i \in 1 .. Len(queue'[v]) :
                         queue'[v][i].op \in 1 .. op' - 1 /\ queue'[v][i].offset = start[queue'[v][i].op]
        <4>1. /\ InHand(v)' => InHand(v)
              /\ cur'[v] = cur[v] /\ queue'[v] = queue[v] /\ op' = op
          BY <1>1, <2>3, <3>4, Zenon DEF InHand
        <4> QED
          BY <1>2, <4>1, CarriedAt, Zenon DEF Whereabouts
      <3> QED
        BY <3>2, <3>3, <3>4, Zenon DEF Carried, Placed
    <2>9. ASSUME NEW k, OnTheWay(k)
          PROVE  OnTheWay(k)'
      <3>1. PICK v \in P!Pool : \/ InHand(v) /\ cur[v].op = k
                                \/ \E i \in 1 .. Len(queue[v]) : queue[v][i].op = k
        BY <2>9, Zenon DEF OnTheWay
      <3>2. CASE v # w
        BY <2>3, <3>1, <3>2, ZenonT(30) DEF OnTheWay, InHand
      <3>3. CASE v = w
        <4>1. PICK i \in 1 .. n : queue[w][i].op = k
          BY <1>1, <3>1, <3>3 DEF InHand, n
        <4>2. CASE i = 1
          BY <2>3, <4>1, <4>2 DEF OnTheWay, InHand
        <4>3. CASE i - 1 \in 1 .. n - 1 /\ (i - 1) + 1 = i
          <5>1. queue'[w][i - 1].op = k /\ i - 1 \in 1 .. Len(queue'[w])
            BY <2>2, <2>3, <4>1, <4>3
          <5> QED
            BY <5>1, Zenon DEF OnTheWay
        <4> QED
          BY <2>4, <4>1, <4>2, <4>3, Zenon
      <3> QED
        BY <3>2, <3>3, Zenon
    <2>10. Accounted(start)'
      BY <1>1, <1>2, <2>9, Zenon DEF Whereabouts, Accounted, stopped, Written, Bytes
    <2> QED
      BY <2>6, <2>7, <2>8, <2>10, Zenon DEF PoolInv, Whereabouts
  <1>5. CASE queue[w] = << >>
    <2>1. ~senders /\ wpc' = [wpc EXCEPT ![w] = "exit"] /\ UNCHANGED <<cur, queue>>
      BY <1>5, Zenon DEF P!Receive, P!Goto
    <2>2. wpc'[w] = "exit" /\ \A v \in P!Pool \ {w} : wpc'[v] = wpc[v]
      BY <2>1, Zenon DEF PoolInv, PoolType
    <2>3. rx' = {v \in P!Pool : wpc'[v] # "gone"}
      <3>1. \A v \in P!Pool : wpc'[v] # "gone" <=> wpc[v] # "gone"
        BY <1>1, <2>2
      <3> QED
        BY <1>1, <3>1, Zenon DEF PoolInv, PoolType
    <2>4. PoolType' /\ PoolEnds'
      BY <1>1, <1>5, <2>1, <2>3, WorkerMoves, Zenon DEF PoolInv, PoolType
    <2>5. \A v \in P!Pool : InHand(v)' <=> InHand(v)
      BY <1>1, <2>2 DEF InHand
    <2>6. Whereabouts(start)'
      <3>1. Laid(start)' /\ FileTrue(start)'
        BY <1>1, <1>2, Zenon DEF Whereabouts, Laid, FileTrue, Bytes
      <3>2. Carried(start)' /\ Accounted(start)'
        BY <1>1, <1>2, <2>1, <2>5, CarryStays, AccountStays, Zenon DEF Whereabouts, stopped
      <3> QED
        BY <3>1, <3>2, Zenon DEF Whereabouts
    <2> QED
      BY <2>4, <2>6, Zenon DEF PoolInv
  <1> QED
    BY <1>4, <1>5, Zenon

\* A worker stands elsewhere, with the same operation in hand or with none to
\* answer for.
LEMMA OnlyPlaceChanges ==
    ASSUME PoolInv, NEW w \in P!Pool, NEW place \in {"write", "failed", "exit"},
           wpc' = [wpc EXCEPT ![w] = place], InHand(w), place = "exit" => stopped',
           first' = first \/ (stopped' /\ first' \notin {"closed", "stopped", "ok"}),
           UNCHANGED <<lens, fails_upstream, dpc, op, offset, next_worker, senders, verdict, queue,
                       rx, cur, file>>
    PROVE  PoolInv'
  <1>1. wpc'[w] = place /\ \A v \in P!Pool \ {w} : wpc'[v] = wpc[v]
    BY Zenon DEF PoolInv, PoolType
  <1>2. wpc[w] # "gone" /\ place # "gone"
    BY DEF InHand
  <1>3. rx' = {v \in P!Pool : wpc'[v] # "gone"}
    <2>1. \A v \in P!Pool : wpc'[v] # "gone" <=> wpc[v] # "gone"
      BY <1>1, <1>2, Zenon
    <2> QED
      BY <2>1, Zenon DEF PoolInv, PoolType
  <1>4. PoolType' /\ PoolEnds'
    BY <1>2, <1>3, WorkerMoves, Zenon DEF PoolInv, PoolType
  <1>5. PICK start : Whereabouts(start)
    BY Zenon DEF PoolInv
  <1>6. \A v \in P!Pool : InHand(v)' => InHand(v)
    BY <1>1, Zenon DEF InHand
  <1>7. Laid(start)' /\ FileTrue(start)' /\ Carried(start)'
    BY <1>5, <1>6, Zenon DEF Whereabouts, Laid, FileTrue, Bytes, Carried, Placed
  <1>8. Accounted(start)'
    <2> SUFFICES ASSUME ~stopped'
                 PROVE  \A k \in 1 .. op' - 1 : OnTheWay(k)' \/ Written(start, k)'
      BY Zenon DEF Accounted
    <2>1. first' = first /\ ~stopped /\ place \in {"write", "failed"}
      BY DEF stopped
    <2>2. \A v \in P!Pool : InHand(v) => InHand(v)'
      BY <1>1, <2>1 DEF InHand
    <2> QED
      <3>1. Accounted(start)'
        BY <1>5, <2>1, <2>2, AccountStays, Zenon DEF Whereabouts
      <3> QED
        BY <3>1, Zenon DEF Accounted
  <1> QED
    BY <1>4, <1>5, <1>7, <1>8, Zenon DEF PoolInv, Whereabouts

LEMMA CheckStoppedStep ==
    ASSUME PoolInv, NEW w \in P!Pool, P!CheckStopped(w)
    PROVE  PoolInv'
  <1>1. /\ InHand(w) /\ wpc' = [wpc EXCEPT ![w] = IF stopped THEN "exit" ELSE "write"]
        /\ UNCHANGED <<lens, fails_upstream, dpc, op, offset, next_worker, senders, verdict, queue,
                       rx, cur, file, first>>
    BY Zenon DEF P!CheckStopped, P!Goto, P!stream, P!dispatch, InHand, P!stopped, stopped
  <1>2. CASE stopped
    BY <1>1, <1>2, OnlyPlaceChanges, Zenon DEF stopped
  <1>3. CASE ~stopped
    BY <1>1, <1>3, OnlyPlaceChanges, Zenon DEF stopped
  <1> QED
    BY <1>2, <1>3, Zenon

LEMMA RecordFailureStep ==
    ASSUME PoolInv, NEW w \in P!Pool, P!RecordFailure(w)
    PROVE  PoolInv'
  <1>1. /\ InHand(w) /\ wpc' = [wpc EXCEPT ![w] = "exit"] /\ P!Record("worker")
        /\ UNCHANGED <<lens, fails_upstream, dpc, op, offset, next_worker, senders, verdict, queue,
                       rx, cur, file>>
    BY Zenon DEF P!RecordFailure, P!Goto, P!stream, P!dispatch, InHand
  <1>2. stopped' /\ first' \in {"worker", first}
    BY <1>1, Recorded, FileWritersAssumption DEF stopped
  <1>3. first' \notin {"closed", "stopped", "ok"}
    BY <1>2 DEF PoolInv, PoolEnds
  <1> QED
    BY <1>1, <1>2, <1>3, OnlyPlaceChanges, Zenon

LEMMA ExitStep ==
    ASSUME PoolInv, NEW w \in P!Pool, P!Exit(w)
    PROVE  PoolInv'
  <1>1. /\ wpc[w] = "exit" /\ rx' = rx \ {w} /\ queue' = [queue EXCEPT ![w] = << >>]
        /\ wpc' = [wpc EXCEPT ![w] = "gone"]
        /\ UNCHANGED <<lens, fails_upstream, dpc, op, offset, next_worker, senders, verdict, cur, file,
                       first>>
    BY Zenon DEF P!Exit, P!Goto, P!stream, P!dispatch
  <1>2. /\ wpc'[w] = "gone" /\ queue'[w] = << >>
        /\ \A v \in P!Pool \ {w} : wpc'[v] = wpc[v] /\ queue'[v] = queue[v]
        /\ queue' \in [P!Pool -> Seq(WriteOps)]
    BY <1>1, EmptySeq, Zenon DEF PoolInv, PoolType
  <1>3. rx' = {v \in P!Pool : wpc'[v] # "gone"}
    BY <1>1, <1>2, Zenon DEF PoolInv, PoolType
  <1>4. stopped \/ (~senders /\ queue[w] = << >>)
    BY <1>1, Zenon DEF PoolInv, PoolEnds
  <1>5. PoolType' /\ PoolEnds'
    BY <1>1, <1>2, <1>3, <1>4, WorkerMoves, Zenon DEF PoolInv, PoolType, stopped
  <1>6. PICK start : Whereabouts(start)
    BY Zenon DEF PoolInv
  <1>7. \A v \in P!Pool : InHand(v)' <=> InHand(v)
    BY <1>1, <1>2 DEF InHand
  <1>8. Laid(start)' /\ FileTrue(start)'
    BY <1>1, <1>6, Zenon DEF Whereabouts, Laid, FileTrue, Bytes
  <1>9. Carried(start)'
    <2>1. Len(queue'[w]) = 0 /\ 1 .. 0 = {}
      BY <1>2, EmptySeq
    <2> QED
      <3>1. ASSUME NEW v \in P!Pool
            PROVE  /\ InHand(v)' => cur'[v].op \in 1 .. op' - 1 /\ cur'[v].offset = start[cur'[v].op]
                   /\ \A i \in 1 .. Len(queue'[v]) :
                         queue'[v][i].op \in 1 .. op' - 1 /\ queue'[v][i].offset = start[queue'[v][i].op]
        <4>1. CASE v = w
          <5>1. \A i \in 1 .. Len(queue'[v]) : FALSE
            BY <2>1, <4>1
          <5> QED
            BY <1>1, <1>6, <1>7, <5>1, Zenon DEF Whereabouts, Carried, Placed
        <4>2. CASE v # w
          <5>1. cur'[v] = cur[v] /\ queue'[v] = queue[v] /\ op' = op /\ (InHand(v)' => InHand(v))
            BY <1>1, <1>2, <1>7, <4>2, Zenon
          <5> QED
            BY <1>6, <5>1, CarriedAt, Zenon DEF Whereabouts
        <4> QED
          BY <4>1, <4>2, Zenon
      <3> QED
        BY <3>1, Zenon DEF Carried, Placed
  <1>10. Accounted(start)'
    <2> SUFFICES ASSUME ~stopped
                 PROVE  Accounted(start)'
      BY <1>1, Zenon DEF Accounted, stopped
    <2>1. queue' = queue
      BY <1>1, <1>4, Zenon DEF PoolInv, PoolType
    <2> QED
      BY <1>1, <1>6, <1>7, <2>1, AccountStays, Zenon DEF Whereabouts, stopped
  <1> QED
    BY <1>5, <1>6, <1>8, <1>9, <1>10, Zenon DEF PoolInv, Whereabouts

\* Two operations share no byte, and none shares one with the header.
LEMMA Disjoint ==
    ASSUME PoolType, NEW start, Laid(start), NEW j \in 1 .. op - 1, NEW k \in 1 .. op - 1,
           NEW p \in Bytes(start, j), p \in Bytes(start, k)
    PROVE  j = k /\ p # 0 /\ p < offset
  <1>1. /\ op \in Nat /\ Len(lens) \in Nat /\ op <= Len(lens) + 1 /\ offset \in Nat
        /\ \A i \in 1 .. Len(lens) : lens[i] \in Nat
    BY DEF PoolType
  <1>2. /\ j \in 1 .. op /\ k \in 1 .. op /\ op \in 1 .. op /\ 1 \in 1 .. op /\ j < op
        /\ j \in 1 .. Len(lens) /\ k \in 1 .. Len(lens) /\ 1 \in 1 .. Len(lens)
    BY <1>1
  <1>3. start[j] \in Nat /\ start[k] \in Nat /\ lens[j] \in Nat /\ lens[k] \in Nat /\ lens[1] \in Nat
    BY <1>1, <1>2 DEF Laid
  <1>4. /\ j < k => start[j] + lens[j] <= start[k]
        /\ k < j => start[k] + lens[k] <= start[j]
        /\ start[j] + lens[j] <= offset
        /\ 1 < j => 1 + lens[1] <= start[j]
        /\ start[1] = 1
    BY <1>2 DEF Laid
  <1>5. start[j] <= p /\ p < start[j] + lens[j] /\ start[k] <= p /\ p < start[k] + lens[k] /\ p \in Int
    BY <1>3 DEF Bytes
  <1>6. ~(j < k) /\ ~(k < j)
    BY <1>3, <1>4, <1>5
  <1>7. j = k
    BY <1>1, <1>6
  <1>8. p < offset
    BY <1>1, <1>3, <1>4, <1>5
  <1>9. 1 <= start[j]
    BY <1>2, <1>3, <1>4
  <1> QED
    BY <1>3, <1>5, <1>7, <1>8, <1>9

LEMMA WriteStep ==
    ASSUME PoolInv, NEW w \in P!Pool, P!Write(w)
    PROVE  PoolInv'
  <1>1. /\ wpc[w] = "write" /\ InHand(w)
        /\ UNCHANGED <<lens, fails_upstream, dpc, op, offset, next_worker, senders, verdict, queue,
                       rx, cur, first>>
    BY Zenon DEF P!Write, P!stream, P!dispatch, InHand
  <1>2. CASE wpc' = [wpc EXCEPT ![w] = "failed"] /\ UNCHANGED file
    BY <1>1, <1>2, OnlyPlaceChanges, Zenon
  <1>3. CASE /\ wpc' = [wpc EXCEPT ![w] = "recv"]
             /\ file' = [p \in DOMAIN file \cup P!Region(cur[w]) |->
                            IF p \in P!Region(cur[w]) THEN cur[w].op ELSE file[p]]
    <2>1. PICK start : Whereabouts(start)
      BY Zenon DEF PoolInv
    <2>15. PICK k : k = cur[w].op
      BY Zenon
    <2>16. PICK R : R = Bytes(start, k)
      BY Zenon
    <2>2. k \in 1 .. op - 1 /\ cur[w].offset = start[k]
      BY <1>1, <2>1, <2>15, Zenon DEF Whereabouts, Carried, Placed
    <2>3. P!Region(cur[w]) = R
      BY <2>2, <2>15, <2>16, Zenon DEF P!Region, Bytes
    <2>4. \A j \in 1 .. op - 1 : \A p \in Bytes(start, j) : p \in R => j = k /\ p # 0
      BY <2>1, <2>2, <2>16, Disjoint, Zenon DEF PoolInv, Whereabouts
    <2>5. \A p \in R : p # 0
      BY <2>2, <2>4, <2>16, Zenon
    <2>6. Bytes(start, k)' = R
      BY <1>1, <2>16, Zenon DEF Bytes
    <2>7. /\ DOMAIN file' = DOMAIN file \cup R
          /\ \A p \in R : file'[p] = k
          /\ \A p \in DOMAIN file \ R : file'[p] = file[p]
      BY <1>3, <2>3, <2>15, Zenon
    <2>8. wpc'[w] = "recv" /\ \A v \in P!Pool \ {w} : wpc'[v] = wpc[v]
      BY <1>3, Zenon DEF PoolInv, PoolType
    <2>9. rx' = {v \in P!Pool : wpc'[v] # "gone"}
      <3>1. \A v \in P!Pool : wpc'[v] # "gone" <=> wpc[v] # "gone"
        BY <1>1, <2>8
      <3> QED
        BY <1>1, <3>1, Zenon DEF PoolInv, PoolType
    <2>10. PoolType' /\ PoolEnds'
      BY <1>1, <1>3, <2>9, WorkerMoves, Zenon DEF PoolInv, PoolType
    <2>11. /\ \A v \in P!Pool : InHand(v)' => InHand(v)
           /\ \A v \in P!Pool \ {w} : InHand(v) => InHand(v)'
      BY <2>8 DEF InHand
    <2>12. Laid(start)' /\ Carried(start)'
      BY <1>1, <2>1, <2>11, Zenon DEF Whereabouts, Laid, Bytes, Carried, Placed
    <2>13. FileTrue(start)'
      <3>1. 0 \in DOMAIN file' /\ file'[0] = 0
        BY <2>1, <2>5, <2>7, Zenon DEF Whereabouts, FileTrue
      <3>2. ASSUME NEW p \in DOMAIN file', p # 0
            PROVE  file'[p] \in 1 .. op' - 1 /\ p \in Bytes(start, file'[p])
        BY <1>1, <2>1, <2>2, <2>7, <2>16, <3>2, Zenon DEF Whereabouts, FileTrue
      <3> QED
        BY <1>1, <3>1, <3>2, Zenon DEF FileTrue, Bytes
    <2>14. Accounted(start)'
      <3>1. Written(start, k)'
        BY <2>6, <2>7, Zenon DEF Written
      <3>2. ASSUME NEW j \in 1 .. op - 1, Written(start, j)
            PROVE  Written(start, j)'
        <4>1. \A p \in Bytes(start, j) : p \in DOMAIN file' /\ file'[p] = j
          BY <2>4, <2>7, <3>2, Zenon DEF Written
        <4> QED
          BY <1>1, <4>1, Zenon DEF Written, Bytes
      <3>3. ASSUME NEW j \in 1 .. op - 1, OnTheWay(j), j # k
            PROVE  OnTheWay(j)'
        BY <1>1, <2>11, <2>15, <3>3, Zenon DEF OnTheWay
      <3> QED
        BY <1>1, <2>1, <3>1, <3>2, <3>3, Zenon DEF Whereabouts, Accounted, stopped
    <2> QED
      BY <2>10, <2>12, <2>13, <2>14, Zenon DEF PoolInv, Whereabouts
  <1> QED
    BY <1>2, <1>3, Zenon DEF P!Write, P!Goto

-----------------------------------------------------------------------------
(* The positioned-write pool as a whole. *)

LEMMA PoolInitInv ==
    ASSUME P!Init
    PROVE  PoolInv
  <1>1. PICK n \in 0 .. MaxOps : lens \in [1 .. n -> 1 .. MaxLen]
    BY Zenon DEF P!Init
  <1>2. lens \in Seq(Nat \ {0}) /\ Len(lens) \in Nat
    BY <1>1, FileWritersAssumption
  <1>3. P!NoOp \in WriteOps
    BY DEF P!NoOp, P!WriteOp, WriteOps
  <1>4. 0 \in P!Pool
    BY FileWritersAssumption DEF P!Pool
  <1>5. /\ op = 1 /\ offset = 1 /\ next_worker = 0 /\ senders /\ verdict = "none"
        /\ queue = [w \in P!Pool |-> << >>] /\ cur = [w \in P!Pool |-> P!NoOp]
        /\ wpc = [w \in P!Pool |-> IF w < spawned THEN "recv" ELSE "gone"]
        /\ file = [p \in {0} |-> 0] /\ rx = 0 .. spawned - 1 /\ spawned \in 0 .. PoolSize
    BY Zenon DEF P!Init, P!HeaderLen
  <1>6. \/ spawned = PoolSize /\ dpc = "next" /\ ~stopped
        \/ dpc = "close" /\ first = "spawn" /\ stopped
    BY FileWritersAssumption DEF P!Init, P!FailureInit, stopped
  <1>7. rx = {w \in P!Pool : wpc[w] # "gone"}
    BY <1>5, FileWritersAssumption DEF P!Pool
  <1>8. PoolType
    <2>1. queue \in [P!Pool -> Seq(WriteOps)] /\ cur \in [P!Pool -> WriteOps]
      BY <1>3, <1>5, EmptySeq, Zenon
    <2>2. wpc \in [P!Pool -> {"recv", "check", "write", "failed", "exit", "gone"}]
      BY <1>5
    <2> QED
      <3>1. op \in 1 .. Len(lens) + 1 /\ offset \in Nat
        BY <1>2, <1>5
      <3>2. dpc \in {"next", "send", "after", "close", "join", "done"}
        BY <1>6
      <3> QED
        BY <1>2, <1>4, <1>5, <1>7, <2>1, <2>2, <3>1, <3>2, Zenon DEF PoolType
  <1>9. PoolEnds
    <2>1. \A w \in P!Pool : queue[w] = << >> /\ (wpc[w] = "gone" => stopped) /\ wpc[w] # "exit"
      BY <1>5, <1>6, FileWritersAssumption DEF P!Pool
    <2>2. first \notin {"closed", "stopped", "ok"}
      BY <1>6, FileWritersAssumption DEF stopped
    <2> QED
      BY <1>5, <1>6, <2>1, <2>2 DEF PoolEnds
  <1> DEFINE start == [k \in 1 .. 1 |-> 1]
  <1>10. Laid(start)
    BY <1>5 DEF Laid
  <1>11. Carried(start)
    <2>1. \A w \in P!Pool : ~InHand(w) /\ Len(queue[w]) = 0
      BY <1>5, EmptySeq DEF InHand
    <2> QED
      BY <2>1 DEF Carried
  <1>12. FileTrue(start)
    BY <1>5 DEF FileTrue
  <1>13. Accounted(start)
    BY <1>5 DEF Accounted
  <1> QED
    BY <1>8, <1>9, <1>10, <1>11, <1>12, <1>13, Zenon DEF PoolInv, Whereabouts

LEMMA PoolNextInv ==
    ASSUME PoolInv, P!Next
    PROVE  PoolInv'
  BY NextOpStep, SendStep, AfterDrainStep, DropSendersStep, JoinPoolStep, ReceiveOpStep,
     CheckStoppedStep, WriteStep, RecordFailureStep, ExitStep, Zenon
     DEF P!Next, P!DispatchStep, P!WorkerStep

LEMMA PoolStutters ==
    ASSUME PoolInv, UNCHANGED <<pwrite, wpc, file, first>>
    PROVE  PoolInv'
  <1>1. UNCHANGED <<lens, fails_upstream, dpc, op, offset, next_worker, senders, queue, rx, cur,
                    verdict, wpc, file, first>>
    BY Zenon DEF pwrite
  <1>2. PICK start : Whereabouts(start)
    BY Zenon DEF PoolInv
  <1>3. PoolType' /\ PoolEnds'
    BY <1>1, Zenon DEF PoolInv, PoolType, PoolEnds, stopped
  <1>4. Whereabouts(start)'
    <2>1. Laid(start)' /\ FileTrue(start)'
      BY <1>1, <1>2, Zenon DEF Whereabouts, Laid, FileTrue, Bytes
    <2>2. \A v \in P!Pool : InHand(v)' <=> InHand(v)
      BY <1>1, Zenon DEF InHand
    <2>3. Carried(start)' /\ Accounted(start)'
      BY <1>1, <1>2, <2>2, CarryStays, AccountStays, Zenon DEF Whereabouts, stopped
    <2> QED
      BY <2>1, <2>3, Zenon DEF Whereabouts
  <1> QED
    BY <1>3, <1>4, Zenon DEF PoolInv

LEMMA PoolIsTrue ==
    ASSUME PoolInv
    PROVE  P!ResultIsTrue
  <1>1. first \notin {"closed", "stopped"} /\ (dpc = "done" => \A w \in P!Pool : wpc[w] = "gone")
    BY DEF PoolInv, PoolEnds
  <1> SUFFICES ASSUME verdict = "ok"
               PROVE  /\ ~fails_upstream
                      /\ DOMAIN file = 0 .. offset - 1
                      /\ \A p \in DOMAIN file : file[p] = 0 <=> p < 1
                      /\ \A p, q \in DOMAIN file : p <= q => file[p] <= file[q]
                      /\ \A k \in 1 .. Len(lens) : \E at \in DOMAIN file :
                            {p \in DOMAIN file : file[p] = k} = at .. at + lens[k] - 1
    BY <1>1, Zenon DEF P!ResultIsTrue, P!HeaderLen, P!Ops
  <1>2. dpc = "done" /\ ~stopped
    BY Zenon DEF PoolInv, PoolEnds
  <1>3. op = Len(lens) + 1 /\ ~fails_upstream /\ \A w \in P!Pool : wpc[w] = "gone" /\ queue[w] = << >>
    BY <1>2 DEF PoolInv, PoolEnds
  <1>4. PICK start : Whereabouts(start)
    BY Zenon DEF PoolInv
  <1>5. Laid(start) /\ FileTrue(start) /\ Accounted(start) /\ PoolType
    BY <1>4, Zenon DEF Whereabouts, PoolInv
  <1>6. /\ Len(lens) \in Nat /\ op - 1 = Len(lens) /\ offset \in Nat
        /\ \A k \in 1 .. Len(lens) : k \in 1 .. op /\ start[k] \in Nat /\ lens[k] \in Nat \ {0}
    <2>1. Len(lens) \in Nat /\ offset \in Nat /\ \A k \in 1 .. Len(lens) : lens[k] \in Nat \ {0}
      BY <1>5 DEF PoolType
    <2>2. op - 1 = Len(lens) /\ \A k \in 1 .. Len(lens) : k \in 1 .. op
      BY <1>3, <2>1
    <2>3. \A k \in 1 .. op : start[k] \in Nat
      BY <1>5, Zenon DEF Laid
    <2> QED
      BY <2>1, <2>2, <2>3, Zenon
  <1>7. \A k \in 1 .. op - 1 : Written(start, k)
    <2>1. \A w \in P!Pool : ~InHand(w) /\ Len(queue[w]) = 0 /\ 1 .. 0 = {}
      BY <1>3, EmptySeq DEF InHand
    <2>2. \A k \in 1 .. op - 1 : ~OnTheWay(k)
      BY <2>1, Zenon DEF OnTheWay
    <2> QED
      BY <1>2, <1>5, <2>2, Zenon DEF Accounted
  <1>8. \A p \in DOMAIN file : p = 0 \/ (file[p] \in 1 .. op - 1 /\ p \in Bytes(start, file[p]))
    BY <1>5, Zenon DEF FileTrue
  <1>9. 0 \in DOMAIN file /\ file[0] = 0
    BY <1>5, Zenon DEF FileTrue
  <1>10. ASSUME NEW p \in DOMAIN file, p # 0
         PROVE  /\ file[p] \in 1 .. Len(lens) /\ p \in Nat /\ p < offset
                /\ start[file[p]] <= p /\ p < start[file[p]] + lens[file[p]]
    <2>1. file[p] \in 1 .. op - 1 /\ p \in Bytes(start, file[p])
      BY <1>8, <1>10, Zenon
    <2>2. p < offset
      BY <1>5, <2>1, Disjoint, Zenon
    <2> QED
      BY <1>6, <2>1, <2>2 DEF Bytes
  <1>11. 0 < offset
    <2>1. CASE op = 1
      BY <1>5, <2>1 DEF Laid
    <2>2. CASE op # 1
      <3>1. 1 \in 1 .. op /\ op \in 1 .. op /\ 1 < op /\ 1 \in 1 .. Len(lens)
        BY <1>3, <1>6, <2>2
      <3>2. start[1] + lens[1] <= start[op] /\ start[op] = offset
        BY <1>5, <3>1 DEF Laid
      <3> QED
        BY <1>6, <3>1, <3>2
    <2> QED
      BY <2>1, <2>2
  <1>12. DOMAIN file = 0 .. offset - 1
    <2>1. \A p \in DOMAIN file : p \in 0 .. offset - 1
      BY <1>6, <1>10, <1>11
    <2>2. ASSUME NEW p \in 0 .. offset - 1
          PROVE  p \in DOMAIN file
      <3>1. CASE p = 0
        BY <1>9, <3>1
      <3>2. CASE p # 0
        <4>1. p \in 1 .. offset - 1
          BY <1>6, <2>2, <3>2
        <4>2. PICK k \in 1 .. op - 1 : p \in Bytes(start, k)
          BY <1>5, <4>1, Zenon DEF Laid
        <4> QED
          BY <1>7, <4>2, Zenon DEF Written
      <3> QED
        BY <3>1, <3>2
    <2> QED
      BY <2>1, <2>2, Zenon
  <1>13. \A p \in DOMAIN file : file[p] = 0 <=> p < 1
    BY <1>6, <1>9, <1>10
  <1>14. ASSUME NEW p \in DOMAIN file, NEW q \in DOMAIN file, p <= q
         PROVE  file[p] <= file[q]
    <2>1. CASE p = 0
      <3>1. file[q] = 0 \/ file[q] \in 1 .. Len(lens)
        BY <1>9, <1>10
      <3> QED
        BY <1>6, <1>9, <2>1, <3>1
    <2>2. CASE p # 0
      <3>1. q # 0
        BY <1>10, <1>14, <2>2
      <3> DEFINE k == file[p]
                 j == file[q]
      <3>2. /\ k \in 1 .. Len(lens) /\ p \in Nat /\ start[k] <= p
            /\ j \in 1 .. Len(lens) /\ q \in Nat /\ q < start[j] + lens[j]
        BY <1>10, <2>2, <3>1
      <3> HIDE DEF k, j
      <3>3. start[k] \in Nat /\ start[j] \in Nat /\ lens[j] \in Nat /\ k \in 1 .. op /\ j \in 1 .. op
        BY <1>6, <3>2
      <3>4. j < k => start[j] + lens[j] <= start[k]
        BY <1>5, <3>3 DEF Laid
      <3>5. k <= j
        BY <1>6, <1>14, <3>2, <3>3, <3>4
      <3> QED
        BY <3>5 DEF k, j
    <2> QED
      BY <2>1, <2>2
  <1>15. ASSUME NEW k \in 1 .. Len(lens)
         PROVE  \E at \in DOMAIN file : {p \in DOMAIN file : file[p] = k} = at .. at + lens[k] - 1
    <2>1. k \in 1 .. op - 1 /\ k # 0
      BY <1>6
    <2>2. \A p \in Bytes(start, k) : p \in DOMAIN file /\ file[p] = k
      BY <1>7, <2>1, Zenon DEF Written
    <2>3. \A p \in DOMAIN file : file[p] = k => p \in Bytes(start, k)
      BY <1>8, <1>9, <2>1, Zenon
    <2>4. start[k] \in Bytes(start, k)
      BY <1>6 DEF Bytes
    <2>5. {p \in DOMAIN file : file[p] = k} = Bytes(start, k)
      BY <2>2, <2>3, Zenon
    <2> QED
      BY <2>2, <2>4, <2>5, Zenon DEF Bytes
  <1> QED
    BY <1>3, <1>12, <1>13, <1>14, <1>15, Zenon

-----------------------------------------------------------------------------
(* The parallel gzip writer. *)

Calm == ~stopped

\* The producer's place, call and job fit together.
Control ==
    /\ ppc \in {"idle", "dispatch", "permit", "send", "ack", "shutdown", "join", "closed"}
    /\ ppc # "idle" => ~current
    /\ ppc \in {"shutdown", "join", "closed"} => call \in {"finish", "drop"}
    /\ ppc \in {"dispatch", "permit", "send"} =>
          /\ call \in {"write", "flush", "finish", "drop"} /\ job \in {"chunk", "barrier"}
          /\ job = "barrier" => call = "flush"

\* What an answer means: nothing is on its way behind a flush, and nothing
\* can fail any more.
Claims ==
    /\ first \notin {"rejected", "stranded"} /\ outcome \notin {"fallback", "gap"}
    /\ (ppc = "idle" /\ outcome = "flushed") \/ (ppc = "ack" /\ ack = "ok") =>
          Calm /\ next_seq = seq /\ synced = Len(file) /\ ~current
    /\ outcome = "finished" => ppc = "closed" /\ Calm /\ tpc = "gone"

QueueEntry == [seq : Nat, kind : {"none", "chunk", "barrier"}]
Busy(w) == wpc[w] \in {"compress", "send"}

GzipType ==
    /\ seq \in Nat /\ next_seq \in Nat /\ permits \in Nat /\ next_seq <= seq
    /\ raw \in Seq(QueueEntry) /\ out \in Seq(QueueEntry) /\ work \in [Workers -> QueueEntry]
    /\ wpc \in [Workers -> {"recv", "compress", "send", "gone"}] /\ tpc \in {"recv", "drain", "gone"}
    /\ file \in Seq(Nat) /\ sent \subseteq Nat
    /\ DOMAIN held \subseteq Nat /\ held = [s \in DOMAIN held |-> held[s]]

\* The numbers dispatched and not delivered are each in one place: the raw
\* queue, a worker's hands, the compressed channel or the reorder buffer.
Numbers(q) == {q[i].seq : i \in 1 .. Len(q)}
Hands == {work[w].seq : w \in {v \in Workers : Busy(v)}}
Apart(q) == \A i, j \in 1 .. Len(q) : q[i].seq = q[j].seq => i = j
Split(A, B, C, D, U) ==
    /\ A \cup B \cup C \cup D = U
    /\ A \cap B = {} /\ A \cap C = {} /\ A \cap D = {} /\ B \cap C = {} /\ B \cap D = {} /\ C \cap D = {}
Flight ==
    /\ Apart(raw) /\ Apart(out)
    /\ \A v, w \in Workers : Busy(v) /\ Busy(w) /\ work[v].seq = work[w].seq => v = w
    /\ Split(Numbers(raw), Hands, Numbers(out), DOMAIN held, next_seq .. seq - 1)

TrueKind(s, k) == k = IF s \in sent THEN "chunk" ELSE "barrier"
AllTrue(q) == \A i \in 1 .. Len(q) : TrueKind(q[i].seq, q[i].kind)
Labelled ==
    /\ AllTrue(raw) /\ AllTrue(out)
    /\ \A w \in Workers : Busy(w) => TrueKind(work[w].seq, work[w].kind)
    /\ \A s \in DOMAIN held : TrueKind(s, held[s])

\* A barrier is the last number dispatched, and its producer waits.
Barrier ==
    /\ ack \in {"none", "ok"}
    /\ \A s \in next_seq .. seq - 1 : s \in sent \/ (s = seq - 1 /\ ppc = "ack" /\ ack = "none")
    /\ ppc = "ack" /\ ack = "none" => next_seq < seq /\ seq - 1 \notin sent

\* The chunks delivered are in the file, in order.
InOrder ==
    /\ \A s \in sent : s < seq
    /\ \A i \in 1 .. Len(file) : file[i] \in sent /\ file[i] < next_seq
    /\ \A i \in 1 .. Len(file) : i > 1 => file[i - 1] < file[i]
    /\ \A s \in sent : s < next_seq => \E i \in 1 .. Len(file) : file[i] = s

\* Threads end in the order of the stream.
Ending ==
    /\ ~lost
    /\ raw_tx <=> ppc \notin {"join", "closed"}
    /\ \A w \in Workers : wpc[w] = "gone" => ~raw_tx /\ raw = << >>
    /\ tpc = "gone" <=> ~out_rx
    /\ tpc = "gone" <=> ~permit_tx
    /\ tpc = "gone" => Alive = {} /\ next_seq = seq /\ synced = Len(file)
    /\ tpc = "recv" => next_seq \notin DOMAIN held

Permits == permits + (seq - next_seq) + (IF ppc = "send" THEN 1 ELSE 0) = MaxWindow

CalmInv == GzipType /\ Flight /\ Labelled /\ Barrier /\ InOrder /\ Ending /\ Permits
GzipInv == Control /\ Claims /\ (Calm => CalmInv)

\* The numbers of a queue that grows at its end or shrinks at its front.
LEMMA NumbersAppend ==
    ASSUME NEW q \in Seq(QueueEntry), NEW e \in QueueEntry
    PROVE  /\ Append(q, e) \in Seq(QueueEntry) /\ Numbers(Append(q, e)) = Numbers(q) \cup {e.seq}
           /\ Apart(q) /\ e.seq \notin Numbers(q) => Apart(Append(q, e))
           /\ AllTrue(q) /\ TrueKind(e.seq, e.kind) => AllTrue(Append(q, e))
  <1> DEFINE r == Append(q, e)
  <1>1. /\ r \in Seq(QueueEntry) /\ Len(q) \in Nat /\ Len(r) = Len(q) + 1
        /\ \A i \in 1 .. Len(q) : r[i] = q[i]
        /\ r[Len(q) + 1] = e
    BY AppendFacts
  <1> HIDE DEF r
  <1>2. /\ Len(q) + 1 \in 1 .. Len(r)
        /\ \A i \in 1 .. Len(q) : i \in 1 .. Len(r)
        /\ \A i \in 1 .. Len(r) : i \in 1 .. Len(q) \/ i = Len(q) + 1
    BY <1>1, AppendIndex, Zenon
  <1>3. Numbers(r) = Numbers(q) \cup {e.seq}
    BY <1>1, <1>2, Zenon DEF Numbers
  <1>4. ASSUME Apart(q), e.seq \notin Numbers(q)
        PROVE  Apart(r)
    <2>1. \A i \in 1 .. Len(q) : q[i].seq # e.seq
      BY <1>4, Zenon DEF Numbers
    <2> QED
      BY <1>1, <1>2, <1>4, <2>1, Zenon DEF Apart
  <1>5. AllTrue(q) /\ TrueKind(e.seq, e.kind) => AllTrue(r)
    BY <1>1, <1>2, Zenon DEF AllTrue
  <1> QED
    BY <1>1, <1>3, <1>4, <1>5, Zenon DEF r

LEMMA NumbersTail ==
    ASSUME NEW q \in Seq(QueueEntry), q # << >>, Apart(q)
    PROVE  /\ Tail(q) \in Seq(QueueEntry) /\ Head(q) \in QueueEntry
           /\ Head(q).seq \in Numbers(q) /\ Numbers(Tail(q)) = Numbers(q) \ {Head(q).seq}
           /\ Apart(Tail(q))
           /\ AllTrue(q) => AllTrue(Tail(q)) /\ TrueKind(Head(q).seq, Head(q).kind)
  <1> DEFINE r == Tail(q)
             e == Head(q)
             n == Len(q)
  <1>1. /\ e \in QueueEntry /\ e = q[1] /\ r \in Seq(QueueEntry)
        /\ n \in Nat \ {0} /\ Len(r) = n - 1
        /\ \A i \in 1 .. n - 1 : r[i] = q[i + 1]
    BY TailFacts
  <1> HIDE DEF r, e
  <1>2. /\ 1 \in 1 .. n
        /\ \A i \in 1 .. n - 1 : i + 1 \in 1 .. n
        /\ \A i \in 1 .. n : i = 1 \/ (i - 1 \in 1 .. n - 1 /\ (i - 1) + 1 = i)
    BY <1>1, TailIndex, Zenon
  <1>3. \A i \in 1 .. n - 1 : i + 1 # 1
    BY <1>1
  <1>4. e.seq \in Numbers(q)
    BY <1>1, <1>2, Zenon DEF Numbers
  <1>5. Numbers(r) = Numbers(q) \ {e.seq}
    <2>1. ASSUME NEW s \in Numbers(r)
          PROVE  s \in Numbers(q) /\ s # e.seq
      <3>1. PICK i \in 1 .. n - 1 : s = q[i + 1].seq
        BY <1>1, <2>1, Zenon DEF Numbers
      <3> QED
        BY <1>1, <1>2, <1>3, <3>1, Zenon DEF Numbers, Apart
    <2>2. ASSUME NEW s \in Numbers(q), s # e.seq
          PROVE  s \in Numbers(r)
      <3>1. PICK i \in 1 .. n : s = q[i].seq
        BY <2>2, Zenon DEF Numbers
      <3>2. i - 1 \in 1 .. n - 1 /\ (i - 1) + 1 = i
        BY <1>1, <1>2, <2>2, <3>1, Zenon
      <3>3. r[i - 1].seq = s
        BY <1>1, <3>1, <3>2, Zenon
      <3> QED
        BY <1>1, <3>2, <3>3, Zenon DEF Numbers
    <2> QED
      BY <2>1, <2>2, Zenon
  <1>6. Apart(r)
    <2> SUFFICES ASSUME NEW i \in 1 .. n - 1, NEW j \in 1 .. n - 1, r[i].seq = r[j].seq
                 PROVE  i = j
      BY <1>1, Zenon DEF Apart
    <2>1. i + 1 = j + 1
      BY <1>1, <1>2, ZenonT(30) DEF Apart
    <2> QED
      BY <1>1, <2>1
  <1>7. AllTrue(q) => AllTrue(r) /\ TrueKind(e.seq, e.kind)
    BY <1>1, <1>2, Zenon DEF AllTrue
  <1> QED
    BY <1>1, <1>4, <1>5, <1>6, <1>7, Zenon DEF r, e

LEMMA EmptyMap ==
    /\ DOMAIN << >> = {} /\ << >> = [s \in DOMAIN << >> |-> << >>[s]]
    /\ \A f : f = [s \in DOMAIN f |-> f[s]] /\ DOMAIN f = {} => f = << >>
  OBVIOUS

\* What a part of the invariant rests on.
LEMMA FlightStays ==
    ASSUME Flight, UNCHANGED <<raw, out, wpc, work, held, next_seq, seq>>
    PROVE  Flight'
  <1>1. Hands' = Hands /\ \A w : Busy(w)' <=> Busy(w)
    BY Zenon DEF Hands, Busy
  <1> QED
    BY <1>1, Zenon DEF Flight

LEMMA LabelsStay ==
    ASSUME Labelled, UNCHANGED <<raw, out, wpc, work, held, sent>>
    PROVE  Labelled'
  BY Zenon DEF Labelled, AllTrue, TrueKind, Busy

LEMMA OrderStays ==
    ASSUME InOrder, UNCHANGED <<sent, seq, next_seq, file>>
    PROVE  InOrder'
  BY Zenon DEF InOrder

-----------------------------------------------------------------------------
(* The producer of the gzip writer. *)

\* Only the producer's own place changes, and it neither takes a permit nor
\* shuts down.
LEMMA ProducerMoves ==
    ASSUME CalmInv, ppc # "ack" \/ ack = "ok", ppc \notin {"send", "join", "closed"},
           ppc' \notin {"ack", "send", "join", "closed"},
           UNCHANGED <<seq, raw_tx, sent, lost, raw, permits, wpc, work, out, tpc, next_seq, held,
                       file, synced, out_rx, permit_tx, ack>>
    PROVE  CalmInv'
  <1>1. GzipType'
    BY Zenon DEF CalmInv, GzipType
  <1>2. Flight' /\ Labelled' /\ InOrder'
    BY FlightStays, LabelsStay, OrderStays, Zenon DEF CalmInv
  <1>3. Barrier'
    BY DEF CalmInv, Barrier
  <1>4. Ending'
    BY DEF CalmInv, Ending, Alive
  <1>5. Permits'
    BY DEF CalmInv, Permits
  <1> QED
    BY <1>1, <1>2, <1>3, <1>4, <1>5, Zenon DEF CalmInv

LEMMA WriteCallStep ==
    ASSUME GzipInv, WriteCall
    PROVE  GzipInv'
  <1>1. /\ ppc = "idle"
        /\ UNCHANGED <<seq, raw_tx, sent, lost, raw, permits, wpc, work, out, tpc, next_seq, held,
                       file, synced, out_rx, permit_tx, ack, first>>
    BY Zenon DEF WriteCall, pool, writer, rbVars
  <1>2. \/ current' = TRUE /\ outcome' = "ok" /\ UNCHANGED <<ppc, call, job>>
        \/ /\ ~current' /\ ppc' = "dispatch" /\ call' = "write" /\ job' = "chunk"
           /\ UNCHANGED outcome
    BY Zenon DEF WriteCall
  <1>3. Control' /\ Claims'
    BY <1>1, <1>2 DEF GzipInv, Control, Claims
  <1>4. Calm' => CalmInv'
    BY <1>1, <1>2, ProducerMoves DEF GzipInv, Calm, stopped
  <1> QED
    BY <1>3, <1>4, Zenon DEF GzipInv

LEMMA CloseCallStep ==
    ASSUME GzipInv, NEW c \in {"flush", "finish", "drop"}, CloseCall(c)
    PROVE  GzipInv'
  <1>1. /\ ppc = "idle" /\ call' = c /\ ~current' /\ outcome' = outcome
        /\ UNCHANGED <<seq, raw_tx, sent, lost, raw, permits, wpc, work, out, tpc, next_seq, held,
                       file, synced, out_rx, permit_tx, ack, first>>
    BY Zenon DEF CloseCall, pool, writer, rbVars
  <1>2. \/ ppc' = "dispatch" /\ job' = "chunk"
        \/ ppc' = "dispatch" /\ job' = "barrier" /\ c = "flush"
        \/ ppc' = "shutdown" /\ c # "flush"
    BY Zenon DEF CloseCall
  <1>3. Control' /\ Claims'
    BY <1>1, <1>2 DEF GzipInv, Control, Claims
  <1>4. Calm' => CalmInv'
    BY <1>1, <1>2, ProducerMoves DEF GzipInv, Calm, stopped
  <1> QED
    BY <1>3, <1>4, Zenon DEF GzipInv

\* A failed dispatch restates a recorded failure.
LEMMA RefuseStep ==
    ASSUME GzipInv, stopped, Refuse, ppc \in {"dispatch", "permit", "send"},
           UNCHANGED <<current, job, first>>
    PROVE  GzipInv'
  <1>1. \/ call \in {"finish", "drop"} /\ ppc' = "shutdown" /\ outcome' = "failed" /\ call' = call
        \/ ppc' = "idle" /\ outcome' = "failed"
    BY Zenon DEF Refuse, Answers, PoolError
  <1>2. Control' /\ Claims'
    BY <1>1 DEF GzipInv, Control, Claims
  <1> QED
    BY <1>2, Zenon DEF GzipInv, Calm, stopped

LEMMA DispatchStep1 ==
    ASSUME GzipInv, Dispatch
    PROVE  GzipInv'
  <1>1. /\ ppc = "dispatch"
        /\ UNCHANGED <<current, job, seq, raw_tx, sent, raw, permits, wpc, work, out, tpc, next_seq,
                       held, file, synced, out_rx, permit_tx, ack, first>>
    BY Zenon DEF Dispatch, pool, writer, rbVars
  <1>2. CASE stopped
    BY <1>1, <1>2, RefuseStep DEF Dispatch
  <1>3. CASE ~stopped
    <2>1. ppc' = "permit" /\ UNCHANGED <<call, lost, outcome>>
      BY <1>3, Zenon DEF Dispatch
    <2>2. Control' /\ Claims'
      BY <1>1, <2>1 DEF GzipInv, Control, Claims
    <2>3. CalmInv'
      BY <1>1, <1>3, <2>1, ProducerMoves DEF GzipInv, Calm
    <2> QED
      BY <2>2, <2>3, Zenon DEF GzipInv
  <1> QED
    BY <1>2, <1>3

LEMMA WaitPermitStep ==
    ASSUME GzipInv, WaitPermit
    PROVE  GzipInv'
  <1>1. /\ ppc = "permit"
        /\ UNCHANGED <<current, job, seq, raw_tx, sent, raw, wpc, work, out, tpc, next_seq,
                       held, file, synced, out_rx, permit_tx, ack, first>>
    BY Zenon DEF WaitPermit, pool, writer, rbVars
  <1>2. CASE permits > 0 /\ permits' = permits - 1 /\ ppc' = "send" /\ UNCHANGED <<call, lost, outcome>>
    <2>1. Control' /\ Claims'
      BY <1>1, <1>2 DEF GzipInv, Control, Claims
    <2>2. ASSUME CalmInv
          PROVE  CalmInv'
      <3>1. GzipType'
        BY <1>1, <1>2, <2>2 DEF CalmInv, GzipType
      <3>2. Flight' /\ Labelled' /\ InOrder'
        BY <1>1, <2>2, FlightStays, LabelsStay, OrderStays, Zenon DEF CalmInv
      <3>3. Barrier' /\ Ending'
        BY <1>1, <1>2, <2>2 DEF CalmInv, Barrier, Ending, Alive
      <3>4. Permits'
        <4>1. permits \in Nat /\ seq \in Nat /\ next_seq \in Nat
          BY <2>2, Zenon DEF CalmInv, GzipType
        <4>2. permits + (seq - next_seq) = MaxWindow
          BY <1>1, <2>2, <4>1 DEF CalmInv, Permits
        <4> QED
          BY <1>1, <1>2, <4>1, <4>2 DEF Permits
      <3> QED
        BY <3>1, <3>2, <3>3, <3>4, Zenon DEF CalmInv
    <2> QED
      BY <1>1, <2>1, <2>2, Zenon DEF GzipInv, Calm, stopped
  <1>3. CASE (stopped \/ (permits = 0 /\ ~permit_tx)) /\ Refuse
    <2>1. stopped
      <3> SUFFICES ASSUME Calm
                   PROVE  permit_tx
        BY <1>3, Zenon DEF Calm
      <3>1. raw_tx /\ \E w \in Workers : TRUE
        BY <1>1, GzipAssumption, Zenon DEF GzipInv, CalmInv, Ending
      <3>2. tpc # "gone"
        BY <3>1, Zenon DEF GzipInv, CalmInv, Ending, Alive
      <3> QED
        BY <3>2, Zenon DEF GzipInv, CalmInv, Ending
    <2> QED
      BY <1>1, <1>3, <2>1, RefuseStep
  <1> QED
    BY <1>2, <1>3, Zenon DEF WaitPermit

\* A calm pool whose raw sender is there has all its threads.
LEMMA AllThere ==
    ASSUME CalmInv, ppc \notin {"join", "closed"}
    PROVE  Alive # {} /\ tpc # "gone" /\ \A w \in Workers : wpc[w] # "gone"
  <1>1. raw_tx
    BY Zenon DEF CalmInv, Ending
  <1>2. (\A w \in Workers : wpc[w] # "gone") /\ \E w \in Workers : TRUE
    BY <1>1, GzipAssumption, Zenon DEF CalmInv, Ending
  <1> QED
    BY <1>2, Zenon DEF CalmInv, Ending, Alive

\* The numbers in flight are typed and below seq.
LEMMA InFlight ==
    ASSUME CalmInv
    PROVE  /\ \A i \in 1 .. Len(raw) : raw[i].seq \in next_seq .. seq - 1
           /\ \A i \in 1 .. Len(out) : out[i].seq \in next_seq .. seq - 1
           /\ \A w \in Workers : Busy(w) => work[w].seq \in next_seq .. seq - 1
           /\ \A s \in DOMAIN held : s \in next_seq .. seq - 1
  BY Zenon DEF CalmInv, Flight, Split, Numbers, Hands

LEMMA AcceptedJob ==
    ASSUME GzipInv, Calm, ppc = "send", raw' = Append(raw, Job(seq, job)), seq' = seq + 1,
           sent' = IF job = "chunk" THEN sent \cup {seq} ELSE sent, ack' = "none",
           ppc' \notin {"send", "join", "closed"}, ppc' = "ack" <=> job = "barrier",
           UNCHANGED <<raw_tx, lost, permits, wpc, work, out, tpc, next_seq, held, file, synced,
                       out_rx, permit_tx>>
    PROVE  CalmInv'
  <1> DEFINE n == Len(raw)
             U == next_seq .. seq - 1
  <1>18. PICK e : e = Job(seq, job)
    BY Zenon
  <1>1. CalmInv /\ job \in {"chunk", "barrier"}
    BY DEF GzipInv, Control
  <1>2. /\ seq \in Nat /\ next_seq \in Nat /\ permits \in Nat /\ next_seq <= seq
        /\ raw \in Seq(QueueEntry) /\ sent \subseteq Nat
    BY <1>1, Zenon DEF CalmInv, GzipType
  <1>3. e \in QueueEntry /\ e.seq = seq /\ e.kind = job
    BY <1>1, <1>2, <1>18 DEF Job, QueueEntry
  <1>4. /\ raw' \in Seq(QueueEntry) /\ Numbers(raw') = Numbers(raw) \cup {seq}
        /\ Apart(raw) /\ seq \notin Numbers(raw) => Apart(raw')
    BY <1>2, <1>3, <1>18, NumbersAppend
  <1>5. /\ n \in Nat /\ Len(raw') = n + 1 /\ raw'[n + 1] = e
        /\ \A i \in 1 .. n : raw'[i] = raw[i]
    BY <1>2, <1>3, <1>18, AppendFacts
  <1>6. /\ \A i \in 1 .. Len(raw) : raw[i].seq \in U
        /\ \A i \in 1 .. Len(out) : out[i].seq \in U
        /\ \A w \in Workers : Busy(w) => work[w].seq \in U
        /\ \A s \in DOMAIN held : s \in U
    BY <1>1, InFlight, Zenon
  <1>7. seq \notin U /\ seq \notin sent /\ next_seq' .. seq' - 1 = U \cup {seq}
    <2>1. \A s \in sent : s < seq
      BY <1>1, Zenon DEF CalmInv, InOrder
    <2> QED
      BY <1>2, <2>1
  <1>8. \A s \in U : s \in sent' <=> s \in sent
    BY <1>7, Zenon
  <1>9. \A s \in U : s \in sent
    BY <1>1 DEF CalmInv, Barrier
  <1>10. seq \in sent' <=> job = "chunk"
    BY <1>7, Zenon
  <1>11. GzipType'
    <2>1. sent' \subseteq Nat /\ seq' \in Nat /\ next_seq' <= seq'
      BY <1>2
    <2> QED
      BY <1>1, <1>4, <2>1, Zenon DEF CalmInv, GzipType
  <1>12. Flight'
    <2>1. /\ Apart(raw) /\ Apart(out)
          /\ \A v, w \in Workers : Busy(v) /\ Busy(w) /\ work[v].seq = work[w].seq => v = w
          /\ Split(Numbers(raw), Hands, Numbers(out), DOMAIN held, U)
      BY <1>1, Zenon DEF CalmInv, Flight
    <2>2. Hands' = Hands
      BY Zenon DEF Hands, Busy
    <2>3. Split(Numbers(raw) \cup {seq}, Hands, Numbers(out), DOMAIN held, U \cup {seq})
      BY <1>7, <2>1, Zenon DEF Split
    <2>4. Apart(raw')
      BY <1>4, <1>7, <2>1, Zenon DEF Split
    <2> HIDE DEF U
    <2>5. /\ Apart(out') /\ Split(Numbers(raw'), Hands', Numbers(out'), DOMAIN held', next_seq' .. seq' - 1)
          /\ \A v, w \in Workers : Busy(v)' /\ Busy(w)' /\ work'[v].seq = work'[w].seq => v = w
      BY <1>4, <1>7, <2>1, <2>2, <2>3, Zenon DEF Busy
    <2> QED
      BY <2>4, <2>5, Zenon DEF Flight, Apart, Numbers
  <1>13. Labelled'
    <2>1. \A i \in 1 .. n + 1 : i \in 1 .. n \/ i = n + 1
      BY <1>5, AppendIndex, Zenon
    <2> HIDE DEF U
    <2>2. ASSUME NEW s, NEW k, s \in U, TrueKind(s, k)
          PROVE  TrueKind(s, k)'
      BY <1>8, <2>2, Zenon DEF TrueKind
    <2>3. TrueKind(e.seq, e.kind)'
      BY <1>1, <1>3, <1>10 DEF TrueKind
    <2>4. AllTrue(raw)'
      <3>1. \A i \in 1 .. n : TrueKind(raw[i].seq, raw[i].kind)
        BY <1>1, Zenon DEF CalmInv, Labelled, AllTrue
      <3>2. ASSUME NEW i \in 1 .. n + 1
            PROVE  raw'[i].kind = IF raw'[i].seq \in sent' THEN "chunk" ELSE "barrier"
        <4>1. CASE i \in 1 .. n
          BY <1>5, <1>6, <1>8, <3>1, <4>1, Zenon DEF TrueKind
        <4>2. CASE i = n + 1
          BY <1>5, <2>3, <4>2, Zenon DEF TrueKind
        <4> QED
          BY <2>1, <4>1, <4>2, Zenon
      <3> QED
        BY <1>5, <3>2, Zenon DEF AllTrue, TrueKind
    <2> QED
      BY <1>1, <1>6, <2>2, <2>4, Zenon DEF CalmInv, Labelled, AllTrue, Busy, TrueKind
  <1>14. Barrier'
    <2>1. \A s \in next_seq' .. seq' - 1 : s \in sent' \/ (s = seq' - 1 /\ ppc' = "ack" /\ ack' = "none")
      <3>1. seq' - 1 = seq
        BY <1>2
      <3> QED
        BY <1>1, <1>7, <1>8, <1>9, <1>10, <3>1
    <2>2. ppc' = "ack" => next_seq' < seq' /\ seq' - 1 \notin sent'
      BY <1>2, <1>10
    <2> QED
      BY <2>1, <2>2 DEF Barrier
  <1>15. InOrder'
    <2>1. \A s \in sent' : s < seq'
      BY <1>1, <1>2 DEF CalmInv, InOrder
    <2>2. \A s \in sent' : s < next_seq => s \in sent
      BY <1>2
    <2>3. \A s \in sent : s \in sent'
      BY Zenon
    <2> QED
      BY <1>1, <2>1, <2>2, <2>3, Zenon DEF CalmInv, InOrder
  <1>16. Ending'
    <2>1. tpc # "gone" /\ (\A w \in Workers : wpc[w] # "gone")
      BY <1>1, AllThere
    <2> QED
      BY <1>1, <2>1 DEF CalmInv, Ending
  <1>17. Permits'
    BY <1>1, <1>2 DEF CalmInv, Permits
  <1> QED
    BY <1>11, <1>12, <1>13, <1>14, <1>15, <1>16, <1>17, Zenon DEF CalmInv

LEMMA SendJobStep ==
    ASSUME GzipInv, SendJob
    PROVE  GzipInv'
  <1>1. /\ ppc = "send"
        /\ UNCHANGED <<current, raw_tx, permits, wpc, work, out, tpc, next_seq, held, file, synced,
                       out_rx, permit_tx, first>>
    BY Zenon DEF SendJob, pool, writer, rbVars
  <1>2. /\ call \in {"write", "flush", "finish", "drop"} /\ job \in {"chunk", "barrier"}
        /\ job = "barrier" => call = "flush"
    BY <1>1 DEF GzipInv, Control
  <1>3. CASE Alive # {}
    <2>1. /\ raw' = Append(raw, Job(seq, job)) /\ seq' = seq + 1 /\ ack' = "none" /\ lost' = lost
          /\ sent' = IF job = "chunk" THEN sent \cup {seq} ELSE sent
      BY <1>3, Zenon DEF SendJob
    <2>2. \/ job = "barrier" /\ ppc' = "ack" /\ outcome' = outcome
          \/ job = "chunk" /\ ppc' = "idle" /\ outcome' = "ok"
          \/ /\ job = "chunk" /\ call = "flush" /\ ppc' = "dispatch" /\ job' = "barrier"
             /\ call' = call /\ outcome' = outcome
          \/ /\ job = "chunk" /\ call \in {"finish", "drop"} /\ ppc' = "shutdown"
             /\ call' = call /\ outcome' = outcome
      BY <1>2, <1>3 DEF SendJob, Answers
    <2>3. Control' /\ Claims'
      BY <1>1, <2>1, <2>2 DEF GzipInv, Control, Claims
    <2>4. ppc' \notin {"send", "join", "closed"} /\ (ppc' = "ack" <=> job = "barrier")
      BY <2>2
    <2>5. Calm' => CalmInv'
      BY <1>1, <2>1, <2>4, AcceptedJob DEF Calm, stopped
    <2> QED
      BY <2>3, <2>5, Zenon DEF GzipInv
  <1>4. CASE Alive = {}
    <2>1. stopped
      BY <1>1, <1>4, AllThere DEF GzipInv, Calm
    <2> QED
      BY <1>1, <1>4, <2>1, RefuseStep DEF SendJob
  <1> QED
    BY <1>3, <1>4

LEMMA BarrierIsAlive ==
    ASSUME CalmInv, ppc = "ack", ack = "none"
    PROVE  BarrierAlive
  <1> DEFINE s == seq - 1
  <1>1. s \in next_seq .. seq - 1 /\ s \notin sent
    BY DEF CalmInv, Barrier, GzipType
  <1> HIDE DEF s
  <1>2. \A k : TrueKind(s, k) => k = "barrier"
    BY <1>1, Zenon DEF TrueKind
  <1>3. s \in Numbers(raw) \/ s \in Hands \/ s \in Numbers(out) \/ s \in DOMAIN held
    BY <1>1, Zenon DEF CalmInv, Flight, Split
  <1>4. CASE s \in Numbers(raw)
    <2>1. PICK i \in 1 .. Len(raw) : raw[i].seq = s
      BY <1>4, Zenon DEF Numbers
    <2>2. raw[i].kind = "barrier"
      BY <1>2, <2>1, Zenon DEF CalmInv, Labelled, AllTrue
    <2>3. i \in DOMAIN raw
      BY <2>1 DEF CalmInv, GzipType
    <2> QED
      BY <2>2, <2>3, Zenon DEF BarrierAlive
  <1>5. CASE s \in Hands
    BY <1>2, <1>5, Zenon DEF CalmInv, Labelled, Hands, Busy, BarrierAlive
  <1>6. CASE s \in Numbers(out)
    <2>1. PICK i \in 1 .. Len(out) : out[i].seq = s
      BY <1>6, Zenon DEF Numbers
    <2>2. out[i].kind = "barrier"
      BY <1>2, <2>1, Zenon DEF CalmInv, Labelled, AllTrue
    <2>3. i \in DOMAIN out
      BY <2>1 DEF CalmInv, GzipType
    <2> QED
      BY <2>2, <2>3, Zenon DEF BarrierAlive
  <1>7. CASE s \in DOMAIN held
    BY <1>2, <1>7, Zenon DEF CalmInv, Labelled, BarrierAlive
  <1> QED
    BY <1>3, <1>4, <1>5, <1>6, <1>7, Zenon

LEMMA AckReceivedStep ==
    ASSUME GzipInv, AckReceived
    PROVE  GzipInv'
  <1>1. /\ ppc = "ack" /\ ppc' = "idle"
        /\ UNCHANGED <<current, seq, raw_tx, sent, lost, raw, permits, wpc, work, out, tpc, next_seq,
                       held, file, synced, out_rx, permit_tx, ack, first>>
    BY Zenon DEF AckReceived, Answers, pool, writer, rbVars
  <1>2. Control'
    BY <1>1 DEF GzipInv, Control
  <1>3. CASE ack = "ok" /\ outcome' = "flushed"
    <2>1. Claims'
      BY <1>1, <1>3 DEF GzipInv, Claims, Calm, stopped
    <2>2. Calm' => CalmInv'
      BY <1>1, <1>3, ProducerMoves DEF GzipInv, Calm, stopped
    <2> QED
      BY <1>2, <2>1, <2>2, Zenon DEF GzipInv
  <1>4. CASE outcome' = "failed" /\ stopped
    <2>1. Claims'
      BY <1>1, <1>4 DEF GzipInv, Claims
    <2> QED
      BY <1>1, <1>2, <1>4, <2>1, Zenon DEF GzipInv, Calm, stopped
  <1>5. \/ ack = "ok" /\ outcome' = "flushed"
        \/ ack = "err" /\ outcome' = "failed"
        \/ ack = "none" /\ ~BarrierAlive /\ outcome' = PoolError
    BY Zenon DEF AckReceived, Answers
  <1>6. ack = "err" => stopped
    BY DEF GzipInv, CalmInv, Barrier, Calm
  <1>7. ack = "none" /\ ~BarrierAlive => stopped
    BY <1>1, BarrierIsAlive, Zenon DEF GzipInv, Calm
  <1> QED
    BY <1>3, <1>4, <1>5, <1>6, <1>7, Zenon DEF PoolError

LEMMA ShutdownStep ==
    ASSUME GzipInv, Shutdown
    PROVE  GzipInv'
  <1>1. /\ ppc = "shutdown" /\ ppc' = "join" /\ raw_tx' = FALSE
        /\ UNCHANGED <<call, current, job, outcome, seq, sent, lost, raw, permits, wpc, work, out, tpc,
                       next_seq, held, file, synced, out_rx, permit_tx, ack, first>>
    BY Zenon DEF Shutdown, pool, writer, rbVars
  <1>2. Control' /\ Claims'
    BY <1>1 DEF GzipInv, Control, Claims
  <1>3. ASSUME CalmInv
        PROVE  CalmInv'
    <2>1. GzipType' /\ Flight' /\ Labelled' /\ InOrder'
      BY <1>1, <1>3, FlightStays, LabelsStay, OrderStays, Zenon DEF CalmInv, GzipType
    <2>2. Barrier' /\ Permits'
      BY <1>1, <1>3, SMTT(20) DEF CalmInv, Barrier, Permits
    <2>3. Ending'
      BY <1>1, <1>3 DEF CalmInv, Ending, Alive
    <2> QED
      BY <2>1, <2>2, <2>3, Zenon DEF CalmInv
  <1> QED
    BY <1>1, <1>2, <1>3, Zenon DEF GzipInv, Calm, stopped

LEMMA JoinedStep ==
    ASSUME GzipInv, Joined
    PROVE  GzipInv'
  <1>1. /\ ppc = "join" /\ ppc' = "closed" /\ tpc = "gone"
        /\ UNCHANGED <<call, current, job, seq, raw_tx, sent, lost, raw, permits, wpc, work, out, tpc,
                       next_seq, held, file, synced, out_rx, permit_tx, ack, first>>
    BY Zenon DEF Joined, pool, writer, rbVars
  <1>2. call \in {"finish", "drop"}
    BY <1>1 DEF GzipInv, Control
  <1>3. ~stopped => ~TrailingGap
    BY <1>1, Zenon DEF GzipInv, CalmInv, Ending, Calm, TrailingGap
  <1>4. \/ outcome' \in {"dropped", "failed"}
        \/ outcome' = "finished" /\ ~stopped
    BY <1>2, <1>3, SMTT(20) DEF Joined
  <1>5. Control' /\ Claims'
    BY <1>1, <1>2, <1>4 DEF GzipInv, Control, Claims, Calm, stopped
  <1>6. ASSUME CalmInv
        PROVE  CalmInv'
    <2>1. GzipType' /\ Flight' /\ Labelled' /\ InOrder'
      BY <1>1, <1>6, FlightStays, LabelsStay, OrderStays, Zenon DEF CalmInv, GzipType
    <2>2. Barrier' /\ Permits'
      BY <1>1, <1>6 DEF CalmInv, Barrier, Permits
    <2>3. Ending'
      BY <1>1, <1>6 DEF CalmInv, Ending, Alive
    <2> QED
      BY <2>1, <2>2, <2>3, Zenon DEF CalmInv
  <1> QED
    BY <1>1, <1>5, <1>6, Zenon DEF GzipInv, Calm, stopped

-----------------------------------------------------------------------------
(* The workers of the gzip writer. *)

\* What a step of a worker or of the writer thread must show: the producer
\* stands still.
LEMMA PoolSideStep ==
    ASSUME GzipInv,
           UNCHANGED <<ppc, call, current, job, seq, raw_tx, outcome>>,
           first' = first \/ (Calm /\ first' \notin {"rejected", "stranded"} /\ ~Calm'),
           Calm /\ Calm' => CalmInv',
           ack' = "ok" /\ ack # "ok" => Calm' /\ next_seq' = seq /\ synced' = Len(file'),
           Calm /\ next_seq = seq /\ raw_tx => Calm' /\ UNCHANGED <<next_seq, synced, file>>,
           Calm /\ tpc = "gone" => Calm' /\ tpc' = "gone"
    PROVE  GzipInv'
  <1>1. Control'
    BY Zenon DEF GzipInv, Control
  <1>2. Calm' => Calm
    BY Zenon DEF Calm, stopped
  <1>3. Claims'
    <2>1. first' \notin {"rejected", "stranded"} /\ outcome' \notin {"fallback", "gap"}
      BY Zenon DEF GzipInv, Claims
    <2>2. outcome' = "finished" => ppc' = "closed" /\ Calm' /\ tpc' = "gone"
      BY Zenon DEF GzipInv, Claims
    <2>3. ASSUME (ppc = "idle" /\ outcome = "flushed") \/ (ppc = "ack" /\ ack = "ok")
          PROVE  Calm' /\ next_seq' = seq' /\ synced' = Len(file') /\ ~current'
      <3>1. Calm /\ next_seq = seq /\ synced = Len(file) /\ ~current
        BY <2>3, Zenon DEF GzipInv, Claims
      <3>2. raw_tx
        BY <2>3, <3>1 DEF GzipInv, CalmInv, Ending
      <3> QED
        BY <3>1, <3>2, Zenon
    <2>4. ASSUME ppc = "ack", ack' = "ok", ack # "ok"
          PROVE  Calm' /\ next_seq' = seq' /\ synced' = Len(file') /\ ~current'
      BY <2>4 DEF GzipInv, Control
    <2> QED
      BY <2>1, <2>2, <2>3, <2>4, Zenon DEF Claims
  <1> QED
    BY <1>1, <1>2, <1>3, Zenon DEF GzipInv

\* A worker's step leaves the writer thread alone, and fails only with a
\* number in hand.
LEMMA WorkerSideStep ==
    ASSUME GzipInv, NEW w \in Workers, wpc[w] # "gone",
           UNCHANGED <<ppc, call, current, job, seq, raw_tx, outcome, ack, next_seq, synced, file, tpc>>,
           first' = first \/ (Calm /\ first' \notin {"rejected", "stranded"} /\ ~Calm' /\ Busy(w)),
           Calm /\ Calm' => CalmInv'
    PROVE  GzipInv'
  <1>1. Calm /\ Busy(w) => next_seq # seq
    <2> SUFFICES ASSUME CalmInv, Busy(w)
                 PROVE  next_seq # seq
      BY Zenon DEF GzipInv
    <2>1. work[w].seq \in next_seq .. seq - 1
      BY InFlight, Zenon
    <2> QED
      BY <2>1 DEF CalmInv, GzipType
  <1>2. Calm => tpc # "gone"
    BY Zenon DEF GzipInv, CalmInv, Ending, Alive
  <1>3. first' = first => (Calm' <=> Calm)
    BY Zenon DEF Calm, stopped
  <1> QED
    BY <1>1, <1>2, <1>3, PoolSideStep, Zenon

\* A number moves on to the next place.
LEMMA RawToHands ==
    ASSUME NEW A, NEW B, NEW C, NEW D, NEW U, NEW x \in A, Split(A, B, C, D, U)
    PROVE  Split(A \ {x}, B \cup {x}, C, D, U)
  BY Zenon DEF Split

LEMMA HandsToOut ==
    ASSUME NEW A, NEW B, NEW C, NEW D, NEW U, NEW x \in B, Split(A, B, C, D, U)
    PROVE  Split(A, B \ {x}, C \cup {x}, D, U)
  BY Zenon DEF Split

LEMMA OutToHeld ==
    ASSUME NEW A, NEW B, NEW C, NEW D, NEW U, NEW x \in C, Split(A, B, C, D, U)
    PROVE  Split(A, B, C \ {x}, D \cup {x}, U)
  BY Zenon DEF Split

LEMMA HeldToFile ==
    ASSUME NEW A, NEW B, NEW C, NEW D, NEW U, NEW x \in D, Split(A, B, C, D, U)
    PROVE  Split(A, B, C, D \ {x}, U \ {x})
  BY Zenon DEF Split

LEMMA DequeueStep ==
    ASSUME GzipInv, NEW w \in Workers, Dequeue(w)
    PROVE  GzipInv'
  <1>1. /\ wpc[w] = "recv"
        /\ UNCHANGED <<ppc, call, current, job, seq, raw_tx, sent, lost, outcome, permits, out, tpc,
                       next_seq, held, file, synced, out_rx, permit_tx, ack, first>>
    BY Zenon DEF Dequeue, producer, writer, rbVars
  <1> SUFFICES ASSUME CalmInv
               PROVE  CalmInv'
    BY <1>1, WorkerSideStep DEF GzipInv, Calm, stopped
  <1>2. /\ raw \in Seq(QueueEntry) /\ work \in [Workers -> QueueEntry]
        /\ wpc \in [Workers -> {"recv", "compress", "send", "gone"}]
    BY Zenon DEF CalmInv, GzipType
  <1>3. ~Busy(w)
    BY <1>1 DEF Busy
  <1>4. Barrier' /\ InOrder' /\ Permits'
    BY <1>1, OrderStays, Zenon DEF CalmInv, Barrier, Permits
  <1>5. CASE raw # << >>
    <2> DEFINE e == Head(raw)
               place == IF e.kind = "chunk" THEN "compress" ELSE "send"
    <2>1. work' = [work EXCEPT ![w] = e] /\ raw' = Tail(raw) /\ wpc' = [wpc EXCEPT ![w] = place]
      BY <1>5, Zenon DEF Dequeue, Holds, Goto
    <2>2. place \in {"compress", "send"}
      BY Zenon
    <2>3. /\ raw' \in Seq(QueueEntry) /\ e \in QueueEntry /\ e.seq \in Numbers(raw)
          /\ Numbers(raw') = Numbers(raw) \ {e.seq} /\ Apart(raw')
          /\ AllTrue(raw) => AllTrue(Tail(raw)) /\ TrueKind(e.seq, e.kind)
      BY <1>2, <1>5, <2>1, NumbersTail, Zenon DEF CalmInv, Flight
    <2> HIDE DEF e, place
    <2>4. /\ work'[w] = e /\ wpc'[w] = place
          /\ \A v \in Workers \ {w} : work'[v] = work[v] /\ wpc'[v] = wpc[v]
          /\ work' \in [Workers -> QueueEntry]
          /\ wpc' \in [Workers -> {"recv", "compress", "send", "gone"}]
      BY <1>2, <2>1, <2>2, <2>3, Zenon
    <2>5. Busy(w)' /\ \A v \in Workers \ {w} : Busy(v)' <=> Busy(v)
      BY <2>2, <2>4, Zenon DEF Busy
    <2>6. Hands' = Hands \cup {e.seq}
      BY <1>3, <2>4, <2>5, Zenon DEF Hands
    <2>7. GzipType'
      BY <1>1, <2>3, <2>4, Zenon DEF CalmInv, GzipType
    <2>8. Flight'
      <3>1. Split(Numbers(raw'), Hands', Numbers(out), DOMAIN held, next_seq .. seq - 1)
        <4>1. Split(Numbers(raw), Hands, Numbers(out), DOMAIN held, next_seq .. seq - 1)
          BY Zenon DEF CalmInv, Flight
        <4>2. Split(Numbers(raw) \ {e.seq}, Hands \cup {e.seq}, Numbers(out), DOMAIN held, next_seq .. seq - 1)
          BY <2>3, <4>1, RawToHands, Zenon
        <4> QED
          BY <2>3, <2>6, <4>2, Zenon
      <3>2. e.seq \notin Hands
        BY <2>3, Zenon DEF CalmInv, Flight, Split
      <3>3. \A v \in Workers : Busy(v) => work[v].seq # e.seq
        BY <3>2, Zenon DEF Hands
      <3>4. \A v, u \in Workers : Busy(v)' /\ Busy(u)' /\ work'[v].seq = work'[u].seq => v = u
        BY <2>4, <2>5, <3>3, Zenon DEF CalmInv, Flight
      <3> QED
        BY <1>1, <2>3, <3>1, <3>4, Zenon DEF CalmInv, Flight
    <2>9. Labelled'
      <3>1. AllTrue(Tail(raw)) /\ TrueKind(e.seq, e.kind)
        BY <2>3, Zenon DEF CalmInv, Labelled
      <3> QED
        BY <1>1, <2>1, <2>4, <2>5, <3>1, Zenon DEF CalmInv, Labelled, AllTrue, TrueKind
    <2>10. Ending'
      <3>1. \A v \in Workers : wpc[v] # "gone" /\ wpc'[v] # "gone"
        <4>1. \A v \in Workers : wpc[v] # "gone"
          BY <1>5, Zenon DEF CalmInv, Ending
        <4> QED
          BY <2>2, <2>4, <4>1
      <3>2. tpc # "gone"
        BY <3>1, Zenon DEF CalmInv, Ending, Alive
      <3> QED
        BY <1>1, <3>1, <3>2, Zenon DEF CalmInv, Ending
    <2> QED
      BY <1>4, <2>7, <2>8, <2>9, <2>10, Zenon DEF CalmInv
  <1>6. CASE raw = << >>
    <2>1. ~raw_tx /\ wpc' = [wpc EXCEPT ![w] = "gone"] /\ raw' = raw /\ work' = work
      BY <1>6, Zenon DEF Dequeue, Gone, Goto
    <2>2. /\ wpc'[w] = "gone" /\ \A v \in Workers \ {w} : wpc'[v] = wpc[v]
          /\ wpc' \in [Workers -> {"recv", "compress", "send", "gone"}]
      BY <1>2, <2>1, Zenon
    <2>3. \A v \in Workers : Busy(v)' <=> Busy(v)
      BY <1>3, <2>2 DEF Busy
    <2>4. GzipType'
      BY <1>1, <2>1, <2>2, Zenon DEF CalmInv, GzipType
    <2>5. Hands' = Hands
      BY <2>1, <2>3, Zenon DEF Hands
    <2>6. Flight'
      BY <1>1, <2>1, <2>3, <2>5, Zenon DEF CalmInv, Flight
    <2>7. Labelled'
      BY <1>1, <2>1, <2>3, Zenon DEF CalmInv, Labelled, AllTrue, TrueKind
    <2>8. Ending'
      <3>1. tpc # "gone"
        BY <1>1 DEF CalmInv, Ending, Alive
      <3> QED
        BY <1>1, <1>6, <2>1, <2>2, <3>1, Zenon DEF CalmInv, Ending
    <2> QED
      BY <1>4, <2>4, <2>6, <2>7, <2>8, Zenon DEF CalmInv
  <1> QED
    BY <1>5, <1>6, Zenon

LEMMA CompressStep ==
    ASSUME GzipInv, NEW w \in Workers, Compress(w)
    PROVE  GzipInv'
  <1>1. /\ wpc[w] = "compress" /\ Busy(w)
        /\ UNCHANGED <<ppc, call, current, job, seq, raw_tx, sent, lost, outcome, raw, permits, out, tpc,
                       next_seq, held, file, synced, out_rx, permit_tx, ack>>
    BY Zenon DEF Compress, producer, writer, rbVars, Busy
  <1>2. CASE stopped
    <2>1. first' = first /\ ~Calm
      BY <1>2, Zenon DEF Compress, Calm
    <2> QED
      BY <1>1, <2>1, WorkerSideStep DEF Calm
  <1>3. CASE ~stopped /\ FailedChunk(w)
    <2>1. first' = "worker" /\ Calm
      BY <1>3, Zenon DEF FailedChunk, Record, stopped, Calm
    <2>2. ~Calm'
      BY <2>1, FileWritersAssumption DEF Calm, stopped
    <2> QED
      BY <1>1, <2>1, <2>2, WorkerSideStep
  <1>4. CASE ~stopped /\ wpc' = [wpc EXCEPT ![w] = "send"] /\ UNCHANGED <<work, first>>
    <2> SUFFICES ASSUME CalmInv
                 PROVE  CalmInv'
      BY <1>1, <1>4, WorkerSideStep DEF GzipInv
    <2>1. wpc \in [Workers -> {"recv", "compress", "send", "gone"}]
      BY Zenon DEF CalmInv, GzipType
    <2>2. /\ wpc'[w] = "send" /\ \A v \in Workers \ {w} : wpc'[v] = wpc[v]
          /\ wpc' \in [Workers -> {"recv", "compress", "send", "gone"}]
      BY <1>4, <2>1, Zenon
    <2>3. \A v \in Workers : /\ Busy(v)' <=> Busy(v)
                             /\ wpc'[v] = "gone" <=> wpc[v] = "gone"
      BY <1>1, <2>2 DEF Busy
    <2>4. GzipType'
      BY <1>1, <1>4, <2>2, Zenon DEF CalmInv, GzipType
    <2>5. Hands' = Hands
      BY <1>4, <2>3, Zenon DEF Hands
    <2>6. Flight'
      BY <1>1, <1>4, <2>3, <2>5, Zenon DEF CalmInv, Flight
    <2>7. Labelled'
      BY <1>1, <1>4, <2>3, Zenon DEF CalmInv, Labelled, AllTrue, TrueKind
    <2>8. Ending'
      BY <1>1, <2>3, Zenon DEF CalmInv, Ending, Alive
    <2>9. Barrier' /\ InOrder' /\ Permits'
      BY <1>1, OrderStays, Zenon DEF CalmInv, Barrier, Permits
    <2> QED
      BY <2>4, <2>6, <2>7, <2>8, <2>9, Zenon DEF CalmInv
  <1> QED
    BY <1>2, <1>3, <1>4, Zenon DEF Compress, Goto

LEMMA SendOutStep ==
    ASSUME GzipInv, NEW w \in Workers, SendOut(w)
    PROVE  GzipInv'
  <1>1. /\ wpc[w] = "send" /\ Busy(w)
        /\ UNCHANGED <<ppc, call, current, job, seq, raw_tx, sent, lost, outcome, permits, work, tpc,
                       next_seq, held, file, synced, out_rx, permit_tx, ack, first>>
    BY Zenon DEF SendOut, producer, writer, rbVars, Busy
  <1>2. wpc[w] # "gone"
    BY <1>1, SMTT(20)
  <1> SUFFICES ASSUME CalmInv
               PROVE  CalmInv'
    BY <1>1, <1>2, WorkerSideStep DEF GzipInv, Calm, stopped
  <1>3. out_rx /\ tpc # "gone"
    BY <1>2, Zenon DEF CalmInv, Ending, Alive
  <1> DEFINE e == work[w]
  <1>4. out' = Append(out, e) /\ wpc' = [wpc EXCEPT ![w] = "recv"] /\ raw' = raw
    BY <1>3, Zenon DEF SendOut, Goto
  <1>5. /\ out \in Seq(QueueEntry) /\ e \in QueueEntry
        /\ wpc \in [Workers -> {"recv", "compress", "send", "gone"}]
    BY Zenon DEF CalmInv, GzipType
  <1>6. e.seq \in Hands
    BY <1>1, Zenon DEF Hands
  <1>7. e.seq \notin Numbers(out) /\ TrueKind(e.seq, e.kind)
    BY <1>1, <1>6, Zenon DEF CalmInv, Flight, Split, Labelled
  <1>8. /\ wpc'[w] = "recv" /\ \A v \in Workers \ {w} : wpc'[v] = wpc[v]
        /\ wpc' \in [Workers -> {"recv", "compress", "send", "gone"}]
    BY <1>4, <1>5, Zenon
  <1>9. ~Busy(w)' /\ \A v \in Workers \ {w} : Busy(v)' <=> Busy(v)
    BY <1>8 DEF Busy
  <1>10. \A v \in Workers : wpc'[v] = "gone" <=> wpc[v] = "gone"
    BY <1>1, <1>8
  <1> HIDE DEF e
  <1>11. /\ out' \in Seq(QueueEntry) /\ Numbers(out') = Numbers(out) \cup {e.seq}
         /\ Apart(out') /\ AllTrue(Append(out, e))
    BY <1>4, <1>5, <1>7, NumbersAppend, Zenon DEF CalmInv, Flight, Labelled
  <1>12. Hands' = Hands \ {e.seq}
    <2>1. ASSUME NEW s \in Hands'
          PROVE  s \in Hands /\ s # e.seq
      <3>1. PICK v \in Workers : Busy(v)' /\ s = work[v].seq
        BY <1>1, <2>1, Zenon DEF Hands
      <3>2. v # w /\ Busy(v)
        BY <1>9, <3>1, Zenon
      <3> QED
        BY <1>1, <3>1, <3>2, Zenon DEF CalmInv, Flight, Hands, e
    <2>2. ASSUME NEW s \in Hands, s # e.seq
          PROVE  s \in Hands'
      <3>1. PICK v \in Workers : Busy(v) /\ s = work[v].seq
        BY <2>2, Zenon DEF Hands
      <3>2. v # w
        BY <2>2, <3>1, Zenon DEF e
      <3> QED
        BY <1>1, <1>9, <3>1, <3>2, Zenon DEF Hands
    <2> QED
      BY <2>1, <2>2, Zenon
  <1>13. GzipType'
    BY <1>1, <1>4, <1>8, <1>11, Zenon DEF CalmInv, GzipType
  <1>14. Flight'
    <2>1. Split(Numbers(raw), Hands', Numbers(out'), DOMAIN held, next_seq .. seq - 1)
      <3>1. Split(Numbers(raw), Hands, Numbers(out), DOMAIN held, next_seq .. seq - 1)
        BY Zenon DEF CalmInv, Flight
      <3>2. Split(Numbers(raw), Hands \ {e.seq}, Numbers(out) \cup {e.seq}, DOMAIN held, next_seq .. seq - 1)
        BY <1>6, <3>1, HandsToOut, Zenon
      <3> QED
        BY <1>11, <1>12, <3>2, Zenon
    <2>2. \A v, u \in Workers : Busy(v)' /\ Busy(u)' /\ work'[v].seq = work'[u].seq => v = u
      BY <1>1, <1>9, Zenon DEF CalmInv, Flight
    <2> QED
      BY <1>1, <1>4, <1>11, <2>1, <2>2, Zenon DEF CalmInv, Flight
  <1>15. Labelled'
    BY <1>1, <1>4, <1>9, <1>11, Zenon DEF CalmInv, Labelled, AllTrue, TrueKind
  <1>16. Ending'
    BY <1>1, <1>3, <1>4, <1>10, Zenon DEF CalmInv, Ending
  <1>17. Barrier' /\ InOrder' /\ Permits'
    BY <1>1, OrderStays, Zenon DEF CalmInv, Barrier, Permits
  <1> QED
    BY <1>13, <1>14, <1>15, <1>16, <1>17, Zenon DEF CalmInv

-----------------------------------------------------------------------------
(* The writer thread. *)

\* While nothing has failed, the reorder buffer takes what it is given.
LEMMA NothingRefused ==
    ASSUME CalmInv, out # << >>
    PROVE  Accepts(Head(out).seq)
  <1> DEFINE s == Head(out).seq
  <1>1. s \in Numbers(out)
    BY NumbersTail, Zenon DEF CalmInv, GzipType, Flight
  <1>2. s \in next_seq .. seq - 1 /\ s \notin DOMAIN held
    BY <1>1, Zenon DEF CalmInv, Flight, Split
  <1> HIDE DEF s
  <1>3. seq \in Nat /\ next_seq \in Nat /\ permits \in Nat /\ MaxWindow \in Nat
    BY MaxWindowAssumption, Zenon DEF CalmInv, GzipType
  <1>4. seq - next_seq <= MaxWindow
    BY <1>3 DEF CalmInv, Permits
  <1>5. next_seq <= s /\ s < next_seq + MaxWindow
    BY <1>2, <1>3, <1>4
  <1> QED
    BY <1>2, <1>5, Zenon DEF Accepts, s

LEMMA ReceiveStep ==
    ASSUME GzipInv, Receive
    PROVE  GzipInv'
  <1>1. /\ tpc = "recv" /\ out # << >> /\ out' = Tail(out)
        /\ UNCHANGED <<ppc, call, current, job, seq, raw_tx, sent, lost, outcome, raw, wpc, work, file,
                       synced, out_rx, permit_tx>>
    BY Zenon DEF Receive, producer, pool
  <1>2. CASE stopped
    <2>1. first' = first
      BY <1>2, Zenon DEF Receive
    <2>2. ack' \in {"err", ack}
      BY <1>2, Zenon DEF Receive, Discard
    <2> QED
      BY <1>1, <1>2, <2>1, <2>2, PoolSideStep DEF Calm, stopped
  <1>3. CASE ~stopped
    <2>1. CalmInv
      BY <1>3, Zenon DEF GzipInv, Calm
    <2> DEFINE e == Head(out)
    <2>2. Accepts(e.seq)
      BY <1>1, <2>1, NothingRefused
    <2>3. /\ held' = [s \in DOMAIN held \cup {e.seq} |-> IF s = e.seq THEN e.kind ELSE held[s]]
          /\ tpc' = "drain" /\ UNCHANGED <<next_seq, first, ack, permits>>
      BY <1>3, <2>2, Zenon DEF Receive, RBPush
    <2>4. /\ out' \in Seq(QueueEntry) /\ e \in QueueEntry /\ e.seq \in Numbers(out)
          /\ Numbers(out') = Numbers(out) \ {e.seq} /\ Apart(out')
          /\ AllTrue(out) => AllTrue(Tail(out)) /\ TrueKind(e.seq, e.kind)
      BY <1>1, <2>1, NumbersTail, Zenon DEF CalmInv, GzipType, Flight
    <2>5. AllTrue(Tail(out)) /\ TrueKind(e.seq, e.kind)
      BY <2>1, <2>4, Zenon DEF CalmInv, Labelled
    <2>6. e.seq \in Nat
      BY <2>4 DEF QueueEntry
    <2> HIDE DEF e
    <2>7. /\ DOMAIN held' = DOMAIN held \cup {e.seq} /\ held' = [s \in DOMAIN held' |-> held'[s]]
          /\ \A s \in DOMAIN held' : held'[s] = IF s = e.seq THEN e.kind ELSE held[s]
      BY <2>3, Zenon
    <2>8. GzipType'
      BY <1>1, <2>1, <2>3, <2>4, <2>6, <2>7, Zenon DEF CalmInv, GzipType
    <2>9. Hands' = Hands
      BY <1>1, Zenon DEF Hands, Busy
    <2>10. Flight'
      <3>1. Split(Numbers(raw), Hands, Numbers(out'), DOMAIN held', next_seq .. seq - 1)
        <4>1. Split(Numbers(raw), Hands, Numbers(out), DOMAIN held, next_seq .. seq - 1)
          BY <2>1, Zenon DEF CalmInv, Flight
        <4>2. Split(Numbers(raw), Hands, Numbers(out) \ {e.seq}, DOMAIN held \cup {e.seq}, next_seq .. seq - 1)
          BY <2>4, <4>1, OutToHeld, Zenon
        <4> QED
          BY <2>4, <2>7, <4>2, Zenon
      <3>2. \A v \in Workers : Busy(v)' <=> Busy(v)
        BY <1>1, Zenon DEF Busy
      <3> QED
        BY <1>1, <2>1, <2>3, <2>4, <2>9, <3>1, <3>2, Zenon DEF CalmInv, Flight
    <2>11. Labelled'
      <3>1. \A s \in DOMAIN held' : TrueKind(s, held'[s])
        BY <2>1, <2>5, <2>7, Zenon DEF CalmInv, Labelled
      <3> QED
        BY <1>1, <2>1, <2>5, <3>1, Zenon DEF CalmInv, Labelled, AllTrue, TrueKind, Busy
    <2>12. Ending'
      BY <1>1, <2>1, <2>3 DEF CalmInv, Ending
    <2>13. Barrier' /\ InOrder' /\ Permits'
      BY <1>1, <2>1, <2>3, OrderStays, Zenon DEF CalmInv, Barrier, Permits
    <2>14. CalmInv'
      BY <2>8, <2>10, <2>11, <2>12, <2>13, Zenon DEF CalmInv
    <2> QED
      BY <1>1, <1>3, <2>3, <2>14, PoolSideStep DEF Calm, stopped
  <1> QED
    BY <1>2, <1>3

\* The next number leaves the buffer; its permit goes back.
LEMMA PopFacts ==
    ASSUME CalmInv, tpc = "drain", RBPop, permits < MaxWindow, GiveBack(1),
           UNCHANGED <<ppc, seq, raw_tx, sent, lost, raw, wpc, work, out, tpc, out_rx, permit_tx>>
    PROVE  /\ next_seq' = next_seq + 1 /\ next_seq < seq /\ next_seq \in Nat /\ seq \in Nat
           /\ held[next_seq] = IF next_seq \in sent THEN "chunk" ELSE "barrier"
           /\ file' \in Seq(Nat) => GzipType'
           /\ Flight' /\ Labelled' /\ Ending' /\ Permits'
  <1>1. /\ next_seq \in DOMAIN held /\ next_seq' = next_seq + 1
        /\ held' = [s \in DOMAIN held \ {next_seq} |-> held[s]]
    BY Zenon DEF RBPop, Ready
  <1>2. /\ next_seq \in Nat /\ seq \in Nat /\ permits \in Nat /\ MaxWindow \in Nat
        /\ DOMAIN held \subseteq Nat
    BY MaxWindowAssumption, Zenon DEF CalmInv, GzipType
  <1>3. next_seq \in next_seq .. seq - 1
    BY <1>1, InFlight, Zenon
  <1>4. next_seq < seq
    BY <1>2, <1>3
  <1>5. held[next_seq] = IF next_seq \in sent THEN "chunk" ELSE "barrier"
    BY <1>1, Zenon DEF CalmInv, Labelled, TrueKind
  <1>6. permits' = permits + 1
    BY <1>2 DEF GiveBack
  <1>7. /\ DOMAIN held' = DOMAIN held \ {next_seq} /\ held' = [s \in DOMAIN held' |-> held'[s]]
        /\ \A s \in DOMAIN held' : held'[s] = held[s]
    BY <1>1, Zenon
  <1>8. next_seq' \in Nat /\ permits' \in Nat /\ next_seq' <= seq
    BY <1>1, <1>2, <1>4, <1>6
  <1>9. file' \in Seq(Nat) => GzipType'
    BY <1>2, <1>7, <1>8, Zenon DEF CalmInv, GzipType
  <1>10. Flight'
    <2>1. next_seq' .. seq - 1 = (next_seq .. seq - 1) \ {next_seq}
      BY <1>1, <1>2, <1>4
    <2>2. Hands' = Hands
      BY Zenon DEF Hands, Busy
    <2>3. Split(Numbers(raw), Hands, Numbers(out), DOMAIN held', next_seq' .. seq - 1)
      <3>1. Split(Numbers(raw), Hands, Numbers(out), DOMAIN held, next_seq .. seq - 1)
        BY Zenon DEF CalmInv, Flight
      <3>2. Split(Numbers(raw), Hands, Numbers(out), DOMAIN held \ {next_seq}, (next_seq .. seq - 1) \ {next_seq})
        BY <1>1, <3>1, HeldToFile, Zenon
      <3> QED
        BY <1>7, <2>1, <3>2, Zenon
    <2>4. \A v \in Workers : Busy(v)' <=> Busy(v)
      BY Zenon DEF Busy
    <2> QED
      BY <2>2, <2>3, <2>4, Zenon DEF CalmInv, Flight
  <1>11. Labelled'
    BY <1>7, Zenon DEF CalmInv, Labelled, AllTrue, TrueKind, Busy
  <1>12. Ending'
    BY DEF CalmInv, Ending
  <1>13. Permits'
    BY <1>1, <1>2, <1>6 DEF CalmInv, Permits
  <1> QED
    BY <1>1, <1>2, <1>4, <1>5, <1>9, <1>10, <1>11, <1>12, <1>13, Zenon

\* A chunk joins the file behind those before it.
LEMMA ChunkDelivered ==
    ASSUME CalmInv, next_seq \in sent, next_seq < seq, next_seq' = next_seq + 1,
           file' = Append(file, next_seq), UNCHANGED <<sent, seq, ppc, ack>>
    PROVE  file' \in Seq(Nat) /\ Barrier' /\ InOrder'
  <1> DEFINE n == Len(file)
  <1>1. next_seq \in Nat /\ seq \in Nat /\ file \in Seq(Nat) /\ sent \subseteq Nat
    BY Zenon DEF CalmInv, GzipType
  <1>2. /\ file' \in Seq(Nat) /\ n \in Nat /\ Len(file') = n + 1 /\ file'[n + 1] = next_seq
        /\ \A i \in 1 .. n : file'[i] = file[i]
    BY <1>1, AppendFacts
  <1>3. Barrier'
    <2>1. \A s \in next_seq' .. seq' - 1 : s \in next_seq .. seq - 1
      BY <1>1
    <2>2. ppc = "ack" /\ ack = "none" => next_seq + 1 < seq
      <3>1. next_seq # seq - 1 => next_seq + 1 < seq
        BY <1>1
      <3> QED
        BY <3>1, Zenon DEF CalmInv, Barrier
    <2> QED
      BY <2>1, <2>2, Zenon DEF CalmInv, Barrier
  <1>4. /\ \A i \in 1 .. n : file[i] \in sent /\ file[i] < next_seq /\ file[i] \in Nat
        /\ \A i \in 1 .. n : i > 1 => file[i - 1] < file[i]
        /\ \A s \in sent : s < next_seq => \E i \in 1 .. n : file[i] = s
        /\ \A s \in sent : s < seq
    BY <1>1, Zenon DEF CalmInv, InOrder
  <1> HIDE DEF n
  <1>5. \A i \in 1 .. n + 1 : file'[i] \in sent /\ file'[i] < next_seq'
    BY <1>1, <1>2, <1>4
  <1>6. ASSUME NEW i \in 1 .. n + 1, i > 1
        PROVE  file'[i - 1] < file'[i]
    <2>1. i - 1 \in 1 .. n /\ file'[i - 1] = file[i - 1]
      BY <1>2, <1>6
    <2>2. CASE i = n + 1
      BY <1>2, <1>4, <2>1, <2>2
    <2>3. CASE i # n + 1
      <3>1. i \in 1 .. n
        BY <1>2, <1>6, <2>3
      <3> QED
        BY <1>2, <1>4, <1>6, <2>1, <3>1
    <2> QED
      BY <2>2, <2>3, Zenon
  <1>7. ASSUME NEW s \in sent, s < next_seq'
        PROVE  \E i \in 1 .. n + 1 : file'[i] = s
    <2>1. s < next_seq \/ s = next_seq
      BY <1>1, <1>7
    <2>2. n + 1 \in 1 .. n + 1 /\ \A i \in 1 .. n : i \in 1 .. n + 1
      BY <1>2, AppendIndex, Zenon
    <2> QED
      BY <1>2, <1>4, <2>1, <2>2, Zenon
  <1>8. InOrder'
    BY <1>2, <1>4, <1>5, <1>6, <1>7, Zenon DEF InOrder
  <1> QED
    BY <1>2, <1>3, <1>8, Zenon

LEMMA BarrierDelivered ==
    ASSUME CalmInv, next_seq \notin sent, next_seq < seq, next_seq' = next_seq + 1, ack' = "ok",
           UNCHANGED <<sent, seq, ppc, file>>
    PROVE  next_seq' = seq /\ Barrier' /\ InOrder'
  <1>1. next_seq \in Nat /\ seq \in Nat /\ sent \subseteq Nat
    BY Zenon DEF CalmInv, GzipType
  <1>2. next_seq = seq - 1
    <2>1. next_seq \in next_seq .. seq - 1
      BY <1>1
    <2> QED
      BY <2>1, Zenon DEF CalmInv, Barrier
  <1>3. next_seq' = seq /\ next_seq' .. seq' - 1 = {}
    BY <1>1, <1>2
  <1>4. Barrier'
    BY <1>3 DEF Barrier
  <1>5. \A s \in sent : s < next_seq' => s < next_seq
    BY <1>1
  <1>6. \A i \in 1 .. Len(file) : file[i] < next_seq'
    <2>1. \A i \in 1 .. Len(file) : file[i] \in Nat /\ file[i] < next_seq
      BY <1>1, Zenon DEF CalmInv, InOrder
    <2> QED
      BY <1>1, <2>1
  <1>7. InOrder'
    BY <1>5, <1>6, Zenon DEF CalmInv, InOrder
  <1> QED
    BY <1>3, <1>4, <1>7, Zenon

LEMMA DeliverStep ==
    ASSUME GzipInv, Deliver
    PROVE  GzipInv'
  <1>1. /\ tpc = "drain"
        /\ UNCHANGED <<ppc, call, current, job, seq, raw_tx, sent, lost, outcome, raw, wpc, work, out,
                       out_rx, permit_tx>>
    BY Zenon DEF Deliver, producer, pool
  <1>2. CASE ~Ready /\ tpc' = "recv" /\ UNCHANGED <<rbVars, file, synced, first, ack, permits>>
    <2>1. UNCHANGED <<next_seq, held, file, synced, first, ack, permits>>
      BY <1>2, Zenon DEF rbVars
    <2>2. ASSUME CalmInv
          PROVE  CalmInv'
      <3>1. GzipType' /\ Flight' /\ Labelled' /\ InOrder'
        BY <1>1, <1>2, <2>1, <2>2, FlightStays, LabelsStay, OrderStays, Zenon DEF CalmInv, GzipType
      <3>2. Barrier' /\ Permits'
        BY <1>1, <2>1, <2>2, Zenon DEF CalmInv, Barrier, Permits
      <3>3. Ending'
        BY <1>1, <1>2, <2>1, <2>2 DEF CalmInv, Ending, Ready
      <3> QED
        BY <3>1, <3>2, <3>3, Zenon DEF CalmInv
    <2> QED
      BY <1>1, <2>1, <2>2, PoolSideStep DEF GzipInv, Calm, stopped
  <1>3. CASE RBPop /\ permits < MaxWindow /\ GiveBack(1) /\ tpc' = tpc
    <2> DEFINE k == held[next_seq]
    <2>1. ~Ready => FALSE
      BY <1>3, Zenon DEF RBPop
    <2>2. \/ k = "dropped" /\ UNCHANGED <<file, synced, first, ack>>
          \/ /\ k = "chunk" /\ UNCHANGED <<synced, ack>>
             /\ \/ ~stopped /\ file' = Append(file, next_seq) /\ first' = first
                \/ ~stopped /\ first' = "inner"
                \/ stopped /\ first' = first
          \/ /\ k # "chunk" /\ k # "dropped" /\ ack' = Reply /\ file' = file
             /\ \/ ~stopped /\ synced' = Len(file) /\ first' = first
                \/ ~stopped /\ first' = "inner"
                \/ stopped /\ first' = first
      BY <2>1 DEF Deliver, Record, stopped
    <2> HIDE DEF k
    <2>3. CASE stopped
      <3>1. first' = first /\ ack' \in {ack, "err"}
        BY <2>2, <2>3 DEF Reply, stopped
      <3> QED
        BY <1>1, <1>3, <2>3, <3>1, PoolSideStep DEF Calm, stopped
    <2>4. CASE ~stopped
      <3>1. CalmInv
        BY <2>4, Zenon DEF GzipInv, Calm
      <3>2. /\ next_seq' = next_seq + 1 /\ next_seq < seq /\ next_seq \in Nat /\ seq \in Nat
            /\ k = IF next_seq \in sent THEN "chunk" ELSE "barrier"
            /\ file' \in Seq(Nat) => GzipType'
            /\ Flight' /\ Labelled' /\ Ending' /\ Permits'
        BY <1>1, <1>3, <3>1, PopFacts, Zenon DEF k
      <3>3. next_seq # seq /\ tpc # "gone" /\ file \in Seq(Nat)
        BY <1>1, <3>1, <3>2 DEF CalmInv, GzipType
      <3>4. CASE first' = "inner"
        <4>1. ~Calm' /\ first' \notin {"rejected", "stranded"}
          BY <3>4, FileWritersAssumption DEF Calm, stopped
        <4>2. ack' = "ok" => ack = "ok"
          BY <2>2, <2>4, <3>4, <4>1, SMTT(20) DEF Reply, stopped, Calm
        <4> QED
          BY <1>1, <2>4, <3>3, <4>1, <4>2, PoolSideStep DEF Calm
      <3>5. CASE next_seq \in sent /\ first' = first /\ file' = Append(file, next_seq)
                 /\ UNCHANGED <<synced, ack>>
        <4>1. file' \in Seq(Nat) /\ Barrier' /\ InOrder'
          BY <1>1, <3>1, <3>2, <3>5, ChunkDelivered, Zenon
        <4>2. CalmInv'
          BY <3>2, <4>1, Zenon DEF CalmInv
        <4> QED
          BY <1>1, <3>3, <3>5, <4>2, PoolSideStep DEF Calm
      <3>6. CASE next_seq \notin sent /\ first' = first /\ ack' = Reply /\ file' = file
                 /\ synced' = Len(file)
        <4>1. ack' = "ok" /\ Calm'
          BY <2>4, <3>6, Zenon DEF Reply, stopped, Calm
        <4>2. next_seq' = seq /\ Barrier' /\ InOrder'
          BY <1>1, <3>1, <3>2, <3>6, <4>1, BarrierDelivered, Zenon
        <4>3. CalmInv'
          BY <3>2, <3>3, <3>6, <4>2, Zenon DEF CalmInv
        <4> QED
          BY <1>1, <3>3, <3>6, <4>1, <4>2, <4>3, PoolSideStep
      <3>7. \/ first' = "inner"
            \/ next_seq \in sent /\ first' = first /\ file' = Append(file, next_seq)
               /\ UNCHANGED <<synced, ack>>
            \/ next_seq \notin sent /\ first' = first /\ ack' = Reply /\ file' = file
               /\ synced' = Len(file)
        BY <2>2, <2>4, <3>2
      <3> QED
        BY <3>4, <3>5, <3>6, <3>7, Zenon
    <2> QED
      BY <2>3, <2>4, Zenon
  <1> QED
    BY <1>2, <1>3, Zenon DEF Deliver

\* Once the workers are gone and the channel is empty, a calm stream is whole.
LEMMA NothingStranded ==
    ASSUME CalmInv, tpc = "recv", out = << >>, Alive = {}
    PROVE  held = << >> /\ next_seq = seq /\ ~raw_tx
  <1>1. PICK w \in Workers : TRUE
    BY GzipAssumption, Zenon
  <1>2. \A v \in Workers : wpc[v] = "gone"
    BY Zenon DEF Alive
  <1>3. ~raw_tx /\ raw = << >> /\ next_seq \notin DOMAIN held
    BY <1>1, <1>2, Zenon DEF CalmInv, Ending
  <1>4. Numbers(raw) = {} /\ Numbers(out) = {}
    BY <1>3, EmptySeq DEF Numbers
  <1>5. Hands = {}
    BY <1>2 DEF Hands, Busy
  <1>6. DOMAIN held = next_seq .. seq - 1
    BY <1>4, <1>5, Zenon DEF CalmInv, Flight, Split
  <1>7. next_seq = seq /\ next_seq .. seq - 1 = {}
    BY <1>3, <1>6 DEF CalmInv, GzipType
  <1>8. held = << >>
    BY <1>6, <1>7, EmptyMap, Zenon DEF CalmInv, GzipType
  <1> QED
    BY <1>3, <1>7, <1>8

LEMMA FinishStep ==
    ASSUME GzipInv, Finish
    PROVE  GzipInv'
  <1>1. /\ tpc = "recv" /\ out = << >> /\ Alive = {} /\ tpc' = "gone" /\ ~permit_tx' /\ ~out_rx'
        /\ UNCHANGED <<ppc, call, current, job, seq, raw_tx, sent, lost, outcome, raw, wpc, work, out,
                       file>>
    BY Zenon DEF Finish, producer, pool
  <1>2. CASE stopped
    <2>1. first' = first
      BY <1>2, Zenon DEF Finish
    <2>2. ack' \in {"err", ack}
      BY <1>2, Zenon DEF Finish, Discard
    <2> QED
      BY <1>1, <1>2, <2>1, <2>2, PoolSideStep DEF Calm, stopped
  <1>3. CASE ~stopped
    <2>1. CalmInv
      BY <1>3, Zenon DEF GzipInv, Calm
    <2>2. held = << >> /\ next_seq = seq /\ ~raw_tx
      BY <1>1, <2>1, NothingStranded
    <2>3. FinalFlush /\ UNCHANGED <<ack, permits, next_seq, held>>
      BY <1>3, <2>2, Zenon DEF Finish, rbVars
    <2>4. CASE first' = "inner"
      <3>1. ~Calm' /\ first' \notin {"rejected", "stranded"}
        BY <2>4, FileWritersAssumption, SMTT(20) DEF Calm, stopped
      <3> QED
        BY <1>1, <1>3, <2>2, <2>3, <3>1, PoolSideStep DEF Calm
    <2>5. CASE synced' = Len(file) /\ first' = first
      <3>1. GzipType' /\ Flight' /\ Labelled' /\ InOrder'
        BY <1>1, <2>1, <2>3, FlightStays, LabelsStay, OrderStays, Zenon DEF CalmInv, GzipType
      <3>2. Barrier' /\ Permits'
        BY <1>1, <2>1, <2>3, Zenon DEF CalmInv, Barrier, Permits
      <3>3. Ending'
        BY <1>1, <2>1, <2>2, <2>3, <2>5 DEF CalmInv, Ending, Alive
      <3>4. CalmInv'
        BY <3>1, <3>2, <3>3, Zenon DEF CalmInv
      <3> QED
        BY <1>1, <2>2, <2>3, <2>5, <3>4, PoolSideStep DEF Calm
    <2> QED
      BY <1>3, <2>3, <2>4, <2>5, Zenon DEF FinalFlush, Record, stopped
  <1> QED
    BY <1>2, <1>3

-----------------------------------------------------------------------------
(* The gzip writer as a whole. *)

LEMMA GzipInitInv ==
    ASSUME Init
    PROVE  GzipInv
  <1>1. /\ ppc = "idle" /\ ~current /\ seq = 0 /\ raw_tx /\ raw = << >> /\ permits = MaxWindow
        /\ work = [w \in Workers |-> Job(0, "none")] /\ out = << >> /\ next_seq = 0 /\ held = << >>
        /\ file = << >> /\ synced = 0 /\ ack = "none" /\ sent = {} /\ ~lost /\ outcome = "none"
    BY Zenon DEF Init, RBInit
  <1>2. \/ first = "spawn"
        \/ /\ first = NoFailure /\ wpc = [w \in Workers |-> "recv"] /\ tpc = "recv"
           /\ permit_tx /\ out_rx
    <2>1. PICK started \in SUBSET Workers, thread \in BOOLEAN :
              /\ started # Workers => first = "spawn"
              /\ ~thread => first = "spawn"
              /\ (started = Workers /\ thread) => FailureInit
              /\ wpc = [w \in Workers |-> IF w \in started THEN "recv" ELSE "gone"]
              /\ tpc = IF thread THEN "recv" ELSE "gone"
              /\ permit_tx = thread /\ out_rx = thread
      BY Zenon DEF Init
    <2>2. CASE started = Workers /\ thread
      BY <2>1, <2>2, Zenon DEF FailureInit
    <2> QED
      BY <2>1, <2>2, Zenon
  <1>3. Control
    BY <1>1, SMTT(20) DEF Control
  <1>4. Claims
    BY <1>1, <1>2, FileWritersAssumption DEF Claims
  <1>5. ASSUME Calm
        PROVE  CalmInv
    <2>1. wpc = [w \in Workers |-> "recv"] /\ tpc = "recv" /\ permit_tx /\ out_rx
      BY <1>2, <1>5, FileWritersAssumption, SMTT(20) DEF Calm, stopped
    <2>2. /\ Len(raw) = 0 /\ Len(out) = 0 /\ Len(file) = 0 /\ 1 .. 0 = {} /\ 0 .. 0 - 1 = {}
          /\ DOMAIN held = {} /\ held = [s \in DOMAIN held |-> held[s]]
      BY <1>1, EmptySeq, EmptyMap
    <2>3. \A w \in Workers : ~Busy(w) /\ wpc[w] # "gone"
      BY <2>1, SMTT(20) DEF Busy
    <2>4. GzipType
      <3>1. Job(0, "none") \in QueueEntry
        BY DEF Job, QueueEntry
      <3>2. raw \in Seq(QueueEntry) /\ out \in Seq(QueueEntry) /\ file \in Seq(Nat)
            /\ work \in [Workers -> QueueEntry]
        BY <1>1, <3>1, EmptySeq, Zenon
      <3>3. wpc \in [Workers -> {"recv", "compress", "send", "gone"}]
        BY <2>1, Zenon
      <3> QED
        BY <1>1, <2>1, <2>2, <3>2, <3>3, MaxWindowAssumption, SMTT(20) DEF GzipType
    <2>5. Flight
      <3>1. Hands = {} /\ Numbers(raw) = {} /\ Numbers(out) = {} /\ next_seq .. seq - 1 = {}
        BY <1>1, <2>2, <2>3, Zenon DEF Hands, Numbers
      <3> QED
        BY <2>2, <2>3, <3>1, Zenon DEF Flight, Apart, Split
    <2>6. Labelled
      BY <2>2, <2>3, Zenon DEF Labelled, AllTrue
    <2>7. Barrier /\ InOrder
      BY <1>1, <2>2 DEF Barrier, InOrder
    <2>8. Ending
      BY <1>1, <2>1, <2>2, <2>3 DEF Ending
    <2>9. Permits
      BY <1>1, MaxWindowAssumption DEF Permits
    <2> QED
      BY <2>4, <2>5, <2>6, <2>7, <2>8, <2>9, Zenon DEF CalmInv
  <1> QED
    BY <1>3, <1>4, <1>5, Zenon DEF GzipInv

LEMMA GzipNextInv ==
    ASSUME GzipInv, Next
    PROVE  GzipInv'
  BY WriteCallStep, CloseCallStep, DispatchStep1, WaitPermitStep, SendJobStep, AckReceivedStep,
     ShutdownStep, JoinedStep, DequeueStep, CompressStep, SendOutStep, ReceiveStep, DeliverStep,
     FinishStep, Zenon DEF Next, CallStep, ThreadStep, WorkerStep

LEMMA GzipStutters ==
    ASSUME GzipInv, UNCHANGED vars
    PROVE  GzipInv'
  <1>1. UNCHANGED <<ppc, call, current, job, seq, raw_tx, sent, lost, outcome, raw, permits, wpc, work,
                    out, tpc, next_seq, held, file, synced, out_rx, permit_tx, ack, first>>
    BY Zenon DEF vars, producer, pool, writer, rbVars
  <1>2. Control' /\ Claims' /\ (Calm' <=> Calm)
    BY <1>1, Zenon DEF GzipInv, Control, Claims, Calm, stopped
  <1>3. ASSUME CalmInv
        PROVE  CalmInv'
    <2>1. GzipType' /\ Flight' /\ Labelled' /\ InOrder'
      BY <1>1, <1>3, FlightStays, LabelsStay, OrderStays, Zenon DEF CalmInv, GzipType
    <2>2. Barrier' /\ Permits' /\ Ending'
      BY <1>1, <1>3, Zenon DEF CalmInv, Barrier, Permits, Ending, Alive
    <2> QED
      BY <2>1, <2>2, Zenon DEF CalmInv
  <1> QED
    BY <1>2, <1>3, Zenon DEF GzipInv

LEMMA GzipIsTrue ==
    ASSUME GzipInv
    PROVE  OkIsWhole
  <1>1. ASSUME CalmInv, next_seq = seq, synced = Len(file), ~current
        PROVE  Whole
    <2>1. ~lost
      BY <1>1, Zenon DEF CalmInv, Ending
    <2>2. DOMAIN file = 1 .. Len(file)
      BY <1>1 DEF CalmInv, GzipType
    <2>3. \A i \in DOMAIN file : file[i] \in sent /\ (i > 1 => file[i - 1] < file[i])
      BY <1>1, <2>2, Zenon DEF CalmInv, InOrder
    <2>4. \A s \in sent : \E i \in DOMAIN file : file[i] = s
      BY <1>1, <2>2, Zenon DEF CalmInv, InOrder
    <2> QED
      BY <1>1, <2>1, <2>3, <2>4, Zenon DEF Whole
  <1>2. ppc = "idle" /\ outcome = "flushed" => Whole
    BY <1>1, Zenon DEF GzipInv, Claims
  <1>3. outcome = "finished" => Whole
    <2> SUFFICES ASSUME outcome = "finished"
                 PROVE  Whole
      OBVIOUS
    <2>1. ppc = "closed" /\ Calm /\ tpc = "gone"
      BY Zenon DEF GzipInv, Claims
    <2>2. ~current
      BY <2>1 DEF GzipInv, Control
    <2>3. CalmInv
      BY <2>1, Zenon DEF GzipInv
    <2>4. next_seq = seq /\ synced = Len(file)
      BY <2>1, <2>3, Zenon DEF CalmInv, Ending
    <2> QED
      BY <1>1, <2>2, <2>3, <2>4, Zenon
  <1>4. ~stopped => permits + (seq - next_seq) + (IF ppc = "send" THEN 1 ELSE 0) = MaxWindow
    BY Zenon DEF GzipInv, Calm, CalmInv, Permits
  <1> QED
    BY <1>2, <1>3, <1>4, Zenon DEF OkIsWhole, GzipInv, Claims

-----------------------------------------------------------------------------
(* Both. *)

IInv == (part = "gzip" /\ GzipInv) \/ (part = "pwrite" /\ PoolInv)

\* Whatever fails, in whichever thread: a flush or a finish of the parallel
\* gzip writer that answered Ok means the whole stream in the file, and a
\* run of the positioned-write pool that answered Ok wrote every operation at
\* its place, with no hole; neither reports a failure it cannot have met
\* (ParallelGzipWriter's flush and finish, run_pool).
THEOREM FileWritersTellTrueTheorem == BothSpec => []FileWritersTellTrue
  <1>1. BothInit => IInv
    BY GzipInitInv, PoolInitInv, Zenon DEF BothInit, IInv
  <1>2. IInv /\ [BothNext]_both => IInv'
    <2> SUFFICES ASSUME IInv, [BothNext]_both
                 PROVE  IInv'
      OBVIOUS
    <2>1. CASE part = "gzip" /\ Next /\ UNCHANGED <<part, pwrite>>
      <3>1. GzipInv
        BY <2>1 DEF IInv
      <3> QED
        BY <2>1, <3>1, GzipNextInv, Zenon DEF IInv
    <2>2. CASE part = "pwrite" /\ P!Next /\ UNCHANGED <<part, gzip>>
      <3>1. PoolInv
        BY <2>2 DEF IInv
      <3> QED
        BY <2>2, <3>1, PoolNextInv, Zenon DEF IInv
    <2>3. CASE UNCHANGED both
      <3>1. part' = part /\ UNCHANGED vars /\ UNCHANGED <<pwrite, wpc, file, first>>
        BY <2>3, Zenon DEF both, vars, pool, writer
      <3> QED
        BY <3>1, GzipStutters, PoolStutters, Zenon DEF IInv
    <2> QED
      BY <2>1, <2>2, <2>3, Zenon DEF BothNext
  <1>3. IInv => FileWritersTellTrue
    <2>1. part = "gzip" /\ GzipInv => FileWritersTellTrue
      BY GzipIsTrue, Zenon DEF FileWritersTellTrue
    <2>2. part = "pwrite" /\ PoolInv => FileWritersTellTrue
      BY PoolIsTrue DEF FileWritersTellTrue
    <2> QED
      BY <2>1, <2>2, Zenon DEF IInv
  <1> QED
    BY <1>1, <1>2, <1>3, PTL DEF BothSpec
=============================================================================
