-------------------------- MODULE InvocationProofs --------------------------
(***************************************************************************)
(* Proofs about one invocation, for any threads, capabilities, counters    *)
(* and field widths.                                                       *)
(*                                                                         *)
(* What the runs check is not inductive.  IInv adds that each count of the *)
(* word is the number of counted capabilities of its unit, that a          *)
(* capability goes uncounted only in a saturated word, that a borrowed     *)
(* capability is live and that a mint's last look at the word is outdated  *)
(* in one direction only; so no seal begins under a live capability.  From *)
(* there on one thread owns the stream and the snapshot, and IInv follows  *)
(* it: how far it has read and emitted, and which lines it has yet to      *)
(* account for.                                                            *)
(***************************************************************************)
EXTENDS Invocation, TLAPS

-----------------------------------------------------------------------------
(* Counting the elements of a set as they come and go, for the references  *)
(* the word counts and the lines that are not accounted for.               *)

\* n is the number of the elements of S.
Counts(n, S) ==
    /\ n \in Nat
    /\ \E f \in [1 .. n -> S] :
          /\ \A x \in S : \E i \in 1 .. n : f[i] = x
          /\ \A i, j \in 1 .. n : f[i] = f[j] => i = j

LEMMA CountsEmpty ==
    /\ Counts(0, {})
    /\ \A n, S : Counts(n, S) => n \in Nat /\ (n = 0 <=> S = {})
  <1>1. Counts(0, {})
    <2>1. [i \in 1 .. 0 |-> i] \in [1 .. 0 -> {}]
      OBVIOUS
    <2> QED
      BY <2>1, Zenon DEF Counts
  <1>2. ASSUME NEW n, NEW S, Counts(n, S)
        PROVE  n \in Nat /\ (n = 0 <=> S = {})
    <2>1. PICK f \in [1 .. n -> S] : \A x \in S : \E i \in 1 .. n : f[i] = x
      BY <1>2, Zenon DEF Counts
    <2>2. n \in Nat /\ (n # 0 => 1 \in 1 .. n)
      BY <1>2 DEF Counts
    <2>3. n # 0 => f[1] \in S
      BY <2>1, <2>2, Zenon
    <2>4. n = 0 => S = {}
      BY <2>1
    <2> QED
      BY <2>2, <2>3, <2>4, Zenon
  <1> QED
    BY <1>1, <1>2, Zenon

LEMMA CountsAdd ==
    ASSUME NEW n, NEW S, NEW x, Counts(n, S), x \notin S
    PROVE  Counts(n + 1, S \cup {x})
  <1>1. n \in Nat
    BY DEF Counts
  <1>2. PICK f \in [1 .. n -> S] :
           /\ \A y \in S : \E i \in 1 .. n : f[i] = y
           /\ \A i, j \in 1 .. n : f[i] = f[j] => i = j
    BY Zenon DEF Counts
  <1> DEFINE g == [i \in 1 .. n + 1 |-> IF i = n + 1 THEN x ELSE f[i]]
  <1>3. /\ g \in [1 .. n + 1 -> S \cup {x}]
        /\ n + 1 \in 1 .. n + 1 /\ g[n + 1] = x
        /\ \A i \in 1 .. n : i \in 1 .. n + 1 /\ i # n + 1 /\ g[i] = f[i]
    BY <1>1
  <1>4. \A i \in 1 .. n + 1 : i = n + 1 \/ i \in 1 .. n
    BY <1>1
  <1> HIDE DEF g
  <1>5. \A y \in S \cup {x} : \E i \in 1 .. n + 1 : g[i] = y
    BY <1>2, <1>3, Zenon
  <1>6. \A i, j \in 1 .. n + 1 : g[i] = g[j] => i = j
    BY <1>2, <1>3, <1>4
  <1> QED
    <2>1. n + 1 \in Nat
      BY <1>1
    <2> QED
      BY <1>3, <1>5, <1>6, <2>1, Zenon DEF Counts

LEMMA CountsRemove ==
    ASSUME NEW n, NEW S, NEW x \in S, Counts(n, S)
    PROVE  Counts(n - 1, S \ {x})
  <1>1. PICK f \in [1 .. n -> S] :
           /\ \A y \in S : \E i \in 1 .. n : f[i] = y
           /\ \A i, j \in 1 .. n : f[i] = f[j] => i = j
    BY Zenon DEF Counts
  <1>2. PICK k \in 1 .. n : f[k] = x
    BY <1>1, Zenon
  <1>3. n \in Nat /\ n - 1 \in Nat /\ n \in 1 .. n
    BY <1>2 DEF Counts
  <1> DEFINE g == [i \in 1 .. n - 1 |-> IF i = k THEN f[n] ELSE f[i]]
  <1>4. ASSUME NEW i \in 1 .. n - 1
        PROVE  i \in 1 .. n /\ i # n /\ g[i] \in S \ {x} /\ g[i] = IF i = k THEN f[n] ELSE f[i]
    BY <1>1, <1>2, <1>3
  <1>5. \A y \in S \ {x} : \E i \in 1 .. n - 1 : g[i] = y
    <2> SUFFICES ASSUME NEW y \in S \ {x}
                 PROVE  \E i \in 1 .. n - 1 : g[i] = y
      OBVIOUS
    <2>1. PICK i \in 1 .. n : f[i] = y
      BY <1>1, Zenon
    <2>2. i # k
      BY <1>2, <2>1
    <2>3. CASE i = n
      BY <1>2, <1>3, <2>1, <2>2, <2>3
    <2>4. CASE i # n
      BY <1>3, <2>1, <2>2, <2>4
    <2> QED
      BY <2>3, <2>4
  <1>6. g \in [1 .. n - 1 -> S \ {x}]
    BY <1>4
  <1> HIDE DEF g
  <1>7. \A i, j \in 1 .. n - 1 : g[i] = g[j] => i = j
    BY <1>1, <1>2, <1>3, <1>4
  <1> QED
    BY <1>3, <1>5, <1>6, <1>7, Zenon DEF Counts

-----------------------------------------------------------------------------
(* The invariant. *)

PCs == {"idle", "mint", "trip", "write", "account", "ticket", "classify", "census",
        "snapshot", "close", "emissions", "ending", "publish"}
Borrowing == {"mint", "trip", "write", "account", "ticket"}
Sealing == {"snapshot", "close", "emissions", "ending", "publish"}
CapStates == {Free, Minting} \cup {Live(u, b) : u \in Units, b \in BOOLEAN}

WordType == word \in Words /\ word.guard <= MaxGuards /\ word.permit <= MaxPermits
CounterType == metrics \in [Counters -> 0 .. MaxRecorded] /\ sealed \in [Counters -> 0 .. MaxRecorded + 1]
CensusType ==
    /\ census \in 0 .. MaxTickets /\ tickets = census
    /\ lock \in Threads \cup {None}
    /\ tripped \in BOOLEAN /\ tap_failed \in BOOLEAN
PlaceType == pc \in [Threads -> PCs] /\ loc = [t \in Threads |-> loc[t]]
CallbackType == callback \in [Threads -> Caps \cup {None}] /\ outcome \in [Threads -> Outcomes]
TypeInv ==
    /\ SinkTypeOK /\ WordType /\ caps \in [Caps -> CapStates] /\ CounterType
    /\ CensusType /\ PlaceType /\ CallbackType

\* The word counts the counted capabilities, and remembers that one is not.
Counted(unit) == {c \in Caps : IsLive(c) /\ caps[c].unit = unit /\ caps[c].counted}
CountInv == \A unit \in Units : Counts(word[unit], Counted(unit))

WordInv ==
    /\ \A c \in Caps : IsLive(c) => word.state = "Open" /\ (caps[c].counted \/ word.saturated)
    /\ word.saturated => word.state = "Open"

\* A thread holds on to a live capability.
BorrowOK(t) ==
    /\ pc[t] \in Borrowing => loc[t].by \in Caps \cup {None}
    /\ pc[t] \in Borrowing /\ loc[t].by # None => IsLive(loc[t].by)
    /\ pc[t] \in {"trip", "write", "account"} => loc[t].by # None
    /\ callback[t] # None => IsLive(callback[t])
BorrowInv == \A t \in Threads : BorrowOK(t)

\* A mint in progress owns its identity, and what it saw of the word can only
\* have got worse.
MintLocals == [by : Caps \cup {None}, cap : Caps, unit : Units, then : {"call", "cancel"}, seen : Words]
MintOK(t) ==
    pc[t] = "mint" =>
       /\ loc[t] \in MintLocals
       /\ caps[loc[t].cap] = Minting
       /\ loc[t].seen.state # "Open" => word.state # "Open"
       /\ loc[t].seen.saturated => word.saturated
MintInv ==
    /\ \A t \in Threads : MintOK(t)
    /\ \A t, u \in Threads : t # u /\ pc[t] = "mint" /\ pc[u] = "mint" => loc[t].cap # loc[u].cap

\* One thread finalizes at a time, and nothing is recorded meanwhile.
SealOK(t) ==
    /\ pc[t] \in Sealing => word.state = "Finalizing"
    /\ pc[t] = "snapshot" =>
          /\ loc[t] \in [by : {None}, i : 1 .. NCounters + 1, snap : [Counters -> 0 .. MaxRecorded + 1]]
          /\ \A k \in Counters : k < loc[t].i => loc[t].snap[k] = metrics[k]
          /\ sealed = NoSnapshot
    /\ pc[t] \in {"snapshot", "close"} => cell = "open"
    /\ pc[t] \in {"close", "emissions", "ending", "publish"} => sealed = metrics
    /\ pc[t] \in {"emissions", "ending"} => cell = "closing"
    /\ pc[t] = "publish" => Ended
    /\ pc[t] \in {"classify", "census"} => loc[t] \in [by : {None}, seen : Words]
    /\ pc[t] = "classify" /\ loc[t].seen.state = "Sealed" => sealed # NoSnapshot
SealInv ==
    /\ \A t \in Threads : SealOK(t)
    /\ \A t, u \in Threads : t # u /\ pc[t] \in Sealing => pc[u] \notin Sealing

StateInv ==
    /\ word.state = "Open" => cell = "open" /\ sealed = NoSnapshot
    /\ word.state = "Sealed" => sealed = metrics
    /\ sealed # NoSnapshot => sealed = metrics

\* The lines of the stream, and the line the finalizing thread adds next.
InOrder ==
    \A i, j \in 1 .. Len(stream) : i < j =>
       \/ stream[i].kind = "record"
       \/ /\ stream[i].kind = "sealing"
          /\ stream[j].kind # "record"
          /\ stream[j].kind = "sealing" => stream[i].n < stream[j].n
IsTerminal(line) == line.kind \in {"sealed", "failed"}
LinesOK(t) ==
    /\ pc[t] = "emissions" =>
          /\ loc[t] \in [by : {None}, i : 1 .. NCounters + 1]
          /\ \A i \in 1 .. Len(stream) :
                ~IsTerminal(stream[i]) /\ (stream[i].kind = "sealing" => stream[i].n < loc[t].i)
    /\ pc[t] = "ending" =>
          /\ loc[t] \in [by : {None}, kind : {"sealed", "failed"}, before : 0 .. MaxDrops, sent : Sent]
          /\ loc[t].before = drops
          /\ \A i \in 1 .. Len(stream) : IsTerminal(stream[i]) =>
                stream[i] = Line(loc[t].kind, drops) /\ loc[t].sent = "Whole"
LinesInv ==
    /\ InOrder
    /\ cell = "open" => \A i \in 1 .. Len(stream) : stream[i].kind = "record"
    /\ Ended => \A i \in 1 .. Len(stream) : IsTerminal(stream[i]) => stream[i] = Line(cell, drops)
    /\ \A t \in Threads : LinesOK(t)

\* The lines that did not go out and are not yet accounted for.
Unaccounted == {t \in Threads : pc[t] \in {"account", "ending"} /\ loc[t].sent # "Whole"}
AccountInv ==
    /\ \A t \in Threads : pc[t] = "account" => loc[t] \in [by : Caps \cup {None}, sent : Sent]
    /\ drops < MaxDrops => Counts(tried - Len(stream) - drops, Unaccounted)

IInv == /\ TypeInv /\ CountInv /\ WordInv /\ BorrowInv /\ MintInv /\ SealInv /\ StateInv
        /\ LinesInv /\ AccountInv

-----------------------------------------------------------------------------
(* Facts about the data. *)

LEMMA AppendFacts ==
    ASSUME NEW S, NEW s \in Seq(S), NEW e \in S
    PROVE  /\ Append(s, e) \in Seq(S)
           /\ Len(s) \in Nat
           /\ Len(Append(s, e)) = Len(s) + 1
           /\ \A i \in 1 .. Len(s) : Append(s, e)[i] = s[i]
           /\ Append(s, e)[Len(s) + 1] = e
  OBVIOUS

LEMMA EmptyLines == << >> \in Seq(Lines) /\ Len(<< >>) = 0
  OBVIOUS

LEMMA CapFacts ==
    /\ Free # Minting
    /\ Free.st # "live" /\ Minting.st # "live"
    /\ \A u, b : Live(u, b).st = "live" /\ Live(u, b).unit = u /\ Live(u, b).counted = b
    /\ \A x \in CapStates : x.st = "live" =>
          x \in {Live(u, b) : u \in Units, b \in BOOLEAN} /\ x.unit \in Units /\ x.counted \in BOOLEAN
  BY DEF Free, Minting, Live, CapStates, Units

\* No snapshot of counters that were read is mistaken for a missing one.
LEMMA SnapshotFacts ==
    /\ NoSnapshot \in [Counters -> 0 .. MaxRecorded + 1]
    /\ \A m \in [Counters -> 0 .. MaxRecorded] :
          m # NoSnapshot /\ m \in [Counters -> 0 .. MaxRecorded + 1]
  <1>1. NCounters \in Nat \ {0} /\ MaxRecorded \in Nat
    BY SinkAssumption, InvocationAssumption, Zenon
  <1>2. 1 \in Counters
    BY <1>1 DEF Counters
  <1>3. \A m \in [Counters -> 0 .. MaxRecorded] : m[1] # NoSnapshot[1]
    BY <1>1, <1>2 DEF NoSnapshot
  <1> QED
    BY <1>1, <1>3 DEF NoSnapshot

LEMMA ReasonTyped ==
    ASSUME NEW seen \in Words, Reason(seen) # "census"
    PROVE  Reason(seen) \in Outcomes
  BY DEF Reason, Words, States, Outcomes

-----------------------------------------------------------------------------
(* What a step of one thread leaves alone. *)

OnlyThread(t) ==
    \A u \in Threads \ {t} : pc'[u] = pc[u] /\ loc'[u] = loc[u] /\ callback'[u] = callback[u]

LEMMA BorrowStays ==
    ASSUME BorrowInv, NEW t \in Threads, OnlyThread(t), BorrowOK(t)',
           \A c \in Caps : IsLive(c) => IsLive(c)',
           callback \in [Threads -> Caps \cup {None}]
    PROVE  BorrowInv'
  BY DEF BorrowInv, BorrowOK, OnlyThread

\* The word only gets worse for a mint that has looked at it.
Worse ==
    /\ word.state # "Open" => word'.state # "Open"
    /\ word.saturated => word'.saturated

LEMMA MintStays ==
    ASSUME MintInv, NEW t \in Threads, OnlyThread(t), Worse, MintOK(t)',
           \A c \in Caps : caps[c] = Minting /\ caps'[c] # Minting =>
               pc[t] = "mint" /\ c = loc[t].cap,
           pc'[t] = "mint" =>
               \/ caps[loc'[t].cap] = Free
               \/ pc[t] = "mint" /\ loc'[t].cap = loc[t].cap
    PROVE  MintInv'
  <1>1. ASSUME NEW u \in Threads, u # t
        PROVE  MintOK(u)'
    BY <1>1 DEF MintInv, MintOK, OnlyThread, Worse, MintLocals
  <1>2. ASSUME NEW u \in Threads, NEW v \in Threads, u # v, pc'[u] = "mint", pc'[v] = "mint"
        PROVE  loc'[u].cap # loc'[v].cap
    <2>1. ASSUME NEW w \in Threads, w # t, pc'[w] = "mint", pc'[t] = "mint"
          PROVE  loc'[w].cap # loc'[t].cap
      BY <2>1, CapFacts DEF MintInv, MintOK, OnlyThread
    <2> QED
      BY <1>2, <2>1 DEF MintInv, OnlyThread
  <1> QED
    BY <1>1, <1>2, Zenon DEF MintInv

LEMMA SealStays ==
    ASSUME SealInv, NEW t \in Threads, OnlyThread(t), SealOK(t)',
           UNCHANGED <<cell, metrics, sealed>>,
           word.state = "Finalizing" => word'.state = "Finalizing",
           pc'[t] \in Sealing => pc[t] \in Sealing
    PROVE  SealInv'
  <1>1. ASSUME NEW u \in Threads, u # t
        PROVE  SealOK(u)'
    BY <1>1 DEF SealInv, SealOK, OnlyThread, Ended, Sealing
  <1> QED
    BY <1>1, Zenon DEF SealInv, OnlyThread

LEMMA LinesStay ==
    ASSUME LinesInv, NEW t \in Threads, OnlyThread(t), LinesOK(t)',
           UNCHANGED <<cell, stream, drops>>
    PROVE  LinesInv'
  BY DEF LinesInv, LinesOK, InOrder, Ended, IsTerminal, OnlyThread

LEMMA AccountStays ==
    ASSUME AccountInv, NEW t \in Threads, OnlyThread(t),
           UNCHANGED <<drops, stream, tried>>,
           pc[t] \notin {"account", "ending"}, pc'[t] \notin {"account", "ending"}
    PROVE  AccountInv'
  <1>1. Unaccounted' = Unaccounted
    BY Zenon DEF Unaccounted, OnlyThread
  <1> QED
    BY <1>1, Zenon DEF AccountInv, OnlyThread

\* What an operation does before and after its shared step.
LEMMA QuietStep ==
    ASSUME IInv, CensusType', PlaceType', CallbackType', NEW t \in Threads, OnlyThread(t),
           UNCHANGED <<sinkVars, word, caps, metrics, sealed>>,
           pc[t] \notin {"account", "ending"},
           pc'[t] \notin Sealing \cup {"mint", "account"},
           BorrowOK(t)', SealOK(t)'
    PROVE  IInv'
  <1> USE DEF sinkVars
  <1>0. TypeInv'
    BY Zenon DEF IInv, TypeInv, SinkTypeOK, WordType, CounterType
  <1>1. CountInv' /\ WordInv'
    BY Zenon DEF IInv, CountInv, WordInv, Counted, IsLive
  <1>2. BorrowInv'
    BY BorrowStays, Zenon DEF IInv, TypeInv, CallbackType, IsLive
  <1>3. MintInv'
    <2>1. MintOK(t)'
      BY Zenon DEF MintOK
    <2> QED
      BY <2>1, MintStays, Zenon DEF IInv, Worse
  <1>4. SealInv'
    BY SealStays, Zenon DEF IInv
  <1>5. StateInv'
    BY Zenon DEF IInv, StateInv
  <1>6. LinesInv'
    <2>1. LinesOK(t)'
      BY Zenon DEF LinesOK, Sealing
    <2> QED
      BY <2>1, LinesStay, Zenon DEF IInv
  <1>7. AccountInv'
    BY AccountStays, Zenon DEF IInv, Sealing
  <1> QED
    BY <1>0, <1>1, <1>2, <1>3, <1>4, <1>5, <1>6, <1>7, Zenon DEF IInv

-----------------------------------------------------------------------------
(* The steps around a shared one: only the thread's own place moves. *)

\* A thread that goes elsewhere keeps its place typed.
LEMMA ThreadMoves ==
    ASSUME PlaceType, NEW t \in Threads, NEW place \in PCs, NEW locals,
           pc' = [pc EXCEPT ![t] = place], loc' = [loc EXCEPT ![t] = locals]
    PROVE  /\ PlaceType'
           /\ pc'[t] = place /\ loc'[t] = locals
           /\ \A u \in Threads \ {t} : pc'[u] = pc[u] /\ loc'[u] = loc[u]
  BY Zenon DEF PlaceType

LEMMA TripStep ==
    ASSUME IInv, NEW t \in Threads, Trip(t)
    PROVE  IInv'
  <1>1. pc[t] = "trip" /\ pc' = [pc EXCEPT ![t] = "idle"] /\ loc' = [loc EXCEPT ![t] = Idle]
    BY Zenon DEF Trip, Return, Goto
  <1>2. "idle" \in PCs
    BY Zenon DEF PCs
  <1>3. CensusType' /\ CallbackType'
    BY Zenon DEF IInv, Trip, TypeInv, CensusType, CallbackType
  <1>4. PlaceType' /\ OnlyThread(t) /\ pc'[t] = "idle"
    BY <1>1, <1>2, ThreadMoves, Zenon DEF IInv, TypeInv, OnlyThread, Trip
  <1>5. BorrowOK(t)' /\ SealOK(t)'
    BY <1>4, Zenon DEF IInv, BorrowInv, BorrowOK, SealOK, Borrowing, Sealing, Trip, IsLive
  <1> QED
    BY <1>1, <1>3, <1>4, <1>5, QuietStep, Zenon DEF Trip, Sealing

LEMMA EmitOpenStep ==
    ASSUME IInv, NEW t \in Threads, NEW c \in Caps, EmitOpen(t, c)
    PROVE  IInv'
  <1>1. /\ pc[t] = "idle" /\ pc' = [pc EXCEPT ![t] = "write"]
        /\ loc' = [loc EXCEPT ![t] = [by |-> c]]
    BY Zenon DEF EmitOpen, Goto
  <1>2. "write" \in PCs
    BY Zenon DEF PCs
  <1>3. CensusType' /\ CallbackType'
    BY Zenon DEF IInv, EmitOpen, TypeInv, CensusType, CallbackType
  <1>4. PlaceType' /\ OnlyThread(t) /\ pc'[t] = "write" /\ loc'[t] = [by |-> c]
    BY <1>1, <1>2, Zenon DEF IInv, TypeInv, PlaceType, OnlyThread, EmitOpen
  <1>5. BorrowOK(t)' /\ SealOK(t)'
    BY <1>4, InvocationAssumption
    DEF IInv, BorrowInv, BorrowOK, SealOK, Borrowing, Sealing, EmitOpen, IsLive
  <1> QED
    BY <1>1, <1>3, <1>4, <1>5, QuietStep, Zenon DEF EmitOpen, Sealing

LEMMA TapReturnsStep ==
    ASSUME IInv, NEW t \in Threads, TapReturns(t)
    PROVE  IInv'
  <1>1. CensusType' /\ PlaceType' /\ CallbackType'
    BY Zenon DEF IInv, TapReturns, TypeInv, CensusType, PlaceType, CallbackType, Outcomes
  <1>2. OnlyThread(t) /\ pc[t] = "idle" /\ pc'[t] = "idle" /\ callback'[t] = None
    BY Zenon DEF IInv, TypeInv, CallbackType, OnlyThread, TapReturns
  <1>3. BorrowOK(t)' /\ SealOK(t)'
    BY <1>2, Zenon DEF BorrowOK, SealOK, Borrowing, Sealing
  <1> QED
    BY <1>1, <1>2, <1>3, QuietStep, Zenon DEF TapReturns, Sealing

LEMMA TicketIssueStep ==
    ASSUME IInv, NEW t \in Threads, NEW c \in Caps, TicketIssue(t, c)
    PROVE  IInv'
  <1>1. /\ pc[t] = "idle" /\ pc' = [pc EXCEPT ![t] = "ticket"]
        /\ loc' = [loc EXCEPT ![t] = [by |-> c]]
    BY Zenon DEF TicketIssue, Goto
  <1>2. "ticket" \in PCs
    BY Zenon DEF PCs
  <1>3. CensusType' /\ CallbackType'
    BY InvocationAssumption DEF IInv, TicketIssue, TypeInv, CensusType, CallbackType
  <1>4. PlaceType' /\ OnlyThread(t) /\ pc'[t] = "ticket" /\ loc'[t] = [by |-> c]
    BY <1>1, <1>2, Zenon DEF IInv, TypeInv, PlaceType, OnlyThread, TicketIssue
  <1>5. BorrowOK(t)' /\ SealOK(t)'
    BY <1>4 DEF IInv, BorrowInv, BorrowOK, SealOK, Borrowing, Sealing, TicketIssue, IsLive
  <1> QED
    BY <1>1, <1>3, <1>4, <1>5, QuietStep, Zenon DEF TicketIssue, Sealing

LEMMA TicketDropStep ==
    ASSUME IInv, NEW t \in Threads, TicketDrop(t)
    PROVE  IInv'
  <1>1. /\ pc[t] = "idle" /\ pc' = [pc EXCEPT ![t] = "ticket"]
        /\ loc' = [loc EXCEPT ![t] = Idle]
    BY Zenon DEF TicketDrop, Goto
  <1>2. "ticket" \in PCs
    BY Zenon DEF PCs
  <1>3. CensusType' /\ CallbackType'
    BY InvocationAssumption DEF IInv, TicketDrop, TypeInv, CensusType, CallbackType
  <1>4. PlaceType' /\ OnlyThread(t) /\ pc'[t] = "ticket" /\ loc'[t] = Idle
    BY <1>1, <1>2, Zenon DEF IInv, TypeInv, PlaceType, OnlyThread, TicketDrop
  <1>5. BorrowOK(t)' /\ SealOK(t)'
    BY <1>4 DEF IInv, BorrowInv, BorrowOK, SealOK, Borrowing, Sealing, TicketDrop, IsLive, Idle
  <1> QED
    BY <1>1, <1>3, <1>4, <1>5, QuietStep, Zenon DEF TicketDrop, Sealing

LEMMA TicketUnlockStep ==
    ASSUME IInv, NEW t \in Threads, TicketUnlock(t)
    PROVE  IInv'
  <1>1. pc[t] = "ticket" /\ pc' = [pc EXCEPT ![t] = "idle"] /\ loc' = [loc EXCEPT ![t] = Idle]
    BY Zenon DEF TicketUnlock, Return, Goto
  <1>2. "idle" \in PCs
    BY Zenon DEF PCs
  <1>3. CensusType' /\ CallbackType'
    BY Zenon DEF IInv, TicketUnlock, TypeInv, CensusType, CallbackType
  <1>4. PlaceType' /\ OnlyThread(t) /\ pc'[t] = "idle"
    BY <1>1, <1>2, ThreadMoves, Zenon DEF IInv, TypeInv, OnlyThread, TicketUnlock
  <1>5. BorrowOK(t)' /\ SealOK(t)'
    BY <1>4, Zenon DEF IInv, BorrowInv, BorrowOK, SealOK, Borrowing, Sealing, TicketUnlock, IsLive
  <1> QED
    BY <1>1, <1>3, <1>4, <1>5, QuietStep, Zenon DEF TicketUnlock, Sealing

LEMMA ToldTyped ==
    ASSUME CallbackType, NEW t \in Threads, NEW what \in Outcomes, Told(t, what),
           UNCHANGED callback
    PROVE  CallbackType'
  <1>1. (IF callback[t] = None THEN "none" ELSE what) \in Outcomes
    BY Zenon DEF Outcomes
  <1> QED
    BY <1>1, Zenon DEF CallbackType, Told

LEMMA ClassifyStep ==
    ASSUME IInv, NEW t \in Threads, Classify(t)
    PROVE  IInv'
  <1>1. pc[t] = "classify" /\ loc[t] \in [by : {None}, seen : Words]
    BY Zenon DEF IInv, SealInv, SealOK, Classify
  <1>2. CensusType'
    BY Zenon DEF IInv, TypeInv, CensusType, Classify
  <1>3. CASE Reason(loc[t].seen) = "census"
    <2>1. pc' = [pc EXCEPT ![t] = "census"] /\ UNCHANGED <<loc, outcome, callback, caps>>
      BY <1>3, Zenon DEF Classify, Goto
    <2>2. PlaceType' /\ CallbackType' /\ OnlyThread(t) /\ pc'[t] = "census"
      BY <2>1, Zenon DEF IInv, TypeInv, PlaceType, CallbackType, OnlyThread, PCs
    <2>3. BorrowOK(t)' /\ SealOK(t)'
      BY <1>1, <2>1, <2>2, Zenon
      DEF IInv, BorrowInv, BorrowOK, SealOK, Borrowing, Sealing, IsLive
    <2> QED
      BY <1>1, <1>2, <2>2, <2>3, QuietStep, Zenon DEF Classify, Sealing
  <1>4. CASE Reason(loc[t].seen) # "census"
    <2>1. /\ pc' = [pc EXCEPT ![t] = "idle"] /\ loc' = [loc EXCEPT ![t] = Idle]
          /\ Told(t, Reason(loc[t].seen)) /\ UNCHANGED <<callback, caps>>
      BY <1>4, Zenon DEF Classify, SealReturns, Return, Goto
    <2>2. PlaceType' /\ OnlyThread(t) /\ pc'[t] = "idle"
      BY <2>1, Zenon DEF IInv, TypeInv, PlaceType, OnlyThread, PCs
    <2>3. CallbackType'
      <3>1. Reason(loc[t].seen) \in Outcomes
        BY <1>1, <1>4, ReasonTyped, Zenon
      <3> QED
        BY <2>1, <3>1, ToldTyped, Zenon DEF IInv, TypeInv
    <2>4. BorrowOK(t)' /\ SealOK(t)'
      BY <2>1, <2>2, Zenon DEF IInv, BorrowInv, BorrowOK, SealOK, Borrowing, Sealing, IsLive
    <2> QED
      BY <1>1, <1>2, <2>2, <2>3, <2>4, QuietStep, Zenon DEF Classify, Sealing
  <1> QED
    BY <1>3, <1>4, Zenon

LEMMA ReadCensusStep ==
    ASSUME IInv, NEW t \in Threads, ReadCensus(t)
    PROVE  IInv'
  <1> DEFINE answer == IF lock # None THEN "Busy"
                       ELSE IF census = 0 THEN "Unticketed" ELSE "Outstanding"
  <1>1. /\ pc[t] = "census" /\ pc' = [pc EXCEPT ![t] = "idle"]
        /\ loc' = [loc EXCEPT ![t] = Idle] /\ Told(t, answer) /\ UNCHANGED <<callback, caps>>
    BY Zenon DEF ReadCensus, SealReturns, Return, Goto
  <1>2. CensusType'
    BY Zenon DEF IInv, TypeInv, CensusType, ReadCensus
  <1>3. CallbackType'
    <2>1. answer \in Outcomes
      BY Zenon DEF Outcomes
    <2> HIDE DEF answer
    <2> QED
      BY <1>1, <2>1, ToldTyped, Zenon DEF IInv, TypeInv
  <1>4. PlaceType' /\ OnlyThread(t) /\ pc'[t] = "idle"
    BY <1>1, Zenon DEF IInv, TypeInv, PlaceType, OnlyThread, PCs
  <1>5. BorrowOK(t)' /\ SealOK(t)'
    BY <1>1, <1>4, Zenon DEF IInv, BorrowInv, BorrowOK, SealOK, Borrowing, Sealing, IsLive
  <1> QED
    BY <1>1, <1>2, <1>3, <1>4, <1>5, QuietStep, Zenon DEF ReadCensus, Sealing

\* A seal that does not find the word all zero takes what it found away.
LEMMA SealRefusedStep ==
    ASSUME IInv, NEW t \in Threads, SealExchange(t), ~Sealable
    PROVE  IInv'
  <1>1. /\ pc[t] = "idle" /\ pc' = [pc EXCEPT ![t] = "classify"]
        /\ loc' = [loc EXCEPT ![t] = [by |-> None, seen |-> word]]
        /\ outcome' = [outcome EXCEPT ![t] = "none"]
        /\ UNCHANGED <<sinkVars, word, caps, metrics, sealed, census, lock, tickets,
                       tripped, tap_failed, callback>>
    BY Zenon DEF SealExchange, Goto
  <1>2. CensusType' /\ CallbackType'
    BY <1>1, Zenon DEF IInv, TypeInv, CensusType, CallbackType, Outcomes
  <1>3. /\ PlaceType' /\ OnlyThread(t) /\ pc'[t] = "classify"
        /\ loc'[t] = [by |-> None, seen |-> word]
    BY <1>1, Zenon DEF IInv, TypeInv, PlaceType, OnlyThread, PCs
  <1>4. BorrowOK(t)'
    BY <1>1, <1>3, Zenon DEF IInv, BorrowInv, BorrowOK, Borrowing, IsLive
  <1>5. SealOK(t)'
    <2>1. loc'[t] \in [by : {None}, seen : Words] /\ loc'[t].seen.state = word.state
      BY <1>3 DEF IInv, TypeInv, WordType
    <2>2. word.state = "Sealed" => sealed' # NoSnapshot
      BY <1>1, SnapshotFacts, Zenon DEF IInv, StateInv, TypeInv, CounterType
    <2> QED
      BY <1>3, <2>1, <2>2, Zenon DEF SealOK, Sealing
  <1> QED
    BY <1>1, <1>2, <1>3, <1>4, <1>5, QuietStep, Zenon DEF Sealing

-----------------------------------------------------------------------------
(* Capabilities come and go. *)

\* Recording needs a live capability, so nothing has been snapshot yet.
LEMMA RecordStep ==
    ASSUME IInv, NEW c \in Caps, NEW k \in Counters, Record(c, k)
    PROVE  IInv'
  <1> USE DEF sinkVars, threadVars
  <1>1. word.state = "Open" /\ sealed = NoSnapshot
    BY Zenon DEF IInv, WordInv, StateInv, Record
  <1>2. TypeInv'
    <2>1. CounterType'
      BY InvocationAssumption DEF IInv, TypeInv, CounterType, Record
    <2> QED
      BY <2>1, Zenon
      DEF IInv, TypeInv, SinkTypeOK, WordType, CensusType, PlaceType, CallbackType, Record
  <1>3. CountInv' /\ WordInv' /\ BorrowInv' /\ MintInv'
    BY Zenon DEF IInv, CountInv, WordInv, BorrowInv, BorrowOK, MintInv, MintOK, Counted, IsLive, Record
  <1>4. SealInv'
    BY <1>1, Zenon DEF IInv, SealInv, SealOK, Sealing, Record
  <1>5. StateInv'
    BY <1>1, Zenon DEF IInv, StateInv, Record
  <1>6. LinesInv' /\ AccountInv'
    BY DEF IInv, LinesInv, LinesOK, InOrder, Ended, AccountInv, Unaccounted, Record
  <1> QED
    BY <1>2, <1>3, <1>4, <1>5, <1>6, Zenon DEF IInv


LEMMA DropStep ==
    ASSUME IInv, NEW c \in Caps, Drop(c)
    PROVE  IInv'
  <1> USE DEF sinkVars, threadVars
  <1>1. /\ caps \in [Caps -> CapStates] /\ caps' \in [Caps -> CapStates]
        /\ caps' = [caps EXCEPT ![c] = Free]
        /\ caps[c].unit \in Units /\ caps[c].counted \in BOOLEAN
    BY CapFacts DEF IInv, TypeInv, Drop, IsLive, CapStates
  <1>2. \A d \in Caps : IsLive(d)' <=> IsLive(d) /\ d # c
    BY <1>1, CapFacts DEF IsLive
  <1>3. \A d \in Caps \ {c} : caps'[d] = caps[d]
    BY <1>1, Zenon
  <1>4. /\ word.state = "Open" /\ word \in Words /\ word' \in Words
        /\ word'.state = word.state /\ word'.saturated = word.saturated
        /\ word'.guard <= word.guard /\ word'.permit <= word.permit
        /\ \A u \in Units : Counts(word'[u], Counted(u)')
    <2>1. word \in Words /\ word.state = "Open"
      BY Zenon DEF IInv, TypeInv, WordType, WordInv, Drop
    <2>2. CASE ~caps[c].counted
      <3>1. \A u \in Units : Counted(u)' = Counted(u)
        BY <1>2, <1>3, <2>2, Zenon DEF Counted
      <3>2. word' = word
        BY <2>2, Zenon DEF Drop
      <3> QED
        BY <2>1, <3>1, <3>2 DEF IInv, CountInv, Words
    <2>3. CASE caps[c].counted
      <3>0. PICK unit \in Units : unit = caps[c].unit
        BY <1>1, Zenon
      <3>1. word' = [word EXCEPT ![unit] = word[unit] - 1]
        BY <2>3, <3>0, Zenon DEF Drop
      <3>2. c \in Counted(unit) /\ Counted(unit)' = Counted(unit) \ {c}
        BY <1>2, <1>3, <2>3, <3>0, Zenon DEF Counted, Drop
      <3>3. Counts(word[unit], Counted(unit))
        BY Zenon DEF IInv, CountInv
      <3>4. Counts(word[unit] - 1, Counted(unit)')
        BY <3>2, <3>3, CountsRemove
      <3>5. word[unit] - 1 \in Nat
        BY <3>4, CountsEmpty, Zenon
      <3>6. \A u \in Units : u # unit => Counted(u)' = Counted(u)
        BY <1>2, <1>3, <3>0, Zenon DEF Counted
      <3>7. /\ word' \in Words /\ word'[unit] = word[unit] - 1
            /\ word'.state = word.state /\ word'.saturated = word.saturated
            /\ word'.guard <= word.guard /\ word'.permit <= word.permit
            /\ \A u \in Units : u # unit => word'[u] = word[u]
        <4>1. CASE unit = "guard"
          BY <2>1, <3>1, <3>5, <4>1 DEF Words, Units
        <4>2. CASE unit = "permit"
          BY <2>1, <3>1, <3>5, <4>2 DEF Words, Units
        <4> QED
          BY <4>1, <4>2, Zenon DEF Units
      <3>8. ASSUME NEW u \in Units
            PROVE  Counts(word'[u], Counted(u)')
        BY <3>4, <3>6, <3>7, Zenon DEF IInv, CountInv
      <3> QED
        BY <2>1, <3>7, <3>8, Zenon
    <2> QED
      BY <1>1, <2>2, <2>3, Zenon
  <1>5. TypeInv'
    <2>1. WordType'
      BY <1>4, InvocationAssumption DEF IInv, TypeInv, WordType, Words
    <2> QED
      BY <1>1, <2>1, Zenon
      DEF IInv, TypeInv, SinkTypeOK, CounterType, CensusType, PlaceType, CallbackType, Drop
  <1>6. CountInv'
    BY <1>4, Zenon DEF CountInv
  <1>7. WordInv'
    BY <1>2, <1>3, <1>4, Zenon DEF IInv, WordInv
  <1>8. BorrowInv'
    BY <1>2, Zenon DEF IInv, BorrowInv, BorrowOK, Drop, Borrowed, Borrowing, TypeInv, CallbackType
  <1>9. MintInv'
    BY <1>3, <1>4, CapFacts DEF IInv, MintInv, MintOK, MintLocals, Drop, IsLive
  <1>10. SealInv' /\ StateInv'
    BY <1>4, Zenon DEF IInv, SealInv, SealOK, StateInv, Sealing, Ended, Drop
  <1>11. LinesInv' /\ AccountInv'
    BY DEF IInv, LinesInv, LinesOK, InOrder, Ended, AccountInv, Unaccounted, Drop
  <1> QED
    BY <1>5, <1>6, <1>7, <1>8, <1>9, <1>10, <1>11, Zenon DEF IInv

LEMMA MintLoadStep ==
    ASSUME IInv, NEW t \in Threads, NEW c \in Caps, NEW unit \in Units, NEW by \in Caps \cup {None},
           NEW then \in {"call", "cancel"}, MintLoad(t, c, unit, by, then)
    PROVE  IInv'
  <1> USE DEF sinkVars
  <1> DEFINE locals == [by |-> by, cap |-> c, unit |-> unit, then |-> then, seen |-> word]
  <1>1. /\ pc[t] = "idle" /\ caps[c] = Free /\ (by # None => IsLive(by))
        /\ caps' = [caps EXCEPT ![c] = Minting] /\ pc' = [pc EXCEPT ![t] = "mint"]
        /\ loc' = [loc EXCEPT ![t] = locals]
        /\ UNCHANGED <<sinkVars, word, metrics, sealed, census, lock, tickets, tripped,
                       tap_failed, callback, outcome>>
    BY Zenon DEF MintLoad, Goto
  <1>2. locals \in MintLocals /\ locals.by = by /\ locals.cap = c /\ locals.seen = word
    BY Zenon DEF IInv, TypeInv, WordType, MintLocals
  <1> HIDE DEF locals
  <1>3. PlaceType' /\ OnlyThread(t) /\ pc'[t] = "mint" /\ loc'[t] = locals
    BY <1>1, ZenonT(30) DEF IInv, TypeInv, PlaceType, OnlyThread, PCs
  <1>4. /\ caps' \in [Caps -> CapStates]
        /\ caps'[c] = Minting /\ \A d \in Caps \ {c} : caps'[d] = caps[d]
        /\ \A d \in Caps : IsLive(d)' <=> IsLive(d)
    BY <1>1, CapFacts DEF IInv, TypeInv, IsLive, CapStates
  <1>5. TypeInv'
    BY <1>1, <1>3, <1>4, Zenon
    DEF IInv, TypeInv, SinkTypeOK, WordType, CounterType, CensusType, CallbackType
  <1>6. CountInv'
    <2>1. \A u \in Units : Counted(u)' = Counted(u)
      BY <1>1, <1>4, CapFacts DEF Counted, IsLive
    <2> QED
      BY <1>1, <2>1, ZenonT(30) DEF IInv, CountInv
  <1>7. WordInv'
    BY <1>1, <1>4, CapFacts DEF IInv, WordInv, IsLive
  <1>8. BorrowInv'
    <2>1. BorrowOK(t)'
      BY <1>1, <1>2, <1>3, <1>4, Zenon DEF IInv, BorrowInv, BorrowOK, TypeInv, CallbackType
    <2> QED
      BY <1>3, <1>4, <2>1, BorrowStays, Zenon DEF IInv, TypeInv, CallbackType
  <1>9. MintInv'
    <2>1. MintOK(t)'
      BY <1>1, <1>2, <1>3, <1>4, Zenon DEF MintOK
    <2> QED
      BY <1>1, <1>2, <1>3, <1>4, <2>1, MintStays, Zenon DEF IInv, Worse
  <1>10. SealInv'
    <2>1. SealOK(t)'
      BY <1>3, Zenon DEF SealOK, Sealing
    <2> QED
      BY <1>1, <1>3, <2>1, SealStays, Zenon DEF IInv, Sealing
  <1>11. StateInv'
    BY <1>1, Zenon DEF IInv, StateInv
  <1>12. LinesInv'
    <2>1. LinesOK(t)'
      BY <1>3, Zenon DEF LinesOK
    <2> QED
      BY <1>1, <1>3, <2>1, LinesStay, Zenon DEF IInv
  <1>13. AccountInv'
    BY <1>1, <1>3, AccountStays, Zenon DEF IInv
  <1> QED
    BY <1>5, <1>6, <1>7, <1>8, <1>9, <1>10, <1>11, <1>12, <1>13, Zenon DEF IInv

\* A mint that loses the exchange looks again.
LEMMA MintRetryStep ==
    ASSUME IInv, NEW t \in Threads, pc[t] = "mint", loc' = [loc EXCEPT ![t].seen = word],
           UNCHANGED <<sinkVars, word, caps, metrics, sealed, census, lock, tickets, tripped,
                       tap_failed, pc, callback, outcome>>
    PROVE  IInv'
  <1> USE DEF sinkVars
  <1>1. loc[t] \in MintLocals /\ caps[loc[t].cap] = Minting /\ word \in Words
    BY Zenon DEF IInv, MintInv, MintOK, TypeInv, WordType
  <1>2. PlaceType' /\ OnlyThread(t) /\ loc'[t] = [loc[t] EXCEPT !.seen = word]
    BY Zenon DEF IInv, TypeInv, PlaceType, OnlyThread
  <1>3. loc'[t] \in MintLocals /\ loc'[t].by = loc[t].by /\ loc'[t].cap = loc[t].cap /\ loc'[t].seen = word
    BY <1>1, <1>2 DEF MintLocals
  <1>4. TypeInv'
    BY <1>2, Zenon DEF IInv, TypeInv, SinkTypeOK, WordType, CounterType, CensusType, CallbackType
  <1>5. CountInv' /\ WordInv' /\ StateInv'
    BY Zenon DEF IInv, CountInv, WordInv, StateInv, Counted, IsLive
  <1>6. BorrowInv'
    <2>1. BorrowOK(t)'
      BY <1>3, Zenon DEF IInv, BorrowInv, BorrowOK, IsLive
    <2> QED
      BY <1>2, <2>1, BorrowStays, Zenon DEF IInv, TypeInv, CallbackType, IsLive
  <1>7. MintInv'
    <2>1. MintOK(t)'
      BY <1>1, <1>3, Zenon DEF MintOK
    <2> QED
      BY <1>2, <1>3, <2>1, MintStays, Zenon DEF IInv, Worse
  <1>8. SealInv'
    <2>1. SealOK(t)'
      BY Zenon DEF SealOK, Sealing
    <2> QED
      BY <1>2, <2>1, SealStays, Zenon DEF IInv
  <1>9. LinesInv'
    <2>1. LinesOK(t)'
      BY Zenon DEF LinesOK
    <2> QED
      BY <1>2, <2>1, LinesStay, Zenon DEF IInv
  <1>10. AccountInv'
    BY <1>2, AccountStays, Zenon DEF IInv
  <1> QED
    BY <1>4, <1>5, <1>6, <1>7, <1>8, <1>9, <1>10, Zenon DEF IInv

\* A mint that is refused gives its identity back.
LEMMA MintRefusedStep ==
    ASSUME IInv, NEW t \in Threads, pc[t] = "mint",
           caps' = [caps EXCEPT ![loc[t].cap] = Free], Return(t), CallbackType',
           UNCHANGED <<sinkVars, word, metrics, sealed, census, lock, tickets, tripped,
                       tap_failed, callback>>
    PROVE  IInv'
  <1> USE DEF sinkVars
  <1>1. PICK c \in Caps : c = loc[t].cap /\ caps[c] = Minting
    BY Zenon DEF IInv, MintInv, MintOK, MintLocals
  <1>2. PlaceType' /\ OnlyThread(t) /\ pc'[t] = "idle"
    BY Zenon DEF IInv, TypeInv, PlaceType, OnlyThread, PCs, Return, Goto
  <1>3. /\ caps' \in [Caps -> CapStates]
        /\ \A d \in Caps \ {c} : caps'[d] = caps[d]
        /\ \A d \in Caps : IsLive(d)' <=> IsLive(d)
    BY <1>1, CapFacts DEF IInv, TypeInv, IsLive, CapStates
  <1>4. TypeInv'
    BY <1>2, <1>3, Zenon DEF IInv, TypeInv, SinkTypeOK, WordType, CounterType, CensusType
  <1>5. CountInv'
    <2>1. \A u \in Units : Counted(u)' = Counted(u)
      BY <1>1, <1>3, CapFacts DEF Counted, IsLive
    <2> QED
      BY <2>1, Zenon DEF IInv, CountInv
  <1>6. WordInv' /\ StateInv'
    BY <1>1, <1>3, CapFacts DEF IInv, WordInv, IsLive, StateInv
  <1>7. BorrowInv'
    <2>1. BorrowOK(t)'
      BY <1>2, <1>3, Zenon DEF IInv, BorrowInv, BorrowOK, Borrowing, TypeInv, CallbackType
    <2> QED
      BY <1>2, <1>3, <2>1, BorrowStays, Zenon DEF IInv, TypeInv, CallbackType
  <1>8. MintInv'
    <2>1. MintOK(t)'
      BY <1>2, Zenon DEF MintOK
    <2> QED
      BY <1>1, <1>2, <1>3, <2>1, MintStays, Zenon DEF IInv, Worse
  <1>9. SealInv'
    <2>1. SealOK(t)'
      BY <1>2, Zenon DEF SealOK, Sealing
    <2> QED
      BY <1>2, <2>1, SealStays, Zenon DEF IInv, Sealing
  <1>10. LinesInv'
    <2>1. LinesOK(t)'
      BY <1>2, Zenon DEF LinesOK
    <2> QED
      BY <1>2, <2>1, LinesStay, Zenon DEF IInv
  <1>11. AccountInv'
    BY <1>2, AccountStays, Zenon DEF IInv
  <1> QED
    BY <1>4, <1>5, <1>6, <1>7, <1>8, <1>9, <1>10, <1>11, Zenon DEF IInv

\* A mint that succeeds: the word stays Open, and counts the new capability or
\* remembers that one went uncounted.
LEMMA MintedStep ==
    ASSUME IInv, NEW t \in Threads, pc[t] = "mint", NEW counted \in BOOLEAN, Minted(t, counted),
           word.state = "Open", word'.state = "Open", WordType',
           counted \/ word'.saturated, word.saturated => word'.saturated,
           \A u \in Units : word'[u] = IF counted /\ u = loc[t].unit THEN word[u] + 1 ELSE word[u],
           UNCHANGED <<sinkVars, metrics, sealed, census, lock, tickets, tripped,
                       tap_failed, callback, outcome>>
    PROVE  IInv'
  <1> USE DEF sinkVars
  <1>1. PICK c \in Caps, unit \in Units :
          c = loc[t].cap /\ unit = loc[t].unit /\ caps[c] = Minting
    BY Zenon DEF IInv, MintInv, MintOK, MintLocals
  <1>2. /\ caps' = [caps EXCEPT ![c] = Live(unit, counted)]
        /\ caps' \in [Caps -> CapStates]
    BY <1>1 DEF Minted, IInv, TypeInv, CapStates
  <1>3. /\ caps'[c] = Live(unit, counted) /\ \A d \in Caps \ {c} : caps'[d] = caps[d]
        /\ \A d \in Caps : IsLive(d)' <=> IsLive(d) \/ d = c
    BY <1>1, <1>2, CapFacts DEF IInv, TypeInv, IsLive
  <1>4. /\ PlaceType' /\ OnlyThread(t)
        /\ \/ pc'[t] = "idle"
           \/ pc'[t] = "trip" /\ loc'[t] = [by |-> c]
    <2>1. CASE loc[t].then = "cancel"
      <3>1. pc' = [pc EXCEPT ![t] = "trip"] /\ loc' = [loc EXCEPT ![t] = [by |-> c]]
        BY <1>1, <2>1, Zenon DEF Minted, Goto
      <3> QED
        BY <3>1, Zenon DEF IInv, TypeInv, PlaceType, OnlyThread, PCs
    <2>2. CASE loc[t].then # "cancel"
      <3>1. pc' = [pc EXCEPT ![t] = "idle"] /\ loc' = [loc EXCEPT ![t] = Idle]
        BY <2>2, Zenon DEF Minted, Return, Goto
      <3> QED
        BY <3>1, Zenon DEF IInv, TypeInv, PlaceType, OnlyThread, PCs
    <2> QED
      BY <2>1, <2>2, Zenon
  <1>5. TypeInv'
    BY <1>2, <1>4, Zenon DEF IInv, TypeInv, SinkTypeOK, CounterType, CensusType, CallbackType
  <1>6. CountInv'
    <2>1. ASSUME NEW u \in Units, counted, u = unit
          PROVE  Counts(word'[u], Counted(u)')
      <3>0. c \notin Counted(u) /\ caps'[c].unit = u /\ caps'[c].counted = TRUE
        <4>1. counted = TRUE
          BY <2>1, Zenon
        <4>2. caps'[c] = Live(u, TRUE)
          BY <1>3, <2>1, <4>1, Zenon
        <4>3. caps'[c].unit = u /\ caps'[c].counted = TRUE
          BY <4>2 DEF Live
        <4>4. ~IsLive(c)
          BY <1>1, CapFacts DEF IsLive
        <4> QED
          BY <4>3, <4>4, Zenon DEF Counted
      <3>1. Counted(u)' = Counted(u) \cup {c}
        BY <1>3, <3>0, Zenon DEF Counted
      <3>2. Counts(word[u], Counted(u)) /\ word'[u] = word[u] + 1
        BY <1>1, <2>1, Zenon DEF IInv, CountInv
      <3> QED
        BY <3>0, <3>1, <3>2, CountsAdd
    <2>2. ASSUME NEW u \in Units, ~(counted /\ u = unit)
          PROVE  Counts(word'[u], Counted(u)')
      <3>1. Counted(u)' = Counted(u)
        BY <1>1, <1>3, <2>2, CapFacts DEF Counted, IsLive
      <3>2. word'[u] = word[u]
        BY <1>1, <2>2, Zenon
      <3> QED
        BY <3>1, <3>2, Zenon DEF IInv, CountInv
    <2> QED
      BY <2>1, <2>2, Zenon DEF CountInv
  <1>7. WordInv'
    BY <1>3, CapFacts DEF IInv, WordInv
  <1>8. BorrowInv'
    <2>1. BorrowOK(t)'
      BY <1>3, <1>4, InvocationAssumption
      DEF IInv, BorrowInv, BorrowOK, Borrowing, TypeInv, CallbackType
    <2> QED
      BY <1>3, <1>4, <2>1, BorrowStays, Zenon DEF IInv, TypeInv, CallbackType
  <1>9. MintInv'
    <2>1. MintOK(t)'
      BY <1>4, Zenon DEF MintOK
    <2> QED
      BY <1>1, <1>3, <1>4, <2>1, MintStays, Zenon DEF IInv, Worse
  <1>10. SealInv' /\ StateInv'
    <2>1. SealOK(t)'
      BY <1>4, Zenon DEF SealOK, Sealing
    <2> QED
      BY <1>4, <2>1, SealStays, Zenon DEF IInv, Sealing, StateInv
  <1>11. LinesInv'
    <2>1. LinesOK(t)'
      BY <1>4, Zenon DEF LinesOK
    <2> QED
      BY <1>4, <2>1, LinesStay, Zenon DEF IInv
  <1>12. AccountInv'
    BY <1>4, AccountStays, Zenon DEF IInv
  <1> QED
    BY <1>5, <1>6, <1>7, <1>8, <1>9, <1>10, <1>11, <1>12, Zenon DEF IInv

LEMMA MintTurnStep ==
    ASSUME IInv, NEW t \in Threads, MintTurn(t)
    PROVE  IInv'
  <1> DEFINE seen == loc[t].seen
             unit == loc[t].unit
             full == IsFull(seen, unit)
             next == IF full THEN [seen EXCEPT !.saturated = TRUE] ELSE [seen EXCEPT ![unit] = @ + 1]
  <1>1. /\ pc[t] = "mint"
        /\ UNCHANGED <<sinkVars, metrics, sealed, census, lock, tickets, tripped,
                       tap_failed, callback>>
    BY Zenon DEF MintTurn
  <1>2. /\ loc[t] \in MintLocals /\ (seen.state # "Open" => word.state # "Open")
        /\ (seen.saturated => word.saturated) /\ WordType
    BY <1>1, Zenon DEF IInv, MintInv, MintOK, TypeInv
  <1>3. CASE seen.state # "Open" /\ loc[t].by = None
    <2>1. /\ caps' = [caps EXCEPT ![loc[t].cap] = Free] /\ Return(t) /\ UNCHANGED word
          /\ Told(t, IF loc[t].then = "cancel" THEN "Ended" ELSE "none")
      BY <1>3, Zenon DEF MintTurn
    <2>2. CallbackType'
      <3>1. (IF loc[t].then = "cancel" THEN "Ended" ELSE "none") \in Outcomes
        BY Zenon DEF Outcomes
      <3> QED
        BY <1>1, <2>1, <3>1, ToldTyped, Zenon DEF IInv, TypeInv
    <2> QED
      BY <1>1, <2>1, <2>2, MintRefusedStep, Zenon
  <1>4. CASE seen.state # "Open" /\ loc[t].by # None
    BY <1>1, <1>2, <1>4, Zenon DEF IInv, BorrowInv, BorrowOK, Borrowing, WordInv
  <1>5. CASE seen.state = "Open" /\ full /\ seen.saturated
    <2>1. Minted(t, FALSE) /\ UNCHANGED <<word, outcome>>
      BY <1>5, Zenon DEF MintTurn
    <2>2. word.saturated /\ word.state = "Open" /\ WordType'
      BY <1>2, <1>5, <2>1, Zenon DEF IInv, WordInv, WordType
    <2> QED
      BY <1>1, <2>1, <2>2, MintedStep, Zenon
  <1>6. CASE seen.state = "Open" /\ ~(full /\ seen.saturated)
    <2>1. Exchange(t, seen, next, ~full) /\ UNCHANGED outcome
      BY <1>6, Zenon DEF MintTurn
    <2>2. CASE word # seen
      BY <1>1, <2>1, <2>2, MintRetryStep, Zenon DEF Exchange
    <2>3. CASE word = seen
      <3>1. word' = next /\ Minted(t, ~full)
        BY <2>1, <2>3, Zenon DEF Exchange
      <3>2. CASE full
        <4>1. word' = [word EXCEPT !.saturated = TRUE]
          BY <2>3, <3>1, <3>2, Zenon
        <4>2. /\ WordType' /\ word'.state = "Open" /\ word'.saturated
              /\ \A u \in Units : word'[u] = word[u]
          BY <1>2, <1>6, <2>3, <4>1, Zenon DEF WordType, Words, Units
        <4> QED
          BY <1>1, <1>6, <2>1, <2>3, <3>1, <3>2, <4>2, MintedStep, Zenon
      <3>3. CASE ~full
        <4>1. PICK u \in Units : u = unit
          BY <1>2, Zenon DEF MintLocals
        <4>2. word' = [word EXCEPT ![u] = word[u] + 1] /\ word[u] # FieldMax(u)
          BY <2>3, <3>1, <3>3, <4>1, Zenon DEF IsFull
        <4>3. /\ WordType' /\ word'.state = word.state /\ word'.saturated = word.saturated
              /\ \A v \in Units : word'[v] = IF v = u THEN word[v] + 1 ELSE word[v]
          <5>1. CASE u = "guard"
            BY <1>2, <4>2, <5>1, InvocationAssumption DEF WordType, Words, Units, FieldMax
          <5>2. CASE u = "permit"
            BY <1>2, <4>2, <5>2, InvocationAssumption DEF WordType, Words, Units, FieldMax
          <5> QED
            BY <5>1, <5>2, Zenon DEF Units
        <4> QED
          BY <1>1, <1>6, <2>1, <2>3, <3>1, <3>3, <4>1, <4>3, MintedStep, Zenon
      <3> QED
        BY <3>2, <3>3, Zenon
    <2> QED
      BY <2>2, <2>3, Zenon
  <1> QED
    BY <1>3, <1>4, <1>5, <1>6, Zenon

-----------------------------------------------------------------------------
(* Ordinary records: each holds a live capability, so the stream is open. *)

LEMMA EmittingIsOpen ==
    ASSUME IInv, NEW t \in Threads, pc[t] \in {"write", "account"}
    PROVE  /\ loc[t].by \in Caps /\ IsLive(loc[t].by)
           /\ word.state = "Open" /\ cell = "open" /\ sealed = NoSnapshot
           /\ \A u \in Threads : pc[u] \notin Sealing
           /\ \A i \in 1 .. Len(stream) : stream[i].kind = "record"
  <1>1. loc[t].by \in Caps /\ IsLive(loc[t].by)
    BY Zenon DEF IInv, BorrowInv, BorrowOK, Borrowing
  <1>2. word.state = "Open"
    BY <1>1, Zenon DEF IInv, WordInv
  <1>3. cell = "open" /\ sealed = NoSnapshot
    BY <1>2, Zenon DEF IInv, StateInv
  <1>4. \A u \in Threads : pc[u] \notin Sealing
    BY <1>2, Zenon DEF IInv, SealInv, SealOK
  <1> QED
    BY <1>1, <1>2, <1>3, <1>4, Zenon DEF IInv, LinesInv

LEMMA EmitWriteStep ==
    ASSUME IInv, NEW t \in Threads, NEW sent \in Sent, EmitWrite(t, sent)
    PROVE  IInv'
  <1> DEFINE line == Line("record", 0)
             locals == [by |-> loc[t].by, sent |-> sent]
  <1>1. /\ pc[t] = "write" /\ pc' = [pc EXCEPT ![t] = "account"]
        /\ loc' = [loc EXCEPT ![t] = locals]
        /\ stream' = (IF sent = "Whole" THEN Append(stream, line) ELSE stream)
        /\ tried' = tried + 1
        /\ UNCHANGED <<cell, drops, hard_error, word, caps, metrics, sealed, census, lock,
                       tickets, tripped, tap_failed, callback, outcome>>
    BY Zenon DEF EmitWrite, Goto, Emit
  <1>2. /\ loc[t].by \in Caps /\ IsLive(loc[t].by) /\ word.state = "Open" /\ cell = "open"
        /\ \A u \in Threads : pc[u] \notin Sealing
        /\ \A i \in 1 .. Len(stream) : stream[i].kind = "record"
    BY <1>1, EmittingIsOpen, Zenon
  <1>3. /\ locals \in [by : Caps \cup {None}, sent : Sent]
        /\ locals.by = loc[t].by /\ locals.sent = sent /\ line \in Lines /\ line.kind = "record"
    BY <1>2, Zenon DEF Line, Lines
  <1> HIDE DEF line, locals
  <1>4. PlaceType' /\ OnlyThread(t) /\ pc'[t] = "account" /\ loc'[t] = locals
    <2>1. "account" \in PCs /\ PlaceType
      BY Zenon DEF PCs, IInv, TypeInv
    <2>2. pc' = [pc EXCEPT ![t] = "account"] /\ loc' = [loc EXCEPT ![t] = locals] /\ UNCHANGED callback
      BY <1>1, Zenon
    <2> QED
      BY <2>1, <2>2, Zenon DEF PlaceType, OnlyThread
  <1>5. /\ stream \in Seq(Lines) /\ stream' \in Seq(Lines)
        /\ Len(stream) \in Nat /\ Len(stream') = Len(stream) + (IF sent = "Whole" THEN 1 ELSE 0)
        /\ \A i \in 1 .. Len(stream') : stream'[i].kind = "record"
    <2>1. stream \in Seq(Lines) /\ Len(stream) \in Nat
      BY DEF IInv, TypeInv, SinkTypeOK
    <2>2. CASE sent = "Whole"
      BY <1>1, <1>2, <1>3, <2>1, <2>2, AppendFacts
    <2>3. CASE sent # "Whole"
      BY <1>1, <1>2, <2>1, <2>3
    <2> QED
      BY <2>2, <2>3, Zenon
  <1>6. TypeInv'
    BY <1>1, <1>4, <1>5
    DEF IInv, TypeInv, SinkTypeOK, WordType, CounterType, CensusType, CallbackType
  <1>7. CountInv' /\ WordInv' /\ StateInv'
    BY <1>1, Zenon DEF IInv, CountInv, WordInv, StateInv, Counted, IsLive
  <1>8. BorrowInv'
    <2>1. BorrowOK(t)'
      BY <1>1, <1>2, <1>3, <1>4, InvocationAssumption, Zenon
      DEF IInv, BorrowInv, BorrowOK, IsLive
    <2> QED
      BY <1>1, <1>4, <2>1, BorrowStays, Zenon DEF IInv, TypeInv, CallbackType, IsLive
  <1>9. MintInv'
    <2>1. MintOK(t)'
      BY <1>4, Zenon DEF MintOK
    <2> QED
      BY <1>1, <1>4, <2>1, MintStays, Zenon DEF IInv, Worse
  <1>10. SealInv'
    <2>1. SealOK(t)'
      BY <1>4, Zenon DEF SealOK, Sealing
    <2> QED
      BY <1>1, <1>4, <2>1, SealStays, Zenon DEF IInv, Sealing
  <1>11. LinesInv'
    <2>1. InOrder'
      BY <1>5, Zenon DEF InOrder
    <2>2. \A u \in Threads : LinesOK(u)'
      BY <1>2, <1>4, Zenon DEF OnlyThread, LinesOK, Sealing
    <2> QED
      BY <1>1, <1>2, <1>5, <2>1, <2>2, Zenon DEF LinesInv, Ended
  <1>12. AccountInv'
    <2>1. t \notin Unaccounted
      BY <1>1, Zenon DEF Unaccounted
    <2>2. Unaccounted' = IF sent = "Whole" THEN Unaccounted ELSE Unaccounted \cup {t}
      BY <1>1, <1>3, <1>4 DEF Unaccounted, OnlyThread
    <2>3. drops < MaxDrops => Counts(tried - Len(stream) - drops, Unaccounted)
      BY Zenon DEF IInv, AccountInv
    <2>4. ASSUME drops < MaxDrops
          PROVE  Counts(tried' - Len(stream') - drops', Unaccounted')
      <3>1. drops \in Nat /\ tried \in Nat /\ UNCHANGED drops
        BY <1>1, SinkAssumption DEF IInv, TypeInv, SinkTypeOK
      <3>2. CASE sent = "Whole"
        <4>1. tried' - Len(stream') - drops' = tried - Len(stream) - drops
          BY <1>1, <1>5, <3>1, <3>2
        <4> QED
          BY <2>2, <2>3, <2>4, <3>2, <4>1, Zenon
      <3>3. CASE sent # "Whole"
        <4>1. tried' - Len(stream') - drops' = (tried - Len(stream) - drops) + 1
          BY <1>1, <1>5, <3>1, <3>3
        <4> QED
          BY <2>1, <2>2, <2>3, <2>4, <3>3, <4>1, CountsAdd, Zenon
      <3> QED
        BY <3>2, <3>3, Zenon
    <2>5. \A u \in Threads :
             pc'[u] = "account" => loc'[u] \in [by : Caps \cup {None}, sent : Sent]
      BY <1>3, <1>4, Zenon DEF IInv, AccountInv, OnlyThread
    <2> QED
      BY <1>1, <2>4, <2>5, Zenon DEF AccountInv
  <1> QED
    BY <1>6, <1>7, <1>8, <1>9, <1>10, <1>11, <1>12, Zenon DEF IInv

LEMMA EmitAccountStep ==
    ASSUME IInv, NEW t \in Threads, EmitAccount(t)
    PROVE  IInv'
  <1>1. /\ pc[t] = "account" /\ pc' = [pc EXCEPT ![t] = "idle"]
        /\ loc' = [loc EXCEPT ![t] = Idle]
        /\ drops' = (IF loc[t].sent = "Whole" THEN drops ELSE PlusOne(drops))
        /\ hard_error' = (hard_error \/ loc[t].sent = "Failed")
        /\ callback' = (IF tap_failed THEN callback ELSE [callback EXCEPT ![t] = loc[t].by])
        /\ UNCHANGED <<cell, stream, tried, word, caps, metrics, sealed, census, lock,
                       tickets, tripped, tap_failed, outcome>>
    BY Zenon DEF EmitAccount, Return, Goto, AccountLine
  <1>2. /\ loc[t].by \in Caps /\ IsLive(loc[t].by) /\ word.state = "Open" /\ cell = "open"
        /\ \A u \in Threads : pc[u] \notin Sealing
    BY <1>1, EmittingIsOpen, Zenon
  <1>3. PlaceType' /\ pc'[t] = "idle"
        /\ \A u \in Threads \ {t} : pc'[u] = pc[u] /\ loc'[u] = loc[u]
    BY <1>1, Zenon DEF IInv, TypeInv, PlaceType, PCs
  <1>4. /\ CallbackType' /\ (callback'[t] = callback[t] \/ callback'[t] = loc[t].by)
        /\ \A u \in Threads \ {t} : callback'[u] = callback[u]
    BY <1>1, <1>2, Zenon DEF IInv, TypeInv, CallbackType
  <1>5. OnlyThread(t)
    BY <1>3, <1>4, Zenon DEF OnlyThread
  <1>6. drops \in 0 .. MaxDrops /\ drops' \in 0 .. MaxDrops /\ hard_error' \in BOOLEAN
    BY <1>1, SinkAssumption DEF IInv, TypeInv, SinkTypeOK, PlusOne
  <1>7. TypeInv'
    BY <1>1, <1>3, <1>4, <1>6, Zenon
    DEF IInv, TypeInv, SinkTypeOK, WordType, CounterType, CensusType
  <1>8. CountInv' /\ WordInv' /\ StateInv'
    BY <1>1, Zenon DEF IInv, CountInv, WordInv, StateInv, Counted, IsLive
  <1>9. BorrowInv'
    <2>1. BorrowOK(t)'
      BY <1>1, <1>2, <1>3, <1>4, Zenon DEF IInv, BorrowInv, BorrowOK, Borrowing, IsLive
    <2> QED
      BY <1>1, <1>5, <2>1, BorrowStays, Zenon DEF IInv, TypeInv, CallbackType, IsLive
  <1>10. MintInv'
    <2>1. MintOK(t)'
      BY <1>3, Zenon DEF MintOK
    <2> QED
      BY <1>1, <1>3, <1>5, <2>1, MintStays, Zenon DEF IInv, Worse
  <1>11. SealInv'
    <2>1. SealOK(t)'
      BY <1>3, Zenon DEF SealOK, Sealing
    <2> QED
      BY <1>1, <1>3, <1>5, <2>1, SealStays, Zenon DEF IInv, Sealing
  <1>12. LinesInv'
    <2>1. \A u \in Threads : LinesOK(u)'
      BY <1>2, <1>3, Zenon DEF LinesOK, Sealing
    <2> QED
      BY <1>1, <1>2, <2>1, Zenon DEF IInv, LinesInv, InOrder, Ended
  <1>13. AccountInv'
    <2>1. t \in Unaccounted <=> loc[t].sent # "Whole"
      BY <1>1, Zenon DEF Unaccounted
    <2>2. Unaccounted' = Unaccounted \ {t}
      BY <1>1, <1>3, Zenon DEF Unaccounted
    <2>3. tried \in Nat /\ Len(stream) \in Nat
      BY DEF IInv, TypeInv, SinkTypeOK
    <2>4. drops < MaxDrops => Counts(tried - Len(stream) - drops, Unaccounted)
      BY Zenon DEF IInv, AccountInv
    <2>5. ASSUME drops' < MaxDrops
          PROVE  Counts(tried' - Len(stream') - drops', Unaccounted')
      <3>1. CASE loc[t].sent = "Whole"
        <4>1. Unaccounted' = Unaccounted
          BY <2>1, <2>2, <3>1, Zenon
        <4> QED
          BY <1>1, <2>4, <2>5, <3>1, <4>1, Zenon
      <3>2. CASE loc[t].sent # "Whole"
        <4>1. /\ drops < MaxDrops
              /\ tried' - Len(stream') - drops' = (tried - Len(stream) - drops) - 1
          BY <1>1, <1>6, <2>3, <2>5, <3>2, SinkAssumption DEF PlusOne
        <4> QED
          BY <2>1, <2>2, <2>4, <3>2, <4>1, CountsRemove, Zenon
      <3> QED
        BY <3>1, <3>2, Zenon
    <2> QED
      BY <1>3, <2>5, Zenon DEF IInv, AccountInv
  <1> QED
    BY <1>7, <1>8, <1>9, <1>10, <1>11, <1>12, <1>13, Zenon DEF IInv

-----------------------------------------------------------------------------
(* The seal: from the exchange on, one thread owns the stream. *)

LEMMA SealerAlone ==
    ASSUME IInv, NEW t \in Threads, pc[t] \in Sealing
    PROVE  /\ word.state = "Finalizing" /\ \A c \in Caps : ~IsLive(c)
           /\ \A u \in Threads \ {t} : pc[u] \notin Sealing
           /\ \A u \in Threads : pc[u] # "account"
  <1>1. word.state = "Finalizing" /\ \A u \in Threads \ {t} : pc[u] \notin Sealing
    BY Zenon DEF IInv, SealInv, SealOK
  <1>2. \A c \in Caps : ~IsLive(c)
    BY <1>1, Zenon DEF IInv, WordInv
  <1>3. \A u \in Threads : pc[u] # "account"
    BY <1>2, Zenon DEF IInv, BorrowInv, BorrowOK, Borrowing
  <1> QED
    BY <1>1, <1>2, <1>3, Zenon

\* What the sealing thread does concerns no capability and no mint.
LEMMA SealerMoves ==
    ASSUME IInv, NEW t \in Threads, OnlyThread(t), pc[t] \in Sealing \cup {"idle"},
           pc'[t] \in Sealing \cup {"idle"}, \A c \in Caps : ~IsLive(c),
           word'.state # "Open", ~word'.saturated, ~word.saturated,
           \A unit \in Units : word'[unit] = word[unit], UNCHANGED <<caps, callback>>
    PROVE  CountInv' /\ WordInv' /\ BorrowInv' /\ MintInv'
  <1>1. \A c \in Caps : IsLive(c)' <=> IsLive(c)
    BY Zenon DEF IsLive
  <1>2. CountInv'
    <2>1. \A unit \in Units : Counted(unit)' = Counted(unit)
      BY Zenon DEF Counted, IsLive
    <2> QED
      BY <2>1, Zenon DEF IInv, CountInv
  <1>3. WordInv'
    BY <1>1, Zenon DEF WordInv
  <1>4. BorrowInv'
    <2>1. BorrowOK(t)'
      BY <1>1, Zenon DEF IInv, BorrowInv, BorrowOK, Borrowing, Sealing, TypeInv, CallbackType
    <2> QED
      BY <1>1, <2>1, BorrowStays, Zenon DEF IInv, TypeInv, CallbackType
  <1>5. MintInv'
    <2>1. MintOK(t)'
      BY Zenon DEF MintOK, Sealing
    <2> QED
      BY <2>1, MintStays, Zenon DEF IInv, Worse, Sealing
  <1> QED
    BY <1>2, <1>3, <1>4, <1>5, Zenon

LEMMA SealerOnly ==
    ASSUME SealInv, NEW t \in Threads, OnlyThread(t), SealOK(t)',
           \A u \in Threads \ {t} : pc[u] \notin Sealing,
           sealed # NoSnapshot => sealed' # NoSnapshot
    PROVE  SealInv'
  <1>1. ASSUME NEW u \in Threads, u # t
        PROVE  SealOK(u)'
    BY <1>1 DEF SealInv, SealOK, OnlyThread, Sealing, NoSnapshot
  <1> QED
    BY <1>1, Zenon DEF SealInv, OnlyThread

LEMMA SealerOnlyLines ==
    ASSUME NEW t \in Threads, OnlyThread(t), LinesOK(t)', InOrder',
           \A u \in Threads \ {t} : pc[u] \notin Sealing,
           cell' = "open" => \A i \in 1 .. Len(stream') : stream'[i].kind = "record",
           Ended' => \A i \in 1 .. Len(stream') :
                        IsTerminal(stream'[i]) => stream'[i] = Line(cell', drops')
    PROVE  LinesInv'
  <1>1. ASSUME NEW u \in Threads, u # t
        PROVE  LinesOK(u)'
    BY <1>1, Zenon DEF LinesOK, OnlyThread, Sealing
  <1> QED
    BY <1>1, Zenon DEF LinesInv, IsTerminal, Line

\* No capability is live when the exchange finds the word all zero.
LEMMA SealableIsQuiet ==
    ASSUME IInv, Sealable
    PROVE  /\ \A c \in Caps : ~IsLive(c)
           /\ word.state = "Open" /\ ~word.saturated
           /\ word.guard = 0 /\ word.permit = 0
  <1>1. word.state = "Open" /\ ~word.saturated /\ word.guard = 0 /\ word.permit = 0
    BY Zenon DEF Sealable, OpenWord
  <1>2. \A unit \in Units : Counted(unit) = {}
    <2>1. \A unit \in Units : word[unit] = 0
      BY <1>1, Zenon DEF Units
    <2> QED
      BY <2>1, CountsEmpty, Zenon DEF IInv, CountInv
  <1>3. ASSUME NEW c \in Caps, IsLive(c)
        PROVE  FALSE
    <2>1. caps[c].counted
      BY <1>1, <1>3, Zenon DEF IInv, WordInv
    <2>2. caps[c].unit \in Units
      BY <1>3, CapFacts DEF IInv, TypeInv, IsLive
    <2> QED
      BY <1>2, <1>3, <2>1, <2>2, Zenon DEF Counted
  <1> QED
    BY <1>1, <1>3, Zenon

LEMMA SealBeginsStep ==
    ASSUME IInv, NEW t \in Threads, SealExchange(t), Sealable
    PROVE  IInv'
  <1> USE DEF sinkVars
  <1> DEFINE locals == [by |-> None, i |-> 1, snap |-> NoSnapshot]
  <1>1. /\ pc[t] = "idle" /\ word' = [word EXCEPT !.state = "Finalizing"]
        /\ pc' = [pc EXCEPT ![t] = "snapshot"] /\ loc' = [loc EXCEPT ![t] = locals]
        /\ outcome' = [outcome EXCEPT ![t] = "none"]
        /\ UNCHANGED <<sinkVars, caps, metrics, sealed, census, lock, tickets, tripped,
                       tap_failed, callback>>
    BY Zenon DEF SealExchange, Goto
  <1>2. /\ locals \in [by : {None}, i : 1 .. NCounters + 1, snap : [Counters -> 0 .. MaxRecorded + 1]]
        /\ locals.i = 1 /\ locals.snap = NoSnapshot
    BY SnapshotFacts, SinkAssumption
  <1> HIDE DEF locals
  <1>3. /\ \A c \in Caps : ~IsLive(c)
        /\ word.state = "Open" /\ ~word.saturated /\ word.guard = 0 /\ word.permit = 0
    BY SealableIsQuiet, Zenon
  <1>4. PlaceType' /\ OnlyThread(t) /\ pc'[t] = "snapshot" /\ loc'[t] = locals
    BY <1>1, Zenon DEF IInv, TypeInv, PlaceType, OnlyThread, PCs
  <1>5. /\ WordType' /\ word'.state = "Finalizing" /\ ~word'.saturated
        /\ \A unit \in Units : word'[unit] = word[unit]
    BY <1>1, <1>3, Zenon DEF IInv, TypeInv, WordType, Words, States, Units
  <1>6. TypeInv'
    BY <1>1, <1>4, <1>5, Zenon
    DEF IInv, TypeInv, SinkTypeOK, CounterType, CensusType, CallbackType, Outcomes
  <1>7. CountInv' /\ WordInv' /\ BorrowInv' /\ MintInv'
    BY <1>1, <1>3, <1>4, <1>5, SealerMoves, Zenon DEF Sealing
  <1>8. \A u \in Threads : pc[u] \notin Sealing
    BY <1>3, Zenon DEF IInv, SealInv, SealOK
  <1>9. SealInv'
    <2>1. SealOK(t)'
      BY <1>1, <1>2, <1>3, <1>4, <1>5 DEF IInv, StateInv, SealOK, Sealing, Counters
    <2> QED
      BY <1>1, <1>4, <1>8, <2>1, SealerOnly, Zenon DEF IInv
  <1>10. StateInv'
    BY <1>1, <1>5, Zenon DEF IInv, StateInv
  <1>11. LinesInv'
    <2>1. LinesOK(t)'
      BY <1>4, Zenon DEF LinesOK
    <2> QED
      BY <1>1, <1>4, <2>1, LinesStay, Zenon DEF IInv
  <1>12. AccountInv'
    BY <1>1, <1>4, AccountStays, Zenon DEF IInv
  <1> QED
    BY <1>6, <1>7, <1>9, <1>10, <1>11, <1>12, Zenon DEF IInv

\* A step of the sealing thread that leaves the word and the lines alone.
LEMMA SealerStep ==
    ASSUME IInv, NEW t \in Threads, OnlyThread(t), pc[t] \in Sealing, pc'[t] \in Sealing,
           PlaceType', SinkTypeOK', CounterType',
           UNCHANGED <<word, caps, metrics, census, lock, tickets, tripped, tap_failed, callback,
                       outcome>>,
           SealOK(t)', sealed # NoSnapshot => sealed' # NoSnapshot,
           sealed' # NoSnapshot => sealed' = metrics, LinesInv', AccountInv'
    PROVE  IInv'
  <1>1. /\ word.state = "Finalizing" /\ \A c \in Caps : ~IsLive(c)
        /\ \A u \in Threads \ {t} : pc[u] \notin Sealing
    BY SealerAlone, Zenon
  <1>2. TypeInv'
    BY Zenon DEF IInv, TypeInv, WordType, CensusType, CallbackType
  <1>3. ~word.saturated
    BY <1>1, Zenon DEF IInv, WordInv
  <1>4. CountInv' /\ WordInv' /\ BorrowInv' /\ MintInv'
    BY <1>1, <1>3, SealerMoves, Zenon
  <1>5. SealInv'
    BY <1>1, SealerOnly, Zenon DEF IInv
  <1>6. StateInv'
    BY <1>1, Zenon DEF StateInv
  <1> QED
    BY <1>2, <1>4, <1>5, <1>6, Zenon DEF IInv

LEMMA SnapshotReadStep ==
    ASSUME IInv, NEW t \in Threads, SnapshotRead(t)
    PROVE  IInv'
  <1> USE DEF sinkVars
  <1>1. /\ pc[t] = "snapshot" /\ loc[t].i <= NCounters
        /\ UNCHANGED <<sinkVars, word, caps, metrics, sealed, census, lock, tickets, tripped,
                       tap_failed, pc, callback, outcome>>
    BY Zenon DEF SnapshotRead
  <1>2. /\ loc[t] \in [by : {None}, i : 1 .. NCounters + 1, snap : [Counters -> 0 .. MaxRecorded + 1]]
        /\ \A k \in Counters : k < loc[t].i => loc[t].snap[k] = metrics[k]
        /\ sealed = NoSnapshot /\ cell = "open" /\ word.state = "Finalizing"
    BY <1>1, Zenon DEF IInv, SealInv, SealOK, Sealing
  <1>3. PICK i \in Counters, snap \in [Counters -> 0 .. MaxRecorded + 1] :
          loc[t] = [by |-> None, i |-> i, snap |-> snap]
    BY <1>1, <1>2 DEF Counters
  <1>4. metrics[i] \in 0 .. MaxRecorded + 1 /\ i + 1 \in 1 .. NCounters + 1
    BY SinkAssumption, InvocationAssumption DEF IInv, TypeInv, CounterType, Counters
  <1>5. /\ PlaceType' /\ OnlyThread(t)
        /\ loc'[t] = [by |-> None, i |-> i + 1, snap |-> [snap EXCEPT ![i] = metrics[i]]]
    <2>1. loc' = [loc EXCEPT ![t] = [by |-> None, i |-> i + 1, snap |-> [snap EXCEPT ![i] = metrics[i]]]]
      BY <1>3 DEF SnapshotRead
    <2> QED
      BY <1>1, <2>1, Zenon DEF IInv, TypeInv, PlaceType, OnlyThread
  <1>6. SealOK(t)'
    <2>1. loc'[t] \in [by : {None}, i : 1 .. NCounters + 1, snap : [Counters -> 0 .. MaxRecorded + 1]]
      BY <1>4, <1>5
    <2>2. \A k \in Counters : k < loc'[t].i => loc'[t].snap[k] = metrics[k]
      BY <1>2, <1>3, <1>5 DEF Counters
    <2> QED
      BY <1>1, <1>2, <2>1, <2>2, Zenon DEF SealOK, Sealing
  <1>7. LinesInv'
    <2>1. LinesOK(t)'
      BY <1>1, Zenon DEF LinesOK
    <2> QED
      BY <1>1, <1>5, <2>1, LinesStay, Zenon DEF IInv
  <1>8. AccountInv'
    BY <1>1, <1>5, AccountStays, Zenon DEF IInv
  <1>9. SinkTypeOK' /\ CounterType'
    BY <1>1, Zenon DEF IInv, TypeInv, SinkTypeOK, CounterType
  <1> QED
    BY <1>1, <1>2, <1>5, <1>6, <1>7, <1>8, <1>9, SealerStep, Zenon DEF Sealing

LEMMA CommitStep ==
    ASSUME IInv, NEW t \in Threads, Commit(t)
    PROVE  IInv'
  <1> USE DEF sinkVars
  <1>1. /\ pc[t] = "snapshot" /\ loc[t].i > NCounters /\ sealed' = loc[t].snap
        /\ pc' = [pc EXCEPT ![t] = "close"]
        /\ UNCHANGED <<sinkVars, word, caps, metrics, census, lock, tickets, tripped,
                       tap_failed, loc, callback, outcome>>
    BY Zenon DEF Commit, Goto
  <1>2. /\ loc[t] \in [by : {None}, i : 1 .. NCounters + 1, snap : [Counters -> 0 .. MaxRecorded + 1]]
        /\ \A k \in Counters : k < loc[t].i => loc[t].snap[k] = metrics[k]
        /\ cell = "open" /\ word.state = "Finalizing"
    BY <1>1, Zenon DEF IInv, SealInv, SealOK, Sealing
  <1>3. metrics \in [Counters -> 0 .. MaxRecorded]
    BY Zenon DEF IInv, TypeInv, CounterType
  <1>4. sealed' = metrics
    <2>1. loc[t].snap \in [Counters -> 0 .. MaxRecorded + 1]
      BY <1>2, Zenon
    <2>2. \A k \in Counters : loc[t].snap[k] = metrics[k]
      BY <1>1, <1>2, SinkAssumption DEF Counters
    <2> QED
      BY <1>1, <1>3, <2>1, <2>2
  <1>5. sealed' # NoSnapshot /\ CounterType' /\ SinkTypeOK'
    <2>1. metrics # NoSnapshot /\ metrics \in [Counters -> 0 .. MaxRecorded + 1]
      BY <1>3, SnapshotFacts, Zenon
    <2> QED
      BY <1>1, <1>3, <1>4, <2>1, Zenon DEF IInv, TypeInv, CounterType, SinkTypeOK
  <1>6. PlaceType' /\ OnlyThread(t) /\ pc'[t] = "close"
    BY <1>1, Zenon DEF IInv, TypeInv, PlaceType, OnlyThread, PCs
  <1>7. SealOK(t)'
    BY <1>1, <1>2, <1>4, <1>6, Zenon DEF SealOK, Sealing
  <1>8. LinesInv'
    <2>1. LinesOK(t)'
      BY <1>6, Zenon DEF LinesOK
    <2> QED
      BY <1>1, <1>6, <2>1, LinesStay, Zenon DEF IInv
  <1>9. AccountInv'
    BY <1>1, <1>6, AccountStays, Zenon DEF IInv
  <1> QED
    BY <1>1, <1>4, <1>5, <1>6, <1>7, <1>8, <1>9, SealerStep, Zenon DEF Sealing

LEMMA SealClosesStep ==
    ASSUME IInv, NEW t \in Threads, SealCloses(t)
    PROVE  IInv'
  <1>1. /\ pc[t] = "close" /\ pc' = [pc EXCEPT ![t] = "emissions"]
        /\ loc' = [loc EXCEPT ![t] = [by |-> None, i |-> 1]] /\ cell' = "closing"
        /\ UNCHANGED <<drops, hard_error, stream, tried, word, caps, metrics, sealed, census,
                       lock, tickets, tripped, tap_failed, callback, outcome>>
    BY Zenon DEF SealCloses, Goto, CloseBegins
  <1>2. /\ cell = "open" /\ word.state = "Finalizing" /\ sealed = metrics
        /\ \A i \in 1 .. Len(stream) : stream[i].kind = "record"
    BY <1>1, Zenon DEF IInv, SealInv, SealOK, Sealing, LinesInv
  <1>3. PlaceType' /\ OnlyThread(t) /\ pc'[t] = "emissions" /\ loc'[t] = [by |-> None, i |-> 1]
    BY <1>1, Zenon DEF IInv, TypeInv, PlaceType, OnlyThread, PCs
  <1>4. SinkTypeOK' /\ CounterType'
    BY <1>1, Zenon DEF IInv, TypeInv, SinkTypeOK, CounterType
  <1>5. SealOK(t)'
    BY <1>1, <1>2, <1>3, Zenon DEF SealOK, Sealing
  <1>6. LinesInv'
    <2>1. LinesOK(t)'
      BY <1>1, <1>2, <1>3, SinkAssumption DEF LinesOK, IsTerminal
    <2>2. InOrder'
      BY <1>1, Zenon DEF IInv, LinesInv, InOrder
    <2>3. \A u \in Threads \ {t} : pc[u] \notin Sealing
      BY <1>1, SealerAlone, Zenon DEF Sealing
    <2> QED
      BY <1>1, <1>3, <2>1, <2>2, <2>3, SealerOnlyLines, Zenon DEF Ended
  <1>7. AccountInv'
    BY <1>1, <1>3, AccountStays, Zenon DEF IInv
  <1> QED
    BY <1>1, <1>2, <1>3, <1>4, <1>5, <1>6, <1>7, SealerStep, Zenon DEF Sealing

LEMMA FinalWord ==
    ASSUME NEW state \in States, NEW w, w = [OpenWord EXCEPT !.state = state]
    PROVE  w \in Words /\ w.state = state /\ ~w.saturated /\ w.guard = 0 /\ w.permit = 0
  BY Zenon DEF OpenWord, Words

\* The seal ends: the word takes its final state, and all else stays.
LEMMA SealerLeaves ==
    ASSUME IInv, NEW t \in Threads, pc[t] \in {"snapshot", "publish"},
           NEW state \in {"Sealed", "Failed"}, NEW what \in Outcomes,
           state = "Sealed" => sealed = metrics,
           word' = [OpenWord EXCEPT !.state = state], SealReturns(t, what),
           UNCHANGED <<sinkVars, caps, metrics, sealed, census, lock, tickets, tripped,
                       tap_failed, callback>>
    PROVE  IInv'
  <1> USE DEF sinkVars
  <1>1. /\ word.state = "Finalizing" /\ \A c \in Caps : ~IsLive(c)
        /\ \A u \in Threads \ {t} : pc[u] \notin Sealing
    BY SealerAlone, Zenon DEF Sealing
  <1>2. ~word.saturated /\ word \in Words
    BY <1>1, Zenon DEF IInv, WordInv, TypeInv, WordType
  <1>3. /\ word'.state = state /\ ~word'.saturated /\ WordType'
        /\ word'.guard = 0 /\ word'.permit = 0
    <2>1. state \in States
      BY Zenon DEF States
    <2>2. /\ word'.state = state /\ ~word'.saturated /\ word'.guard = 0 /\ word'.permit = 0
          /\ word' \in Words
      BY <2>1, FinalWord, Zenon
    <2>3. 0 <= MaxGuards /\ 0 <= MaxPermits
      BY InvocationAssumption
    <2> QED
      BY <2>2, <2>3, Zenon DEF WordType
  <1>4. \A unit \in Units : word'[unit] = word[unit]
    <2>1. \A unit \in Units : Counted(unit) = {}
      BY <1>1, Zenon DEF Counted
    <2>2. \A unit \in Units : word[unit] = 0
      BY <2>1, CountsEmpty, Zenon DEF IInv, CountInv
    <2>3. word'["guard"] = 0 /\ word'["permit"] = 0
      BY <1>3, Zenon
    <2> QED
      BY <2>2, <2>3, Zenon DEF Units
  <1>5. PlaceType' /\ OnlyThread(t) /\ pc'[t] = "idle"
    BY Zenon DEF SealReturns, Return, Goto, IInv, TypeInv, PlaceType, OnlyThread, PCs
  <1>6. TypeInv'
    <2>1. CallbackType'
      BY ToldTyped, Zenon DEF IInv, TypeInv, SealReturns
    <2> QED
      BY <1>3, <1>5, <2>1, Zenon DEF IInv, TypeInv, SinkTypeOK, CounterType, CensusType
  <1>7. CountInv' /\ WordInv' /\ BorrowInv' /\ MintInv'
    BY <1>1, <1>2, <1>3, <1>4, <1>5, SealerMoves, Zenon DEF Sealing
  <1>8. SealInv'
    <2>1. SealOK(t)'
      BY <1>5, Zenon DEF SealOK, Sealing
    <2> QED
      BY <1>1, <1>5, <2>1, SealerOnly, Zenon DEF IInv
  <1>9. StateInv'
    BY <1>3, Zenon DEF IInv, StateInv
  <1>10. LinesInv'
    <2>1. LinesOK(t)'
      BY <1>5, Zenon DEF LinesOK
    <2> QED
      BY <1>5, <2>1, LinesStay, Zenon DEF IInv
  <1>11. AccountInv'
    BY <1>5, AccountStays, Zenon DEF IInv
  <1> QED
    BY <1>6, <1>7, <1>8, <1>9, <1>10, <1>11, Zenon DEF IInv

LEMMA SnapshotPanicsStep ==
    ASSUME IInv, NEW t \in Threads, SnapshotPanics(t)
    PROVE  IInv'
  <1>1. "FinalizationFailed" \in Outcomes
    BY Zenon DEF Outcomes
  <1> QED
    BY <1>1, SealerLeaves, Zenon DEF SnapshotPanics

LEMMA SealPublishesStep ==
    ASSUME IInv, NEW t \in Threads, SealPublishes(t)
    PROVE  IInv'
  <1>1. "Sealed" \in Outcomes
    BY Zenon DEF Outcomes
  <1>2. sealed = metrics
    BY Zenon DEF IInv, SealInv, SealOK, SealPublishes
  <1> QED
    BY <1>1, <1>2, SealerLeaves, Zenon DEF SealPublishes

LEMMA SealEmitsStep ==
    ASSUME IInv, NEW t \in Threads, NEW sent \in Sent, SealEmits(t, sent)
    PROVE  IInv'
  <1>1. PICK k \in Counters : loc[t] = [by |-> None, i |-> k]
    BY DEF IInv, LinesInv, LinesOK, SealEmits, Counters
  <1> DEFINE line == Line("sealing", k)
  <1>2. /\ pc[t] = "emissions" /\ loc' = [loc EXCEPT ![t] = [by |-> None, i |-> k + 1]]
        /\ stream' = (IF sent = "Whole" THEN Append(stream, line) ELSE stream)
        /\ tried' = tried + 1
        /\ drops' = (IF sent = "Whole" THEN drops ELSE PlusOne(drops))
        /\ hard_error' = (hard_error \/ sent = "Failed")
        /\ UNCHANGED <<cell, word, caps, metrics, sealed, census, lock, tickets, tripped,
                       tap_failed, pc, callback, outcome>>
    <2>1. loc' = [loc EXCEPT ![t] = [loc[t] EXCEPT !.i = loc[t].i + 1]]
      BY Zenon DEF SealEmits
    <2>2. [loc[t] EXCEPT !.i = loc[t].i + 1] = [by |-> None, i |-> k + 1]
      BY <1>1
    <2>3. loc[t].i = k
      BY <1>1
    <2> QED
      BY <2>1, <2>2, <2>3, Zenon DEF SealEmits, SealingEmission, Emit, AccountLine
  <1>3. /\ cell = "closing" /\ sealed = metrics /\ word.state = "Finalizing"
        /\ \A u \in Threads \ {t} : pc[u] \notin Sealing
        /\ \A u \in Threads : pc[u] # "account"
    BY <1>2, SealerAlone, Zenon DEF IInv, SealInv, SealOK, Sealing
  <1>4. PlaceType' /\ OnlyThread(t) /\ loc'[t] = [by |-> None, i |-> k + 1]
    BY <1>2, Zenon DEF IInv, TypeInv, PlaceType, OnlyThread
  <1>5. line \in Lines /\ line.kind = "sealing" /\ line.n = k
    BY SinkAssumption, SMTT(30) DEF Line, Lines, Counters
  <1> HIDE DEF line
  <1>6. /\ InOrder /\ k \in Nat
        /\ \A i \in 1 .. Len(stream) :
              ~IsTerminal(stream[i]) /\ (stream[i].kind = "sealing" => stream[i].n < k)
    BY <1>1, <1>2, SinkAssumption DEF IInv, LinesInv, LinesOK, Counters
  <1>7. /\ stream \in Seq(Lines) /\ Len(stream) \in Nat /\ drops \in 0 .. MaxDrops
        /\ tried \in Nat /\ hard_error \in BOOLEAN
        /\ \A i \in 1 .. Len(stream) : stream[i] \in Lines
    BY DEF IInv, TypeInv, SinkTypeOK
  <1>8. /\ stream' \in Seq(Lines) /\ Len(stream') = Len(stream) + (IF sent = "Whole" THEN 1 ELSE 0)
        /\ InOrder'
        /\ \A i \in 1 .. Len(stream') :
              ~IsTerminal(stream'[i]) /\ (stream'[i].kind = "sealing" => stream'[i].n < k + 1)
    <2>1. CASE sent = "Whole"
      <3>1. /\ stream' \in Seq(Lines) /\ Len(stream') = Len(stream) + 1
            /\ \A i \in 1 .. Len(stream) : stream'[i] = stream[i]
            /\ stream'[Len(stream) + 1] = line
        BY <1>2, <1>5, <1>7, <2>1, AppendFacts
      <3>2. \A i \in 1 .. Len(stream') : i \in 1 .. Len(stream) \/ i = Len(stream) + 1
        BY <1>7, <3>1
      <3>3. \A i \in 1 .. Len(stream') :
              ~IsTerminal(stream'[i]) /\ (stream'[i].kind = "sealing" => stream'[i].n < k + 1)
        <4>1. ASSUME NEW i \in 1 .. Len(stream)
              PROVE  ~IsTerminal(stream'[i]) /\ (stream'[i].kind = "sealing" => stream'[i].n < k + 1)
          <5>1. stream'[i] = stream[i] /\ stream[i].n \in Nat
            BY <1>7, <3>1, Zenon DEF Lines
          <5> QED
            BY <1>6, <5>1 DEF IsTerminal
        <4>2. ~IsTerminal(line) /\ line.n < k + 1
          BY <1>5, <1>6 DEF IsTerminal
        <4> QED
          BY <3>1, <3>2, <4>1, <4>2, Zenon
      <3>4. \A i \in 1 .. Len(stream) : stream[i].kind \in {"record", "sealing"}
        BY <1>6, <1>7, Zenon DEF IsTerminal, Lines
      <3>5. ASSUME NEW i \in 1 .. Len(stream'), NEW j \in 1 .. Len(stream'), i < j
            PROVE  \/ stream'[i].kind = "record"
                   \/ /\ stream'[i].kind = "sealing"
                      /\ stream'[j].kind # "record"
                      /\ stream'[j].kind = "sealing" => stream'[i].n < stream'[j].n
        <4>1. i \in 1 .. Len(stream) /\ stream'[i] = stream[i]
          BY <1>7, <3>1, <3>5
        <4>2. CASE j = Len(stream) + 1
          BY <1>5, <1>6, <3>1, <3>4, <4>1, <4>2, Zenon
        <4>3. CASE j \in 1 .. Len(stream)
          BY <1>6, <3>1, <3>5, <4>1, <4>3, Zenon DEF InOrder
        <4> QED
          BY <3>2, <4>2, <4>3, Zenon
      <3> QED
        BY <2>1, <3>1, <3>3, <3>5, Zenon DEF InOrder
    <2>2. CASE sent # "Whole"
      <3>1. stream' = stream
        BY <1>2, <2>2, Zenon
      <3>2. \A i \in 1 .. Len(stream) : stream[i].kind = "sealing" => stream[i].n < k + 1
        BY <1>6, <1>7, SMTT(30) DEF Lines
      <3> QED
        BY <1>6, <1>7, <2>2, <3>1, <3>2 DEF InOrder, IsTerminal
    <2> QED
      BY <2>1, <2>2, Zenon
  <1>9. SinkTypeOK' /\ CounterType'
    BY <1>2, <1>7, <1>8, SinkAssumption DEF IInv, TypeInv, SinkTypeOK, CounterType, PlusOne
  <1>10. SealOK(t)'
    BY <1>2, <1>3, Zenon DEF SealOK, Sealing
  <1>11. LinesInv'
    <2>1. LinesOK(t)'
      BY <1>2, <1>4, <1>8, SinkAssumption, SMTT(30) DEF LinesOK, IsTerminal, Counters
    <2> QED
      BY <1>2, <1>3, <1>4, <1>8, <2>1, SealerOnlyLines, Zenon DEF Ended
  <1>12. AccountInv'
    <2>1. Unaccounted = {} /\ Unaccounted' = {}
      BY <1>2, <1>3, Zenon DEF Unaccounted, Sealing
    <2>2. drops < MaxDrops => tried - Len(stream) - drops = 0
      BY <2>1, CountsEmpty, Zenon DEF IInv, AccountInv
    <2>3. drops' < MaxDrops => tried' - Len(stream') - drops' = 0
      BY <1>2, <1>7, <1>8, <2>2, SinkAssumption DEF PlusOne
    <2> QED
      BY <1>2, <1>3, <2>1, <2>3, CountsEmpty DEF AccountInv
  <1> QED
    BY <1>2, <1>3, <1>4, <1>9, <1>10, <1>11, <1>12, SealerStep, Zenon DEF Sealing

LEMMA SealTerminalStep ==
    ASSUME IInv, NEW t \in Threads, NEW unwound \in BOOLEAN, NEW sent \in Sent,
           SealTerminal(t, unwound, sent)
    PROVE  IInv'
  <1>1. PICK kind \in {"sealed", "failed"} : kind = TerminalKind(unwound)
    BY Zenon DEF TerminalKind
  <1> DEFINE line == Line(kind, drops)
             locals == [by |-> None, kind |-> kind, before |-> drops, sent |-> sent]
  <1>2. /\ pc[t] = "emissions" /\ pc' = [pc EXCEPT ![t] = "ending"]
        /\ loc' = [loc EXCEPT ![t] = locals]
        /\ stream' = (IF sent = "Whole" THEN Append(stream, line) ELSE stream)
        /\ tried' = tried + 1
        /\ UNCHANGED <<cell, drops, hard_error, word, caps, metrics, sealed, census, lock,
                       tickets, tripped, tap_failed, callback, outcome>>
    BY <1>1, Zenon DEF SealTerminal, Terminal, Emit, Goto
  <1>3. /\ cell = "closing" /\ sealed = metrics /\ word.state = "Finalizing"
        /\ \A u \in Threads \ {t} : pc[u] \notin Sealing
        /\ \A u \in Threads : pc[u] # "account"
    BY <1>2, SealerAlone, Zenon DEF IInv, SealInv, SealOK, Sealing
  <1>4. /\ stream \in Seq(Lines) /\ Len(stream) \in Nat /\ drops \in 0 .. MaxDrops
        /\ tried \in Nat
        /\ \A i \in 1 .. Len(stream) : stream[i] \in Lines
    BY DEF IInv, TypeInv, SinkTypeOK
  <1>5. /\ line \in Lines /\ line.kind = kind
        /\ locals \in [by : {None}, kind : {"sealed", "failed"}, before : 0 .. MaxDrops, sent : Sent]
        /\ locals.kind = kind /\ locals.before = drops /\ locals.sent = sent
    BY <1>4, SinkAssumption DEF Line, Lines
  <1> HIDE DEF line, locals
  <1>6. PlaceType' /\ OnlyThread(t) /\ pc'[t] = "ending" /\ loc'[t] = locals
    BY <1>2, Zenon DEF IInv, TypeInv, PlaceType, OnlyThread, PCs
  <1>7. InOrder /\ \A i \in 1 .. Len(stream) : ~IsTerminal(stream[i])
    BY <1>2, Zenon DEF IInv, LinesInv, LinesOK
  <1>8. /\ stream' \in Seq(Lines) /\ Len(stream') = Len(stream) + (IF sent = "Whole" THEN 1 ELSE 0)
        /\ InOrder'
        /\ \A i \in 1 .. Len(stream') : IsTerminal(stream'[i]) => stream'[i] = line /\ sent = "Whole"
    <2>1. CASE sent = "Whole"
      <3>1. /\ stream' \in Seq(Lines) /\ Len(stream') = Len(stream) + 1
            /\ \A i \in 1 .. Len(stream) : stream'[i] = stream[i]
            /\ stream'[Len(stream) + 1] = line
        BY <1>2, <1>4, <1>5, <2>1, AppendFacts
      <3>2. \A i \in 1 .. Len(stream') : i \in 1 .. Len(stream) \/ i = Len(stream) + 1
        BY <1>4, <3>1
      <3>3. \A i \in 1 .. Len(stream') : IsTerminal(stream'[i]) => stream'[i] = line
        BY <1>7, <3>1, <3>2, Zenon DEF IsTerminal
      <3>4. \A i \in 1 .. Len(stream) : stream[i].kind \in {"record", "sealing"}
        BY <1>4, <1>7, Zenon DEF IsTerminal, Lines
      <3>5. ASSUME NEW i \in 1 .. Len(stream'), NEW j \in 1 .. Len(stream'), i < j
            PROVE  \/ stream'[i].kind = "record"
                   \/ /\ stream'[i].kind = "sealing"
                      /\ stream'[j].kind # "record"
                      /\ stream'[j].kind = "sealing" => stream'[i].n < stream'[j].n
        <4>1. i \in 1 .. Len(stream) /\ stream'[i] = stream[i]
          BY <1>4, <3>1, <3>5
        <4>2. CASE j = Len(stream) + 1
          BY <1>1, <1>5, <3>1, <3>4, <4>1, <4>2, Zenon
        <4>3. CASE j \in 1 .. Len(stream)
          BY <1>7, <3>1, <3>5, <4>1, <4>3, Zenon DEF InOrder
        <4> QED
          BY <3>2, <4>2, <4>3, Zenon
      <3> QED
        BY <2>1, <3>1, <3>3, <3>5, Zenon DEF InOrder
    <2>2. CASE sent # "Whole"
      <3>1. stream' = stream
        BY <1>2, <2>2, Zenon
      <3> QED
        BY <1>4, <1>7, <2>2, <3>1 DEF InOrder, IsTerminal
    <2> QED
      BY <2>1, <2>2, Zenon
  <1>9. SinkTypeOK' /\ CounterType'
    BY <1>2, <1>4, <1>8 DEF IInv, TypeInv, SinkTypeOK, CounterType
  <1>10. SealOK(t)'
    BY <1>2, <1>3, <1>6, Zenon DEF SealOK, Sealing
  <1>11. LinesInv'
    <2>1. LinesOK(t)'
      BY <1>2, <1>5, <1>6, <1>8, Zenon DEF LinesOK, IsTerminal, line
    <2> QED
      BY <1>2, <1>3, <1>6, <1>8, <2>1, SealerOnlyLines, Zenon DEF Ended
  <1>12. AccountInv'
    <2>1. Unaccounted = {}
      BY <1>2, <1>3, Zenon DEF Unaccounted, Sealing
    <2>2. Unaccounted' = IF sent = "Whole" THEN {} ELSE {} \cup {t}
      BY <1>3, <1>5, <1>6 DEF Unaccounted, Sealing, OnlyThread
    <2>3. Counts(IF sent = "Whole" THEN 0 ELSE 0 + 1, Unaccounted')
      BY <2>2, CountsEmpty, CountsAdd, Zenon
    <2>4. drops < MaxDrops => tried - Len(stream) - drops = 0
      BY <2>1, CountsEmpty, Zenon DEF IInv, AccountInv
    <2>5. drops' < MaxDrops =>
             tried' - Len(stream') - drops' = IF sent = "Whole" THEN 0 ELSE 0 + 1
      BY <1>2, <1>4, <1>8, <2>4, SinkAssumption
    <2>6. \A u \in Threads : pc'[u] # "account"
      BY <1>3, <1>6, Zenon DEF OnlyThread
    <2> QED
      BY <2>3, <2>5, <2>6, Zenon DEF AccountInv
  <1> QED
    BY <1>2, <1>3, <1>6, <1>9, <1>10, <1>11, <1>12, SealerStep, Zenon DEF Sealing

LEMMA SealEndsStep ==
    ASSUME IInv, NEW t \in Threads, SealEnds(t)
    PROVE  IInv'
  <1>1. /\ pc[t] = "ending" /\ pc' = [pc EXCEPT ![t] = "publish"]
        /\ loc' = [loc EXCEPT ![t] = Idle]
        /\ drops' = (IF loc[t].sent = "Whole" THEN loc[t].before ELSE PlusOne(loc[t].before))
        /\ cell' = (IF loc[t].sent = "Failed" THEN "failed" ELSE loc[t].kind)
        /\ UNCHANGED <<hard_error, stream, tried, word, caps, metrics, sealed, census, lock,
                       tickets, tripped, tap_failed, callback, outcome>>
    BY Zenon DEF SealEnds, CloseEnds, Goto
  <1>2. /\ loc[t].kind \in {"sealed", "failed"} /\ loc[t].sent \in Sent /\ loc[t].before = drops
        /\ \A i \in 1 .. Len(stream) : IsTerminal(stream[i]) =>
              stream[i] = Line(loc[t].kind, drops) /\ loc[t].sent = "Whole"
        /\ InOrder
    BY <1>1, Zenon DEF IInv, LinesInv, LinesOK
  <1>3. /\ sealed = metrics /\ word.state = "Finalizing"
        /\ \A u \in Threads \ {t} : pc[u] \notin Sealing
        /\ \A u \in Threads : pc[u] # "account"
    BY <1>1, SealerAlone, Zenon DEF IInv, SealInv, SealOK, Sealing
  <1>4. PlaceType' /\ OnlyThread(t) /\ pc'[t] = "publish"
    BY <1>1, Zenon DEF IInv, TypeInv, PlaceType, OnlyThread, PCs
  <1>5. /\ Len(stream) \in Nat /\ tried \in Nat /\ drops \in 0 .. MaxDrops
        /\ drops' \in 0 .. MaxDrops /\ cell' \in {"sealed", "failed"}
    BY <1>1, <1>2, SinkAssumption DEF IInv, TypeInv, SinkTypeOK, PlusOne
  <1>6. SinkTypeOK' /\ CounterType'
    BY <1>1, <1>5, Zenon DEF IInv, TypeInv, SinkTypeOK, CounterType
  <1>7. SealOK(t)'
    BY <1>1, <1>3, <1>4, <1>5, Zenon DEF SealOK, Sealing, Ended
  <1>8. LinesInv'
    <2>1. LinesOK(t)'
      BY <1>4, Zenon DEF LinesOK
    <2>2. InOrder'
      BY <1>1, <1>2, Zenon DEF InOrder
    <2>3. \A i \in 1 .. Len(stream') : IsTerminal(stream'[i]) => stream'[i] = Line(cell', drops')
      BY <1>1, <1>2, Zenon DEF IsTerminal
    <2> QED
      BY <1>3, <1>4, <1>5, <2>1, <2>2, <2>3, SealerOnlyLines, Zenon
  <1>9. AccountInv'
    <2>1. Unaccounted = IF loc[t].sent = "Whole" THEN {} ELSE {} \cup {t}
      BY <1>1, <1>3, Zenon DEF Unaccounted, Sealing
    <2>2. \A n : Counts(n, Unaccounted) =>
             n \in Nat /\ (IF loc[t].sent = "Whole" THEN n = 0 ELSE n - 1 = 0)
      <3> SUFFICES ASSUME NEW n, Counts(n, Unaccounted)
                   PROVE  n \in Nat /\ (IF loc[t].sent = "Whole" THEN n = 0 ELSE n - 1 = 0)
        BY Zenon
      <3>1. ASSUME loc[t].sent # "Whole"
            PROVE  t \in Unaccounted /\ Unaccounted \ {t} = {}
        BY <2>1, <3>1, SMTT(30)
      <3> QED
        BY <2>1, <3>1, CountsRemove, CountsEmpty, Zenon
    <2>3. Unaccounted' = {}
      BY <1>3, <1>4, SMTT(30) DEF Unaccounted, Sealing, OnlyThread
    <2>4. drops < MaxDrops => (tried - Len(stream) - drops) - (IF loc[t].sent = "Whole" THEN 0 ELSE 1) = 0
      BY <1>5, <2>2, SinkAssumption DEF IInv, AccountInv
    <2>5. drops' < MaxDrops => tried' - Len(stream') - drops' = 0
      BY <1>1, <1>2, <1>5, <2>4, SinkAssumption DEF PlusOne
    <2>6. \A u \in Threads : pc'[u] # "account"
      BY <1>3, <1>4, Zenon DEF OnlyThread
    <2> QED
      BY <2>3, <2>5, <2>6, CountsEmpty, Zenon DEF AccountInv
  <1> QED
    BY <1>1, <1>3, <1>4, <1>6, <1>7, <1>8, <1>9, SealerStep, Zenon DEF Sealing

-----------------------------------------------------------------------------
(* The theorems. *)

LEMMA InitIInv == Init => IInv
  <1> SUFFICES ASSUME Init
               PROVE  IInv
    OBVIOUS
  <1> USE DEF Init, SinkInit
  <1>1. TypeInv
    <2>1. WordType
      BY InvocationAssumption DEF WordType, Words, States, OpenWord
    <2>2. SinkTypeOK /\ CensusType
      <3>1. 0 \in 0 .. MaxDrops /\ 0 \in 0 .. MaxTickets /\ 0 \in Nat
        BY SinkAssumption, InvocationAssumption
      <3> QED
        BY <3>1, EmptyLines, Zenon DEF SinkTypeOK, CensusType
    <2>3. CounterType
      BY SnapshotFacts, InvocationAssumption DEF CounterType
    <2>4. caps \in [Caps -> CapStates] /\ PlaceType /\ CallbackType
      BY DEF CapStates, PlaceType, CallbackType, PCs, Outcomes
    <2> QED
      BY <2>1, <2>2, <2>3, <2>4, Zenon DEF TypeInv
  <1>2. \A c \in Caps : ~IsLive(c)
    BY CapFacts DEF IsLive
  <1>3. CountInv
    <2>1. \A unit \in Units : Counted(unit) = {}
      BY <1>2, Zenon DEF Counted
    <2>2. \A unit \in Units : word[unit] = 0
      BY DEF OpenWord, Units
    <2> QED
      BY <2>1, <2>2, CountsEmpty, Zenon DEF CountInv
  <1>4. WordInv
    BY <1>2, Zenon DEF WordInv, OpenWord
  <1>5. BorrowInv /\ MintInv
    BY Zenon DEF BorrowInv, BorrowOK, Borrowing, MintInv, MintOK
  <1>6. SealInv
    BY Zenon DEF SealInv, SealOK, Sealing
  <1>7. StateInv
    BY Zenon DEF StateInv, OpenWord
  <1>8. LinesInv
    BY EmptyLines DEF LinesInv, InOrder, LinesOK, Ended
  <1>9. AccountInv
    <2>1. Unaccounted = {}
      BY Zenon DEF Unaccounted
    <2> QED
      BY <2>1, CountsEmpty, EmptyLines DEF AccountInv
  <1> QED
    BY <1>1, <1>3, <1>4, <1>5, <1>6, <1>7, <1>8, <1>9, Zenon DEF IInv

LEMMA StutterIInv ==
    ASSUME IInv, UNCHANGED vars
    PROVE  IInv'
  <1> USE DEF vars, sinkVars, threadVars
  <1>1. TypeInv'
    BY Zenon DEF IInv, TypeInv, SinkTypeOK, WordType, CounterType, CensusType, PlaceType, CallbackType
  <1>2. CountInv' /\ WordInv' /\ BorrowInv' /\ MintInv'
    BY Zenon DEF IInv, CountInv, WordInv, BorrowInv, BorrowOK, MintInv, MintOK, Counted, IsLive
  <1>3. SealInv' /\ StateInv'
    BY ZenonT(30) DEF IInv, SealInv, SealOK, StateInv, Ended
  <1>4. LinesInv'
    BY DEF IInv, LinesInv, LinesOK, InOrder, Ended
  <1>5. AccountInv'
    BY Zenon DEF IInv, AccountInv, Unaccounted
  <1> QED
    BY <1>1, <1>2, <1>3, <1>4, <1>5, Zenon DEF IInv

LEMMA SealStepIInv ==
    ASSUME IInv, NEW t \in Threads, SealStep(t)
    PROVE  IInv'
  <1>1. CASE Classify(t)
    BY <1>1, ClassifyStep, Zenon
  <1>2. CASE ReadCensus(t)
    BY <1>2, ReadCensusStep, Zenon
  <1>3. CASE SnapshotRead(t)
    BY <1>3, SnapshotReadStep, Zenon
  <1>4. CASE SnapshotPanics(t)
    BY <1>4, SnapshotPanicsStep, Zenon
  <1>5. CASE Commit(t)
    BY <1>5, CommitStep, Zenon
  <1>6. CASE SealCloses(t)
    BY <1>6, SealClosesStep, Zenon
  <1>7. CASE SealEnds(t)
    BY <1>7, SealEndsStep, Zenon
  <1>8. CASE SealPublishes(t)
    BY <1>8, SealPublishesStep, Zenon
  <1>9. CASE \E sent \in Sent : SealEmits(t, sent)
    BY <1>9, SealEmitsStep, Zenon
  <1>10. CASE \E sent \in Sent, unwound \in BOOLEAN : SealTerminal(t, unwound, sent)
    BY <1>10, SealTerminalStep, Zenon
  <1> QED
    BY <1>1, <1>2, <1>3, <1>4, <1>5, <1>6, <1>7, <1>8, <1>9, <1>10, Zenon DEF SealStep

LEMMA NextIInv == IInv /\ [Next]_vars => IInv'
  <1> SUFFICES ASSUME IInv, [Next]_vars
               PROVE  IInv'
    OBVIOUS
  <1>1. CASE \E t \in Threads, c \in Caps, unit \in Units, by \in Caps \cup {None},
                then \in {"call", "cancel"} : MintLoad(t, c, unit, by, then)
    BY <1>1, MintLoadStep, Zenon
  <1>2. ASSUME NEW t \in Threads, MintTurn(t)
        PROVE  IInv'
    BY <1>2, MintTurnStep, Zenon
  <1>3. ASSUME NEW t \in Threads, Trip(t)
        PROVE  IInv'
    BY <1>3, TripStep, Zenon
  <1>4. ASSUME NEW t \in Threads, EmitAccount(t)
        PROVE  IInv'
    BY <1>4, EmitAccountStep, Zenon
  <1>5. ASSUME NEW t \in Threads, TapReturns(t)
        PROVE  IInv'
    BY <1>5, TapReturnsStep, Zenon
  <1>6. ASSUME NEW t \in Threads, TicketDrop(t)
        PROVE  IInv'
    BY <1>6, TicketDropStep, Zenon
  <1>7. ASSUME NEW t \in Threads, TicketUnlock(t)
        PROVE  IInv'
    BY <1>7, TicketUnlockStep, Zenon
  <1>8. ASSUME NEW t \in Threads, SealExchange(t)
        PROVE  IInv'
    BY <1>8, SealBeginsStep, SealRefusedStep, Zenon
  <1>9. ASSUME NEW t \in Threads, SealStep(t)
        PROVE  IInv'
    BY <1>9, SealStepIInv, Zenon
  <1>10. ASSUME NEW t \in Threads, NEW c \in Caps, EmitOpen(t, c)
         PROVE  IInv'
    BY <1>10, EmitOpenStep, Zenon
  <1>11. ASSUME NEW t \in Threads, NEW c \in Caps, TicketIssue(t, c)
         PROVE  IInv'
    BY <1>11, TicketIssueStep, Zenon
  <1>12. ASSUME NEW t \in Threads, NEW sent \in Sent, EmitWrite(t, sent)
         PROVE  IInv'
    BY <1>12, EmitWriteStep, Zenon
  <1>13. ASSUME NEW c \in Caps, Drop(c)
         PROVE  IInv'
    BY <1>13, DropStep, Zenon
  <1>14. ASSUME NEW c \in Caps, NEW k \in Counters, Record(c, k)
         PROVE  IInv'
    BY <1>14, RecordStep, Zenon
  <1>15. CASE UNCHANGED vars
    BY <1>15, StutterIInv, Zenon
  <1> QED
    BY <1>1, <1>2, <1>3, <1>4, <1>5, <1>6, <1>7, <1>8, <1>9, <1>10, <1>11, <1>12, <1>13,
       <1>14, <1>15, Zenon DEF Next

LEMMA AlwaysIInv == Spec => []IInv
  BY InitIInv, NextIInv, PTL DEF Spec

\* The invocation is Open while any capability is live, however many threads
\* mint, drop, cancel and seal, whatever the widths of the counts: no seal
\* begins under a recorder, and a capability minted under a live one is never
\* refused (host.rs, mint and seal).
THEOREM LiveKeepsOpenTheorem == Spec => []LiveKeepsOpen
  <1>1. IInv => LiveKeepsOpen
    BY Zenon DEF IInv, WordInv, LiveKeepsOpen
  <1> QED
    BY <1>1, AlwaysIInv, PTL

\* The snapshot a seal commits holds the final value of every counter, read one
\* at a time as they are, and whoever sees Sealed finds it (host.rs, finalize
\* and classify).
THEOREM SnapshotIsFinalTheorem == Spec => []SnapshotIsFinal
  <1>1. IInv => SnapshotIsFinal
    <2> SUFFICES ASSUME IInv
                 PROVE  SnapshotIsFinal
      OBVIOUS
    <2>1. metrics # NoSnapshot
      BY SnapshotFacts, Zenon DEF IInv, TypeInv, CounterType
    <2> QED
      BY <2>1, Zenon DEF IInv, StateInv, SealInv, SealOK, SnapshotIsFinal
  <1> QED
    BY <1>1, AlwaysIInv, PTL

\* The call stream is records, then the counters in order, then at most one
\* terminal record, and once it has ended its account counts every line that
\* did not go out and agrees with a terminal record that did (debug.rs,
\* CallSink::close).
THEOREM StreamIsTrueTheorem == Spec => []StreamIsTrue
  <1>1. IInv => StreamIsTrue
    <2> SUFFICES ASSUME IInv
                 PROVE  StreamIsTrue
      OBVIOUS
    <2>1. ASSUME Ended, drops < MaxDrops
          PROVE  drops = tried - Len(stream)
      <3>1. Unaccounted = {}
        <4>1. \A t \in Threads : pc[t] # "account"
          BY <2>1, EmittingIsOpen, Zenon DEF Ended
        <4>2. \A t \in Threads : pc[t] # "ending"
          BY <2>1, Zenon DEF IInv, SealInv, SealOK, Ended
        <4> QED
          BY <4>1, <4>2, Zenon DEF Unaccounted
      <3>2. tried - Len(stream) - drops = 0
        BY <2>1, <3>1, CountsEmpty, Zenon DEF IInv, AccountInv
      <3> QED
        BY <3>2, SinkAssumption DEF IInv, TypeInv, SinkTypeOK
    <2>2. InOrder /\ (Ended => \A i \in 1 .. Len(stream) :
                         stream[i].kind \in {"sealed", "failed"} => stream[i] = Line(cell, drops))
      BY Zenon DEF IInv, LinesInv, IsTerminal
    <2> QED
      BY <2>1, <2>2, Zenon DEF StreamIsTrue, InOrder
  <1> QED
    BY <1>1, AlwaysIInv, PTL

\* What one step does to the word: an exchange starts from the word it saw, a
\* drop or a trip from a live capability, and the sealing thread from
\* Finalizing.
LEMMA ForwardStep ==
    ASSUME IInv, [Next]_vars
    PROVE  /\ tripped' # tripped => word.state = "Open"
           /\ word.state \in {"Sealed", "Failed"} => word' = word
           /\ word.state = "Finalizing" => word'.state # "Open"
           /\ word.saturated => word'.saturated /\ word'.state = "Open"
  <1> DEFINE Goal == /\ tripped' # tripped => word.state = "Open"
                     /\ word.state \in {"Sealed", "Failed"} => word' = word
                     /\ word.state = "Finalizing" => word'.state # "Open"
                     /\ word.saturated => word'.saturated /\ word'.state = "Open"
  <1> SUFFICES Goal
    OBVIOUS
  <1>0. word \in Words /\ (word.saturated => word.state = "Open")
    BY Zenon DEF IInv, TypeInv, WordType, WordInv
  <1>1. ASSUME UNCHANGED <<word, tripped>>
        PROVE  Goal
    BY <1>0, <1>1, Zenon
  <1>2. ASSUME NEW t \in Threads, MintTurn(t)
        PROVE  Goal
    <2> DEFINE seen == loc[t].seen
               unit == loc[t].unit
               full == IsFull(seen, unit)
               next == IF full THEN [seen EXCEPT !.saturated = TRUE] ELSE [seen EXCEPT ![unit] = @ + 1]
    <2>1. tripped' = tripped /\ unit \in Units
      BY <1>2, Zenon DEF MintTurn, IInv, MintInv, MintOK, MintLocals
    <2>2. word' = word \/ (word.state = "Open" /\ word = seen /\ word' = next)
      BY <1>2, Zenon DEF MintTurn, Exchange
    <2>3. CASE word = seen /\ word.state = "Open" /\ word' = next
      <3>1. word'.state = "Open" /\ (word.saturated => word'.saturated)
        BY <1>0, <2>1, <2>3, Zenon DEF Words, Units
      <3> QED
        BY <2>1, <2>3, <3>1, Zenon
    <2> QED
      BY <1>1, <2>1, <2>2, <2>3, Zenon
  <1>3. ASSUME NEW t \in Threads, Trip(t)
        PROVE  Goal
    <2>1. word.state = "Open" /\ word' = word
      BY <1>3, Zenon DEF Trip, IInv, BorrowInv, BorrowOK, Borrowing, WordInv
    <2> QED
      BY <2>1, Zenon
  <1>4. ASSUME NEW c \in Caps, Drop(c)
        PROVE  Goal
    <2>1. word.state = "Open" /\ tripped' = tripped /\ caps[c].unit \in Units
      BY <1>4, CapFacts DEF Drop, IInv, TypeInv, WordInv, IsLive
    <2>2. word'.state = word.state /\ word'.saturated = word.saturated
      BY <1>0, <1>4, <2>1, Zenon DEF Drop, Words, Units
    <2> QED
      BY <2>1, <2>2, Zenon
  <1>5. ASSUME NEW t \in Threads, SealExchange(t)
        PROVE  Goal
    <2>1. CASE Sealable
      BY <1>5, <2>1, SealableIsQuiet, Zenon DEF SealExchange
    <2>2. CASE ~Sealable
      BY <1>1, <1>5, <2>2, Zenon DEF SealExchange
    <2> QED
      BY <2>1, <2>2, Zenon
  <1>6. ASSUME NEW t \in Threads, SealStep(t)
        PROVE  Goal
    <2>1. CASE SealPublishes(t) \/ SnapshotPanics(t)
      <3>1. word.state = "Finalizing" /\ tripped' = tripped
        BY <2>1, Zenon DEF SealPublishes, SnapshotPanics, IInv, SealInv, SealOK, Sealing
      <3>2. word'.state \in {"Sealed", "Failed"}
        BY <2>1, Zenon DEF SealPublishes, SnapshotPanics, OpenWord
      <3> QED
        BY <1>0, <3>1, <3>2, Zenon
    <2>2. CASE ~(SealPublishes(t) \/ SnapshotPanics(t))
      BY <1>1, <1>6, <2>2, Zenon
      DEF SealStep, Classify, ReadCensus, SnapshotRead, Commit, SealCloses, SealEnds, SealEmits, SealTerminal
    <2> QED
      BY <2>1, <2>2, Zenon
  <1>7. ASSUME NEW t \in Threads, NEW c \in Caps, EmitOpen(t, c)
        PROVE  Goal
    BY <1>1, <1>7, Zenon DEF EmitOpen
  <1>8. ASSUME NEW t \in Threads, NEW c \in Caps, TicketIssue(t, c)
        PROVE  Goal
    BY <1>1, <1>8, Zenon DEF TicketIssue
  <1>9. ASSUME NEW t \in Threads, NEW sent \in Sent, EmitWrite(t, sent)
        PROVE  Goal
    BY <1>1, <1>9, Zenon DEF EmitWrite
  <1>10. ASSUME NEW t \in Threads, EmitAccount(t)
         PROVE  Goal
    BY <1>1, <1>10, Zenon DEF EmitAccount
  <1>11. ASSUME NEW t \in Threads, TapReturns(t)
         PROVE  Goal
    BY <1>1, <1>11, Zenon DEF TapReturns
  <1>12. ASSUME NEW t \in Threads, TicketDrop(t)
         PROVE  Goal
    BY <1>1, <1>12, Zenon DEF TicketDrop
  <1>13. ASSUME NEW t \in Threads, TicketUnlock(t)
         PROVE  Goal
    BY <1>1, <1>13, Zenon DEF TicketUnlock
  <1>14. CASE \E t \in Threads, c \in Caps, unit \in Units, by \in Caps \cup {None},
                 then \in {"call", "cancel"} : MintLoad(t, c, unit, by, then)
    BY <1>1, <1>14 DEF MintLoad
  <1>15. ASSUME NEW c \in Caps, NEW k \in Counters, Record(c, k)
         PROVE  Goal
    BY <1>1, <1>15, Zenon DEF Record
  <1>16. CASE UNCHANGED vars
    BY <1>1, <1>16, Zenon DEF vars
  <1> HIDE DEF Goal
  <1> QED
    BY <1>2, <1>3, <1>4, <1>5, <1>6, <1>7, <1>8, <1>9, <1>10, <1>11, <1>12, <1>13, <1>14,
       <1>15, <1>16, Zenon DEF Next

\* The lifecycle only moves forward: a seal once begun is never undone, a
\* final state never changes, a saturated invocation is Open for good, and the
\* token is tripped only while Open (host.rs, the transition word; cancel()).
THEOREM ForwardTheorem == Spec => Forward
  BY AlwaysIInv, ForwardStep, PTL DEF Spec, Forward

\* Every variable keeps its type; no count of the word exceeds its field.
THEOREM TypeOKTheorem == Spec => []TypeOK
  <1>1. IInv => TypeOK
    BY DEF IInv, TypeInv, TypeOK, WordType, CounterType, CensusType, CallbackType, CapStates
  <1> QED
    BY <1>1, AlwaysIInv, PTL
=============================================================================
