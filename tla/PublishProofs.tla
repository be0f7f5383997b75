--------------------------- MODULE PublishProofs ----------------------------
(***************************************************************************)
(* Proofs about publication: the log and the threads that decide outputs   *)
(* through it, for any number of threads and outputs.                      *)
(***************************************************************************)
EXTENDS MCPublish, TLAPS

-----------------------------------------------------------------------------
(* The publication log. *)

Units == DOMAIN decided
Rows == [unit : Nat, decision : U!Decisions, finished : BOOLEAN, effect : Effects \cup {"None"}]

LogType ==
    /\ rows \in Seq(Rows) /\ pending \in Seq(Nat)
    /\ decided \in Seq(U!Decisions \cup {"Undecided"})
    /\ latest_authorized \in 0 .. Len(rows)
    /\ \A k \in DOMAIN rows : rows[k].unit \in Units
    /\ \A k \in DOMAIN pending : pending[k] \in Units

\* The latest authorized row is the last Authorized one and the only row that
\* may be unfinished, exactly while a thread executes it.
Turn ==
    /\ latest_authorized # 0 => rows[latest_authorized].decision = "Authorized"
    /\ \A k \in DOMAIN rows : rows[k].decision = "Authorized" => k <= latest_authorized
    /\ \A k \in DOMAIN rows : k # latest_authorized => rows[k].finished
    /\ latest_authorized # 0 => (rows[latest_authorized].finished <=> executing = NoThread)
    /\ latest_authorized = 0 => executing = NoThread

LogInv == LogType /\ U!RowsAgree /\ Turn

-----------------------------------------------------------------------------
(* The threads and the outputs. *)

Locked(t) == pc[t] \in {"ready", "decide", "execute", "release"}

UnitType ==
    /\ tripped \in BOOLEAN
    /\ DOMAIN owner = Units /\ DOMAIN session = Units /\ open \subseteq Units /\ lost \subseteq Units
    /\ owner \in Seq({"bound", "publishing", "gone"})
    /\ session \in Seq({"Reserved", "Writing", "Finished", "Failed"})
    /\ lock \in Threads \cup {NoThread} /\ executing \in Threads \cup {NoThread}
    /\ pc \in [Threads -> {"idle", "lock", "ready", "decide", "execute", "release"}]
    /\ cur \in [Threads -> Nat] /\ ready \in [Threads -> BOOLEAN]

\* Who holds the execution lock, who executes, and which unit is whose.
Holders ==
    /\ \A t \in Threads : lock = t <=> Locked(t)
    /\ \A t \in Threads : executing = t <=> pc[t] = "execute"
    /\ \A t \in Threads : pc[t] # "idle" => cur[t] \in Units /\ owner[cur[t]] = "publishing"
    /\ \A t, v \in Threads : t # v /\ pc[t] # "idle" /\ pc[v] # "idle" => cur[t] # cur[v]

\* A unit nobody has published yet is undecided or refused by cancel.
Fresh(u) == decided[u] \in {"Undecided", "RefusedCancelled"}
Open ==
    /\ \A u \in Units : owner[u] = "bound" => Fresh(u)
    /\ \A t \in Threads : pc[t] \in {"lock", "ready", "decide"} => Fresh(cur[t])

\* What cancel answered, and that nothing is authorized after it.
Told ==
    /\ told # {} => tripped
    /\ \A o \in told : /\ o.ordinal \in 0 .. Len(rows)
                       /\ o.kind \in {"BeforeDecision", "AfterDecision"} => o.ordinal # 0
    /\ U!CancelToldTrue

\* A unit whose writer lost nothing and writes no more.
Settled(u) == u \notin open /\ u \notin lost /\ owner[u] # "bound"
Sessions ==
    /\ \A u \in lost : session[u] = "Failed"
    /\ \A u \in Units : session[u] = "Finished" => u \notin open
    /\ \A t \in Threads : pc[t] = "decide" /\ ready[t] => Settled(cur[t])
    /\ \A k \in DOMAIN rows : rows[k].decision = "Authorized" => Settled(rows[k].unit)

UnitInv == LogInv /\ UnitType /\ Holders /\ Open /\ Told /\ Sessions /\ "DecidedTwice" \notin answers

-----------------------------------------------------------------------------
(* Sequences. *)

LEMMA AppendFacts ==
    ASSUME NEW S, NEW s \in Seq(S), NEW e \in S
    PROVE  /\ Append(s, e) \in Seq(S) /\ Len(Append(s, e)) = Len(s) + 1
           /\ DOMAIN s = 1 .. Len(s) /\ DOMAIN Append(s, e) = 1 .. Len(s) + 1 /\ Len(s) \in Nat
           /\ \A i \in 1 .. Len(s) : Append(s, e)[i] = s[i]
           /\ Append(s, e)[Len(s) + 1] = e
  OBVIOUS

LEMMA EmptyFacts ==
    ASSUME NEW S
    PROVE  << >> \in Seq(S) /\ Len(<< >>) = 0 /\ DOMAIN << >> = {}
  OBVIOUS

LEMMA Domain ==
    ASSUME NEW S, NEW s \in Seq(S)
    PROVE  Len(s) \in Nat /\ DOMAIN s = 1 .. Len(s) /\ \A i \in DOMAIN s : s[i] \in S
  OBVIOUS

LEMMA IsSeq ==
    ASSUME NEW S, NEW n \in Nat, NEW s \in [1 .. n -> S]
    PROVE  s \in Seq(S) /\ Len(s) = n /\ DOMAIN s = 1 .. n
  OBVIOUS

LEMMA ConcatFacts ==
    ASSUME NEW S, NEW s \in Seq(S), NEW r \in Seq(S)
    PROVE  /\ s \o r \in Seq(S) /\ Len(s \o r) = Len(s) + Len(r)
           /\ DOMAIN (s \o r) = 1 .. Len(s) + Len(r)
           /\ \A i \in 1 .. Len(s) : (s \o r)[i] = s[i]
           /\ \A i \in 1 .. Len(r) : (s \o r)[Len(s) + i] = r[i]
  OBVIOUS

\* An increasing sequence without its p-th entry.
Skip(s, p) == [i \in 1 .. Len(s) - 1 |-> s[IF i < p THEN i ELSE i + 1]]

LEMMA RemoveFacts ==
    ASSUME NEW s \in Seq(Nat), NEW p \in 1 .. Len(s),
           \A j, k \in DOMAIN s : j < k => s[j] < s[k]
    PROVE  /\ Skip(s, p) \in Seq(Nat)
           /\ \A j, k \in DOMAIN Skip(s, p) : j < k => Skip(s, p)[j] < Skip(s, p)[k]
           /\ \A x : (\E k \in DOMAIN Skip(s, p) : Skip(s, p)[k] = x)
                        <=> (x # s[p] /\ \E k \in DOMAIN s : s[k] = x)
  <1> DEFINE r == Skip(s, p)
  <1>1. /\ Len(s) \in Nat /\ DOMAIN s = 1 .. Len(s) /\ Len(s) - 1 \in Nat
        /\ \A i \in 1 .. Len(s) : s[i] \in Nat
    BY Domain
  <1>2. /\ \A i \in 1 .. Len(s) - 1 : i + 1 \in 1 .. Len(s) /\ i \in 1 .. Len(s)
        /\ \A i \in 1 .. Len(s) - 1 : r[i] = s[IF i < p THEN i ELSE i + 1]
        /\ DOMAIN r = 1 .. Len(s) - 1 /\ r = [i \in 1 .. Len(s) - 1 |-> r[i]]
    BY <1>1 DEF Skip
  <1> HIDE DEF r
  <1>3. \A i \in 1 .. Len(s) - 1 : r[i] \in Nat
    BY <1>1, <1>2
  <1>4. r \in [1 .. Len(s) - 1 -> Nat]
    BY <1>2, <1>3
  <1>5. r \in Seq(Nat) /\ DOMAIN r = 1 .. Len(s) - 1
    BY <1>1, <1>4, IsSeq, Zenon
  <1>6. ASSUME NEW j \in DOMAIN r, NEW k \in DOMAIN r, j < k
        PROVE  r[j] < r[k]
    <2> DEFINE a == IF j < p THEN j ELSE j + 1
               b == IF k < p THEN k ELSE k + 1
    <2>3. j \in 1 .. Len(s) - 1 /\ k \in 1 .. Len(s) - 1
      BY <1>5, Zenon
    <2>1. a \in DOMAIN s /\ b \in DOMAIN s /\ a < b
      <3>1. j \in Nat /\ k \in Nat /\ p \in Nat /\ j < k
        BY <1>1, <1>6, <2>3
      <3>2. a < b
        BY <3>1
      <3>3. a \in 1 .. Len(s) /\ b \in 1 .. Len(s)
        BY <1>2, <2>3, Zenon
      <3> QED
        BY <1>1, <3>2, <3>3, Zenon
    <2>2. r[j] = s[a] /\ r[k] = s[b]
      BY <1>2, <1>5, Zenon
    <2> QED
      BY <2>1, <2>2, Zenon
  <1>7. ASSUME NEW x, NEW k \in DOMAIN r, r[k] = x
        PROVE  x # s[p] /\ \E i \in DOMAIN s : s[i] = x
    <2> DEFINE a == IF k < p THEN k ELSE k + 1
    <2>6. k \in 1 .. Len(s) - 1
      BY <1>5, Zenon
    <2>1. a \in DOMAIN s /\ a # p
      BY <1>1, <2>6
    <2>2. x = s[a]
      BY <1>2, <1>5, <1>7, Zenon
    <2> HIDE DEF a
    <2>3. (a < p \/ p < a) /\ p \in DOMAIN s /\ s[a] \in Nat /\ s[p] \in Nat
      BY <1>1, <2>1
    <2>4. s[a] < s[p] \/ s[p] < s[a]
      BY <2>1, <2>3, Zenon
    <2>5. s[a] # s[p]
      BY <2>3, <2>4
    <2> QED
      BY <2>1, <2>2, <2>5, Zenon
  <1>8. ASSUME NEW x, x # s[p], NEW k \in DOMAIN s, s[k] = x
        PROVE  \E i \in DOMAIN r : r[i] = x
    <2>1. CASE k < p
      <3>1. k \in 1 .. Len(s) - 1 /\ r[k] = s[k]
        BY <1>1, <1>2, <2>1
      <3> QED
        BY <1>5, <1>8, <3>1, Zenon
    <2>2. CASE k > p
      <3>1. k - 1 \in 1 .. Len(s) - 1 /\ r[k - 1] = s[k]
        BY <1>1, <1>2, <2>2
      <3> QED
        BY <1>5, <1>8, <3>1, Zenon
    <2> QED
      BY <1>1, <1>8, <2>1, <2>2
  <1> QED
    BY <1>5, <1>6, <1>7, <1>8, Zenon DEF r

-----------------------------------------------------------------------------
(* Steps of the log. *)

\* Every decided unit has one row; the rest are pending.
Pending(u) == \E k \in DOMAIN pending : pending[k] = u
HasRow(u) == \E k \in DOMAIN rows : rows[k].unit = u /\ rows[k].decision = decided[u]
OneRow(u) == \A j, k \in DOMAIN rows : rows[j].unit = u /\ rows[k].unit = u => j = k
NoRow(u) == \A k \in DOMAIN rows : rows[k].unit # u
Agrees(u) == IF decided[u] = "Undecided" THEN Pending(u) /\ NoRow(u)
             ELSE ~Pending(u) /\ HasRow(u) /\ OneRow(u)
Increasing == \A j, k \in DOMAIN pending : j < k => pending[j] < pending[k]

LEMMA RowsAgreeIs == U!RowsAgree <=> Increasing /\ \A u \in Units : Agrees(u)
  BY Zenon DEF U!RowsAgree, U!IsPending, U!Undecided, Increasing, Agrees, Pending, HasRow, OneRow, NoRow, Units

\* The rows so far stay, and the ones after them are refusals.
Kept == /\ Len(rows) <= Len(rows') /\ DOMAIN rows' = 1 .. Len(rows')
        /\ \A k \in 1 .. Len(rows) : rows'[k] = rows[k]
OnlyRefusals == \A k \in 1 .. Len(rows') : k \in 1 .. Len(rows) \/ (rows'[k].decision # "Authorized" /\ rows'[k].finished)

LEMMA TurnStays ==
    ASSUME LogType, Turn, rows' \in Seq(Rows), Kept, OnlyRefusals, UNCHANGED <<latest_authorized, executing>>
    PROVE  Turn' /\ latest_authorized' \in 0 .. Len(rows')
  <1>1. /\ Len(rows) \in Nat /\ Len(rows') \in Nat /\ DOMAIN rows = 1 .. Len(rows)
        /\ latest_authorized \in 0 .. Len(rows)
    BY Domain DEF LogType
  <1>2. latest_authorized # 0 => latest_authorized \in 1 .. Len(rows)
    BY <1>1
  <1>3. latest_authorized' \in 0 .. Len(rows')
    BY <1>1 DEF Kept
  <1> QED
    BY <1>1, <1>2, <1>3, Zenon DEF Turn, Kept, OnlyRefusals

LEMMA LogStays ==
    ASSUME LogInv, UNCHANGED <<rows, pending, decided, latest_authorized, executing>>
    PROVE  LogInv' /\ Units' = Units
  <1>1. Units' = Units
    BY Zenon DEF Units
  <1>2. LogType'
    BY <1>1, Zenon DEF LogInv, LogType
  <1>3. Turn'
    BY Zenon DEF LogInv, Turn
  <1>4. U!RowsAgree'
    <2>1. \A u : Pending(u)' <=> Pending(u)
      BY Zenon DEF Pending
    <2>2. \A u \in Units : Agrees(u)'
      <3>1. ASSUME NEW u \in Units
            PROVE  Agrees(u)'
        <4>1. Agrees(u)
          BY RowsAgreeIs, Zenon DEF LogInv
        <4>2. (HasRow(u)' <=> HasRow(u)) /\ (OneRow(u)' <=> OneRow(u)) /\ (NoRow(u)' <=> NoRow(u))
          BY Zenon DEF HasRow, OneRow, NoRow
        <4> QED
          BY <2>1, <4>1, <4>2, Zenon DEF Agrees
      <3> QED
        BY <3>1, Zenon
    <2>3. Increasing'
      BY RowsAgreeIs, Zenon DEF LogInv, Increasing
    <2> QED
      BY <1>1, <2>2, <2>3, Zenon DEF U!RowsAgree, U!IsPending, U!Undecided, Increasing, Agrees, Pending, HasRow, OneRow, NoRow, Units
  <1> QED
    BY <1>1, <1>2, <1>3, <1>4, Zenon DEF LogInv

LEMMA EnlistLog ==
    ASSUME LogInv, U!Enlist
    PROVE  /\ LogInv' /\ rows' = rows /\ executing' = executing
           /\ Len(decided) \in Nat /\ Units = 1 .. Len(decided) /\ Units' = 1 .. Len(decided) + 1
           /\ \A u \in Units : decided'[u] = decided[u]
           /\ decided'[Len(decided) + 1] = "Undecided"
  <1> DEFINE n == Len(decided) + 1
             m == Len(pending) + 1
  <1>1. /\ pending' = Append(pending, n) /\ decided' = Append(decided, "Undecided")
        /\ rows' = rows /\ latest_authorized' = latest_authorized /\ executing' = executing
    BY Zenon DEF U!Enlist, U!Undecided
  <1>2. /\ Len(decided) \in Nat /\ Units = 1 .. Len(decided) /\ Units' = 1 .. n
        /\ decided' \in Seq(U!Decisions \cup {"Undecided"})
        /\ \A u \in Units : decided'[u] = decided[u]
        /\ decided'[n] = "Undecided"
    BY <1>1, AppendFacts DEF LogInv, LogType, Units
  <1>3. n \in Nat
    BY <1>2
  <1>4. /\ pending' \in Seq(Nat) /\ DOMAIN pending = 1 .. Len(pending) /\ DOMAIN pending' = 1 .. m
        /\ \A i \in DOMAIN pending : pending'[i] = pending[i]
        /\ pending'[m] = n /\ Len(pending) \in Nat
    BY <1>1, <1>3, AppendFacts DEF LogInv, LogType
  <1>5. \A k \in DOMAIN pending' : k \in DOMAIN pending \/ k = m
    BY <1>4
  <1>6. \A k \in DOMAIN pending : k \in DOMAIN pending' /\ k < m
    BY <1>4
  <1>7. /\ Increasing /\ \A u \in Units : Agrees(u)
        /\ \A k \in DOMAIN rows : rows[k].unit \in Units
        /\ \A k \in DOMAIN pending : pending[k] \in Units
    BY RowsAgreeIs, Zenon DEF LogInv, LogType
  <1>8. n \notin Units /\ n \in Units' /\ (\A u \in Units' : u \in Units \/ u = n) /\ \A u \in Units : u < n /\ u \in Units'
    BY <1>2
  <1>9. m \in DOMAIN pending'
    BY <1>4
  <1> HIDE DEF n, m
  <1>10. Increasing'
    <2>1. ASSUME NEW j \in DOMAIN pending', NEW k \in DOMAIN pending', j < k
          PROVE  pending'[j] < pending'[k]
      <3>1. CASE k \in DOMAIN pending /\ j \in DOMAIN pending
        BY <1>4, <1>7, <2>1, <3>1, Zenon DEF Increasing
      <3>2. CASE k = m /\ j \in DOMAIN pending
        BY <1>4, <1>7, <1>8, <3>2, Zenon
      <3>3. CASE j = m
        <4>1. k \in 1 .. m /\ m \in Nat
          BY <1>4 DEF m
        <4> QED
          BY <2>1, <3>3, <4>1
      <3> QED
        BY <1>5, <3>1, <3>2, <3>3, Zenon
    <2> QED
      BY <2>1, Zenon DEF Increasing
  <1>11. ASSUME NEW u \in Units'
         PROVE  Agrees(u)'
    <2>1. CASE u = n
      <3>1. Pending(u)' /\ NoRow(u)'
        BY <1>1, <1>4, <1>7, <1>8, <1>9, <2>1, Zenon DEF Pending, NoRow
      <3> QED
        BY <1>2, <2>1, <3>1, Zenon DEF Agrees
    <2>2. CASE u \in Units
      <3>1. Pending(u)' <=> Pending(u)
        <4>1. u # n
          BY <1>8, <2>2, Zenon
        <4> QED
          BY <1>4, <1>5, <1>6, <4>1, Zenon DEF Pending
      <3>2. /\ HasRow(u)' <=> HasRow(u)
            /\ OneRow(u)' <=> OneRow(u)
            /\ NoRow(u)' <=> NoRow(u)
        BY <1>1, <1>2, <2>2, Zenon DEF HasRow, OneRow, NoRow
      <3> QED
        BY <1>2, <1>7, <2>2, <3>1, <3>2, Zenon DEF Agrees
    <2> QED
      BY <1>8, <2>1, <2>2, Zenon
  <1>12. U!RowsAgree'
    BY <1>10, <1>11, Zenon DEF U!RowsAgree, U!IsPending, U!Undecided, Increasing, Agrees, Pending, HasRow, OneRow, NoRow, Units
  <1>13. LogType'
    BY <1>1, <1>2, <1>4, <1>5, <1>7, <1>8, Zenon DEF LogInv, LogType
  <1>14. Turn'
    BY <1>1, Zenon DEF LogInv, Turn
  <1> QED
    BY <1>1, <1>2, <1>12, <1>13, <1>14, Zenon DEF LogInv, n

LEMMA DecideLog ==
    ASSUME LogInv, NEW t, NEW u \in Units, NEW decision \in U!Decisions, U!IsPending(u),
           U!DecideNow(t, u, decision), t # NoThread, executing = NoThread \/ decision # "Authorized"
    PROVE  /\ LogInv' /\ Units' = Units /\ rows' \in Seq(Rows) /\ Kept
           /\ Len(rows) \in Nat /\ Len(rows') = Len(rows) + 1 /\ DOMAIN rows = 1 .. Len(rows)
           /\ DOMAIN rows' = 1 .. Len(rows) + 1
           /\ rows'[Len(rows) + 1].decision = decision /\ rows'[Len(rows) + 1].unit = u
           /\ decided'[u] = decision /\ (\A v \in Units : v # u => decided'[v] = decided[v])
           /\ decision # "Authorized" => executing' = executing
           /\ decision = "Authorized" => executing' = t
  <1> DEFINE r == U!Row(u, decision)
             n == Len(rows) + 1
             p == U!Position(u)
  <1>1. /\ pending' = [i \in 1 .. Len(pending) - 1 |-> pending[IF i < p THEN i ELSE i + 1]]
        /\ rows' = Append(rows, r) /\ decided' = [decided EXCEPT ![u] = decision]
        /\ decision = "Authorized" => latest_authorized' = n /\ executing' = t
        /\ decision # "Authorized" => latest_authorized' = latest_authorized /\ executing' = executing
    BY Zenon DEF U!DecideNow, U!Without
  <1>2. p \in DOMAIN pending /\ pending[p] = u
    BY Zenon DEF U!IsPending, U!Position
  <1>3. /\ Len(decided) \in Nat /\ Units = 1 .. Len(decided)
        /\ u \in Nat
    BY Domain DEF LogInv, LogType, Units
  <1>4. /\ r \in Rows /\ r.unit = u /\ r.decision = decision /\ (r.finished <=> decision # "Authorized")
    BY <1>3, Zenon DEF U!Row, Rows
  <1>5. /\ Units' = Units /\ decided' \in Seq(U!Decisions \cup {"Undecided"})
        /\ decided'[u] = decision
        /\ \A v \in Units : v # u => decided'[v] = decided[v]
    BY <1>1 DEF LogInv, LogType, Units
  <1> HIDE DEF p, r
  <1>6. /\ rows' \in Seq(Rows) /\ Len(rows') = n /\ DOMAIN rows = 1 .. Len(rows) /\ DOMAIN rows' = 1 .. n
        /\ Len(rows) \in Nat /\ rows'[n] = r
        /\ \A i \in 1 .. Len(rows) : rows'[i] = rows[i]
    BY <1>1, <1>4, AppendFacts DEF LogInv, LogType
  <1>7. /\ Increasing /\ \A v \in Units : Agrees(v)
        /\ \A k \in DOMAIN rows : rows[k].unit \in Units
        /\ \A k \in DOMAIN pending : pending[k] \in Units
        /\ pending \in Seq(Nat) /\ latest_authorized \in 0 .. Len(rows)
    BY RowsAgreeIs, Zenon DEF LogInv, LogType
  <1>8. p \in 1 .. Len(pending)
    BY <1>2, <1>7, Domain, Zenon
  <1>9. /\ pending' \in Seq(Nat)
        /\ \A j, k \in DOMAIN pending' : j < k => pending'[j] < pending'[k]
        /\ \A x : (\E k \in DOMAIN pending' : pending'[k] = x)
                     <=> (x # u /\ \E k \in DOMAIN pending : pending[k] = x)
    <2>1. \A j, k \in DOMAIN pending : j < k => pending[j] < pending[k]
      BY <1>7, Zenon DEF Increasing
    <2>2. /\ pending' \in Seq(Nat)
          /\ \A j, k \in DOMAIN pending' : j < k => pending'[j] < pending'[k]
          /\ \A x : (\E k \in DOMAIN pending' : pending'[k] = x)
                       <=> (x # pending[p] /\ \E k \in DOMAIN pending : pending[k] = x)
      <3>1. pending' = Skip(pending, p)
        BY <1>1, Zenon DEF Skip
      <3>2. pending \in Seq(Nat)
        BY <1>7, Zenon
      <3>3. /\ Skip(pending, p) \in Seq(Nat)
            /\ \A j, k \in DOMAIN Skip(pending, p) : j < k => Skip(pending, p)[j] < Skip(pending, p)[k]
            /\ \A x : (\E k \in DOMAIN Skip(pending, p) : Skip(pending, p)[k] = x)
                         <=> (x # pending[p] /\ \E k \in DOMAIN pending : pending[k] = x)
        BY <1>8, <2>1, <3>2, RemoveFacts, Zenon
      <3> QED
        BY <3>1, <3>3, Zenon
    <2> QED
      BY <1>2, <2>2, Zenon
  <1>10. \A k \in 1 .. n : k \in 1 .. Len(rows) \/ k = n
    BY <1>6
  <1>11. n <= n /\ n \in 1 .. n /\ n \notin 1 .. Len(rows) /\ n # 0 /\ \A k \in 1 .. Len(rows) : k \in 1 .. n /\ k <= n
    BY <1>6
  <1>12. Kept
    BY <1>6 DEF Kept
  <1> HIDE DEF n
  <1>13. decided[u] = "Undecided" /\ NoRow(u)
    BY <1>2, <1>7, Zenon DEF Agrees, Pending
  <1>14. decision # "Undecided"
    BY DEF U!Decisions
  <1>15. ASSUME NEW v \in Units
         PROVE  Agrees(v)'
    <2>1. CASE v = u
      <3>1. ~Pending(v)'
        BY <1>9, <2>1, Zenon DEF Pending
      <3>2. HasRow(v)'
        BY <1>4, <1>5, <1>6, <1>11, <2>1, Zenon DEF HasRow
      <3>3. OneRow(v)'
        <4>1. ASSUME NEW k \in DOMAIN rows', rows'[k].unit = u
              PROVE  k = n
          BY <1>6, <1>10, <1>13, <4>1, Zenon DEF NoRow
        <4> QED
          BY <2>1, <4>1, Zenon DEF OneRow
      <3> QED
        BY <1>5, <1>14, <2>1, <3>1, <3>2, <3>3, Zenon DEF Agrees
    <2>2. CASE v # u
      <3>1. Pending(v)' <=> Pending(v)
        BY <1>9, <2>2, Zenon DEF Pending
      <3>2. rows'[n].unit # v
        BY <1>4, <1>6, <2>2, Zenon
      <3>3. decided'[v] = decided[v]
        BY <1>5, <2>2, Zenon
      <3>4. HasRow(v) => HasRow(v)'
        BY <1>6, <1>11, <3>3, Zenon DEF HasRow
      <3>5. OneRow(v) => OneRow(v)'
        BY <1>6, <1>10, <3>2, Zenon DEF OneRow
      <3>6. NoRow(v) => NoRow(v)'
        BY <1>6, <1>10, <3>2, Zenon DEF NoRow
      <3> QED
        BY <1>7, <3>1, <3>3, <3>4, <3>5, <3>6, Zenon DEF Agrees
    <2> QED
      BY <2>1, <2>2, Zenon
  <1>16. U!RowsAgree'
    BY <1>5, <1>9, <1>15, Zenon DEF U!RowsAgree, U!IsPending, U!Undecided, Agrees, Pending, HasRow, OneRow, NoRow, Units
  <1>17. Turn' /\ latest_authorized' \in 0 .. Len(rows')
    <2>1. CASE decision # "Authorized"
      <3>1. OnlyRefusals
        BY <1>4, <1>6, <1>10, <2>1, Zenon DEF OnlyRefusals
      <3> QED
        BY <1>1, <1>6, <1>12, <2>1, <3>1, TurnStays, Zenon DEF LogInv
    <2>2. CASE decision = "Authorized"
      <3>1. n \in 0 .. Len(rows')
        BY <1>6 DEF n
      <3>2. \A k \in DOMAIN rows : rows[k].finished
        <4>1. ASSUME NEW k \in DOMAIN rows
              PROVE  rows[k].finished
          <5>1. CASE k # latest_authorized
            BY <5>1, Zenon DEF LogInv, Turn
          <5>2. CASE k = latest_authorized
            <6>1. k # 0
              BY <1>6
            <6> QED
              BY <2>2, <5>2, <6>1, Zenon DEF LogInv, Turn
          <5> QED
            BY <5>1, <5>2, Zenon
        <4> QED
          BY <4>1, Zenon
      <3>3. /\ rows'[n].decision = "Authorized" /\ ~rows'[n].finished
            /\ \A k \in DOMAIN rows' : k <= n /\ (k # n => rows'[k].finished)
        BY <1>4, <1>6, <1>10, <1>11, <2>2, <3>2, Zenon
      <3> QED
        BY <1>1, <1>11, <2>2, <3>1, <3>3, Zenon DEF Turn
    <2> QED
      BY <2>1, <2>2, Zenon
  <1>18. LogType'
    <2>1. \A k \in DOMAIN rows' : rows'[k].unit \in Units'
      BY <1>4, <1>5, <1>6, <1>7, <1>10, Zenon
    <2>2. \A k \in DOMAIN pending' : pending'[k] \in Units'
      BY <1>5, <1>7, <1>9, Zenon
    <2> QED
      BY <1>5, <1>6, <1>9, <1>17, <2>1, <2>2, Zenon DEF LogType
  <1> QED
    BY <1>1, <1>4, <1>5, <1>6, <1>12, <1>16, <1>17, <1>18, Zenon DEF LogInv, n

LEMMA FinishLog ==
    ASSUME LogInv, NEW effect \in Effects, U!FinishRow(latest_authorized, effect), executing # NoThread
    PROVE  /\ LogInv' /\ Units' = Units /\ decided' = decided /\ executing' = NoThread
           /\ DOMAIN rows' = DOMAIN rows /\ Len(rows') = Len(rows)
           /\ \A k \in DOMAIN rows : rows'[k].unit = rows[k].unit /\ rows'[k].decision = rows[k].decision
  <1> DEFINE l == latest_authorized
  <1>1. /\ rows' = [rows EXCEPT ![l] = [rows[l] EXCEPT !.effect = effect, !.finished = TRUE]]
        /\ executing' = NoThread
        /\ pending' = pending /\ decided' = decided /\ latest_authorized' = l
    BY Zenon DEF U!FinishRow
  <1>2. l # 0 /\ l \in 0 .. Len(rows) /\ rows \in Seq(Rows)
    BY DEF LogInv, LogType, Turn
  <1>3. l \in DOMAIN rows /\ rows[l] \in Rows /\ DOMAIN rows = 1 .. Len(rows) /\ Len(rows) \in Nat
    BY <1>2
  <1> DEFINE e == [rows[l] EXCEPT !.effect = effect, !.finished = TRUE]
  <1>4. e \in Rows /\ e.unit = rows[l].unit /\ e.decision = rows[l].decision /\ e.finished
    BY <1>3, Zenon DEF Rows
  <1> HIDE DEF e, l
  <1>5. /\ rows' = [rows EXCEPT ![l] = e]
    BY <1>1, Zenon DEF e
  <1>6. /\ rows' \in Seq(Rows) /\ Len(rows') = Len(rows) /\ DOMAIN rows' = DOMAIN rows
        /\ rows'[l] = e /\ \A k \in DOMAIN rows : k # l => rows'[k] = rows[k]
    BY <1>2, <1>3, <1>4, <1>5
  <1>7. \A k \in DOMAIN rows : rows'[k].unit = rows[k].unit /\ rows'[k].decision = rows[k].decision
    BY <1>4, <1>6, Zenon
  <1>8. Turn'
    BY <1>1, <1>2, <1>3, <1>4, <1>6, <1>7, Zenon DEF LogInv, Turn, l
  <1>9. Units' = Units
    BY <1>1, Zenon DEF Units
  <1>10. LogType'
    <2>1. latest_authorized' \in 0 .. Len(rows')
      BY <1>1, <1>2, <1>6, Zenon
    <2>2. \A k \in DOMAIN rows' : rows'[k].unit \in Units'
      BY <1>6, <1>7, <1>9, Zenon DEF LogInv, LogType
    <2> QED
      BY <1>1, <1>6, <1>9, <2>1, <2>2, Zenon DEF LogInv, LogType
  <1>11. ASSUME NEW v \in Units
         PROVE  Agrees(v)'
    <2>1. /\ HasRow(v) => HasRow(v)'
          /\ OneRow(v) => OneRow(v)'
          /\ NoRow(v) => NoRow(v)'
          /\ Pending(v)' <=> Pending(v)
      <3>1. HasRow(v) => HasRow(v)'
        BY <1>1, <1>6, <1>7, Zenon DEF HasRow
      <3>2. OneRow(v) => OneRow(v)'
        BY <1>6, <1>7, Zenon DEF OneRow
      <3>3. NoRow(v) => NoRow(v)'
        BY <1>6, <1>7, Zenon DEF NoRow
      <3>4. Pending(v)' <=> Pending(v)
        BY <1>1, Zenon DEF Pending
      <3> QED
        BY <3>1, <3>2, <3>3, <3>4, Zenon
    <2> QED
      BY <1>1, <2>1, RowsAgreeIs, Zenon DEF LogInv, Agrees
  <1>12. Increasing'
    BY <1>1, RowsAgreeIs, Zenon DEF LogInv, Increasing
  <1>13. U!RowsAgree'
    BY <1>9, <1>11, <1>12, Zenon DEF U!RowsAgree, U!IsPending, U!Undecided, Increasing, Agrees, Pending, HasRow, OneRow, NoRow, Units
  <1> QED
    BY <1>1, <1>6, <1>7, <1>8, <1>9, <1>10, <1>13, Zenon DEF LogInv

LEMMA CancelLogKeeps ==
    ASSUME LogInv, U!CancelLog
    PROVE  /\ LogInv' /\ Units' = Units /\ executing' = executing /\ latest_authorized' = latest_authorized
           /\ rows \in Seq(Rows) /\ rows' \in Seq(Rows) /\ Kept /\ OnlyRefusals
           /\ \A u \in Units : decided'[u] \in {decided[u], "RefusedCancelled"}
           /\ pending # << >> => /\ Len(rows) + 1 \in 1 .. Len(rows')
                                 /\ rows'[Len(rows) + 1].decision = "RefusedCancelled"
  <1>1. CASE pending = << >>
    <2>1. UNCHANGED <<rows, pending, decided, latest_authorized, executing>>
      BY <1>1, Zenon DEF U!CancelLog, U!log
    <2>2. LogInv' /\ Units' = Units
      BY <2>1, LogStays, Zenon
    <2>3. rows \in Seq(Rows)
      BY Zenon DEF LogInv, LogType
    <2>4. Kept /\ OnlyRefusals
      BY <2>1, <2>3 DEF Kept, OnlyRefusals
    <2> QED
      BY <1>1, <2>1, <2>2, <2>3, <2>4, Zenon
  <1>2. CASE pending # << >>
    <2> DEFINE r == [k \in DOMAIN pending |-> U!Row(pending[k], "RefusedCancelled")]
               n == Len(rows)
               m == Len(pending)
    <2>1. /\ rows' = rows \o r /\ pending' = << >>
          /\ decided' = [u \in DOMAIN decided |-> IF U!IsPending(u) THEN "RefusedCancelled" ELSE decided[u]]
          /\ latest_authorized' = latest_authorized /\ executing' = executing
      BY <1>2, Zenon DEF U!CancelLog, U!CancelPending
    <2>2. /\ rows \in Seq(Rows) /\ pending \in Seq(Nat) /\ DOMAIN pending = 1 .. m /\ m \in Nat \ {0}
          /\ n \in Nat /\ DOMAIN rows = 1 .. n /\ \A k \in 1 .. m : pending[k] \in Nat
      BY <1>2 DEF LogInv, LogType
    <2>3. \A k \in 1 .. m : /\ r[k] \in Rows /\ r[k].unit = pending[k] /\ r[k].decision = "RefusedCancelled"
                            /\ r[k].finished
      BY <2>2, Zenon DEF U!Row, Rows, U!Decisions
    <2>4. r \in Seq(Rows) /\ Len(r) = m
      <3>1. r \in [1 .. m -> Rows]
        BY <2>2, <2>3, Zenon
      <3> QED
        BY <2>2, <3>1, IsSeq
    <2> HIDE DEF r
    <2>5. /\ rows' \in Seq(Rows) /\ Len(rows') = n + m /\ DOMAIN rows' = 1 .. n + m
          /\ \A k \in 1 .. n : rows'[k] = rows[k]
          /\ \A k \in 1 .. m : rows'[n + k] = r[k]
      <3>1. /\ rows \o r \in Seq(Rows) /\ Len(rows \o r) = Len(rows) + Len(r)
            /\ DOMAIN (rows \o r) = 1 .. Len(rows) + Len(r)
            /\ \A i \in 1 .. Len(rows) : (rows \o r)[i] = rows[i]
            /\ \A i \in 1 .. Len(r) : (rows \o r)[Len(rows) + i] = r[i]
        <4>1. rows \in Seq(Rows) /\ r \in Seq(Rows)
          BY <2>2, <2>4, Zenon
        <4> QED
          BY <4>1
      <3> QED
        BY <2>1, <2>4, <3>1, Zenon
    <2>6. /\ \A k \in 1 .. n + m : k \in 1 .. n \/ (k - n \in 1 .. m /\ n + (k - n) = k)
          /\ \A k \in 1 .. n : k \in 1 .. n + m
          /\ \A k \in 1 .. m : n + k \in 1 .. n + m /\ n + k \notin 1 .. n
          /\ 1 \in 1 .. m /\ n + 1 \in 1 .. n + m
          /\ \A j, k \in 1 .. m : n + j = n + k => j = k
      BY <2>2
    <2>7. Kept
      BY <2>2, <2>5 DEF Kept
    <2>8. \A k \in 1 .. n + m : k \in 1 .. n \/ \E i \in 1 .. m : k = n + i /\ rows'[k] = r[i]
      <3>1. ASSUME NEW k \in 1 .. n + m, k \notin 1 .. n
            PROVE  \E i \in 1 .. m : k = n + i /\ rows'[k] = r[i]
        <4>1. k - n \in 1 .. m /\ n + (k - n) = k
          BY <2>6, <3>1, Zenon
        <4>2. rows'[k] = r[k - n]
          <5>1. rows'[n + (k - n)] = r[k - n]
            BY <2>5, <4>1, Zenon
          <5> QED
            BY <4>1, <5>1, Zenon
        <4> QED
          BY <4>1, <4>2, Zenon
      <3> QED
        BY <3>1, Zenon
    <2>9. OnlyRefusals
      <3>1. ASSUME NEW k \in 1 .. n + m, k \notin 1 .. n
            PROVE  rows'[k].decision # "Authorized" /\ rows'[k].finished
        BY <2>3, <2>8, <3>1
      <3> QED
        BY <2>5, <3>1, Zenon DEF OnlyRefusals
    <2>10. Turn' /\ latest_authorized' \in 0 .. Len(rows')
      BY <2>1, <2>5, <2>7, <2>9, TurnStays, Zenon DEF LogInv
    <2>11. /\ Increasing /\ \A v \in Units : Agrees(v)
           /\ \A k \in DOMAIN rows : rows[k].unit \in Units
           /\ \A k \in DOMAIN pending : pending[k] \in Units
      BY RowsAgreeIs, Zenon DEF LogInv, LogType
    <2>12. Units' = Units /\ \A u \in Units : decided'[u] = IF Pending(u) THEN "RefusedCancelled" ELSE decided[u]
      BY <2>1, Zenon DEF Units, U!IsPending, Pending
    <2>13. decided' \in Seq(U!Decisions \cup {"Undecided"})
      <3>1. decided \in Seq(U!Decisions \cup {"Undecided"})
        BY Zenon DEF LogInv, LogType
      <3>2. Len(decided) \in Nat /\ Units = 1 .. Len(decided) /\ \A u \in Units : decided[u] \in U!Decisions \cup {"Undecided"}
        BY <3>1, Domain, Zenon DEF Units
      <3>3. "RefusedCancelled" \in U!Decisions
        BY DEF U!Decisions
      <3>4. decided' \in [1 .. Len(decided) -> U!Decisions \cup {"Undecided"}]
        BY <2>1, <2>12, <3>2, <3>3, Zenon DEF Units
      <3> QED
        BY <3>2, <3>4, IsSeq, Zenon
    <2>14. DOMAIN pending' = {}
      BY <2>1, EmptyFacts, Zenon
    <2> HIDE DEF n, m
    <2>15. ASSUME NEW v \in Units
           PROVE  Agrees(v)'
      <3>1. ~Pending(v)'
        BY <2>14, Zenon DEF Pending
      <3>2. CASE Pending(v)
        <4>1. PICK i \in 1 .. m : pending[i] = v
          BY <2>2, <3>2, Zenon DEF Pending
        <4>2. decided'[v] = "RefusedCancelled" /\ NoRow(v)
          BY <2>11, <2>12, <3>2, Zenon DEF Agrees
        <4>3. HasRow(v)'
          <5>1. n + i \in DOMAIN rows' /\ rows'[n + i] = r[i]
            BY <2>5, <2>6, <4>1, Zenon
          <5>2. rows'[n + i].unit = v /\ rows'[n + i].decision = decided'[v]
            BY <2>3, <4>1, <4>2, <5>1, Zenon
          <5> QED
            BY <5>1, <5>2, Zenon DEF HasRow
        <4>4. ASSUME NEW k \in 1 .. n + m, rows'[k].unit = v
              PROVE  k = n + i
          <5>1. PICK j \in 1 .. m : k = n + j /\ rows'[k] = r[j]
            BY <2>2, <2>5, <2>8, <4>2, <4>4, Zenon DEF NoRow
          <5>2. pending[j] = v
            BY <2>3, <4>4, <5>1, Zenon
          <5>3. j = i
            <6>1. ~(j < i) /\ ~(i < j)
              <7>1. v \in Nat /\ ~(v < v)
                BY <2>2, <4>1
              <7> QED
                BY <2>2, <2>11, <4>1, <5>2, <7>1, Zenon DEF Increasing
            <6> QED
              BY <6>1
          <5> QED
            BY <5>1, <5>3, Zenon
        <4>5. OneRow(v)'
          BY <2>5, <4>4, Zenon DEF OneRow
        <4> QED
          BY <3>1, <4>2, <4>3, <4>5, Zenon DEF Agrees
      <3>3. CASE ~Pending(v)
        <4>1. decided'[v] = decided[v] /\ decided[v] # "Undecided" /\ HasRow(v) /\ OneRow(v)
          BY <2>11, <2>12, <3>3, Zenon DEF Agrees
        <4>2. HasRow(v)'
          BY <2>2, <2>5, <2>6, <4>1, Zenon DEF HasRow
        <4>3. ASSUME NEW k \in 1 .. n + m, rows'[k].unit = v
              PROVE  k \in 1 .. n /\ rows[k].unit = v
          <5>1. ~\E i \in 1 .. m : rows'[k] = r[i]
            BY <2>2, <2>3, <3>3, <4>3, Zenon DEF Pending
          <5> QED
            BY <2>5, <2>8, <4>3, <5>1, Zenon
        <4>4. OneRow(v)'
          BY <2>2, <2>5, <4>1, <4>3, Zenon DEF OneRow
        <4> QED
          BY <3>1, <4>1, <4>2, <4>4, Zenon DEF Agrees
      <3> QED
        BY <3>2, <3>3, Zenon
    <2>16. Increasing'
      BY <2>14, Zenon DEF Increasing
    <2>17. U!RowsAgree'
      BY <2>12, <2>15, <2>16, Zenon DEF U!RowsAgree, U!IsPending, U!Undecided, Increasing, Agrees, Pending, HasRow, OneRow, NoRow, Units
    <2>18. \A k \in DOMAIN rows' : rows'[k].unit \in Units'
      <3>1. ASSUME NEW k \in 1 .. n + m
            PROVE  rows'[k].unit \in Units
        <4>1. CASE k \in 1 .. n
          BY <2>2, <2>5, <2>11, <4>1, Zenon
        <4>2. CASE \E i \in 1 .. m : k = n + i /\ rows'[k] = r[i]
          BY <2>2, <2>3, <2>11, <4>2, Zenon
        <4> QED
          BY <2>8, <4>1, <4>2, Zenon
      <3> QED
        BY <2>5, <2>12, <3>1, Zenon
    <2>19. LogType'
      BY <2>1, <2>5, <2>10, <2>13, <2>14, <2>18, EmptyFacts, Zenon DEF LogType
    <2>20. Len(rows) + 1 \in 1 .. Len(rows') /\ rows'[Len(rows) + 1].decision = "RefusedCancelled"
      <3>1. n + 1 \in 1 .. Len(rows') /\ rows'[n + 1] = r[1]
        BY <2>5, <2>6, Zenon
      <3> QED
        BY <2>3, <2>6, <3>1, Zenon DEF n
    <2> QED
      BY <2>1, <2>2, <2>5, <2>7, <2>9, <2>10, <2>12, <2>17, <2>19, <2>20, Zenon DEF LogInv
  <1> QED
    BY <1>1, <1>2, Zenon

-----------------------------------------------------------------------------
(* What the steps of the log leave alone. *)

\* Decisions are never taken back, and only a decision that cancel did not
\* precede can authorize.
LEMMA ToldStays ==
    ASSUME LogType, Told, rows' \in Seq(Rows), Len(rows) <= Len(rows'), UNCHANGED <<tripped, told>>,
           \A k \in 1 .. Len(rows) : rows'[k].decision = rows[k].decision,
           ~tripped \/ \A k \in 1 .. Len(rows') : k \in 1 .. Len(rows) \/ rows'[k].decision # "Authorized"
    PROVE  Told'
  <1>1. /\ Len(rows) \in Nat /\ Len(rows') \in Nat /\ DOMAIN rows = 1 .. Len(rows) /\ DOMAIN rows' = 1 .. Len(rows')
    BY Domain DEF LogType
  <1> SUFFICES ASSUME NEW o \in told
               PROVE  /\ o.ordinal \in 0 .. Len(rows')
                      /\ o.kind \in {"BeforeDecision", "AfterDecision"} => o.ordinal # 0
                      /\ o.kind = "BeforeDecision" => rows'[o.ordinal].decision = "RefusedCancelled"
                      /\ o.kind = "AfterDecision" => rows'[o.ordinal].decision = "Authorized"
                      /\ \A k \in DOMAIN rows' : k > o.ordinal => rows'[k].decision # "Authorized"
    BY Zenon DEF Told, U!CancelToldTrue
  <1>2. tripped
    BY Zenon DEF Told
  <1>3. /\ o.ordinal \in 0 .. Len(rows)
        /\ o.kind \in {"BeforeDecision", "AfterDecision"} => o.ordinal # 0
        /\ o.kind = "BeforeDecision" => rows[o.ordinal].decision = "RefusedCancelled"
        /\ o.kind = "AfterDecision" => rows[o.ordinal].decision = "Authorized"
        /\ \A k \in DOMAIN rows : k > o.ordinal => rows[k].decision # "Authorized"
    BY Zenon DEF Told, U!CancelToldTrue
  <1>4. o.ordinal \in 0 .. Len(rows')
    BY <1>1, <1>3
  <1>5. o.ordinal # 0 => o.ordinal \in 1 .. Len(rows)
    BY <1>1, <1>3
  <1>6. o.kind \in {"BeforeDecision", "AfterDecision"} => rows'[o.ordinal].decision = rows[o.ordinal].decision
    BY <1>3, <1>5, Zenon
  <1>7. \A k \in DOMAIN rows' : k > o.ordinal => rows'[k].decision # "Authorized"
    BY <1>1, <1>2, <1>3, Zenon
  <1> QED
    BY <1>3, <1>4, <1>6, <1>7

\* One decision, taken now or found taken.
LEMMA DecideKeeps ==
    ASSUME LogInv, NEW t, NEW u \in Units, NEW decision \in U!Decisions, U!Decide(t, u, decision),
           t # NoThread, executing = NoThread \/ decision # "Authorized"
    PROVE  /\ LogInv' /\ Units' = Units /\ rows' \in Seq(Rows) /\ Len(rows) <= Len(rows')
           /\ DOMAIN rows = 1 .. Len(rows) /\ DOMAIN rows' = 1 .. Len(rows')
           /\ \A k \in 1 .. Len(rows) : rows'[k] = rows[k]
           /\ \A k \in 1 .. Len(rows') : k \in 1 .. Len(rows)
                                            \/ (U!IsPending(u) /\ rows'[k].unit = u /\ rows'[k].decision = decision)
           /\ \A v \in Units : v # u => decided'[v] = decided[v]
           /\ U!IsPending(u) /\ decision = "Authorized" => executing' = t
           /\ ~(U!IsPending(u) /\ decision = "Authorized") => executing' = executing
  <1>1. CASE U!IsPending(u)
    <2>1. U!DecideNow(t, u, decision)
      BY <1>1, Zenon DEF U!Decide
    <2>2. /\ LogInv' /\ Units' = Units /\ rows' \in Seq(Rows) /\ Kept
          /\ Len(rows) \in Nat /\ Len(rows') = Len(rows) + 1 /\ DOMAIN rows = 1 .. Len(rows)
          /\ rows'[Len(rows) + 1].decision = decision /\ rows'[Len(rows) + 1].unit = u
          /\ \A v \in Units : v # u => decided'[v] = decided[v]
          /\ decision # "Authorized" => executing' = executing
          /\ decision = "Authorized" => executing' = t
      BY <1>1, <2>1, DecideLog, Zenon
    <2>3. \A k \in 1 .. Len(rows') : k \in 1 .. Len(rows) \/ k = Len(rows) + 1
      BY <2>2
    <2> QED
      BY <1>1, <2>2, <2>3, Zenon DEF Kept
  <1>2. CASE ~U!IsPending(u)
    <2>1. UNCHANGED <<rows, pending, decided, latest_authorized, executing>>
      BY <1>2, Zenon DEF U!Decide, U!log
    <2>2. LogInv' /\ Units' = Units
      BY <2>1, LogStays, Zenon
    <2>3. rows \in Seq(Rows) /\ Len(rows) <= Len(rows) /\ DOMAIN rows = 1 .. Len(rows)
      BY Domain DEF LogInv, LogType
    <2> QED
      BY <1>2, <2>1, <2>2, <2>3, Zenon
  <1> QED
    BY <1>1, <1>2, Zenon

\* A unit that is not pending has been decided.
LEMMA PendingIs ==
    ASSUME LogInv, NEW u \in Units
    PROVE  U!IsPending(u) <=> decided[u] = "Undecided"
  BY RowsAgreeIs, Zenon DEF LogInv, Agrees, Pending, U!IsPending

-----------------------------------------------------------------------------
(* The steps of writers. *)

LEMMA WriterKeeps ==
    ASSUME UnitInv, UNCHANGED <<U!log, tripped, told, owner, U!threadvars>>,
           session' \in Seq({"Reserved", "Writing", "Finished", "Failed"}), DOMAIN session' = Units,
           open' \subseteq Units, lost' \subseteq Units,
           \A u \in lost' : session'[u] = "Failed",
           \A u \in Units : session'[u] = "Finished" => u \notin open',
           \A u \in Units : Settled(u) => u \notin open' /\ u \notin lost'
    PROVE  UnitInv'
  <1>1. /\ UNCHANGED <<rows, pending, decided, latest_authorized, executing, tripped, told, owner>>
        /\ UNCHANGED <<lock, pc, cur, ready, answers>>
    BY Zenon DEF U!log, U!threadvars
  <1>2. LogInv' /\ Units' = Units
    BY <1>1, LogStays, Zenon DEF UnitInv
  <1>3. UnitType'
    BY <1>1, <1>2, Zenon DEF UnitInv, UnitType
  <1>4. Holders' /\ Open'
    <2>1. Holders'
      BY <1>1, <1>2, Zenon DEF UnitInv, Holders, Locked
    <2>2. Open'
      BY <1>1, <1>2, Zenon DEF UnitInv, Open, Fresh
    <2> QED
      BY <2>1, <2>2, Zenon
  <1>5. Told'
    <2>1. /\ LogType /\ Told /\ rows' \in Seq(Rows) /\ Len(rows) <= Len(rows')
          /\ \A k \in 1 .. Len(rows) : rows'[k].decision = rows[k].decision
          /\ \A k \in 1 .. Len(rows') : k \in 1 .. Len(rows) \/ rows'[k].decision # "Authorized"
      BY <1>1 DEF UnitInv, LogInv, LogType
    <2> QED
      BY <1>1, <2>1, ToldStays, Zenon
  <1>6. \A u \in Units : Settled(u) => Settled(u)'
    BY <1>1, Zenon DEF Settled
  <1>7. Sessions'
    <2>1. \A t \in Threads : pc[t] = "decide" => cur[t] \in Units
      BY DEF UnitInv, Holders
    <2>2. \A k \in DOMAIN rows : rows[k].unit \in Units
      BY Zenon DEF UnitInv, LogInv, LogType
    <2>3. \A t \in Threads : pc'[t] = "decide" /\ ready'[t] => Settled(cur[t])'
      BY <1>1, <1>6, <2>1, Zenon DEF UnitInv, Sessions, Settled
    <2>4. \A k \in DOMAIN rows' : rows'[k].decision = "Authorized" => Settled(rows[k].unit)'
      BY <1>1, <1>6, <2>2, Zenon DEF UnitInv, Sessions, Settled
    <2> QED
      BY <1>1, <1>2, <2>3, <2>4, Zenon DEF Sessions
  <1> QED
    BY <1>1, <1>2, <1>3, <1>4, <1>5, <1>7, Zenon DEF UnitInv

LEMMA ExceptFacts ==
    ASSUME NEW S, NEW s \in Seq(S), NEW u \in DOMAIN s, NEW e \in S
    PROVE  /\ [s EXCEPT ![u] = e] \in Seq(S) /\ DOMAIN [s EXCEPT ![u] = e] = DOMAIN s
           /\ [s EXCEPT ![u] = e][u] = e /\ \A v \in DOMAIN s : v # u => [s EXCEPT ![u] = e][v] = s[v]
  OBVIOUS

Stages == {"Reserved", "Writing", "Finished", "Failed"}

LEMMA SessionMoves ==
    ASSUME UnitInv, NEW u \in Units, NEW s \in Stages, U!InSession(u, s)
    PROVE  /\ session' \in Seq(Stages) /\ DOMAIN session' = Units /\ session'[u] = s
           /\ \A v \in Units : v # u => session'[v] = session[v]
  <1>1. session \in Seq(Stages) /\ DOMAIN session = Units
    BY Zenon DEF UnitInv, UnitType, Stages
  <1>2. session' = [session EXCEPT ![u] = s]
    BY Zenon DEF U!InSession
  <1> QED
    BY <1>1, <1>2, ExceptFacts, Zenon

LEMMA WriterSteps ==
    ASSUME UnitInv, NEW u \in Units, U!WriterStep(u)
    PROVE  UnitInv'
  <1>1. /\ open \subseteq Units /\ lost \subseteq Units /\ session \in Seq(Stages) /\ DOMAIN session = Units
        /\ \A v \in lost : session[v] = "Failed"
        /\ \A v \in Units : session[v] = "Finished" => v \notin open
    BY Zenon DEF UnitInv, UnitType, Sessions, Stages
  <1>2. CASE U!OpenWriter(u)
    <2>1. /\ owner[u] = "bound" /\ session[u] = "Reserved" /\ lost' = lost
          /\ UNCHANGED <<U!log, tripped, told, owner, U!threadvars>>
      BY <1>2, Zenon DEF U!OpenWriter
    <2>2. ~Settled(u) /\ u \notin lost
      BY <1>1, <2>1 DEF Settled
    <2>3. CASE U!InSession(u, "Writing") /\ open' = open \cup {u}
      <3>1. /\ session' \in Seq(Stages) /\ DOMAIN session' = Units /\ session'[u] = "Writing"
            /\ \A v \in Units : v # u => session'[v] = session[v]
        BY <2>3, SessionMoves DEF Stages
      <3>2. \A v \in lost' : session'[v] = "Failed"
        BY <1>1, <2>1, <2>2, <3>1, Zenon
      <3>3. \A v \in Units : session'[v] = "Finished" => v \notin open'
        BY <1>1, <2>3, <3>1
      <3>4. \A v \in Units : Settled(v) => v \notin open' /\ v \notin lost'
        BY <2>1, <2>2, <2>3, Zenon DEF Settled
      <3> QED
        BY <1>1, <2>1, <2>3, <3>1, <3>2, <3>3, <3>4, WriterKeeps, Zenon DEF Stages
    <2>4. CASE U!InSession(u, "Failed") /\ open' = open
      <3>1. /\ session' \in Seq(Stages) /\ DOMAIN session' = Units /\ session'[u] = "Failed"
            /\ \A v \in Units : v # u => session'[v] = session[v]
        BY <2>4, SessionMoves DEF Stages
      <3>2. \A v \in lost' : session'[v] = "Failed"
        BY <1>1, <2>1, <2>2, <3>1, Zenon
      <3>3. \A v \in Units : session'[v] = "Finished" => v \notin open'
        BY <1>1, <2>4, <3>1
      <3>4. \A v \in Units : Settled(v) => v \notin open' /\ v \notin lost'
        BY <2>1, <2>4, Zenon DEF Settled
      <3> QED
        BY <1>1, <2>1, <2>4, <3>1, <3>2, <3>3, <3>4, WriterKeeps, Zenon DEF Stages
    <2> QED
      BY <1>2, <2>3, <2>4, Zenon DEF U!OpenWriter
  <1>3. CASE U!WriteFails(u) \/ (U!FinishWriter(u) /\ session'[u] = "Failed" /\ U!InSession(u, "Failed")
                                   /\ open' = open /\ lost' \in {lost, lost \cup {u}})
    <2>1. /\ u \in open /\ U!InSession(u, "Failed") /\ open' = open /\ lost' \in {lost, lost \cup {u}}
          /\ UNCHANGED <<U!log, tripped, told, owner, U!threadvars>>
      BY <1>3, Zenon DEF U!WriteFails, U!FinishWriter
    <2>2. /\ session' \in Seq(Stages) /\ DOMAIN session' = Units /\ session'[u] = "Failed"
          /\ \A v \in Units : v # u => session'[v] = session[v]
      BY <2>1, SessionMoves DEF Stages
    <2>3. \A v \in lost' : session'[v] = "Failed"
      BY <1>1, <2>1, <2>2, Zenon
    <2>4. \A v \in Units : session'[v] = "Finished" => v \notin open'
      BY <1>1, <2>1, <2>2
    <2>5. \A v \in Units : Settled(v) => v \notin open' /\ v \notin lost'
      BY <2>1, Zenon DEF Settled
    <2>6. lost' \subseteq Units
      BY <1>1, <2>1, Zenon
    <2> QED
      BY <1>1, <2>1, <2>2, <2>3, <2>4, <2>5, <2>6, WriterKeeps, Zenon DEF Stages
  <1>4. CASE /\ U!FinishWriter(u) /\ U!CompletionFinish(u) /\ open' = open \ {u} /\ lost' = lost
    <2>1. UNCHANGED <<U!log, tripped, told, owner, U!threadvars>>
      BY <1>4, Zenon DEF U!FinishWriter
    <2>2. /\ session' \in Seq(Stages) /\ DOMAIN session' = Units
          /\ \A v \in Units : v # u \/ session[u] # "Writing" => session'[v] = session[v]
      <3>1. CASE session[u] = "Writing"
        <4>1. U!InSession(u, "Finished")
          BY <1>4, <3>1, Zenon DEF U!CompletionFinish
        <4> QED
          BY <3>1, <4>1, SessionMoves DEF Stages
      <3>2. CASE session[u] # "Writing"
        BY <1>1, <1>4, <3>2, Zenon DEF U!CompletionFinish
      <3> QED
        BY <3>1, <3>2, Zenon
    <2>3. \A v \in lost' : session'[v] = "Failed"
      <3>1. ASSUME NEW v \in lost
            PROVE  session'[v] = "Failed"
        <4>1. session[v] = "Failed" /\ v \in Units
          BY <1>1, Zenon
        <4>2. v # u \/ session[u] # "Writing"
          BY <4>1
        <4> QED
          BY <2>2, <4>1, <4>2, Zenon
      <3> QED
        BY <1>4, <3>1, Zenon
    <2>4. \A v \in Units : session'[v] = "Finished" => v \notin open'
      BY <1>1, <1>4, <2>2, Zenon
    <2>5. \A v \in Units : Settled(v) => v \notin open' /\ v \notin lost'
      BY <1>4, Zenon DEF Settled
    <2>6. open' \subseteq Units /\ lost' \subseteq Units
      BY <1>1, <1>4, Zenon
    <2> QED
      BY <2>1, <2>2, <2>3, <2>4, <2>5, <2>6, WriterKeeps, Zenon DEF Stages
  <1>5. CASE U!WriteAfterEnd(u)
    <2>1. /\ U!InSession(u, "Failed") /\ open' = open /\ lost' = lost
          /\ UNCHANGED <<U!log, tripped, told, owner, U!threadvars>>
      BY <1>5, Zenon DEF U!WriteAfterEnd
    <2>2. /\ session' \in Seq(Stages) /\ DOMAIN session' = Units /\ session'[u] = "Failed"
          /\ \A v \in Units : v # u => session'[v] = session[v]
      BY <2>1, SessionMoves DEF Stages
    <2>3. \A v \in lost' : session'[v] = "Failed"
      BY <1>1, <2>1, <2>2, Zenon
    <2>4. \A v \in Units : session'[v] = "Finished" => v \notin open'
      BY <1>1, <2>1, <2>2
    <2>5. \A v \in Units : Settled(v) => v \notin open' /\ v \notin lost'
      BY <2>1, Zenon DEF Settled
    <2> QED
      BY <1>1, <2>1, <2>2, <2>3, <2>4, <2>5, WriterKeeps, Zenon DEF Stages
  <1>6. ASSUME U!FinishWriter(u), U!InSession(u, "Failed")
        PROVE  session'[u] = "Failed"
    BY <1>6, SessionMoves DEF Stages
  <1> QED
    BY <1>2, <1>3, <1>4, <1>5, <1>6, Zenon DEF U!WriterStep, U!FinishWriter

-----------------------------------------------------------------------------
(* The steps of threads. *)

Owners == {"bound", "publishing", "gone"}
Places == {"idle", "lock", "ready", "decide", "execute", "release"}

\* A step that leaves the writers alone.
LEMMA ThreadKeeps ==
    ASSUME UnitInv, LogInv', Units' = Units, rows' \in Seq(Rows), Len(rows) <= Len(rows'),
           \A k \in 1 .. Len(rows) : rows'[k].decision = rows[k].decision /\ rows'[k].unit = rows[k].unit,
           \A k \in 1 .. Len(rows') : \/ k \in 1 .. Len(rows)
                                      \/ rows'[k].decision # "Authorized"
                                      \/ ~tripped /\ Settled(rows'[k].unit) /\ rows'[k].unit \in Units,
           UNCHANGED <<session, open, lost, tripped, told>>,
           \A u \in Units : owner[u] # "bound" => owner'[u] # "bound",
           UnitType', Holders', Open',
           \A t \in Threads : pc'[t] = "decide" /\ ready'[t] => cur'[t] \in Units /\ Settled(cur'[t]),
           "DecidedTwice" \notin answers'
    PROVE  UnitInv'
  <1>1. LogType /\ Told /\ Sessions
    BY Zenon DEF UnitInv, LogInv
  <1>2. DOMAIN rows = 1 .. Len(rows) /\ DOMAIN rows' = 1 .. Len(rows') /\ \A k \in DOMAIN rows : rows[k].unit \in Units
    BY <1>1, Domain, Zenon DEF LogType
  <1>3. Told'
    <2>1. ~tripped \/ \A k \in 1 .. Len(rows') : k \in 1 .. Len(rows) \/ rows'[k].decision # "Authorized"
      BY Zenon
    <2> QED
      BY <1>1, <2>1, ToldStays, Zenon
  <1>4. ASSUME NEW u \in Units, Settled(u)
        PROVE  u \notin open' /\ u \notin lost' /\ owner'[u] # "bound"
    BY <1>4, Zenon DEF Settled
  <1>5. ASSUME NEW k \in DOMAIN rows', rows'[k].decision = "Authorized"
        PROVE  rows'[k].unit \notin open' /\ rows'[k].unit \notin lost' /\ owner'[rows'[k].unit] # "bound"
    <2>1. rows'[k].unit \in Units /\ Settled(rows'[k].unit)
      BY <1>1, <1>2, <1>5, Zenon DEF Sessions
    <2> QED
      BY <1>4, <2>1, Zenon
  <1>6. ASSUME NEW t \in Threads, pc'[t] = "decide" /\ ready'[t]
        PROVE  cur'[t] \notin open' /\ cur'[t] \notin lost' /\ owner'[cur'[t]] # "bound"
    BY <1>4, <1>6, Zenon
  <1>7. Sessions'
    BY <1>1, <1>5, <1>6, Zenon DEF Sessions, Settled
  <1> QED
    BY <1>3, <1>7, Zenon DEF UnitInv

\* The same with the log unchanged.
LEMMA LogUnmoved ==
    ASSUME UnitInv, UNCHANGED <<rows, pending, decided, latest_authorized, executing>>
    PROVE  /\ LogInv' /\ Units' = Units /\ rows' \in Seq(Rows) /\ Len(rows) <= Len(rows')
           /\ \A k \in 1 .. Len(rows) : rows'[k].decision = rows[k].decision /\ rows'[k].unit = rows[k].unit
           /\ \A k \in 1 .. Len(rows') : k \in 1 .. Len(rows)
  <1>1. LogInv' /\ Units' = Units
    BY LogStays, Zenon DEF UnitInv
  <1>2. rows \in Seq(Rows)
    BY Zenon DEF UnitInv, LogInv, LogType
  <1>3. Len(rows) <= Len(rows)
    BY <1>2
  <1> QED
    BY <1>1, <1>2, <1>3, Zenon

\* One thread moves.
LEMMA Moved ==
    ASSUME UnitInv, NEW t \in Threads, NEW x \in Places, U!Moves(t, x)
    PROVE  /\ pc' \in [Threads -> Places] /\ pc'[t] = x /\ pc \in [Threads -> Places]
           /\ \A v \in Threads : v # t => pc'[v] = pc[v]
  BY Zenon DEF UnitInv, UnitType, U!Moves, Places

LEMMA TakeLockStep ==
    ASSUME UnitInv, NEW t \in Threads, U!TakeLock(t)
    PROVE  UnitInv'
  <1>1. /\ pc[t] = "lock" /\ lock = NoThread /\ lock' = t /\ U!Moves(t, "ready")
        /\ UNCHANGED <<rows, pending, decided, latest_authorized, executing, tripped, told, owner>>
        /\ UNCHANGED <<session, open, lost, cur, ready, answers>>
    BY Zenon DEF U!TakeLock, U!log, U!unitvars, U!writers
  <1>2. /\ pc' \in [Threads -> Places] /\ pc'[t] = "ready"
        /\ \A v \in Threads : v # t => pc'[v] = pc[v]
    BY <1>1, Moved DEF Places
  <1>3. LogInv' /\ Units' = Units
    BY <1>1, LogStays, Zenon DEF UnitInv
  <1>4. UnitType'
    BY <1>1, <1>2, <1>3, Zenon DEF UnitInv, UnitType, Places
  <1>5. Holders'
    <2>1. \A v \in Threads : ~Locked(v) /\ v # NoThread
      BY <1>1, UnitsAssumption, Zenon DEF UnitInv, Holders
    <2>2. \A v \in Threads : lock' = v <=> Locked(v)'
      BY <1>1, <1>2, <2>1, Zenon DEF Locked
    <2>3. \A v \in Threads : executing' = v <=> pc'[v] = "execute"
      BY <1>1, <1>2 DEF UnitInv, Holders
    <2>4. \A v \in Threads : pc'[v] # "idle" => pc[v] # "idle"
      BY <1>1, <1>2
    <2> QED
      BY <1>1, <1>3, <2>2, <2>3, <2>4, Zenon DEF UnitInv, Holders
  <1>6. Open'
    <2>1. \A v \in Threads : pc'[v] \in {"lock", "ready", "decide"} => pc[v] \in {"lock", "ready", "decide"}
      BY <1>1, <1>2
    <2> QED
      BY <1>1, <1>3, <2>1, Zenon DEF UnitInv, Open, Fresh
  <1>7. \A v \in Threads : pc'[v] = "decide" /\ ready'[v] => cur'[v] \in Units /\ Settled(cur'[v])
    <2>1. \A v \in Threads : pc'[v] = "decide" => pc[v] = "decide" /\ pc[v] # "idle"
      BY <1>1, <1>2
    <2> QED
      BY <1>1, <2>1, Zenon DEF UnitInv, Sessions, Holders
  <1> QED
    BY <1>1, <1>3, <1>4, <1>5, <1>6, <1>7, LogUnmoved, ThreadKeeps, Zenon DEF UnitInv

LEMMA CheckReadyStep ==
    ASSUME UnitInv, NEW t \in Threads, U!CheckReady(t)
    PROVE  UnitInv'
  <1>1. /\ pc[t] = "ready" /\ U!Moves(t, "decide")
        /\ UNCHANGED <<rows, pending, decided, latest_authorized, executing, tripped, told, owner>>
        /\ UNCHANGED <<session, open, lost, lock, cur, answers>>
    BY Zenon DEF U!CheckReady, U!log, U!unitvars, U!writers
  <1>2. PICK replaced \in BOOLEAN : ready' = [ready EXCEPT ![t] = (session[cur[t]] = "Finished") /\ ~replaced]
    BY Zenon DEF U!CheckReady
  <1>3. /\ pc' \in [Threads -> Places] /\ pc'[t] = "decide"
        /\ \A v \in Threads : v # t => pc'[v] = pc[v]
    BY <1>1, Moved DEF Places
  <1>4. /\ ready' \in [Threads -> BOOLEAN] /\ (ready'[t] => session[cur[t]] = "Finished")
        /\ \A v \in Threads : v # t => ready'[v] = ready[v]
    BY <1>2, Zenon DEF UnitInv, UnitType
  <1>5. LogInv' /\ Units' = Units
    BY <1>1, LogStays, Zenon DEF UnitInv
  <1>6. UnitType'
    BY <1>1, <1>3, <1>4, <1>5, Zenon DEF UnitInv, UnitType, Places
  <1>7. Holders'
    <2>1. \A v \in Threads : Locked(v)' <=> Locked(v)
      BY <1>1, <1>3 DEF Locked
    <2>2. \A v \in Threads : executing' = v <=> pc'[v] = "execute"
      BY <1>1, <1>3 DEF UnitInv, Holders
    <2>3. \A v \in Threads : pc'[v] # "idle" => pc[v] # "idle"
      BY <1>1, <1>3
    <2> QED
      BY <1>1, <1>5, <2>1, <2>2, <2>3, Zenon DEF UnitInv, Holders
  <1>8. Open'
    <2>1. \A v \in Threads : pc'[v] \in {"lock", "ready", "decide"} => pc[v] \in {"lock", "ready", "decide"}
      BY <1>1, <1>3
    <2> QED
      BY <1>1, <1>5, <2>1, Zenon DEF UnitInv, Open, Fresh
  <1>9. ASSUME NEW v \in Threads, pc'[v] = "decide" /\ ready'[v]
        PROVE  cur'[v] \in Units /\ Settled(cur'[v])
    <2>1. CASE v = t
      <3>1. cur[t] \in Units /\ owner[cur[t]] = "publishing" /\ session[cur[t]] = "Finished"
        BY <1>1, <1>4, <1>9, <2>1 DEF UnitInv, Holders
      <3>2. cur[t] \notin open /\ cur[t] \notin lost
        BY <3>1 DEF UnitInv, Sessions
      <3> QED
        BY <1>1, <2>1, <3>1, <3>2 DEF Settled
    <2>2. CASE v # t
      <3>1. pc[v] = "decide" /\ pc[v] # "idle" /\ ready[v]
        BY <1>3, <1>4, <1>9, <2>2
      <3> QED
        BY <1>1, <3>1, Zenon DEF UnitInv, Sessions, Holders
    <2> QED
      BY <2>1, <2>2, Zenon
  <1> QED
    BY <1>1, <1>5, <1>6, <1>7, <1>8, <1>9, LogUnmoved, ThreadKeeps, Zenon DEF UnitInv

LEMMA OwnerMoves ==
    ASSUME UnitInv, NEW u \in Units, NEW o \in Owners, owner' = [owner EXCEPT ![u] = o], Units' = Units
    PROVE  /\ owner' \in Seq(Owners) /\ DOMAIN owner' = Units' /\ owner'[u] = o
           /\ \A v \in Units : v # u => owner'[v] = owner[v]
  <1>1. owner \in Seq(Owners) /\ DOMAIN owner = Units
    BY Zenon DEF UnitInv, UnitType, Owners
  <1> QED
    BY <1>1, ExceptFacts, Zenon

\* A bound owner is given up: its unit is refused, or was.
LEMMA RefuseKeeps ==
    ASSUME UnitInv, NEW t \in Threads, NEW u \in Units, owner[u] = "bound",
           NEW decision \in {"RefusedCancelled", "RefusedError"}, U!Decide(t, u, decision),
           owner' = [owner EXCEPT ![u] = "gone"],
           UNCHANGED <<pc, cur, lock, ready, tripped, told, session, open, lost>>,
           "DecidedTwice" \notin answers'
    PROVE  UnitInv'
  <1>1. decision \in U!Decisions /\ decision # "Authorized" /\ t # NoThread
    BY UnitsAssumption DEF U!Decisions
  <1>2. /\ LogInv' /\ Units' = Units /\ rows' \in Seq(Rows) /\ Len(rows) <= Len(rows')
        /\ \A k \in 1 .. Len(rows) : rows'[k] = rows[k]
        /\ \A k \in 1 .. Len(rows') : k \in 1 .. Len(rows) \/ rows'[k].decision = decision
        /\ \A v \in Units : v # u => decided'[v] = decided[v]
        /\ executing' = executing
    <2>1. LogInv
      BY Zenon DEF UnitInv
    <2>2. /\ LogInv' /\ Units' = Units /\ rows' \in Seq(Rows) /\ Len(rows) <= Len(rows')
          /\ DOMAIN rows = 1 .. Len(rows) /\ DOMAIN rows' = 1 .. Len(rows')
          /\ \A k \in 1 .. Len(rows) : rows'[k] = rows[k]
          /\ \A k \in 1 .. Len(rows') : k \in 1 .. Len(rows)
                                            \/ (U!IsPending(u) /\ rows'[k].unit = u /\ rows'[k].decision = decision)
          /\ \A v \in Units : v # u => decided'[v] = decided[v]
          /\ U!IsPending(u) /\ decision = "Authorized" => executing' = t
          /\ ~(U!IsPending(u) /\ decision = "Authorized") => executing' = executing
      BY <1>1, <2>1, DecideKeeps, Zenon
    <2> QED
      BY <1>1, <2>2, Zenon
  <1>3. /\ owner' \in Seq(Owners) /\ DOMAIN owner' = Units' /\ owner'[u] = "gone"
        /\ \A v \in Units : v # u => owner'[v] = owner[v]
    BY <1>2, OwnerMoves, Zenon DEF Owners
  <1>4. \A v \in Threads : pc[v] # "idle" => cur[v] \in Units /\ cur[v] # u /\ owner[cur[v]] = "publishing"
    BY DEF UnitInv, Holders
  <1>5. UnitType'
    BY <1>2, <1>3, Zenon DEF UnitInv, UnitType, Owners
  <1>6. Holders'
    <2>1. \A v \in Threads : lock' = v <=> Locked(v)'
      BY Zenon DEF UnitInv, Holders, Locked
    <2>2. \A v \in Threads : executing' = v <=> pc'[v] = "execute"
      BY <1>2, Zenon DEF UnitInv, Holders
    <2>3. \A v \in Threads : pc'[v] # "idle" => cur'[v] \in Units' /\ owner'[cur'[v]] = "publishing"
      BY <1>2, <1>3, <1>4, Zenon
    <2> QED
      BY <2>1, <2>2, <2>3, Zenon DEF UnitInv, Holders
  <1>7. Open'
    <2>1. \A v \in Units : owner'[v] = "bound" => v # u /\ owner[v] = "bound"
      BY <1>3
    <2>2. \A v \in Threads : pc[v] \in {"lock", "ready", "decide"} => pc[v] # "idle"
      OBVIOUS
    <2> QED
      BY <1>2, <1>4, <2>1, <2>2, Zenon DEF UnitInv, Open, Fresh
  <1>8. \A v \in Threads : pc'[v] = "decide" /\ ready'[v] => cur'[v] \in Units /\ Settled(cur'[v])
    <2>1. \A v \in Threads : pc'[v] = "decide" => pc[v] # "idle"
      OBVIOUS
    <2> QED
      BY <1>4, <2>1, Zenon DEF UnitInv, Sessions
  <1>9. \A v \in Units : owner[v] # "bound" => owner'[v] # "bound"
    BY <1>3
  <1>10. \A k \in 1 .. Len(rows) : rows'[k].decision = rows[k].decision /\ rows'[k].unit = rows[k].unit
    BY <1>2, Zenon
  <1>11. \A k \in 1 .. Len(rows') : k \in 1 .. Len(rows) \/ rows'[k].decision # "Authorized"
    BY <1>1, <1>2, Zenon
  <1> QED
    BY <1>2, <1>5, <1>6, <1>7, <1>8, <1>9, <1>10, <1>11, ThreadKeeps, Zenon

LEMMA DropOwnerStep ==
    ASSUME UnitInv, NEW t \in Threads, NEW u \in Units, U!DropOwner(t, u)
    PROVE  UnitInv'
  <1>1. /\ owner[u] = "bound" /\ U!Decide(t, u, IF tripped THEN "RefusedCancelled" ELSE "RefusedError")
        /\ owner' = [owner EXCEPT ![u] = "gone"]
        /\ UNCHANGED <<pc, cur, lock, ready, tripped, told, session, open, lost>>
        /\ answers' = answers
    BY Zenon DEF U!DropOwner, U!threadvars, U!writers
  <1>2. (IF tripped THEN "RefusedCancelled" ELSE "RefusedError") \in {"RefusedCancelled", "RefusedError"}
    BY Zenon
  <1> QED
    BY <1>1, <1>2, RefuseKeeps, Zenon DEF UnitInv

LEMMA EnterPublishStep ==
    ASSUME UnitInv, NEW t \in Threads, NEW u \in Units, U!EnterPublish(t, u)
    PROVE  UnitInv'
  <1>1. /\ U!RunsCaller(t) /\ owner[u] = "bound"
        /\ UNCHANGED <<tripped, told, session, open, lost, lock, ready>>
    BY Zenon DEF U!EnterPublish, U!writers
  <1>2. CASE U!reentered(t)
    <2>1. U!RefuseReentry(t, u)
      BY <1>2, Zenon DEF U!EnterPublish
    <2>2. /\ U!Decide(t, u, "RefusedError") /\ owner' = [owner EXCEPT ![u] = "gone"] /\ UNCHANGED <<pc, cur>>
          /\ answers' \in {answers \cup {"Reentered"}, answers \cup {"Cancelled"}}
      BY <2>1, Zenon DEF U!RefuseReentry, U!Answer
    <2>3. "DecidedTwice" \notin answers'
      BY <2>2 DEF UnitInv
    <2>4. "RefusedError" \in {"RefusedCancelled", "RefusedError"}
      BY Zenon
    <2> QED
      BY <1>1, <2>2, <2>3, <2>4, RefuseKeeps, Zenon
  <1>3. CASE ~U!reentered(t)
    <2>1. /\ owner' = [owner EXCEPT ![u] = "publishing"] /\ U!Moves(t, "lock") /\ cur' = [cur EXCEPT ![t] = u]
          /\ UNCHANGED <<rows, pending, decided, latest_authorized, executing, answers>>
      BY <1>3, Zenon DEF U!EnterPublish, U!log
    <2>2. pc[t] = "idle"
      BY <1>1, <1>3, Zenon DEF UnitInv, Holders, U!RunsCaller, U!reentered
    <2>3. LogInv' /\ Units' = Units
      BY <2>1, LogStays, Zenon DEF UnitInv
    <2>4. /\ owner' \in Seq(Owners) /\ DOMAIN owner' = Units' /\ owner'[u] = "publishing"
          /\ \A v \in Units : v # u => owner'[v] = owner[v]
      BY <2>1, <2>3, OwnerMoves, Zenon DEF Owners
    <2>5. /\ pc' \in [Threads -> Places] /\ pc'[t] = "lock"
          /\ \A v \in Threads : v # t => pc'[v] = pc[v]
      BY <2>1, Moved DEF Places
    <2>6. u \in Nat
      BY DEF UnitInv, LogInv, LogType, Units
    <2>7. cur' \in [Threads -> Nat] /\ cur'[t] = u /\ \A v \in Threads : v # t => cur'[v] = cur[v]
      BY <2>1, <2>6, Zenon DEF UnitInv, UnitType
    <2>8. \A v \in Threads : pc[v] # "idle" => v # t /\ cur[v] \in Units /\ cur[v] # u /\ owner[cur[v]] = "publishing"
      BY <1>1, <2>2 DEF UnitInv, Holders
    <2>9. UnitType'
      BY <1>1, <2>1, <2>3, <2>4, <2>5, <2>7, Zenon DEF UnitInv, UnitType, Owners, Places
    <2>10. Holders'
      <3>1. \A v \in Threads : Locked(v)' <=> Locked(v)
        BY <2>2, <2>5 DEF Locked
      <3>2. \A v \in Threads : executing' = v <=> pc'[v] = "execute"
        BY <2>1, <2>2, <2>5 DEF UnitInv, Holders
      <3>3. \A v \in Threads : pc'[v] # "idle" => cur'[v] \in Units' /\ owner'[cur'[v]] = "publishing"
        BY <2>3, <2>4, <2>5, <2>7, <2>8, Zenon
      <3>4. \A v, w \in Threads : v # w /\ pc'[v] # "idle" /\ pc'[w] # "idle" => cur'[v] # cur'[w]
        <4>1. ASSUME NEW v \in Threads, NEW w \in Threads, v # w /\ pc'[v] # "idle" /\ pc'[w] # "idle"
              PROVE  cur'[v] # cur'[w]
          <5>1. CASE v # t /\ w # t
            <6>1. v # w /\ pc[v] # "idle" /\ pc[w] # "idle" => cur[v] # cur[w]
              BY Zenon DEF UnitInv, Holders
            <6> QED
              BY <2>5, <2>7, <4>1, <5>1, <6>1, Zenon
          <5>2. CASE v = t
            BY <2>5, <2>7, <2>8, <4>1, <5>2, Zenon
          <5>3. CASE w = t
            BY <2>5, <2>7, <2>8, <4>1, <5>3, Zenon
          <5> QED
            BY <5>1, <5>2, <5>3, Zenon
        <4> QED
          BY <4>1, Zenon
      <3> QED
        BY <1>1, <3>1, <3>2, <3>3, <3>4, Zenon DEF UnitInv, Holders
    <2>11. Open'
      <3>1. \A v \in Units : owner'[v] = "bound" => owner[v] = "bound"
        BY <2>4
      <3>2. \A v \in Threads : v # t /\ pc'[v] \in {"lock", "ready", "decide"} => pc[v] \in {"lock", "ready", "decide"}
        BY <2>5
      <3>3. Fresh(u)
        BY <1>1, Zenon DEF UnitInv, Open
      <3>4. \A v \in Threads : pc'[v] \in {"lock", "ready", "decide"} => Fresh(cur'[v])
        BY <2>7, <3>2, <3>3, Zenon DEF UnitInv, Open
      <3> QED
        BY <2>1, <2>3, <3>1, <3>4, Zenon DEF UnitInv, Open, Fresh
    <2>12. \A v \in Threads : pc'[v] = "decide" /\ ready'[v] => cur'[v] \in Units /\ Settled(cur'[v])
      <3>1. \A v \in Threads : pc'[v] = "decide" => v # t /\ pc[v] = "decide" /\ pc[v] # "idle"
        BY <2>5
      <3> QED
        BY <1>1, <2>7, <2>8, <3>1, Zenon DEF UnitInv, Sessions
    <2>13. \A v \in Units : owner[v] # "bound" => owner'[v] # "bound"
      BY <2>4
    <2> QED
      BY <1>1, <2>1, <2>9, <2>10, <2>11, <2>12, <2>13, LogUnmoved, ThreadKeeps, Zenon DEF UnitInv
  <1> QED
    BY <1>2, <1>3, Zenon

LEMMA LockHolder ==
    ASSUME UnitInv, NEW t \in Threads, Locked(t), pc[t] # "execute"
    PROVE  /\ lock = t /\ executing = NoThread /\ t # NoThread
           /\ \A v \in Threads : v # t => ~Locked(v)
  <1>1. lock = t /\ (\A v \in Threads : v # t => ~Locked(v)) /\ t # NoThread
    BY UnitsAssumption, Zenon DEF UnitInv, Holders
  <1>2. executing = NoThread
    <2>1. CASE executing \in Threads
      <3>1. pc[executing] = "execute"
        BY <2>1, Zenon DEF UnitInv, Holders
      <3>2. Locked(executing)
        BY <3>1 DEF Locked
      <3> QED
        BY <1>1, <2>1, <3>1, <3>2, Zenon
    <2> QED
      BY <2>1, Zenon DEF UnitInv, UnitType
  <1> QED
    BY <1>1, <1>2, Zenon

\* publish_unit returns: the execution lock is free and the owner gone.
LEMMA ReturnKeeps ==
    ASSUME UnitInv, NEW t \in Threads, Locked(t), pc[t] # "execute", U!Returns(t),
           LogInv', Units' = Units, rows' \in Seq(Rows), Len(rows) <= Len(rows'),
           \A k \in 1 .. Len(rows) : rows'[k].decision = rows[k].decision /\ rows'[k].unit = rows[k].unit,
           \A k \in 1 .. Len(rows') : k \in 1 .. Len(rows) \/ rows'[k].decision # "Authorized",
           \A v \in Units : v # cur[t] => decided'[v] = decided[v],
           executing' = executing,
           UNCHANGED <<tripped, told, session, open, lost>>, "DecidedTwice" \notin answers'
    PROVE  UnitInv'
  <1>1. /\ lock' = NoThread /\ U!Moves(t, "idle") /\ owner' = [owner EXCEPT ![cur[t]] = "gone"]
        /\ cur' = [cur EXCEPT ![t] = 0] /\ ready' = [ready EXCEPT ![t] = FALSE]
    BY Zenon DEF U!Returns
  <1>2. pc[t] # "idle"
    BY DEF Locked
  <1>3. cur[t] \in Units /\ owner[cur[t]] = "publishing"
    BY <1>2, Zenon DEF UnitInv, Holders
  <1>4. /\ executing = NoThread /\ t # NoThread
        /\ \A v \in Threads : v # t => ~Locked(v)
    BY LockHolder, Zenon
  <1>5. /\ pc' \in [Threads -> Places] /\ pc'[t] = "idle"
        /\ \A v \in Threads : v # t => pc'[v] = pc[v]
    BY <1>1, Moved DEF Places
  <1>6. /\ owner' \in Seq(Owners) /\ DOMAIN owner' = Units' /\ owner'[cur[t]] = "gone"
        /\ \A v \in Units : v # cur[t] => owner'[v] = owner[v]
    BY <1>1, <1>3, OwnerMoves, Zenon DEF Owners
  <1>7. 0 \in Nat
    OBVIOUS
  <1>8. /\ cur' \in [Threads -> Nat] /\ ready' \in [Threads -> BOOLEAN]
        /\ \A v \in Threads : v # t => cur'[v] = cur[v] /\ ready'[v] = ready[v]
    BY <1>1, <1>7, Zenon DEF UnitInv, UnitType
  <1>9. \A v \in Threads : v # t /\ pc[v] # "idle" => cur[v] \in Units /\ cur[v] # cur[t] /\ owner[cur[v]] = "publishing"
    BY <1>2, Zenon DEF UnitInv, Holders
  <1>10. UnitType'
    BY <1>1, <1>4, <1>5, <1>6, <1>8, Zenon DEF UnitInv, UnitType, Owners, Places
  <1>11. Holders'
    <2>1. \A v \in Threads : ~Locked(v)' /\ v # NoThread
      <3>1. ~Locked(t)'
        BY <1>5 DEF Locked
      <3> QED
        BY <1>4, <1>5, <3>1, UnitsAssumption, Zenon DEF Locked
    <2>2. \A v \in Threads : executing' = v <=> pc'[v] = "execute"
      <3>1. pc'[t] # "execute"
        BY <1>5
      <3> QED
        BY <1>4, <1>5, <2>1, <3>1, Zenon DEF UnitInv, Holders
    <2>3. \A v \in Threads : pc'[v] # "idle" => v # t /\ pc[v] # "idle"
      BY <1>5, Zenon
    <2>4. \A v \in Threads : pc'[v] # "idle" => cur'[v] \in Units' /\ owner'[cur'[v]] = "publishing"
      BY <1>6, <1>8, <1>9, <2>3, ZenonT(40)
    <2>5. \A v, w \in Threads : v # w /\ pc'[v] # "idle" /\ pc'[w] # "idle" => cur'[v] # cur'[w]
      <3>1. ASSUME NEW v \in Threads, NEW w \in Threads, v # w /\ pc'[v] # "idle" /\ pc'[w] # "idle"
            PROVE  cur'[v] # cur'[w]
        <4>1. v # w /\ pc[v] # "idle" /\ pc[w] # "idle" => cur[v] # cur[w]
          BY Zenon DEF UnitInv, Holders
        <4> QED
          BY <1>8, <2>3, <3>1, <4>1, Zenon
      <3> QED
        BY <3>1, Zenon
    <2> QED
      BY <1>1, <2>1, <2>2, <2>4, <2>5, Zenon DEF Holders
  <1>12. Open'
    <2>1. \A v \in Units : owner'[v] = "bound" => v # cur[t] /\ owner[v] = "bound"
      BY <1>6
    <2>2. \A v \in Threads : pc'[v] \in {"lock", "ready", "decide"} => v # t /\ pc[v] # "idle" /\ pc[v] \in {"lock", "ready", "decide"}
      BY <1>5
    <2>3. \A v \in Threads : pc'[v] \in {"lock", "ready", "decide"} => Fresh(cur[v]) /\ cur'[v] = cur[v] /\ decided'[cur[v]] = decided[cur[v]]
      BY <1>8, <1>9, <2>2, Zenon DEF UnitInv, Open
    <2> QED
      BY <2>1, <2>3, ZenonT(40) DEF UnitInv, Open, Fresh
  <1>13. \A v \in Threads : pc'[v] = "decide" /\ ready'[v] => cur'[v] \in Units /\ Settled(cur'[v])
    <2>1. \A v \in Threads : pc'[v] = "decide" => v # t /\ pc[v] = "decide" /\ pc[v] # "idle"
      BY <1>5
    <2> QED
      BY <1>8, <1>9, <2>1, Zenon DEF UnitInv, Sessions
  <1>14. \A v \in Units : owner[v] # "bound" => owner'[v] # "bound"
    BY <1>6
  <1> QED
    BY <1>10, <1>11, <1>12, <1>13, <1>14, ThreadKeeps, Zenon

LEMMA ReleaseStep ==
    ASSUME UnitInv, NEW t \in Threads, U!Release(t)
    PROVE  UnitInv'
  <1>1. /\ pc[t] = "release" /\ U!Returns(t)
        /\ UNCHANGED <<rows, pending, decided, latest_authorized, executing>>
        /\ UNCHANGED <<tripped, told, session, open, lost, answers>>
    BY Zenon DEF U!Release, U!log, U!writers
  <1>2. Locked(t) /\ pc[t] # "execute"
    BY <1>1 DEF Locked
  <1> QED
    BY <1>1, <1>2, LogUnmoved, ReturnKeeps, Zenon DEF UnitInv

LEMMA ExecuteEndsStep ==
    ASSUME UnitInv, NEW t \in Threads, U!ExecuteEnds(t)
    PROVE  UnitInv'
  <1>1. /\ pc[t] = "execute" /\ U!Moves(t, "release")
        /\ UNCHANGED <<tripped, told, owner, session, open, lost, lock, cur, ready, answers>>
    BY Zenon DEF U!ExecuteEnds, U!unitvars, U!writers
  <1>2. PICK effect \in Effects : U!FinishRow(latest_authorized, effect)
    BY Zenon DEF U!ExecuteEnds
  <1>3. executing = t /\ executing # NoThread
    BY <1>1, UnitsAssumption, Zenon DEF UnitInv, Holders
  <1>4. LogInv
    BY Zenon DEF UnitInv
  <1>5. /\ LogInv' /\ Units' = Units /\ decided' = decided /\ executing' = NoThread
        /\ DOMAIN rows' = DOMAIN rows /\ Len(rows') = Len(rows)
        /\ \A k \in DOMAIN rows : rows'[k].unit = rows[k].unit /\ rows'[k].decision = rows[k].decision
    BY <1>2, <1>3, <1>4, FinishLog, Zenon
  <1>6. rows \in Seq(Rows) /\ rows' \in Seq(Rows)
    BY <1>4, <1>5, Zenon DEF LogInv, LogType
  <1>7. DOMAIN rows = 1 .. Len(rows) /\ Len(rows) \in Nat
    BY <1>6, Domain, Zenon
  <1>8. Len(rows) <= Len(rows')
    BY <1>5, <1>7
  <1>9. /\ pc' \in [Threads -> Places] /\ pc'[t] = "release"
        /\ \A v \in Threads : v # t => pc'[v] = pc[v]
    BY <1>1, Moved DEF Places
  <1>10. UnitType'
    BY <1>1, <1>5, <1>9, Zenon DEF UnitInv, UnitType, Places
  <1>11. Holders'
    <2>1. \A v \in Threads : Locked(v)' <=> Locked(v)
      BY <1>1, <1>9 DEF Locked
    <2>2. \A v \in Threads : executing' = v <=> pc'[v] = "execute"
      <3>1. \A v \in Threads : v # NoThread /\ (v # t => pc[v] # "execute")
        BY <1>3, UnitsAssumption, Zenon DEF UnitInv, Holders
      <3>2. pc'[t] # "execute"
        BY <1>9
      <3> QED
        BY <1>5, <1>9, <3>1, <3>2, Zenon
    <2>3. \A v \in Threads : pc'[v] # "idle" => pc[v] # "idle"
      BY <1>1, <1>9
    <2> QED
      BY <1>1, <1>5, <2>1, <2>2, <2>3, Zenon DEF UnitInv, Holders
  <1>12. Open'
    <2>1. \A v \in Threads : pc'[v] \in {"lock", "ready", "decide"} => pc[v] \in {"lock", "ready", "decide"}
      BY <1>1, <1>9
    <2> QED
      BY <1>1, <1>5, <2>1, Zenon DEF UnitInv, Open, Fresh
  <1>13. \A v \in Threads : pc'[v] = "decide" /\ ready'[v] => cur'[v] \in Units /\ Settled(cur'[v])
    <2>1. \A v \in Threads : pc'[v] = "decide" => pc[v] = "decide" /\ pc[v] # "idle"
      BY <1>1, <1>9
    <2> QED
      BY <1>1, <2>1, Zenon DEF UnitInv, Sessions, Holders
  <1> QED
    BY <1>1, <1>5, <1>6, <1>7, <1>8, <1>10, <1>11, <1>12, <1>13, ThreadKeeps, Zenon DEF UnitInv

LEMMA DecideUnitStep ==
    ASSUME UnitInv, NEW t \in Threads, U!DecideUnit(t)
    PROVE  UnitInv'
  <1> DEFINE u == cur[t]
             d == U!Decision(t)
  <1>1. /\ pc[t] = "decide" /\ U!Decide(t, u, d)
        /\ UNCHANGED <<tripped, told, session, open, lost>>
    BY Zenon DEF U!DecideUnit, U!writers
  <1>2. Locked(t) /\ pc[t] # "execute" /\ pc[t] # "idle" /\ pc[t] \in {"lock", "ready", "decide"}
    BY <1>1 DEF Locked
  <1>3. /\ lock = t /\ executing = NoThread /\ t # NoThread
        /\ \A v \in Threads : v # t => ~Locked(v)
    BY <1>2, LockHolder, Zenon
  <1>4. u \in Units /\ owner[u] = "publishing" /\ Fresh(u)
    BY <1>2, Zenon DEF UnitInv, Holders, Open
  <1>5. /\ d \in U!Decisions
        /\ d \in {"Authorized", "RefusedCancelled", "RefusedError"}
        /\ d = "Authorized" => ~tripped /\ ready[t]
    BY DEF U!Decision, U!Decisions
  <1>6. LogInv
    BY Zenon DEF UnitInv
  <1> HIDE DEF u, d
  <1>7. /\ LogInv' /\ Units' = Units /\ rows' \in Seq(Rows) /\ Len(rows) <= Len(rows')
        /\ DOMAIN rows = 1 .. Len(rows) /\ DOMAIN rows' = 1 .. Len(rows')
        /\ \A k \in 1 .. Len(rows) : rows'[k] = rows[k]
        /\ \A k \in 1 .. Len(rows') : k \in 1 .. Len(rows)
                                         \/ (U!IsPending(u) /\ rows'[k].unit = u /\ rows'[k].decision = d)
        /\ \A v \in Units : v # u => decided'[v] = decided[v]
        /\ U!IsPending(u) /\ d = "Authorized" => executing' = t
        /\ ~(U!IsPending(u) /\ d = "Authorized") => executing' = executing
    BY <1>1, <1>3, <1>4, <1>5, <1>6, DecideKeeps, Zenon
  <1>8. \A k \in 1 .. Len(rows) : rows'[k].decision = rows[k].decision /\ rows'[k].unit = rows[k].unit
    BY <1>7, Zenon
  <1>9. CASE U!IsPending(u) /\ d = "Authorized"
    <2>1. U!Moves(t, "execute") /\ UNCHANGED <<lock, owner, cur, ready, answers>>
      BY <1>9, Zenon DEF U!DecideUnit, u, d
    <2>2. /\ pc' \in [Threads -> Places] /\ pc'[t] = "execute"
          /\ \A v \in Threads : v # t => pc'[v] = pc[v]
      BY <2>1, Moved DEF Places
    <2>3. executing' = t
      BY <1>7, <1>9, Zenon
    <2>4. UnitType'
      BY <1>1, <1>7, <2>1, <2>2, <2>3, Zenon DEF UnitInv, UnitType, Places
    <2>5. Holders'
      <3>1. \A v \in Threads : Locked(v)' <=> Locked(v)
        BY <1>1, <2>2 DEF Locked
      <3>2. \A v \in Threads : v # t => pc'[v] # "execute"
        BY <1>3, <2>2 DEF Locked
      <3>3. \A v \in Threads : pc'[v] # "idle" => pc[v] # "idle"
        BY <1>1, <2>2
      <3> QED
        BY <1>7, <2>1, <2>2, <2>3, <3>1, <3>2, <3>3, Zenon DEF UnitInv, Holders
    <2>6. \A v \in Threads : v # t /\ pc[v] # "idle" => cur[v] \in Units /\ cur[v] # u
      BY <1>2, Zenon DEF UnitInv, Holders, u
    <2>7. Open'
      <3>1. \A v \in Threads : pc'[v] \in {"lock", "ready", "decide"} => v # t /\ pc[v] # "idle" /\ pc[v] \in {"lock", "ready", "decide"}
        BY <2>2
      <3>2. \A v \in Threads : pc'[v] \in {"lock", "ready", "decide"} => Fresh(cur[v]) /\ decided'[cur[v]] = decided[cur[v]]
        BY <1>7, <2>6, <3>1, Zenon DEF UnitInv, Open
      <3>3. \A v \in Units : owner[v] = "bound" => v # u
        BY <1>4
      <3> QED
        BY <1>7, <2>1, <3>2, <3>3, Zenon DEF UnitInv, Open, Fresh
    <2>8. \A v \in Threads : pc'[v] = "decide" /\ ready'[v] => cur'[v] \in Units /\ Settled(cur'[v])
      <3>1. \A v \in Threads : pc'[v] = "decide" => v # t /\ pc[v] = "decide" /\ pc[v] # "idle"
        BY <2>2
      <3> QED
        BY <2>1, <2>6, <3>1, Zenon DEF UnitInv, Sessions
    <2>9. ~tripped /\ Settled(u)
      BY <1>1, <1>5, <1>9, Zenon DEF UnitInv, Sessions, u
    <2>10. \A k \in 1 .. Len(rows') : \/ k \in 1 .. Len(rows)
                                      \/ ~tripped /\ Settled(rows'[k].unit) /\ rows'[k].unit \in Units
      BY <1>4, <1>7, <2>9, Zenon
    <2> QED
      BY <1>1, <1>7, <1>8, <2>1, <2>4, <2>5, <2>7, <2>8, <2>10, ThreadKeeps, Zenon DEF UnitInv
  <1>10. CASE ~(U!IsPending(u) /\ d = "Authorized")
    <2>1. U!Answer(U!Refusal(t, u)) /\ U!Returns(t)
      BY <1>10, Zenon DEF U!DecideUnit, u, d
    <2>2. U!Refusal(t, u) # "DecidedTwice"
      <3>1. CASE U!IsPending(u)
        <4>1. d \in {"RefusedCancelled", "RefusedError"}
          BY <1>5, <1>10, <3>1
        <4> QED
          BY <3>1, <4>1 DEF U!Refusal, d
      <3>2. CASE ~U!IsPending(u)
        <4>1. decided[u] = "RefusedCancelled"
          BY <1>4, <1>6, <3>2, PendingIs DEF Fresh
        <4> QED
          BY <3>2, <4>1 DEF U!Refusal
      <3> QED
        BY <3>1, <3>2, Zenon
    <2>3. "DecidedTwice" \notin answers'
      BY <2>1, <2>2, Zenon DEF U!Answer, UnitInv
    <2>4. \A k \in 1 .. Len(rows') : k \in 1 .. Len(rows) \/ rows'[k].decision # "Authorized"
      BY <1>7, <1>10, Zenon
    <2>5. executing' = executing
      BY <1>7, <1>10, Zenon
    <2>6. \A v \in Units : v # cur[t] => decided'[v] = decided[v]
      BY <1>7, Zenon DEF u
    <2> QED
      BY <1>1, <1>2, <1>7, <1>8, <2>1, <2>3, <2>4, <2>5, <2>6, ReturnKeeps, Zenon
  <1> QED
    BY <1>9, <1>10, Zenon

LEMMA BindStep ==
    ASSUME UnitInv, NEW t \in Threads, U!Bind(t)
    PROVE  UnitInv'
  <1>1. /\ U!Enlist /\ owner' = Append(owner, "bound") /\ session' = Append(session, "Reserved")
        /\ UNCHANGED <<tripped, told, open, lost, lock, pc, cur, ready, answers>>
    BY Zenon DEF U!Bind, U!threadvars
  <1>2. LogInv /\ LogType
    BY Zenon DEF UnitInv, LogInv
  <1>3. PICK n : n = Len(decided) + 1
    BY Zenon
  <1>4. /\ LogInv' /\ rows' = rows /\ executing' = executing
        /\ Len(decided) \in Nat /\ Units = 1 .. Len(decided) /\ Units' = 1 .. n
        /\ (\A u \in Units : decided'[u] = decided[u]) /\ decided'[n] = "Undecided"
    BY <1>1, <1>2, <1>3, EnlistLog, Zenon
  <1>5. n \notin Units /\ n \in Units' /\ \A u \in Units' : u \in Units \/ u = n
    BY <1>3, <1>4
  <1>6. Units \subseteq Units'
    BY <1>3, <1>4
  <1>7. /\ owner \in Seq(Owners) /\ session \in Seq(Stages)
        /\ DOMAIN owner = 1 .. Len(decided) /\ DOMAIN session = 1 .. Len(decided)
        /\ "bound" \in Owners /\ "Reserved" \in Stages
    BY <1>4, Zenon DEF UnitInv, UnitType, Owners, Stages
  <1>8. Len(owner) = Len(decided) /\ Len(session) = Len(decided)
    BY <1>4, <1>7
  <1>9. /\ owner' \in Seq(Owners) /\ DOMAIN owner' = Units' /\ owner'[n] = "bound"
        /\ \A u \in Units : owner'[u] = owner[u]
    <2>1. /\ owner' \in Seq(Owners) /\ DOMAIN owner' = 1 .. Len(owner) + 1
          /\ (\A i \in 1 .. Len(owner) : owner'[i] = owner[i]) /\ owner'[Len(owner) + 1] = "bound"
      BY <1>1, <1>7, AppendFacts
    <2> QED
      BY <1>3, <1>4, <1>8, <2>1, Zenon
  <1>10. /\ session' \in Seq(Stages) /\ DOMAIN session' = Units' /\ session'[n] = "Reserved"
         /\ \A u \in Units : session'[u] = session[u]
    <2>1. /\ session' \in Seq(Stages) /\ DOMAIN session' = 1 .. Len(session) + 1
          /\ (\A i \in 1 .. Len(session) : session'[i] = session[i]) /\ session'[Len(session) + 1] = "Reserved"
      BY <1>1, <1>7, AppendFacts
    <2> QED
      BY <1>3, <1>4, <1>8, <2>1, Zenon
  <1>11. open \subseteq Units /\ lost \subseteq Units /\ open' = open /\ lost' = lost
    BY <1>1, Zenon DEF UnitInv, UnitType
  <1>12. \A v \in Threads : pc[v] # "idle" => cur[v] \in Units
    BY Zenon DEF UnitInv, Holders
  <1>13. UnitType'
    BY <1>1, <1>4, <1>6, <1>9, <1>10, <1>11, Zenon DEF UnitInv, UnitType, Owners, Stages
  <1>14. Holders'
    <2>1. \A v \in Threads : lock' = v <=> Locked(v)'
      BY <1>1, Zenon DEF UnitInv, Holders, Locked
    <2>2. \A v \in Threads : pc'[v] # "idle" => cur'[v] \in Units' /\ owner'[cur'[v]] = "publishing"
      BY <1>1, <1>6, <1>9, <1>12, Zenon DEF UnitInv, Holders
    <2> QED
      BY <1>1, <1>4, <2>1, <2>2, Zenon DEF UnitInv, Holders
  <1>15. Open'
    <2>1. \A u \in Units' : owner'[u] = "bound" => Fresh(u)'
      <3>1. Fresh(n)'
        BY <1>4 DEF Fresh
      <3>2. \A u \in Units : owner'[u] = "bound" => Fresh(u)'
        BY <1>4, <1>9, Zenon DEF UnitInv, Open, Fresh
      <3> QED
        BY <1>5, <3>1, <3>2, Zenon
    <2>2. \A v \in Threads : pc[v] \in {"lock", "ready", "decide"} => pc[v] # "idle"
      OBVIOUS
    <2>3. \A v \in Threads : pc'[v] \in {"lock", "ready", "decide"} => decided'[cur'[v]] \in {"Undecided", "RefusedCancelled"}
      BY <1>1, <1>4, <1>12, <2>2, Zenon DEF UnitInv, Open, Fresh
    <2> QED
      BY <2>1, <2>3, Zenon DEF Open, Fresh
  <1>16. Told'
    BY <1>1, <1>4, Zenon DEF UnitInv, Told, U!CancelToldTrue
  <1>17. Sessions'
    <2>2. \A u \in lost' : session'[u] = "Failed"
      BY <1>10, <1>11, Zenon DEF UnitInv, Sessions
    <2>3. \A u \in Units' : session'[u] = "Finished" => u \notin open'
      BY <1>5, <1>10, <1>11, Zenon DEF UnitInv, Sessions
    <2>4. ASSUME NEW v \in Threads, pc'[v] = "decide" /\ ready'[v]
          PROVE  cur'[v] \notin open' /\ cur'[v] \notin lost' /\ owner'[cur'[v]] # "bound"
      <3>1. pc[v] # "idle" /\ pc[v] = "decide" /\ ready[v]
        BY <1>1, <2>4
      <3>2. cur[v] \in Units /\ Settled(cur[v])
        BY <1>12, <3>1, Zenon DEF UnitInv, Sessions
      <3> QED
        BY <1>1, <1>9, <3>2, Zenon DEF Settled
    <2>5. ASSUME NEW k \in DOMAIN rows', rows'[k].decision = "Authorized"
          PROVE  rows'[k].unit \notin open' /\ rows'[k].unit \notin lost' /\ owner'[rows'[k].unit] # "bound"
      <3>1. rows[k].unit \in Units /\ Settled(rows[k].unit)
        BY <1>2, <1>4, <2>5, Zenon DEF UnitInv, Sessions, LogType
      <3> QED
        BY <1>1, <1>4, <1>9, <3>1, Zenon DEF Settled
    <2> QED
      BY <2>2, <2>3, <2>4, <2>5, Zenon DEF Sessions, Settled
  <1> QED
    BY <1>1, <1>4, <1>13, <1>14, <1>15, <1>16, <1>17, Zenon DEF UnitInv

LEMMA CancelStep ==
    ASSUME UnitInv, NEW t \in Threads, U!Cancel(t)
    PROVE  UnitInv'
  <1>1. /\ tripped' = TRUE /\ told' = told \cup {U!CancelOutcome} /\ U!CancelLog
        /\ UNCHANGED <<owner, session, open, lost, lock, pc, cur, ready, answers>>
    BY Zenon DEF U!Cancel, U!unitvars, U!writers, U!threadvars
  <1>2. LogInv /\ LogType /\ Turn
    BY Zenon DEF UnitInv, LogInv
  <1>3. /\ LogInv' /\ Units' = Units /\ executing' = executing /\ latest_authorized' = latest_authorized
        /\ rows \in Seq(Rows) /\ rows' \in Seq(Rows) /\ Kept /\ OnlyRefusals
        /\ \A u \in Units : decided'[u] \in {decided[u], "RefusedCancelled"}
        /\ pending # << >> => /\ Len(rows) + 1 \in 1 .. Len(rows')
                              /\ rows'[Len(rows) + 1].decision = "RefusedCancelled"
    BY <1>1, <1>2, CancelLogKeeps, Zenon
  <1>4. /\ Len(rows) \in Nat /\ Len(rows') \in Nat /\ Len(rows) <= Len(rows')
        /\ DOMAIN rows = 1 .. Len(rows) /\ DOMAIN rows' = 1 .. Len(rows')
    BY <1>3, Domain, Zenon DEF Kept
  <1>5. \A k \in 1 .. Len(rows') : (k \in 1 .. Len(rows) /\ rows'[k] = rows[k]) \/ rows'[k].decision # "Authorized"
    BY <1>3, Zenon DEF Kept, OnlyRefusals
  <1>6. UnitType'
    BY <1>1, <1>3, Zenon DEF UnitInv, UnitType
  <1>7. Holders'
    <2>1. \A v \in Threads : lock' = v <=> Locked(v)'
      BY <1>1, Zenon DEF UnitInv, Holders, Locked
    <2> QED
      BY <1>1, <1>3, <2>1, Zenon DEF UnitInv, Holders
  <1>8. Open'
    <2>1. \A u \in Units : Fresh(u) => Fresh(u)'
      BY <1>3, Zenon DEF Fresh
    <2>2. \A v \in Threads : pc[v] \in {"lock", "ready", "decide"} => cur[v] \in Units
      <3>1. \A v \in Threads : pc[v] \in {"lock", "ready", "decide"} => pc[v] # "idle"
        OBVIOUS
      <3> QED
        BY <3>1, Zenon DEF UnitInv, Holders
    <2> QED
      BY <1>1, <1>3, <2>1, <2>2, Zenon DEF UnitInv, Open, Fresh
  <1>9. Told'
    <2>1. ASSUME NEW o \in told
          PROVE  /\ o.ordinal \in 0 .. Len(rows')
                 /\ o.kind \in {"BeforeDecision", "AfterDecision"} => o.ordinal # 0
                 /\ o.kind = "BeforeDecision" => rows'[o.ordinal].decision = "RefusedCancelled"
                 /\ o.kind = "AfterDecision" => rows'[o.ordinal].decision = "Authorized"
                 /\ \A k \in DOMAIN rows' : k > o.ordinal => rows'[k].decision # "Authorized"
      <3>1. /\ o.ordinal \in 0 .. Len(rows)
            /\ o.kind \in {"BeforeDecision", "AfterDecision"} => o.ordinal # 0
            /\ o.kind = "BeforeDecision" => rows[o.ordinal].decision = "RefusedCancelled"
            /\ o.kind = "AfterDecision" => rows[o.ordinal].decision = "Authorized"
            /\ \A k \in DOMAIN rows : k > o.ordinal => rows[k].decision # "Authorized"
        BY <2>1, Zenon DEF UnitInv, Told, U!CancelToldTrue
      <3>2. o.ordinal # 0 => o.ordinal \in 1 .. Len(rows)
        BY <1>4, <3>1
      <3>3. o.ordinal # 0 => rows'[o.ordinal] = rows[o.ordinal]
        BY <1>3, <3>2, Zenon DEF Kept
      <3>4. o.ordinal \in 0 .. Len(rows')
        BY <1>4, <3>1
      <3>5. \A k \in DOMAIN rows' : k > o.ordinal => rows'[k].decision # "Authorized"
        BY <1>4, <1>5, <3>1, Zenon
      <3> QED
        BY <3>1, <3>3, <3>4, <3>5
    <2>2. PICK o : o = U!CancelOutcome
      BY Zenon
    <2>3. /\ o.ordinal \in 0 .. Len(rows')
          /\ o.kind \in {"BeforeDecision", "AfterDecision"} => o.ordinal # 0
          /\ o.kind = "BeforeDecision" => rows'[o.ordinal].decision = "RefusedCancelled"
          /\ o.kind = "AfterDecision" => rows'[o.ordinal].decision = "Authorized"
          /\ \A k \in DOMAIN rows' : k > o.ordinal => rows'[k].decision # "Authorized"
      <3>1. CASE pending # << >>
        <4>1. o.kind = "BeforeDecision" /\ o.ordinal = Len(rows) + 1
          BY <2>2, <3>1 DEF U!CancelOutcome
        <4>2. \A k \in 1 .. Len(rows') : k > Len(rows) + 1 => k \notin 1 .. Len(rows)
          BY <1>4
        <4>3. Len(rows) + 1 \in 0 .. Len(rows') /\ Len(rows) + 1 # 0
          BY <1>3, <1>4, <3>1
        <4> QED
          BY <1>3, <1>4, <1>5, <3>1, <4>1, <4>2, <4>3
      <3>2. CASE pending = << >> /\ latest_authorized # 0
        <4>1. o.kind = "AfterDecision" /\ o.ordinal = latest_authorized
          BY <2>2, <3>2 DEF U!CancelOutcome
        <4>2. latest_authorized \in 1 .. Len(rows)
          BY <1>2, <1>4, <3>2 DEF LogType
        <4>3. rows[latest_authorized].decision = "Authorized" /\ rows'[latest_authorized] = rows[latest_authorized]
          BY <1>2, <1>3, <3>2, <4>2, Zenon DEF Turn, Kept
        <4>4. \A k \in DOMAIN rows : rows[k].decision = "Authorized" => k <= latest_authorized
          BY <1>2, Zenon DEF Turn
        <4>5. \A k \in DOMAIN rows' : k > latest_authorized => rows'[k].decision # "Authorized"
          BY <1>4, <1>5, <4>2, <4>4
        <4>6. latest_authorized \in 0 .. Len(rows')
          BY <1>4, <4>2
        <4> QED
          BY <3>2, <4>1, <4>3, <4>5, <4>6
      <3>3. CASE pending = << >> /\ latest_authorized = 0
        <4>1. o.kind = "NoPublicationPending" /\ o.ordinal = 0
          BY <2>2, <3>3 DEF U!CancelOutcome
        <4>2. \A k \in DOMAIN rows : rows[k].decision = "Authorized" => k <= 0
          BY <1>2, <3>3, Zenon DEF Turn
        <4>3. \A k \in DOMAIN rows' : k > 0 => rows'[k].decision # "Authorized"
          BY <1>4, <1>5, <4>2
        <4> QED
          BY <1>4, <4>1, <4>3
      <3> QED
        BY <3>1, <3>2, <3>3, Zenon
    <2>4. \A x \in told' : x \in told \/ x = o
      BY <1>1, <2>2, Zenon
    <2>5. ASSUME NEW x \in told'
          PROVE  /\ x.ordinal \in 0 .. Len(rows')
                 /\ x.kind \in {"BeforeDecision", "AfterDecision"} => x.ordinal # 0
                 /\ x.kind = "BeforeDecision" => rows'[x.ordinal].decision = "RefusedCancelled"
                 /\ x.kind = "AfterDecision" => rows'[x.ordinal].decision = "Authorized"
                 /\ \A k \in DOMAIN rows' : k > x.ordinal => rows'[k].decision # "Authorized"
      BY <2>1, <2>3, <2>4, Zenon
    <2> QED
      BY <1>1, <2>5, Zenon DEF Told, U!CancelToldTrue
  <1>10. Sessions'
    <2>1. ASSUME NEW k \in DOMAIN rows', rows'[k].decision = "Authorized"
          PROVE  rows'[k].unit \notin open' /\ rows'[k].unit \notin lost' /\ owner'[rows'[k].unit] # "bound"
      BY <1>1, <1>4, <1>5, <2>1, Zenon DEF UnitInv, Sessions, Settled
    <2> QED
      BY <1>1, <1>3, <2>1, Zenon DEF UnitInv, Sessions, Settled
  <1> QED
    BY <1>1, <1>3, <1>6, <1>7, <1>8, <1>9, <1>10, Zenon DEF UnitInv

-----------------------------------------------------------------------------
LEMMA UnitInit ==
    ASSUME U!Init
    PROVE  UnitInv
  <1>1. /\ rows = << >> /\ pending = << >> /\ decided = << >> /\ latest_authorized = 0 /\ executing = NoThread
        /\ tripped = FALSE /\ told = {} /\ owner = << >> /\ session = << >> /\ open = {} /\ lost = {}
        /\ lock = NoThread /\ pc = [t \in Threads |-> "idle"] /\ cur = [t \in Threads |-> 0]
        /\ ready = [t \in Threads |-> FALSE] /\ answers = {}
    BY Zenon DEF U!Init, U!LogInit
  <1>2. DOMAIN rows = {} /\ DOMAIN pending = {} /\ Units = {} /\ Len(rows) = 0
    BY <1>1, EmptyFacts, Zenon DEF Units
  <1>3. LogType
    <2>1. 0 \in 0 .. 0
      OBVIOUS
    <2> QED
      BY <1>1, <1>2, <2>1, EmptyFacts, Zenon DEF LogType
  <1>4. LogInv
    <2>1. U!RowsAgree
      BY <1>2, RowsAgreeIs, Zenon DEF Increasing
    <2>2. Turn
      BY <1>1, <1>2, Zenon DEF Turn
    <2> QED
      BY <1>3, <2>1, <2>2, Zenon DEF LogInv
  <1>5. \A t \in Threads : pc[t] = "idle"
    BY <1>1, Zenon
  <1>6. UnitType
    <2>1. pc \in [Threads -> Places] /\ cur \in [Threads -> Nat] /\ ready \in [Threads -> BOOLEAN]
      BY <1>1 DEF Places
    <2> QED
      BY <1>1, <1>2, <2>1, EmptyFacts, Zenon DEF UnitType, Units, Places
  <1>7. \A t \in Threads : ~Locked(t) /\ pc[t] # "execute" /\ pc[t] \notin {"lock", "ready", "decide"} /\ pc[t] # "decide"
    BY <1>5 DEF Locked
  <1>8. Holders
    BY <1>1, <1>5, <1>7, UnitsAssumption, Zenon DEF Holders
  <1>9. Open
    BY <1>2, <1>7, Zenon DEF Open
  <1>10. Told
    BY <1>1, Zenon DEF Told, U!CancelToldTrue
  <1>11. Sessions
    BY <1>1, <1>2, <1>7, Zenon DEF Sessions
  <1> QED
    BY <1>1, <1>4, <1>6, <1>8, <1>9, <1>10, <1>11, Zenon DEF UnitInv

LEMMA UnitNext ==
    ASSUME UnitInv, U!Next
    PROVE  UnitInv'
  <1>1. ASSUME NEW t \in Threads, U!PublishStep(t)
        PROVE  UnitInv'
    BY <1>1, TakeLockStep, CheckReadyStep, DecideUnitStep, ExecuteEndsStep, ReleaseStep, Zenon DEF U!PublishStep
  <1>2. ASSUME NEW t \in Threads, U!CallerStep(t)
        PROVE  UnitInv'
    BY <1>2, BindStep, CancelStep, EnterPublishStep, DropOwnerStep, Zenon DEF U!CallerStep, U!Units, Units
  <1>3. ASSUME NEW u \in Units, U!WriterStep(u)
        PROVE  UnitInv'
    BY <1>3, WriterSteps, Zenon
  <1> QED
    BY <1>1, <1>2, <1>3, Zenon DEF U!Next, U!Units, Units

\* The invariant of one invocation's outputs, in the behaviours that are one.
UnitsKept == part = "units" => UnitInv

LEMMA UnitsAlways == BothSpec => []UnitsKept
  <1>1. BothInit => UnitsKept
    <2>1. SUFFICES ASSUME BothInit, part = "units" PROVE UnitInv
      BY Zenon DEF UnitsKept
    <2>2. U!Init
      BY <2>1 DEF BothInit
    <2> QED
      BY <2>2, UnitInit, Zenon
  <1>2. UnitsKept /\ [BothNext]_<<part, vars, units>> => UnitsKept'
    <2>1. SUFFICES ASSUME UnitsKept, [BothNext]_<<part, vars, units>>, part' = "units" PROVE UnitInv'
      BY Zenon DEF UnitsKept
    <2>2. CASE part = "units" /\ U!Next
      BY <2>1, <2>2, UnitNext, Zenon DEF UnitsKept
    <2>3. CASE UNCHANGED <<part, vars, units>>
      <3>1. /\ part' = part /\ UNCHANGED <<U!log, tripped, told, owner, U!threadvars>>
            /\ UNCHANGED <<session, open, lost>>
        BY <2>3, Zenon DEF vars, units, U!log, U!threadvars
      <3>2. UnitInv
        BY <2>1, <3>1, Zenon DEF UnitsKept
      <3> QED
        BY <3>1, <3>2, WriterKeeps, Zenon DEF UnitInv, UnitType, Sessions, Settled
    <2>4. CASE part = "publication" /\ part' = part
      BY <2>1, <2>4
    <2> QED
      BY <2>1, <2>2, <2>3, <2>4, Zenon DEF BothNext
  <1> QED
    BY <1>1, <1>2, PTL DEF BothSpec

\* Each output of an invocation is decided exactly once, in one row of its log,
\* by its publisher, its drop or a cancellation, and never authorized with a
\* write lost; one publication executes at a time, in ordinal order, and the
\* executing mark is the lock holder's (publication.rs decide, cancel, finish,
\* output.rs publish_unit): for any number of threads and outputs.
THEOREM UnitsDecidedInTurnTheorem == BothSpec => []UnitsDecidedInTurn
  <1>1. UnitsKept => UnitsDecidedInTurn
    <2>1. SUFFICES ASSUME UnitInv PROVE U!DecidedExactlyOnce /\ U!OneAtATime
      BY Zenon DEF UnitsKept, UnitsDecidedInTurn
    <2>2. LogType /\ Turn /\ U!RowsAgree /\ Holders /\ UnitType /\ Sessions
      BY <2>1, Zenon DEF UnitInv, LogInv
    <2>3. U!DecidedExactlyOnce
      BY <2>1, <2>2, Zenon DEF UnitInv, U!DecidedExactlyOnce, Sessions, Settled
    <2>4. rows \in Seq(Rows) /\ DOMAIN rows = 1 .. Len(rows) /\ Len(rows) \in Nat /\ latest_authorized \in 0 .. Len(rows)
      BY <2>2, Domain, Zenon DEF LogType
    <2>5. U!OrdinalsAreExecutionOrder
      <3>1. SUFFICES ASSUME NEW j \in DOMAIN rows, NEW k \in DOMAIN rows, j < k,
                            rows[j].decision = "Authorized", rows[k].decision = "Authorized"
                     PROVE  rows[j].finished
        BY Zenon DEF U!OrdinalsAreExecutionOrder
      <3>2. k <= latest_authorized
        BY <2>2, <3>1, Zenon DEF Turn
      <3>3. j # latest_authorized
        BY <2>4, <3>1, <3>2
      <3> QED
        BY <2>2, <3>3, Zenon DEF Turn
    <2>6. \A t \in Threads : pc[t] = "lock" => lock # t
      <3>1. \A t \in Threads : pc[t] = "lock" => ~Locked(t)
        BY DEF Locked
      <3> QED
        BY <2>2, <3>1, Zenon DEF Holders
    <2>7. executing # NoThread => lock = executing /\ pc[executing] = "execute"
      <3>1. SUFFICES ASSUME executing # NoThread PROVE lock = executing /\ pc[executing] = "execute"
        BY Zenon
      <3>2. executing \in Threads
        BY <2>2, <3>1, Zenon DEF UnitType
      <3>3. pc[executing] = "execute"
        BY <2>2, <3>2, Zenon DEF Holders
      <3>4. Locked(executing)
        BY <3>3 DEF Locked
      <3> QED
        BY <2>2, <3>2, <3>3, <3>4, Zenon DEF Holders
    <2>8. executing = NoThread <=> \A k \in DOMAIN rows : rows[k].finished
      <3>1. latest_authorized # 0 => latest_authorized \in DOMAIN rows
        BY <2>4
      <3>2. CASE latest_authorized = 0
        BY <2>2, <2>4, <3>2 DEF Turn
      <3>3. CASE latest_authorized # 0
        BY <2>2, <3>1, <3>3 DEF Turn
      <3> QED
        BY <3>2, <3>3, Zenon
    <2> QED
      BY <2>3, <2>5, <2>6, <2>7, <2>8, Zenon DEF U!OneAtATime
  <1> QED
    BY <1>1, UnitsAlways, PTL

\* What cancel answers about an invocation's outputs stays true for good
\* (host.rs cancel, publication.rs cancel): for any number of threads and outputs.
THEOREM CancelAnswersTrueTheorem == BothSpec => []CancelAnswersTrue
  <1>1. UnitsKept => CancelAnswersTrue
    BY Zenon DEF UnitsKept, CancelAnswersTrue, UnitInv, Told
  <1> QED
    BY <1>1, UnitsAlways, PTL
=============================================================================
