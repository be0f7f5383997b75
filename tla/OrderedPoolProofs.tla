------------------------- MODULE OrderedPoolProofs --------------------------
(***************************************************************************)
(* Proofs about the ordered pool for any number of workers and tasks, any  *)
(* window and any channel depth.                                           *)
(*                                                                         *)
(* None of the pool's safety properties is inductive by itself.  IInv adds *)
(* where every claimed task is: each is in exactly one place (a worker,    *)
(* the channel, the caller's hand, the reorder buffer), below the claim    *)
(* counter, not below next_seq, and inside the window once admitted; and,  *)
(* while nobody has panicked and the caller has not left its loop, a       *)
(* claimed task is only ever dropped above a failing one.                  *)
(***************************************************************************)
EXTENDS OrderedPool, TLAPS

Exiting == cpc \in {"abandon", "flag", "close", "notifyClose", "droprx",
                    "join", "done"}

Claimed(w) == pc[w] \notin {"idle", "claim", "gone"}

\* Where the caller's three counts stand relative to one another.
Counts ==
    /\ consumed <= next_seq
    /\ next_seq <= consumed + 1
    /\ next_seq <= next
    /\ cpc \in {"top", "recv", "push", "pop", "advance", "notify", "drained"}
          => next_seq = consumed
    /\ cpc = "item" => next_seq = consumed + 1 /\ hand.task = consumed
    /\ cpc = "advance" => consumed = gate.consumed + 1
    /\ cpc # "advance" => consumed = gate.consumed

\* A result on its way to the reorder buffer.
Travelling(r) ==
    /\ next_seq <= r.task
    /\ r.task < next
    /\ r.task < gate.consumed + Window
    /\ r.ok <=> r.task \notin fails

HeldInv ==
    \A s \in DOMAIN held : held[s].task = s /\ Travelling(held[s])

ChanInv ==
    /\ \A i \in 1 .. Len(chan) :
          Travelling(chan[i]) /\ chan[i].task \notin DOMAIN held
    /\ \A i, j \in 1 .. Len(chan) : i # j => chan[i].task # chan[j].task

HandInv ==
    /\ cpc = "push" =>
          /\ Travelling(hand)
          /\ hand.task \notin DOMAIN held
          /\ \A i \in 1 .. Len(chan) : chan[i].task # hand.task
    /\ cpc = "item" => (hand.ok <=> hand.task \notin fails)

WorkerInv ==
    \A w \in Workers :
       /\ Claimed(w) =>
             /\ task[w] \in Tasks
             /\ next_seq <= task[w]
             /\ task[w] < next
             /\ task[w] \notin DOMAIN held
             /\ \A i \in 1 .. Len(chan) : chan[i].task # task[w]
             /\ cpc = "push" => hand.task # task[w]
             /\ \A v \in Workers : v # w /\ Claimed(v) => task[v] # task[w]
       /\ Working(w) => task[w] < gate.consumed + Window
       /\ pc[w] \in {"flag", "stop", "notify"} => task[w] \in fails

VerdictInv ==
    /\ \A t \in fails : consumed <= t
    /\ verdict.kind = "task" =>
          Exiting /\ verdict.task = consumed /\ consumed \in fails
    /\ verdict.kind = "ok" => Exiting /\ consumed = NTasks
    /\ verdict.kind = "internal" => panicked

\* The caller waits only when nothing is ready, and sees a disconnect only
\* after the last worker and the last result.
DrainInv ==
    /\ cpc \in {"top", "recv", "drained"} => next_seq \notin DOMAIN held
    /\ cpc = "drained" => chan = << >> /\ \A w \in Workers : pc[w] = "gone"

Undisturbed == ~panicked /\ ~Exiting

\* Why claiming may stop while the caller still waits for results.
StopInv ==
    Undisturbed =>
       /\ rx /\ ~gate.closed
       /\ gate.stop_claims => stopped
       /\ stopped => \E k \in fails : k < next /\ k < gate.consumed + Window
       /\ \A w \in Workers :
             /\ pc[w] = "gone" => NTasks <= next \/ stopped
             /\ pc[w] = "stop" => stopped
             /\ pc[w] \notin {"flagUnwind", "closeUnwind", "notifyUnwind"}

InPool(t) ==
    \/ \E w \in Workers : Claimed(w) /\ task[w] = t
    \/ \E i \in 1 .. Len(chan) : chan[i].task = t
    \/ t \in DOMAIN held
    \/ cpc = "push" /\ hand.task = t

LostInv ==
    Undisturbed =>
       \A t \in Tasks : next_seq <= t /\ t < next =>
          InPool(t) \/ \E k \in fails : k < t

IInv == /\ TypeOK
        /\ Counts /\ HeldInv /\ ChanInv /\ HandInv /\ WorkerInv
        /\ VerdictInv /\ DrainInv /\ StopInv /\ LostInv

-----------------------------------------------------------------------------
(* Facts about the data. *)

\* What the channel operations do to a sequence.
LEMMA SeqFacts ==
    ASSUME NEW S, NEW s \in Seq(S)
    PROVE  Len(s) \in Nat /\ \A i \in 1 .. Len(s) : s[i] \in S
  OBVIOUS

LEMMA EmptyFacts ==
    ASSUME NEW S
    PROVE  << >> \in Seq(S) /\ Len(<< >>) = 0
  OBVIOUS

LEMMA AppendFacts ==
    ASSUME NEW S, NEW s \in Seq(S), NEW e \in S
    PROVE  /\ Append(s, e) \in Seq(S)
           /\ Len(Append(s, e)) = Len(s) + 1
           /\ \A i \in 1 .. Len(s) : Append(s, e)[i] = s[i]
           /\ Append(s, e)[Len(s) + 1] = e
  OBVIOUS

LEMMA TailFacts ==
    ASSUME NEW S, NEW s \in Seq(S), s # << >>
    PROVE  /\ Head(s) = s[1] /\ Head(s) \in S
           /\ Tail(s) \in Seq(S)
           /\ Len(s) \in Nat \ {0}
           /\ Len(Tail(s)) = Len(s) - 1
           /\ \A i \in 1 .. Len(Tail(s)) : Tail(s)[i] = s[i + 1]
  OBVIOUS

LEMMA Sizes == NTasks \in Nat \ {0} /\ MaxWindow \in Nat \ {0} /\ Workers # {}
  BY MaxWindowAssumption, PoolAssumption

LEMMA ItemsAre == Items = [task : Tasks, ok : BOOLEAN]
  BY PoolAssumption

USE Sizes DEF Window, Tasks

\* Results in the channel are typed.
LEMMA ChanTyped ==
    ASSUME TypeOK
    PROVE  /\ Len(chan) \in Nat
           /\ \A i \in 1 .. Len(chan) :
                 /\ chan[i] \in Items
                 /\ chan[i].task \in Nat /\ chan[i].task < NTasks
                 /\ chan[i].ok \in BOOLEAN
<1>1. chan \in Seq(Items)
  BY DEF TypeOK
<1>2. Len(chan) \in Nat /\ \A i \in 1 .. Len(chan) : chan[i] \in Items
  BY <1>1, SeqFacts
<1> QED  BY <1>2, ItemsAre

\* So are the result in the caller's hand and those in the reorder buffer.
LEMMA HandTyped ==
    ASSUME TypeOK
    PROVE  hand.task \in Nat /\ hand.task < NTasks /\ hand.ok \in BOOLEAN
  BY ItemsAre DEF TypeOK

LEMMA HeldTyped ==
    ASSUME TypeOK, NEW s \in DOMAIN held
    PROVE  /\ s \in Nat /\ s < NTasks
           /\ held[s] \in Items /\ held[s].task \in Nat /\ held[s].ok \in BOOLEAN
  BY ItemsAre DEF TypeOK

LEMMA NumbersTyped ==
    ASSUME TypeOK
    PROVE  /\ next_seq \in Nat /\ next_seq <= NTasks
           /\ consumed \in Nat /\ consumed <= NTasks
           /\ next \in Nat /\ task \in [Workers -> Nat]
           /\ \A k \in fails : k \in Nat /\ k < NTasks
  BY DEF TypeOK

\* The gate's fields after an update of one of them.
LEMMA GateTyped ==
    ASSUME TypeOK
    PROVE  /\ gate.consumed \in Nat /\ gate.consumed <= NTasks
           /\ gate.stop_claims \in BOOLEAN /\ gate.closed \in BOOLEAN
           /\ \A c \in 0 .. NTasks :
                 LET g == [gate EXCEPT !.consumed = c]
                 IN  g.consumed = c /\ g.stop_claims = gate.stop_claims
                       /\ g.closed = gate.closed
           /\ LET g == [gate EXCEPT !.stop_claims = TRUE]
              IN  g.consumed = gate.consumed /\ g.stop_claims = TRUE
                    /\ g.closed = gate.closed
           /\ LET g == [gate EXCEPT !.closed = TRUE]
              IN  g.consumed = gate.consumed
                    /\ g.stop_claims = gate.stop_claims /\ g.closed = TRUE
  BY DEF TypeOK

\* Every verdict the caller can reach is one.
LEMMA VerdictTyped ==
    /\ \A k \in {"none", "ok", "cancelled", "consumer", "panic", "internal",
                "rejected"} : Verdict(k) \in Verdicts /\ Verdict(k).kind = k
    /\ \A t \in Tasks : [kind |-> "task", task |-> t] \in Verdicts
  BY DEF Verdict, Verdicts

\* notify_all() moves the parked workers back to the admission test.
LEMMA WokenFacts ==
    ASSUME pc \in [Workers -> WorkerPCs]
    PROVE  /\ Woken \in [Workers -> WorkerPCs]
           /\ \A v \in Workers :
                 Woken[v] = pc[v] \/ (pc[v] = "parked" /\ Woken[v] = "admit")
<1>1. \A v \in Workers : Woken[v] = IF pc[v] = "parked" THEN "admit" ELSE pc[v]
  BY DEF Woken
<1>2. "admit" \in WorkerPCs
  BY DEF WorkerPCs
<1>3. \A v \in Workers : (IF pc[v] = "parked" THEN "admit" ELSE pc[v]) \in WorkerPCs
  BY <1>2
<1>4. Woken \in [Workers -> WorkerPCs]
  BY <1>3 DEF Woken
<1> QED  BY <1>1, <1>4

\* A conjunct of IInv stands while the state it speaks of does.
LEMMA CountsStays ==
    ASSUME Counts, UNCHANGED <<consumed, next_seq, next, cpc, hand, gate>>
    PROVE  Counts'
  BY DEF Counts

LEMMA HeldStays ==
    ASSUME HeldInv, UNCHANGED <<held, next_seq, next, gate, fails>>
    PROVE  HeldInv'
  BY DEF HeldInv, Travelling

LEMMA ChanStays ==
    ASSUME ChanInv, UNCHANGED <<chan, held, next_seq, next, gate, fails>>
    PROVE  ChanInv'
  BY DEF ChanInv, Travelling

LEMMA HandStays ==
    ASSUME HandInv, UNCHANGED <<hand, cpc, chan, held, next_seq, next, gate, fails>>
    PROVE  HandInv'
  BY DEF HandInv, Travelling

LEMMA WorkerStays ==
    ASSUME WorkerInv,
           UNCHANGED <<pc, task, held, chan, cpc, hand, next_seq, next, gate, fails>>
    PROVE  WorkerInv'
  BY DEF WorkerInv, Claimed, Working

LEMMA VerdictStays ==
    ASSUME VerdictInv, UNCHANGED <<fails, consumed, verdict, cpc, panicked>>
    PROVE  VerdictInv'
  BY DEF VerdictInv, Exiting

LEMMA DrainStays ==
    ASSUME DrainInv, UNCHANGED <<cpc, next_seq, held, chan, pc>>
    PROVE  DrainInv'
  BY DEF DrainInv

LEMMA StopStays ==
    ASSUME StopInv, UNCHANGED <<panicked, cpc, rx, gate, stopped, fails, next, pc>>
    PROVE  StopInv'
  BY DEF StopInv, Undisturbed, Exiting

LEMMA LostStays ==
    ASSUME LostInv,
           UNCHANGED <<panicked, cpc, next_seq, next, pc, task, chan, held, hand, fails>>
    PROVE  LostInv'
  BY DEF LostInv, InPool, Claimed, Undisturbed, Exiting

\* Results on their way stay inside the window as its edges move up.
LEMMA ResultsKept ==
    ASSUME IInv, UNCHANGED <<held, chan, next_seq, fails>>,
           next' \in Nat, next <= next',
           gate'.consumed \in Nat, gate.consumed <= gate'.consumed
    PROVE  HeldInv' /\ ChanInv'
<1>1. ASSUME NEW s \in DOMAIN held
      PROVE  held[s].task = s /\ Travelling(held[s])'
  <2>1. held[s].task = s /\ Travelling(held[s]) /\ held[s].task \in Nat
    BY HeldTyped DEF IInv, HeldInv
  <2> QED  BY <2>1, NumbersTyped, GateTyped DEF IInv, Travelling
<1>2. ASSUME NEW i \in 1 .. Len(chan)
      PROVE  Travelling(chan[i])'
  <2>1. Travelling(chan[i]) /\ chan[i].task \in Nat
    BY ChanTyped DEF IInv, ChanInv
  <2> QED  BY <2>1, NumbersTyped, GateTyped, SMTT(20) DEF IInv, Travelling
<1> QED  BY <1>1, <1>2 DEF IInv, HeldInv, ChanInv
-----------------------------------------------------------------------------
(* Steps of a worker. *)

\* A step that moves workers between locations and hands nothing over: what
\* must be shown of it is that nobody claims or is admitted by it, why
\* claiming stopped, and that a task it drops lies above a failing one.
LEMMA WorkerMove ==
    ASSUME IInv,
           UNCHANGED <<next_seq, held, next, task, chan, rx, cpc, hand, consumed,
                       edge, verdict, abandoned, cancelled, fails>>,
           gate' \in [consumed : 0 .. NTasks, stop_claims : BOOLEAN, closed : BOOLEAN],
           gate'.consumed = gate.consumed,
           stopped' \in BOOLEAN, panicked' \in BOOLEAN, panicked => panicked',
           pc' \in [Workers -> WorkerPCs],
           \A v \in Workers : Claimed(v)' => Claimed(v),
           \A v \in Workers : Working(v)' => task[v] < gate.consumed + Window,
           \A v \in Workers : pc'[v] \in {"flag", "stop", "notify"} => task[v] \in fails,
           \A v \in Workers : pc[v] = "gone" => pc'[v] = "gone",
           StopInv',
           Undisturbed' => \A v \in Workers :
              Claimed(v) /\ ~Claimed(v)' => \E k \in fails : k < task[v]
    PROVE  IInv'
<1>1. TypeOK'
  BY DEF IInv, TypeOK
<1>2. HeldInv' /\ ChanInv'
  BY ResultsKept, NumbersTyped, GateTyped DEF IInv
<1>3. Counts' /\ DrainInv' /\ VerdictInv'
  BY DEF IInv, Counts, DrainInv, VerdictInv, Exiting
<1>4. HandInv'
  BY DEF IInv, HandInv, Travelling
<1>5. WorkerInv'
  BY DEF IInv, WorkerInv
<1>6. LostInv'
  <2> SUFFICES ASSUME Undisturbed', NEW t \in Tasks, next_seq <= t, t < next
               PROVE  InPool(t)' \/ \E k \in fails : k < t
    BY DEF LostInv
  <2>1. InPool(t) \/ \E k \in fails : k < t
    BY DEF IInv, LostInv, Undisturbed, Exiting
  <2>2. CASE \E v \in Workers : Claimed(v) /\ task[v] = t
    BY <2>2 DEF InPool
  <2>3. CASE ~ \E v \in Workers : Claimed(v) /\ task[v] = t
    BY <2>1, <2>3 DEF InPool
  <2> QED  BY <2>2, <2>3
<1> QED  BY <1>1, <1>2, <1>3, <1>4, <1>5, <1>6 DEF IInv

\* The moves that touch neither the gate nor the flags.
LEMMA LocalMoveStep ==
    ASSUME IInv, NEW w \in Workers,
           CheckStopped(w) \/ Admit(w) \/ SpuriousWakeup(w) \/ Work(w)
             \/ StopClaimsNotify(w) \/ SendDisconnected(w) \/ UnwindNotify(w)
    PROVE  IInv'
<1>1. /\ UNCHANGED <<next_seq, held, next, task, chan, rx, cpc, hand, consumed, gate,
                     edge, verdict, abandoned, cancelled, fails, stopped, panicked>>
      /\ pc \in [Workers -> WorkerPCs] /\ pc' \in [Workers -> WorkerPCs]
  BY Zenon DEF IInv, TypeOK, WorkerPCs, consumerVars, rbVars, Goto, Woken, CheckStopped,
     Admit, AdmitOutcome, SpuriousWakeup, Work, StopClaimsNotify, SendDisconnected,
     UnwindNotify
<1>2. \A v \in Workers :
         \/ pc'[v] = pc[v]
         \/ pc[v] = "parked" /\ pc'[v] = "admit"
         \/ pc[v] = "idle" /\ pc'[v] = "claim"
         \/ pc[v] = "idle" /\ pc'[v] = "gone" /\ stopped
         \/ pc[v] = "admit" /\ pc'[v] = AdmitOutcome(task[v])
         \/ pc[v] = "work" /\ pc'[v] = "flag" /\ task[v] \in fails
         \/ pc[v] \in {"work", "notify"} /\ pc'[v] = "send"
         \/ pc[v] = "send" /\ pc'[v] = "gone" /\ ~rx
         \/ pc[v] = "notifyUnwind" /\ pc'[v] = "gone"
  BY Zenon, <1>1 DEF Goto, Woken, CheckStopped, Admit, SpuriousWakeup, Work,
     StopClaimsNotify, SendDisconnected, UnwindNotify
<1>3. \A v \in Workers : /\ AdmitOutcome(task[v]) \in {"gone", "work", "parked"}
                         /\ AdmitOutcome(task[v]) = "work" =>
                               task[v] < gate.consumed + Window
                         /\ AdmitOutcome(task[v]) = "gone" =>
                               \/ gate.closed
                               \/ gate.stop_claims /\ ~(task[v] < gate.consumed + Window)
  BY DEF AdmitOutcome
<1>4. \A v \in Workers : Claimed(v)' => Claimed(v) \/ pc'[v] = "claim"
  BY <1>2, <1>3 DEF Claimed
<1>5. \A v \in Workers : Working(v)' => task[v] < gate.consumed + Window
  BY <1>2, <1>3 DEF IInv, WorkerInv, Working
<1>6. \A v \in Workers : pc'[v] \in {"flag", "stop", "notify"} => task[v] \in fails
  BY <1>2, <1>3 DEF IInv, WorkerInv
<1>7. \A v \in Workers : pc[v] = "gone" => pc'[v] = "gone"
  BY <1>2, <1>3
<1>8. StopInv'
  BY <1>1, <1>2, <1>3 DEF IInv, StopInv, Undisturbed, Exiting
<1>9. ASSUME Undisturbed', NEW v \in Workers, Claimed(v), ~Claimed(v)'
      PROVE  \E k \in fails : k < task[v]
  <2>1. rx /\ ~gate.closed /\ pc[v] # "notifyUnwind" /\ (gate.stop_claims => stopped)
    BY <1>1, <1>9 DEF IInv, StopInv, Undisturbed, Exiting
  <2>2. gate.stop_claims /\ ~(task[v] < gate.consumed + Window)
    BY <1>2, <1>3, <1>9, <2>1 DEF Claimed
  <2>3. PICK k \in fails : k < gate.consumed + Window
    BY <1>1, <1>9, <2>1, <2>2 DEF IInv, StopInv, Undisturbed, Exiting
  <2> QED  BY <2>2, <2>3, GateTyped, NumbersTyped DEF IInv
<1>10. \A v \in Workers : Claimed(v)' => Claimed(v)
  BY <1>4 DEF Claimed
<1>11. gate' \in [consumed : 0 .. NTasks, stop_claims : BOOLEAN, closed : BOOLEAN]
         /\ stopped' \in BOOLEAN /\ panicked' \in BOOLEAN
  BY <1>1 DEF IInv, TypeOK
<1> QED  BY <1>1, <1>5, <1>6, <1>7, <1>8, <1>9, <1>10, <1>11, WorkerMove

\* The moves that raise a flag or change the gate.
LEMMA GateMoveStep ==
    ASSUME IInv, NEW w \in Workers,
           WorkPanics(w) \/ StopClaimsFlag(w) \/ StopClaims(w) \/ UnwindFlag(w)
             \/ UnwindClose(w)
    PROVE  IInv'
<1>1. /\ UNCHANGED <<next_seq, held, next, task, chan, rx, cpc, hand, consumed,
                     edge, verdict, abandoned, cancelled, fails>>
      /\ stopped' \in BOOLEAN /\ panicked' \in BOOLEAN
      /\ (panicked => panicked') /\ (stopped => stopped')
      /\ gate' \in {gate, [gate EXCEPT !.stop_claims = TRUE],
                    [gate EXCEPT !.closed = TRUE]}
  BY Zenon DEF IInv, TypeOK, consumerVars, rbVars, WorkPanics, StopClaimsFlag, StopClaims,
     UnwindFlag, UnwindClose
<1>2. /\ gate' \in [consumed : 0 .. NTasks, stop_claims : BOOLEAN, closed : BOOLEAN]
      /\ gate'.consumed = gate.consumed
  BY Zenon, <1>1 DEF IInv, TypeOK
<1>3. \/ panicked' /\ pc[w] = "work" /\ pc' = [pc EXCEPT ![w] = "flagUnwind"]
      \/ /\ stopped' /\ pc[w] = "flag" /\ pc' = [pc EXCEPT ![w] = "stop"]
         /\ gate' = gate
      \/ /\ pc[w] = "stop" /\ pc' = [pc EXCEPT ![w] = "notify"]
         /\ gate'.closed = gate.closed
      \/ pc[w] = "flagUnwind" /\ pc' = [pc EXCEPT ![w] = "closeUnwind"]
      \/ pc[w] = "closeUnwind" /\ pc' = [pc EXCEPT ![w] = "notifyUnwind"]
  BY Zenon, GateTyped DEF IInv, Goto, WorkPanics, StopClaimsFlag, StopClaims, UnwindFlag,
     UnwindClose
<1>4. pc \in [Workers -> WorkerPCs] /\ pc' \in [Workers -> WorkerPCs]
  BY Zenon, <1>3 DEF IInv, TypeOK, WorkerPCs
<1>5. \A v \in Workers : /\ Claimed(v)' <=> Claimed(v)
                         /\ Working(v)' => Working(v)
                         /\ pc[v] = "gone" => pc'[v] = "gone"
                         /\ pc'[v] \in {"flag", "stop", "notify"} =>
                               pc[v] \in {"flag", "stop", "notify"}
  BY <1>3, <1>4 DEF Claimed, Working
<1>6. StopInv'
  <2> SUFFICES ASSUME Undisturbed' PROVE StopInv'
    BY DEF StopInv
  <2>0. Undisturbed /\ ~panicked'
    <3>1. ~panicked' /\ ~Exiting'
      BY DEF Undisturbed
    <3>2. ~Exiting
      BY <1>1, <3>1 DEF Exiting
    <3>3. ~panicked
      BY <1>1, <3>1
    <3> QED  BY <3>1, <3>2, <3>3 DEF Undisturbed
  <2>1. /\ pc[w] \in {"flag", "stop"} => task[w] \in fails
        /\ Claimed(w) => task[w] < next
        /\ Working(w) => task[w] < gate.consumed + Window
    BY DEF IInv, WorkerInv
  <2>4. pc[w] \notin {"work", "flagUnwind", "closeUnwind"} \/ panicked'
    BY <1>3, <2>0 DEF IInv, StopInv
  <2>2. CASE pc[w] = "flag"
    <3>1. pc' = [pc EXCEPT ![w] = "stop"] /\ stopped' /\ gate' = gate
      BY <1>3, <2>2
    <3>2. task[w] \in fails /\ task[w] < next /\ task[w] < gate.consumed + Window
      BY <2>1, <2>2 DEF Claimed, Working
    <3> QED  BY <1>1, <1>4, <2>0, <3>1, <3>2 DEF IInv, StopInv
  <2>3. CASE pc[w] = "stop"
    <3>1. /\ pc' = [pc EXCEPT ![w] = "notify"]
          /\ gate'.closed = gate.closed
      BY <1>3, <2>3
    <3>2. stopped /\ ~gate.closed
      BY <2>0, <2>3 DEF IInv, StopInv
    <3>3. stopped'
      BY <1>1, <3>2
    <3> QED  BY <1>1, <1>2, <1>4, <2>0, <3>1, <3>2, <3>3 DEF IInv, StopInv
  <2> QED  BY <1>3, <2>0, <2>2, <2>3, <2>4
<1>7. \A v \in Workers : /\ Working(v)' => task[v] < gate.consumed + Window
                         /\ pc'[v] \in {"flag", "stop", "notify"} => task[v] \in fails
  BY <1>5 DEF IInv, WorkerInv
<1>8. \A v \in Workers : Claimed(v) /\ ~Claimed(v)' => \E k \in fails : k < task[v]
  BY <1>5
<1> QED  BY <1>1, <1>2, <1>4, <1>5, <1>6, <1>7, <1>8, WorkerMove

LEMMA ClaimStep ==
    ASSUME IInv, NEW w \in Workers, Claim(w)
    PROVE  IInv'
<1>1. /\ next \in Nat /\ next' = next + 1 /\ pc[w] = "claim"
      /\ task \in [Workers -> Nat] /\ task' = [task EXCEPT ![w] = next]
      /\ pc \in [Workers -> WorkerPCs]
      /\ pc' = [pc EXCEPT ![w] = IF next >= NTasks THEN "gone" ELSE "admit"]
      /\ UNCHANGED <<next_seq, held, stopped, gate, chan, rx, cpc, hand, consumed,
                     edge, verdict, abandoned, cancelled, panicked, fails>>
  BY DEF IInv, TypeOK, Claim, consumerVars, rbVars, Goto
<1>2. TypeOK'
  BY <1>1 DEF IInv, TypeOK, WorkerPCs
<1>3. HeldInv' /\ ChanInv'
  BY <1>1, ResultsKept, GateTyped DEF IInv
<1>4. Counts' /\ VerdictInv' /\ DrainInv'
  BY <1>1, NumbersTyped DEF IInv, Counts, VerdictInv, DrainInv, Exiting
<1>5. HandInv'
  BY <1>1, HandTyped DEF IInv, HandInv, Travelling
<1>6. WorkerInv'
  <2>1. \A s \in DOMAIN held : s # next
    BY <1>1, HeldTyped DEF IInv, HeldInv, Travelling
  <2>2. \A i \in 1 .. Len(chan) : chan[i].task # next
    BY <1>1, ChanTyped DEF IInv, ChanInv, Travelling
  <2>3. cpc = "push" => hand.task # next
    BY <1>1, HandTyped DEF IInv, HandInv, Travelling
  <2>4. \A v \in Workers : Claimed(v) => task[v] # next
    BY <1>1 DEF IInv, WorkerInv
  <2>5. next_seq <= next
    BY DEF IInv, Counts
  <2> QED  BY <1>1, <2>1, <2>2, <2>3, <2>4, <2>5 DEF IInv, WorkerInv, Claimed, Working
<1>7. StopInv'
  BY <1>1, NumbersTyped DEF IInv, StopInv, Undisturbed, Exiting
<1>8. LostInv'
  <2>1. \A t : InPool(t) => InPool(t)'
    BY Zenon, <1>1 DEF InPool, Claimed
  <2>2. \A t \in Tasks : t = next => InPool(t)'
    BY <1>1 DEF InPool, Claimed
  <2>3. \A t \in Tasks : t < next' => t < next \/ t = next
    BY <1>1
  <2> QED  BY <1>1, <2>1, <2>2, <2>3 DEF IInv, LostInv, Undisturbed, Exiting
<1> QED  BY <1>2, <1>3, <1>4, <1>5, <1>6, <1>7, <1>8 DEF IInv

LEMMA SendStep ==
    ASSUME IInv, NEW w \in Workers, Send(w)
    PROVE  IInv'
<1> DEFINE r == [task |-> task[w], ok |-> task[w] \notin fails]
<1>1. /\ pc[w] = "send" /\ pc \in [Workers -> WorkerPCs]
      /\ pc' = [pc EXCEPT ![w] = "idle"]
      /\ chan' = Append(chan, r)
      /\ UNCHANGED <<next_seq, held, next, stopped, gate, task, rx, cpc, hand,
                     consumed, edge, verdict, abandoned, cancelled, panicked, fails>>
  BY DEF IInv, TypeOK, Send, Goto, consumerVars, rbVars
<1>2. /\ task[w] \in Tasks
      /\ next_seq <= task[w] /\ task[w] < next /\ task[w] < gate.consumed + Window
      /\ task[w] \notin DOMAIN held
      /\ \A i \in 1 .. Len(chan) : chan[i].task # task[w]
      /\ cpc = "push" => hand.task # task[w]
      /\ \A v \in Workers : v # w /\ Claimed(v) => task[v] # task[w]
  BY <1>1 DEF IInv, WorkerInv, Claimed, Working
<1>3. r \in Items /\ r.task = task[w] /\ (r.ok <=> task[w] \notin fails)
  BY Zenon, <1>2, ItemsAre
<1>4. /\ chan' \in Seq(Items)
      /\ Len(chan) \in Nat /\ Len(chan') = Len(chan) + 1
      /\ \A i \in 1 .. Len(chan) : chan'[i] = chan[i]
      /\ chan'[Len(chan) + 1] = r
  <2>1. chan \in Seq(Items) /\ Len(chan) \in Nat
    BY ChanTyped DEF IInv, TypeOK
  <2> HIDE DEF r
  <2>2. /\ Append(chan, r) \in Seq(Items)
        /\ Len(Append(chan, r)) = Len(chan) + 1
        /\ \A i \in 1 .. Len(chan) : Append(chan, r)[i] = chan[i]
        /\ Append(chan, r)[Len(chan) + 1] = r
    BY <1>3, <2>1, AppendFacts
  <2> QED  BY <1>1, <2>1, <2>2
<1>5. Travelling(r)
  BY Zenon, <1>2, <1>3 DEF Travelling
<1> HIDE DEF r
<1>6. \A i \in 1 .. Len(chan') : i \in 1 .. Len(chan) \/ i = Len(chan) + 1
  BY <1>4
<1>7. \A i \in 1 .. Len(chan) : i \in 1 .. Len(chan')
  BY <1>4
<1>8. Len(chan) + 1 \in 1 .. Len(chan')
  BY <1>4
<1>9. \A x : Travelling(x) => Travelling(x)'
  BY <1>1 DEF Travelling
<1>10. TypeOK' /\ Counts' /\ HeldInv' /\ VerdictInv'
  <2>1. TypeOK'
    BY <1>1, <1>4 DEF IInv, TypeOK, WorkerPCs
  <2>2. Counts' /\ HeldInv' /\ VerdictInv'
    BY <1>1, CountsStays, HeldStays, VerdictStays DEF IInv
  <2> QED  BY <2>1, <2>2
<1>11. ChanInv'
  <2>1. \A i \in 1 .. Len(chan') :
           Travelling(chan[i])' /\ chan'[i].task \notin DOMAIN held'
    <3> SUFFICES ASSUME NEW i \in 1 .. Len(chan')
                 PROVE  Travelling(chan[i])' /\ chan'[i].task \notin DOMAIN held'
      OBVIOUS
    <3>1. CASE i \in 1 .. Len(chan)
      <4>1. Travelling(chan[i]) /\ chan[i].task \notin DOMAIN held
        BY <3>1 DEF IInv, ChanInv
      <4> QED  BY <1>1, <1>4, <3>1, <4>1 DEF Travelling
    <3>2. CASE i = Len(chan) + 1
      BY <1>1, <1>2, <1>3, <1>4, <1>5, <3>2 DEF Travelling
    <3> QED  BY <1>6, <3>1, <3>2
  <2>2. ASSUME NEW i \in 1 .. Len(chan'), NEW j \in 1 .. Len(chan'), i # j
        PROVE  chan'[i].task # chan'[j].task
    <3>1. \A k \in 1 .. Len(chan) : chan'[k].task # r.task /\ chan'[k] = chan[k]
      BY <1>2, <1>3, <1>4
    <3>2. CASE i = Len(chan) + 1 \/ j = Len(chan) + 1
      BY Zenon, <1>4, <1>6, <2>2, <3>1, <3>2
    <3>3. CASE i \in 1 .. Len(chan) /\ j \in 1 .. Len(chan)
      BY <2>2, <3>1, <3>3 DEF IInv, ChanInv
    <3> QED  BY <1>6, <3>2, <3>3
  <2> QED  BY <2>1, <2>2 DEF ChanInv
<1>12. HandInv'
  BY <1>1, <1>2, <1>3, <1>4, <1>6, <1>9 DEF IInv, HandInv
<1>13. WorkerInv'
  <2> SUFFICES ASSUME NEW v \in Workers
               PROVE  /\ Claimed(v)' =>
                            /\ task'[v] \in Tasks
                            /\ next_seq' <= task'[v]
                            /\ task'[v] < next'
                            /\ task'[v] \notin DOMAIN held'
                            /\ \A i \in 1 .. Len(chan') : chan'[i].task # task'[v]
                            /\ cpc' = "push" => hand'.task # task'[v]
                            /\ \A u \in Workers :
                                  u # v /\ Claimed(u)' => task'[u] # task'[v]
                      /\ Working(v)' => task'[v] < gate'.consumed + Window
                      /\ pc'[v] \in {"flag", "stop", "notify"} => task'[v] \in fails'
    BY Zenon DEF WorkerInv
  <2>1. \A u \in Workers : /\ Claimed(u)' => Claimed(u) /\ u # w
                           /\ Working(u)' => Working(u)
    BY <1>1 DEF Claimed, Working
  <2>2. ASSUME Claimed(v)', NEW i \in 1 .. Len(chan')
        PROVE  chan'[i].task # task'[v]
    <3>1. CASE i \in 1 .. Len(chan)
      BY Zenon, <1>1, <1>4, <2>1, <2>2, <3>1 DEF IInv, WorkerInv
    <3>2. CASE i = Len(chan) + 1
      BY Zenon, <1>1, <1>2, <1>3, <1>4, <2>1, <2>2, <3>2
    <3> QED  BY <1>6, <3>1, <3>2
  <2> QED  BY Zenon, <1>1, <2>1, <2>2 DEF IInv, WorkerInv
<1>14. StopInv'
  BY <1>1 DEF IInv, StopInv, Undisturbed, Exiting
<1>15. LostInv'
  <2>1. \A t : InPool(t) => InPool(t)'
    BY <1>1, <1>3, <1>4, <1>7, <1>8 DEF InPool, Claimed
  <2> QED  BY <1>1, <2>1 DEF IInv, LostInv, Undisturbed, Exiting
<1>16. DrainInv'
  BY <1>1 DEF IInv, DrainInv
<1> QED  BY <1>10, <1>11, <1>12, <1>13, <1>14, <1>15, <1>16 DEF IInv

-----------------------------------------------------------------------------
(* Steps of the calling thread. *)

\* Leaving the delivery loop, with any verdict the invariant allows.
LEMMA LeaveLoop ==
    ASSUME IInv, cpc' \in {"abandon", "flag"}, verdict' \in Verdicts,
           verdict'.kind = "task" => verdict'.task = consumed /\ consumed \in fails,
           verdict'.kind = "ok" => consumed = NTasks,
           verdict'.kind = "internal" => panicked,
           UNCHANGED <<next_seq, held, next, stopped, gate, pc, task, chan, rx, hand,
                       consumed, edge, abandoned, cancelled, panicked, fails>>,
           cpc # "advance"
    PROVE  IInv'
<1>1. TypeOK'
  BY DEF IInv, TypeOK, ConsumerPCs
<1>2. HeldInv' /\ ChanInv'
  BY HeldStays, ChanStays DEF IInv
<1>3. Counts' /\ HandInv' /\ DrainInv'
  BY DEF IInv, Counts, HandInv, DrainInv
<1>4. WorkerInv'
  BY DEF IInv, WorkerInv, Claimed, Working
<1>5. VerdictInv' /\ StopInv' /\ LostInv'
  BY DEF IInv, VerdictInv, StopInv, LostInv, Undisturbed, Exiting
<1> QED  BY <1>1, <1>2, <1>3, <1>4, <1>5 DEF IInv

LEMMA LoopTopStep ==
    ASSUME IInv, LoopTop
    PROVE  IInv'
<1>1. /\ cpc = "top"
      /\ UNCHANGED <<next_seq, held, next, stopped, gate, pc, task, chan, rx, hand,
                     consumed, edge, abandoned, cancelled, panicked, fails>>
  BY DEF LoopTop, OrCancelled, Return, localUnchanged, workerVars, rbVars
<1>2. CASE cpc' = "abandon" /\ verdict' = Verdict("cancelled")
  BY <1>1, <1>2, VerdictTyped, LeaveLoop
<1>3. CASE cpc' = "recv" /\ verdict' = verdict
  <2>1. TypeOK'
    BY <1>1, <1>3 DEF IInv, TypeOK, ConsumerPCs
  <2>2. HeldInv' /\ ChanInv'
    BY <1>1, HeldStays, ChanStays DEF IInv
  <2>3. Counts' /\ HandInv' /\ DrainInv'
    BY <1>1, <1>3 DEF IInv, Counts, HandInv, DrainInv
  <2>4. WorkerInv'
    BY <1>1, <1>3 DEF IInv, WorkerInv, Claimed, Working
  <2>5. VerdictInv' /\ StopInv'
    BY <1>1, <1>3 DEF IInv, VerdictInv, StopInv, Undisturbed, Exiting
  <2>6. LostInv'
    BY <1>1, <1>3 DEF IInv, LostInv, InPool, Claimed, Undisturbed, Exiting
  <2> QED  BY <2>1, <2>2, <2>3, <2>4, <2>5, <2>6 DEF IInv
<1> QED  BY <1>2, <1>3 DEF LoopTop, OrCancelled, Return

LEMMA RecvStep ==
    ASSUME IInv, Recv
    PROVE  IInv'
<1>1. /\ cpc = "recv" /\ cpc' = "push"
      /\ chan # << >> /\ hand' = Head(chan) /\ chan' = Tail(chan)
      /\ UNCHANGED <<next_seq, held, next, stopped, gate, pc, task, rx,
                     consumed, edge, verdict, abandoned, cancelled, panicked, fails>>
  BY DEF Recv, localUnchanged, workerVars, rbVars
<1>2. /\ hand' = chan[1] /\ hand' \in Items
      /\ chan' \in Seq(Items)
      /\ Len(chan) \in Nat \ {0} /\ Len(chan') = Len(chan) - 1
      /\ \A i \in 1 .. Len(chan') : chan'[i] = chan[i + 1]
  <2>1. chan \in Seq(Items)
    BY DEF IInv, TypeOK
  <2> QED  BY <1>1, <2>1, TailFacts
<1>3. /\ 1 \in 1 .. Len(chan)
      /\ \A i \in 1 .. Len(chan') : i + 1 \in 1 .. Len(chan) /\ i + 1 # 1
      /\ \A i, j \in 1 .. Len(chan') : i # j => i + 1 # j + 1
      /\ \A i \in 1 .. Len(chan) : i = 1 \/ (i - 1 \in 1 .. Len(chan') /\ i - 1 + 1 = i)
  BY <1>2
<1>4. Travelling(chan[1]) /\ chan[1].task \notin DOMAIN held
  BY <1>3 DEF IInv, ChanInv
<1>5. TypeOK'
  BY <1>1, <1>2 DEF IInv, TypeOK, ConsumerPCs
<1>6. Counts' /\ HeldInv' /\ VerdictInv' /\ DrainInv' /\ StopInv'
  <2>1. HeldInv'
    BY <1>1, HeldStays DEF IInv
  <2> QED
    BY <1>1, <2>1 DEF IInv, Counts, VerdictInv, DrainInv, StopInv, Undisturbed, Exiting
<1>7. ChanInv'
  <2>1. ASSUME NEW i \in 1 .. Len(chan')
        PROVE  Travelling(chan[i])' /\ chan'[i].task \notin DOMAIN held'
    <3>1. Travelling(chan[i + 1]) /\ chan[i + 1].task \notin DOMAIN held
      BY <1>3 DEF IInv, ChanInv
    <3> QED  BY <1>1, <1>2, <3>1 DEF Travelling
  <2>2. ASSUME NEW i \in 1 .. Len(chan'), NEW j \in 1 .. Len(chan'), i # j
        PROVE  chan'[i].task # chan'[j].task
    <3>1. chan[i + 1].task # chan[j + 1].task
      BY <1>3, <2>2 DEF IInv, ChanInv
    <3> QED  BY <1>2, <3>1
  <2> QED  BY <2>1, <2>2 DEF ChanInv
<1>8. HandInv'
  <2>1. Travelling(hand)' /\ hand'.task \notin DOMAIN held'
    BY <1>1, <1>2, <1>4 DEF Travelling
  <2>2. ASSUME NEW i \in 1 .. Len(chan')
        PROVE  chan'[i].task # hand'.task
    <3>1. chan[i + 1].task # chan[1].task
      BY <1>3 DEF IInv, ChanInv
    <3> QED  BY <1>2, <3>1
  <2> QED  BY <1>1, <2>1, <2>2 DEF HandInv
<1>9. WorkerInv'
  <2>1. ASSUME NEW w \in Workers, Claimed(w)
        PROVE  /\ \A i \in 1 .. Len(chan') : chan'[i].task # task[w]
               /\ hand'.task # task[w]
    BY <1>2, <1>3, <2>1 DEF IInv, WorkerInv
  <2>2. \A w \in Workers : (Claimed(w)' <=> Claimed(w)) /\ (Working(w)' <=> Working(w))
    BY <1>1 DEF Claimed, Working
  <2> QED  BY Zenon, <1>1, <2>1, <2>2 DEF IInv, WorkerInv
<1>10. LostInv'
  <2>1. ASSUME NEW t, InPool(t) PROVE InPool(t)'
    <3>1. CASE \E i \in 1 .. Len(chan) : chan[i].task = t
      <4>1. PICK i \in 1 .. Len(chan) : chan[i].task = t
        BY <3>1
      <4>2. CASE i = 1
        BY Zenon, <1>1, <1>2, <4>1, <4>2 DEF InPool
      <4>3. CASE i # 1
        <5>1. i - 1 \in 1 .. Len(chan') /\ chan'[i - 1] = chan[i]
          BY Zenon, <1>2, <1>3, <4>3
        <5> QED  BY <4>1, <5>1 DEF InPool
      <4> QED  BY <4>2, <4>3
    <3>2. CASE ~ \E i \in 1 .. Len(chan) : chan[i].task = t
      BY <1>1, <2>1, <3>2 DEF InPool, Claimed
    <3> QED  BY <3>1, <3>2
  <2> QED  BY <1>1, <2>1 DEF IInv, LostInv, Undisturbed, Exiting
<1> QED  BY <1>5, <1>6, <1>7, <1>8, <1>9, <1>10 DEF IInv

LEMMA RecvDisconnectedStep ==
    ASSUME IInv, RecvDisconnected
    PROVE  IInv'
<1>1. /\ cpc = "recv" /\ cpc' = "drained"
      /\ chan = << >> /\ \A w \in Workers : pc[w] = "gone"
      /\ UNCHANGED <<next_seq, held, next, stopped, gate, pc, task, chan, rx, hand,
                     consumed, edge, verdict, abandoned, cancelled, panicked, fails>>
  BY DEF RecvDisconnected, localUnchanged, workerVars, rbVars
<1>2. TypeOK' /\ Counts' /\ HandInv' /\ DrainInv' /\ VerdictInv'
  BY Zenon, <1>1 DEF IInv, TypeOK, ConsumerPCs, Counts, HandInv, DrainInv, VerdictInv, Exiting
<1>3. HeldInv' /\ ChanInv'
  BY <1>1, HeldStays, ChanStays DEF IInv
<1>4. WorkerInv' /\ StopInv'
  BY Zenon, <1>1 DEF IInv, WorkerInv, StopInv, Claimed, Working, Undisturbed, Exiting
<1>5. LostInv'
  BY Zenon, <1>1 DEF IInv, LostInv, InPool, Claimed, Undisturbed, Exiting
<1> QED  BY <1>2, <1>3, <1>4, <1>5 DEF IInv

LEMMA PushStep ==
    ASSUME IInv, Push
    PROVE  IInv'
<1>1. /\ cpc = "push"
      /\ UNCHANGED <<next, stopped, gate, pc, task, chan, rx, hand, consumed, edge,
                     abandoned, cancelled, panicked, fails, next_seq>>
  BY DEF Push, OrCancelled, PushResult, RBPush, Return, localUnchanged,
     workerVars, rbVars
<1>2. CASE /\ cpc' \in {"abandon", "flag"} /\ held' = held
           /\ verdict' \in {Verdict("cancelled"), Verdict("rejected")}
  BY <1>1, <1>2, VerdictTyped, LeaveLoop
<1>3. CASE RBPush(hand.task, hand) /\ cpc' = "pop" /\ verdict' = verdict
  <2>1. /\ DOMAIN held' = DOMAIN held \cup {hand.task}
        /\ held'[hand.task] = hand
        /\ \A s \in DOMAIN held : s # hand.task => held'[s] = held[s]
        /\ hand.task \notin DOMAIN held
    BY <1>3 DEF RBPush, Accepts
  <2>2. /\ Travelling(hand)
        /\ \A i \in 1 .. Len(chan) : chan[i].task # hand.task
        /\ hand \in Items /\ hand.task \in Tasks
    <3>1. hand \in Items /\ hand.task \in Tasks
      BY HandTyped DEF IInv, TypeOK
    <3>2. /\ Travelling(hand)
          /\ \A i \in 1 .. Len(chan) : chan[i].task # hand.task
      BY Zenon, <1>1 DEF IInv, HandInv
    <3> QED  BY Zenon, <3>1, <3>2
  <2>3. TypeOK'
    <3>1. DOMAIN held \subseteq Tasks /\ \A s \in DOMAIN held : held[s] \in Items
      BY Zenon DEF IInv, TypeOK
    <3>2. DOMAIN held' \subseteq Tasks /\ \A s \in DOMAIN held' : held'[s] \in Items
      BY Zenon, <2>1, <2>2, <3>1
    <3>3. cpc' \in ConsumerPCs
      BY <1>3 DEF ConsumerPCs
    <3> QED  BY Zenon, <1>1, <1>3, <3>2, <3>3 DEF IInv, TypeOK
  <2>4. Counts' /\ HandInv' /\ VerdictInv' /\ DrainInv'
    <3>1. Counts' /\ DrainInv'
      BY <1>1, <1>3 DEF IInv, Counts, DrainInv
    <3>2. HandInv'
      BY <1>3 DEF HandInv
    <3>3. VerdictInv'
      BY <1>1, <1>3 DEF IInv, VerdictInv, Exiting
    <3> QED  BY <3>1, <3>2, <3>3
  <2>5. HeldInv'
    <3> SUFFICES ASSUME NEW s \in DOMAIN held'
                 PROVE  held'[s].task = s /\ Travelling(held[s])'
      BY DEF HeldInv
    <3>1. CASE s = hand.task
      BY <1>1, <2>1, <2>2, <3>1 DEF Travelling
    <3>2. CASE s # hand.task
      <4>1. s \in DOMAIN held /\ held'[s] = held[s]
        BY <2>1, <3>2
      <4> QED  BY <1>1, <4>1 DEF IInv, HeldInv, Travelling
    <3> QED  BY <3>1, <3>2
  <2>6. ChanInv'
    <3>1. \A i \in 1 .. Len(chan) : chan[i].task \notin DOMAIN held'
      BY <2>1, <2>2 DEF IInv, ChanInv
    <3> QED  BY <1>1, <3>1 DEF IInv, ChanInv, Travelling
  <2>7. WorkerInv'
    BY Zenon, <1>1, <1>3, <2>1 DEF IInv, WorkerInv, Claimed, Working
  <2>8. StopInv'
    BY <1>1, <1>3 DEF IInv, StopInv, Undisturbed, Exiting
  <2>9. LostInv'
    <3>1. \A t : InPool(t) => InPool(t)'
      BY <1>1, <2>1 DEF InPool, Claimed
    <3> QED  BY <1>1, <1>3, <3>1 DEF IInv, LostInv, Undisturbed, Exiting
  <2> QED  BY <2>3, <2>4, <2>5, <2>6, <2>7, <2>8, <2>9 DEF IInv
<1> QED
  BY <1>2, <1>3 DEF Push, OrCancelled, PushResult, Return, rbVars

LEMMA PopReadyStep ==
    ASSUME IInv, PopReady
    PROVE  IInv'
<1>1. /\ cpc = "pop"
      /\ UNCHANGED <<next, stopped, gate, pc, task, chan, rx, consumed, edge,
                     verdict, abandoned, cancelled, panicked, fails>>
  BY DEF PopReady, localUnchanged, workerVars
<1>2. CASE ~Ready /\ cpc' = "top" /\ UNCHANGED <<next_seq, held, hand>>
  <2>1. TypeOK' /\ Counts'
    BY <1>1, <1>2 DEF IInv, TypeOK, ConsumerPCs, Counts
  <2>4. HeldInv' /\ ChanInv'
    BY <1>1, <1>2, HeldStays, ChanStays DEF IInv
  <2>5. HandInv' /\ WorkerInv'
    BY Zenon, <1>1, <1>2 DEF IInv, HandInv, WorkerInv, Claimed, Working
  <2>2. VerdictInv' /\ DrainInv' /\ StopInv'
    BY <1>1, <1>2 DEF IInv, VerdictInv, DrainInv, StopInv, Undisturbed, Exiting,
       Ready
  <2>3. LostInv'
    BY <1>1, <1>2 DEF IInv, LostInv, InPool, Claimed, Undisturbed, Exiting
  <2> QED  BY <2>1, <2>2, <2>3, <2>4, <2>5 DEF IInv
<1>3. CASE RBPop /\ hand' = held[next_seq] /\ cpc' = "item"
  <2>1. /\ next_seq \in DOMAIN held /\ next_seq' = next_seq + 1
        /\ DOMAIN held' = DOMAIN held \ {next_seq}
        /\ \A s \in DOMAIN held' : held'[s] = held[s]
    BY <1>3 DEF RBPop, Ready
  <2>2. /\ hand' \in Items /\ hand'.task = next_seq /\ Travelling(hand')
        /\ next_seq \in Tasks /\ next_seq < next /\ next_seq = consumed
        /\ gate.consumed = consumed /\ next \in Nat
    <3>1. held[next_seq].task = next_seq /\ Travelling(held[next_seq])
      BY <2>1 DEF IInv, HeldInv
    <3>2. held[next_seq] \in Items /\ next_seq \in Tasks
      BY <2>1, HeldTyped DEF IInv
    <3>3. next_seq = consumed /\ gate.consumed = consumed
      BY <1>1 DEF IInv, Counts
    <3>4. next_seq < next /\ next \in Nat
      BY <3>1, NumbersTyped DEF IInv, Travelling
    <3>5. Travelling(hand')
      BY <1>3, <3>1
    <3> QED  BY <1>3, <3>1, <3>2, <3>3, <3>4, <3>5
  <2>3. TypeOK'
    <3>1. next_seq' \in 0 .. NTasks
      BY <2>1, <2>2, Sizes DEF Tasks
    <3>2. DOMAIN held \subseteq Tasks /\ \A s \in DOMAIN held : held[s] \in Items
      BY Zenon DEF IInv, TypeOK
    <3>3. DOMAIN held' \subseteq Tasks /\ \A s \in DOMAIN held' : held'[s] \in Items
      BY Zenon, <2>1, <3>2
    <3>4. cpc' \in ConsumerPCs
      BY <1>3 DEF ConsumerPCs
    <3> QED  BY Zenon, <1>1, <2>2, <3>1, <3>3, <3>4 DEF IInv, TypeOK
  <2>4. Counts' /\ DrainInv' /\ VerdictInv'
    <3>1. Counts'
      <4>1. consumed' = consumed /\ gate' = gate /\ next' = next /\ cpc' = "item"
        BY <1>1, <1>3
      <4>2. /\ hand'.task = consumed /\ next_seq' = consumed + 1
            /\ gate.consumed = consumed /\ consumed < next
            /\ consumed \in Nat /\ next \in Nat
        BY <2>1, <2>2
      <4> QED  BY <4>1, <4>2 DEF Counts
    <3>2. DrainInv'
      BY <1>3 DEF DrainInv
    <3>3. VerdictInv'
      BY <1>1, <1>3 DEF IInv, VerdictInv, Exiting
    <3> QED  BY <3>1, <3>2, <3>3
  <2>5. HeldInv'
    <3> SUFFICES ASSUME NEW s \in DOMAIN held'
                 PROVE  held'[s].task = s /\ Travelling(held[s])'
      BY DEF HeldInv
    <3>1. s \in DOMAIN held /\ held'[s] = held[s] /\ s # next_seq /\ s \in Nat
      BY <2>1, HeldTyped DEF IInv
    <3>2. held[s].task = s /\ Travelling(held[s])
      BY <3>1 DEF IInv, HeldInv
    <3>3. next_seq + 1 <= s
      BY <2>2, <3>1, <3>2 DEF Travelling
    <3> QED  BY Zenon, <1>1, <2>1, <3>1, <3>2, <3>3 DEF Travelling
  <2>6. ChanInv'
    <3>1. \A i \in 1 .. Len(chan) :
             chan[i].task # next_seq /\ chan[i].task \in Nat
      BY <2>1, ChanTyped DEF IInv, ChanInv
    <3>2. ASSUME NEW i \in 1 .. Len(chan) PROVE Travelling(chan[i])'
      <4>1. Travelling(chan[i]) /\ chan[i].task # next_seq /\ chan[i].task \in Nat
        BY <3>1 DEF IInv, ChanInv
      <4>2. next_seq + 1 <= chan[i].task
        BY <2>2, <4>1 DEF Travelling
      <4> QED  BY <1>1, <2>1, <4>1, <4>2 DEF Travelling
    <3> QED  BY <1>1, <2>1, <3>2 DEF IInv, ChanInv
  <2>7. HandInv'
    BY <1>1, <1>3, <2>2 DEF HandInv, Travelling
  <2>8. WorkerInv'
    <3>1. ASSUME NEW w \in Workers, Claimed(w) PROVE next_seq + 1 <= task[w]
      <4>1. next_seq <= task[w] /\ task[w] # next_seq /\ task[w] \in Nat
        BY Zenon, <2>1, <3>1, NumbersTyped DEF IInv, WorkerInv
      <4> QED  BY <2>2, <4>1
    <3>2. \A w \in Workers : (Claimed(w)' <=> Claimed(w)) /\ (Working(w)' <=> Working(w))
      BY <1>1 DEF Claimed, Working
    <3> QED  BY Zenon, <1>1, <1>3, <2>1, <3>1, <3>2 DEF IInv, WorkerInv
  <2>9. StopInv'
    BY <1>1, <1>3 DEF IInv, StopInv, Undisturbed, Exiting
  <2>10. LostInv'
    <3>1. \A t \in Tasks : t # next_seq /\ InPool(t) => InPool(t)'
      BY Zenon, <1>1, <2>1 DEF InPool, Claimed
    <3>2. \A t \in Tasks : next_seq' <= t => next_seq <= t /\ t # next_seq
      BY <2>1, <2>2
    <3> QED  BY <1>1, <1>3, <3>1, <3>2 DEF IInv, LostInv, Undisturbed, Exiting
  <2> QED  BY <2>3, <2>4, <2>5, <2>6, <2>7, <2>8, <2>9, <2>10 DEF IInv
<1> QED  BY <1>2, <1>3 DEF PopReady, rbVars

LEMMA ItemStep ==
    ASSUME IInv, Item
    PROVE  IInv'
<1>1. /\ cpc = "item" /\ hand.task = consumed /\ next_seq = consumed + 1
      /\ hand \in Items /\ (hand.ok <=> hand.task \notin fails)
      /\ UNCHANGED <<next_seq, held, next, stopped, gate, pc, task, chan, rx, hand,
                     abandoned, cancelled, panicked, fails>>
  BY Zenon DEF IInv, TypeOK, Counts, HandInv, Item, OrCancelled, ItemOk, ItemFailed,
     ConsumerFails, ConsumerPanics, Return, localUnchanged, workerVars, rbVars
<1>2. CASE ItemOk
  <2>1. /\ cpc' = "advance" /\ consumed' = consumed + 1 /\ consumed \notin fails
        /\ verdict' = verdict /\ edge' = Smaller(consumed + 1 + Window, NTasks)
    BY <1>1, <1>2 DEF ItemOk
  <2>2. consumed' \in 0 .. NTasks /\ edge' \in 0 .. NTasks /\ consumed \in Nat
    BY <1>1, <2>1 DEF IInv, TypeOK, Smaller
  <2>3. TypeOK'
    BY Zenon, <1>1, <2>1, <2>2 DEF IInv, TypeOK, ConsumerPCs
  <2>4. HeldInv' /\ ChanInv'
    BY <1>1, HeldStays, ChanStays DEF IInv
  <2>5. Counts' /\ HandInv' /\ DrainInv'
    <3>1. consumed' = consumed + 1 /\ next_seq' = consumed + 1 /\ cpc' = "advance"
      BY <1>1, <2>1
    <3>2. gate' = gate /\ gate.consumed = consumed /\ next' = next /\ consumed + 1 <= next
      BY <1>1 DEF IInv, Counts
    <3>3. Counts'
      BY <2>2, <3>1, <3>2 DEF Counts
    <3> QED  BY <3>1, <3>3 DEF HandInv, DrainInv
  <2>6. WorkerInv'
    BY Zenon, <1>1, <2>1 DEF IInv, WorkerInv, Claimed, Working
  <2>7. VerdictInv'
    <3>1. ~Exiting /\ verdict' = verdict /\ fails' = fails /\ panicked' = panicked
      BY <1>1, <2>1 DEF Exiting
    <3>2. ASSUME NEW t \in fails PROVE consumed + 1 <= t
      <4>1. t \in Nat /\ consumed <= t /\ t # consumed
        BY <2>1 DEF IInv, TypeOK, VerdictInv, Tasks
      <4> QED  BY <2>2, <4>1
    <3> QED  BY <2>1, <3>1, <3>2 DEF IInv, VerdictInv
  <2>8. StopInv'
    BY <1>1, <2>1 DEF IInv, StopInv, Undisturbed, Exiting
  <2>9. LostInv'
    BY Zenon, <1>1, <2>1 DEF IInv, LostInv, InPool, Claimed, Undisturbed, Exiting
  <2> QED  BY <2>3, <2>4, <2>5, <2>6, <2>7, <2>8, <2>9 DEF IInv
<1>3. CASE ItemFailed
  <2>1. consumed \in fails /\ consumed \in Tasks
    BY Zenon, <1>1, <1>3 DEF IInv, TypeOK, ItemFailed
  <2> QED  BY Zenon, <1>1, <1>3, <2>1, VerdictTyped, LeaveLoop DEF ItemFailed, Return
<1>4. CASE cancelled \/ ConsumerFails \/ ConsumerPanics
  <2>1. /\ cpc' \in {"abandon", "flag"} /\ UNCHANGED <<consumed, edge>>
        /\ verdict' \in {Verdict("cancelled"), Verdict("consumer"), Verdict("panic")}
    BY <1>4 DEF Item, OrCancelled, ConsumerFails, ConsumerPanics, Return
  <2> QED  BY <1>1, <2>1, VerdictTyped, LeaveLoop
<1> QED  BY <1>2, <1>3, <1>4 DEF Item, OrCancelled

LEMMA AdvanceStep ==
    ASSUME IInv, Advance
    PROVE  IInv'
<1>1. /\ cpc = "advance" /\ cpc' = "notify"
      /\ gate' = [gate EXCEPT !.consumed = consumed]
      /\ UNCHANGED <<next_seq, held, next, stopped, pc, task, chan, rx, hand,
                     consumed, edge, verdict, abandoned, cancelled, panicked, fails>>
  BY DEF Advance, workerVars, rbVars
<1>2. /\ gate.consumed \in Nat /\ consumed = gate.consumed + 1
      /\ gate'.consumed = consumed /\ consumed \in 0 .. NTasks
      /\ gate'.stop_claims = gate.stop_claims /\ gate'.closed = gate.closed
  BY <1>1, GateTyped DEF IInv, TypeOK, Counts
<1>3. TypeOK'
  BY Zenon, <1>1, <1>2 DEF IInv, TypeOK, ConsumerPCs
<1>4. HeldInv' /\ ChanInv'
  BY <1>1, <1>2, ResultsKept, NumbersTyped DEF IInv
<1>5. Counts' /\ HandInv' /\ DrainInv' /\ VerdictInv'
  BY <1>1, <1>2 DEF IInv, Counts, HandInv, DrainInv, VerdictInv, Exiting
<1>6. WorkerInv'
  BY <1>1, <1>2, SMTT(20) DEF IInv, WorkerInv, Claimed, Working
<1>7. StopInv'
  BY <1>1, <1>2, NumbersTyped DEF IInv, StopInv, Undisturbed, Exiting
<1>8. LostInv'
  BY <1>1 DEF IInv, LostInv, InPool, Claimed, Undisturbed, Exiting
<1> QED  BY <1>3, <1>4, <1>5, <1>6, <1>7, <1>8 DEF IInv

LEMMA AdvanceNotifyStep ==
    ASSUME IInv, AdvanceNotify
    PROVE  IInv'
<1>1. /\ cpc = "notify" /\ cpc' = "pop"
      /\ pc \in [Workers -> WorkerPCs] /\ pc' \in [Workers -> WorkerPCs]
      /\ \A v \in Workers : pc'[v] = pc[v] \/ (pc[v] = "parked" /\ pc'[v] = "admit")
      /\ UNCHANGED <<next_seq, held, next, stopped, gate, task, chan, rx, hand,
                     consumed, edge, verdict, abandoned, cancelled, panicked, fails>>
  <2>1. pc \in [Workers -> WorkerPCs]
    BY DEF IInv, TypeOK
  <2>2. pc' = Woken
    BY DEF AdvanceNotify
  <2>3. /\ pc' \in [Workers -> WorkerPCs]
        /\ \A v \in Workers : pc'[v] = pc[v] \/ (pc[v] = "parked" /\ pc'[v] = "admit")
    BY <2>1, <2>2, WokenFacts
  <2> QED  BY <2>1, <2>3 DEF AdvanceNotify, workerVars, rbVars
<1>2. TypeOK' /\ Counts' /\ HandInv' /\ DrainInv' /\ VerdictInv'
  BY Zenon, <1>1 DEF IInv, TypeOK, ConsumerPCs, Counts, HandInv, DrainInv, VerdictInv, Exiting
<1>3. HeldInv' /\ ChanInv'
  BY <1>1, HeldStays, ChanStays DEF IInv
<1>4. \A v \in Workers : (Claimed(v)' <=> Claimed(v)) /\ (Working(v)' <=> Working(v))
  BY <1>1 DEF Claimed, Working
<1>5. WorkerInv' /\ StopInv'
  BY Zenon, <1>1, <1>4 DEF IInv, WorkerInv, StopInv, Undisturbed, Exiting
<1>6. LostInv'
  BY Zenon, <1>1, <1>4 DEF IInv, LostInv, InPool, Undisturbed, Exiting
<1> QED  BY <1>2, <1>3, <1>5, <1>6 DEF IInv

\* The heart of "Ordered failures": when every worker has gone and the
\* channel is empty, an undisturbed run has consumed every task.
LEMMA NothingStranded ==
    ASSUME IInv, cpc = "drained", ~panicked
    PROVE  consumed = NTasks
<1> SUFFICES ASSUME consumed # NTasks PROVE FALSE
  OBVIOUS
<1>1. /\ Undisturbed /\ next_seq = consumed
      /\ consumed \in Tasks /\ next \in Nat
  BY DEF IInv, TypeOK, Counts, Undisturbed, Exiting
<1>2. chan = << >> /\ \A w \in Workers : pc[w] = "gone"
  BY DEF IInv, DrainInv
<1>3. ~ \E k \in fails : k < consumed
  BY <1>1 DEF IInv, TypeOK, VerdictInv
<1>4. CASE consumed < next
  <2>1. consumed \notin DOMAIN held
    BY <1>1 DEF IInv, DrainInv
  <2>2. ~InPool(consumed)
    BY <1>2, <2>1, EmptyFacts DEF InPool, Claimed
  <2> QED  BY <1>1, <1>3, <1>4, <2>2 DEF IInv, LostInv
<1>5. CASE ~(consumed < next)
  <2>1. stopped
    BY <1>1, <1>2, <1>5 DEF IInv, StopInv
  <2>2. PICK k \in fails : k < next
    BY <1>1, <2>1 DEF IInv, StopInv
  <2> QED  BY <1>1, <1>3, <1>5, <2>2 DEF IInv, TypeOK
<1> QED  BY <1>4, <1>5

LEMMA DrainedStep ==
    ASSUME IInv, Drained
    PROVE  IInv'
<1>1. /\ cpc = "drained"
      /\ cpc' \in {"abandon", "flag"}
      /\ verdict' \in {Verdict("cancelled"), Verdict("ok"), Verdict("internal")}
      /\ verdict' = Verdict("ok") => consumed = NTasks
      /\ verdict' = Verdict("internal") => consumed # NTasks
      /\ UNCHANGED <<next_seq, held, next, stopped, gate, pc, task, chan, rx, hand,
                     consumed, edge, abandoned, cancelled, panicked, fails>>
  BY Zenon, VerdictTyped DEF Drained, OrCancelled, DrainedResult, Return, localUnchanged,
     workerVars, rbVars
<1>2. verdict' = Verdict("internal") => panicked
  BY <1>1, NothingStranded
<1> QED  BY <1>1, <1>2, VerdictTyped, LeaveLoop

\* Once out of the loop the caller only closes the gate, wakes the workers
\* and drops what the channel still holds.
LEMMA ExitStep ==
    ASSUME IInv,
           Abandon \/ CloseFlag \/ Close \/ CloseNotify \/ DropReceiver \/ Join
    PROVE  IInv'
<1>1. /\ Exiting /\ Exiting' /\ cpc' \in ConsumerPCs
      /\ stopped' \in BOOLEAN /\ rx' \in BOOLEAN /\ abandoned' \in BOOLEAN
      /\ UNCHANGED <<next_seq, held, next, task, hand, consumed, edge, verdict,
                     cancelled, panicked, fails>>
  BY Zenon DEF IInv, TypeOK, ConsumerPCs, Exiting, Abandon, CloseFlag, Close, CloseNotify,
     DropReceiver, Join, localUnchanged, workerVars, rbVars
<1>2. /\ gate' \in [consumed : 0 .. NTasks, stop_claims : BOOLEAN, closed : BOOLEAN]
      /\ gate'.consumed = gate.consumed
  BY Zenon DEF IInv, TypeOK, Abandon, CloseFlag, Close, CloseNotify, DropReceiver, Join,
     localUnchanged
<1>3. /\ pc \in [Workers -> WorkerPCs] /\ pc' \in [Workers -> WorkerPCs]
      /\ \A v \in Workers : pc'[v] = pc[v] \/ (pc[v] = "parked" /\ pc'[v] = "admit")
  <2>1. pc \in [Workers -> WorkerPCs]
    BY DEF IInv, TypeOK
  <2>2. pc' = pc \/ pc' = Woken
    BY DEF Abandon, CloseFlag, Close, CloseNotify, DropReceiver, Join, localUnchanged
  <2>3. Woken \in [Workers -> WorkerPCs]
    BY <2>1, WokenFacts
  <2>4. pc' \in [Workers -> WorkerPCs]
    BY <2>1, <2>2, <2>3
  <2>5. \A v \in Workers : pc'[v] = pc[v] \/ (pc[v] = "parked" /\ pc'[v] = "admit")
    BY <2>1, <2>2, WokenFacts
  <2> QED  BY <2>1, <2>4, <2>5
<1>4. chan' = chan \/ chan' = << >>
  BY DEF Abandon, CloseFlag, Close, CloseNotify, DropReceiver, Join
<1>5. \A v \in Workers : (Claimed(v)' <=> Claimed(v)) /\ (Working(v)' <=> Working(v))
  BY <1>3 DEF Claimed, Working
<1>6. TypeOK'
  <2>1. chan' \in Seq(Items)
    BY Zenon, <1>4, EmptyFacts DEF IInv, TypeOK
  <2> QED  BY Zenon, <1>1, <1>2, <1>3, <2>1 DEF IInv, TypeOK
<1>7. Counts' /\ HandInv' /\ DrainInv'
  BY Zenon, <1>1, <1>2 DEF IInv, Counts, HandInv, DrainInv, Exiting
<1>8. VerdictInv' /\ StopInv' /\ LostInv'
  BY Zenon, <1>1 DEF IInv, VerdictInv, StopInv, LostInv, Undisturbed
<1>9. HeldInv'
  BY Zenon, <1>1, <1>2 DEF IInv, HeldInv, Travelling
<1>10. ChanInv'
  <2>1. CASE chan' = chan
    BY Zenon, <1>1, <1>2, <2>1 DEF IInv, ChanInv, Travelling
  <2>2. CASE chan' = << >>
    BY <2>2, EmptyFacts DEF ChanInv
  <2> QED  BY <1>4, <2>1, <2>2
<1>11. WorkerInv'
  <2>1. \A i \in 1 .. Len(chan') : i \in 1 .. Len(chan) /\ chan'[i] = chan[i]
    BY <1>4, EmptyFacts
  <2>2. cpc' # "push"
    BY <1>1 DEF Exiting
  <2>3. \A w \in Workers : pc'[w] \in {"flag", "stop", "notify"} => pc'[w] = pc[w]
    BY <1>3
  <2>4. ASSUME NEW w \in Workers, Claimed(w)
        PROVE  \A i \in 1 .. Len(chan') : chan'[i].task # task[w]
    BY Zenon, <2>1, <2>4 DEF IInv, WorkerInv
  <2> QED  BY Zenon, <1>1, <1>2, <1>5, <2>2, <2>3, <2>4 DEF IInv, WorkerInv
<1> QED  BY <1>6, <1>7, <1>8, <1>9, <1>10, <1>11 DEF IInv

LEMMA CancelStep ==
    ASSUME IInv, Cancel
    PROVE  IInv'
<1>1. TypeOK'
  BY Zenon DEF IInv, TypeOK, Cancel, rbVars
<1> QED
  BY Zenon, <1>1, CountsStays, HeldStays, ChanStays, HandStays, WorkerStays, VerdictStays,
     DrainStays, StopStays, LostStays DEF IInv, Cancel, rbVars
-----------------------------------------------------------------------------
(* The theorems. *)

\* The pool starts with the invariant true.
THEOREM InitIInv == Init => IInv
<1> SUFFICES ASSUME Init PROVE IInv
  OBVIOUS
<1> USE DEF Init, RBInit
<1>1. TypeOK
  <2>1. next_seq \in 0 .. NTasks /\ DOMAIN held = {} /\ next \in Nat
    OBVIOUS
  <2>2. gate \in [consumed : 0 .. NTasks, stop_claims : BOOLEAN, closed : BOOLEAN]
    OBVIOUS
  <2>3. pc \in [Workers -> WorkerPCs] /\ task \in [Workers -> Nat]
    BY DEF WorkerPCs
  <2>4. chan \in Seq(Items) /\ hand \in Items
    BY EmptyFacts, ItemsAre
  <2>5. edge \in 0 .. NTasks /\ consumed \in 0 .. NTasks
    BY DEF Smaller
  <2>6. verdict \in Verdicts /\ cpc \in ConsumerPCs
    BY VerdictTyped DEF ConsumerPCs
  <2>7. /\ stopped \in BOOLEAN /\ rx \in BOOLEAN /\ abandoned \in BOOLEAN
        /\ cancelled \in BOOLEAN /\ panicked \in BOOLEAN /\ fails \subseteq Tasks
    BY Zenon
  <2> QED  BY Zenon, <2>1, <2>2, <2>3, <2>4, <2>5, <2>6, <2>7 DEF TypeOK
<1>2. Counts /\ HeldInv /\ DrainInv
  BY DEF Counts, HeldInv, DrainInv
<1>3. ChanInv /\ HandInv
  <2>1. Len(chan) = 0 /\ cpc = "top"
    BY EmptyFacts
  <2> QED  BY <2>1 DEF ChanInv, HandInv
<1>4. WorkerInv
  BY DEF WorkerInv, Claimed, Working
<1>6. StopInv /\ LostInv
  BY DEF StopInv, LostInv
<1>5. VerdictInv
  BY VerdictTyped DEF VerdictInv
<1> QED  BY <1>1, <1>2, <1>3, <1>4, <1>5, <1>6 DEF IInv

\* Every step of any thread keeps it.
THEOREM NextIInv == IInv /\ [Next]_vars => IInv'
<1> SUFFICES ASSUME IInv, [Next]_vars PROVE IInv'
  OBVIOUS
<1>1. ASSUME NEW w \in Workers, WorkerStep(w) PROVE IInv'
  BY <1>1, LocalMoveStep, GateMoveStep, ClaimStep, SendStep DEF WorkerStep
<1>2. ASSUME NEW w \in Workers, SpuriousWakeup(w) \/ WorkPanics(w) PROVE IInv'
  BY <1>2, LocalMoveStep, GateMoveStep
<1>3. CASE CallerStep
  BY <1>3, LoopTopStep, RecvStep, RecvDisconnectedStep, PushStep, PopReadyStep,
     ItemStep, AdvanceStep, AdvanceNotifyStep, DrainedStep, ExitStep DEF CallerStep
<1>4. CASE Cancel
  BY <1>4, CancelStep
<1>5. CASE UNCHANGED vars
  <2>1. TypeOK'
    BY Zenon, <1>5 DEF vars, poolVars, rbVars, IInv, TypeOK
  <2> QED
    BY Zenon, <1>5, <2>1, CountsStays, HeldStays, ChanStays, HandStays, WorkerStays,
       VerdictStays, DrainStays, StopStays, LostStays
       DEF vars, poolVars, rbVars, IInv
<1> QED  BY <1>1, <1>2, <1>3, <1>4, <1>5 DEF Next, Finished

THEOREM PoolInvariant == Spec => []IInv
  BY InitIInv, NextIInv, PTL DEF Spec

\* TypeOK holds in every run, for any workers, tasks, window and depth.
THEOREM TypeCorrect == Spec => []TypeOK
<1>1. IInv => TypeOK
  BY DEF IInv
<1> QED  BY <1>1, PoolInvariant, PTL

\* The admission window bounds everything in flight (module docs, "Bounded"),
\* and reorder.push cannot panic: no stale, duplicate or out-of-window
\* position reaches deliver's reorder buffer.
THEOREM WindowBounds == Spec => []Bounded
<1>1. ASSUME IInv, NEW t \in InFlight
      PROVE  consumed <= t /\ t < consumed + Window
  <2>1. /\ consumed \in Nat /\ next_seq \in Nat /\ gate.consumed \in Nat
        /\ consumed <= next_seq /\ gate.consumed <= consumed
    BY <1>1, GateTyped DEF IInv, TypeOK, Counts
  <2>2. CASE \E w \in Workers : Working(w) /\ task[w] = t
    <3>1. PICK w \in Workers : Working(w) /\ task[w] = t
      BY <2>2
    <3>2. Claimed(w)
      BY <3>1 DEF Working, Claimed
    <3>3. /\ t \in Tasks /\ next_seq <= t
          /\ t < gate.consumed + Window
      BY Zenon, <1>1, <3>1, <3>2 DEF IInv, WorkerInv
    <3>4. t \in Nat /\ Window \in Nat
      BY <3>3, Sizes DEF Tasks, Window
    <3> QED  BY <2>1, <3>3, <3>4
  <2>3. CASE \E i \in 1 .. Len(chan) : chan[i].task = t
    <3>1. PICK i \in 1 .. Len(chan) : chan[i].task = t
      BY <2>3
    <3>2. chan[i].task \in Nat
      BY <1>1, ChanTyped DEF IInv
    <3>3. Travelling(chan[i])
      BY Zenon, <1>1 DEF IInv, ChanInv
    <3>4. t \in Nat /\ next_seq <= t /\ t < gate.consumed + Window
      BY <3>1, <3>2, <3>3 DEF Travelling
    <3>5. Window \in Nat
      BY Sizes DEF Window
    <3> QED  BY <2>1, <3>4, <3>5
  <2>4. CASE t \in DOMAIN held
    BY <1>1, <2>1, <2>4, HeldTyped DEF IInv, HeldInv, Travelling
  <2>5. CASE cpc = "push" /\ t = hand.task
    BY <1>1, <2>1, <2>5, HandTyped DEF IInv, HandInv, Travelling
  <2>6. CASE cpc = "item" /\ t = hand.task
    BY <1>1, <2>1, <2>6 DEF IInv, Counts
  <2> QED  BY Zenon, <1>1, <2>2, <2>3, <2>4, <2>5, <2>6 DEF InFlight, InHand
<1>2. ASSUME IInv, cpc = "push" PROVE Accepts(hand.task)
  BY <1>2, GateTyped, HandTyped, NumbersTyped DEF IInv, Counts, HandInv, Travelling,
     Accepts
<1>3. IInv => Bounded
  BY <1>1, <1>2 DEF Bounded
<1> QED  BY <1>3, PoolInvariant, PTL

\* Results are consumed in task order, the reported failure is the lowest
\* failing task's, and no task is lost without a panic (module docs, "Ordered
\* failures").
THEOREM DeliveredInOrder == Spec => []InTaskOrder
<1>1. IInv => InTaskOrder
  <2> SUFFICES ASSUME IInv PROVE InTaskOrder
    OBVIOUS
  <2>1. fails \subseteq Tasks /\ \A t \in fails : consumed <= t
    BY DEF IInv, TypeOK, VerdictInv
  <2>2. verdict.kind = "ok" => fails = {}
    BY <2>1 DEF IInv, VerdictInv
  <2>3. cpc = "item" => hand.task = consumed /\ next_seq = consumed + 1
    BY DEF IInv, Counts
  <2>4. /\ verdict.kind = "task" =>
              verdict.task \in fails /\ \A t \in fails : verdict.task <= t
        /\ verdict.kind = "internal" => panicked
    BY <2>1 DEF IInv, VerdictInv
  <2> QED  BY <2>2, <2>3, <2>4 DEF InTaskOrder
<1> QED  BY <1>1, PoolInvariant, PTL
=============================================================================
