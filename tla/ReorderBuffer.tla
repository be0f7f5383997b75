--------------------------- MODULE ReorderBuffer ----------------------------
(***************************************************************************)
(* The reorder buffer as src/reorder_buffer.rs builds it: a deque of       *)
(* optional items whose front is the sequence number handed out next, and  *)
(* a count of the filled slots.  It implements ReorderMap.                 *)
(***************************************************************************)
EXTENDS Integers, Sequences, FiniteSets, FiniteSetTheorems, TLAPS

CONSTANTS Items,        \* what may be pushed
          NoItem,       \* the None of an empty slot
          MaxWindow,    \* max_window
          MaxSeq        \* bound on the sequence numbers of a run

ASSUME BufferAssumption ==
    /\ MaxWindow \in Nat \ {0} /\ MaxSeq \in Nat
    /\ NoItem \notin Items

VARIABLES next_seq, pending, filled,
          answer        \* what the last call returned

bufferVars == <<next_seq, pending, filled>>
vars == <<next_seq, pending, filled, answer>>

Init == next_seq = 0 /\ pending = <<>> /\ filled = 0 /\ answer = "none"

Slot(seq) == seq - next_seq + 1

WindowExceeded_OffByOne(seq) == seq - next_seq > MaxWindow
WindowExceeded(seq) == seq - next_seq >= MaxWindow

(* resize_with: empty slots up to the one wanted. *)
Resized(seq) ==
    IF Slot(seq) <= Len(pending) THEN pending
    ELSE [i \in 1 .. Slot(seq) |-> IF i <= Len(pending) THEN pending[i] ELSE NoItem]

(* try_push.  A refusal returns the item; the deque is resized only after  *)
(* the window test and never before a duplicate is found.                  *)
TryPush(seq, item) ==
    IF seq < next_seq THEN answer' = "stale" /\ UNCHANGED bufferVars
    ELSE IF WindowExceeded(seq) THEN answer' = "window" /\ UNCHANGED bufferVars
    ELSE IF Resized(seq)[Slot(seq)] # NoItem THEN answer' = "duplicate" /\ UNCHANGED bufferVars
    ELSE /\ pending' = [Resized(seq) EXCEPT ![Slot(seq)] = item]
         /\ filled' = filled + 1
         /\ answer' = "pushed"
         /\ UNCHANGED next_seq

FrontReady == pending # <<>> /\ Head(pending) # NoItem

(* pop_ready. *)
PopReady ==
    IF FrontReady
    THEN /\ pending' = Tail(pending)
         /\ filled' = filled - 1
         /\ next_seq' = next_seq + 1
         /\ answer' = "popped"
    ELSE answer' = "none" /\ UNCHANGED bufferVars

DrainFilled_Counted ==
    /\ pending' = <<>> /\ filled' = 0 /\ answer' = "drained"
    /\ next_seq' = next_seq + filled

(* drain_filled: next_seq does not move. *)
DrainFilled ==
    /\ pending' = <<>> /\ filled' = 0 /\ answer' = "drained"
    /\ UNCHANGED next_seq

Next == \/ \E seq \in 0 .. MaxSeq, item \in Items : TryPush(seq, item)
        \/ PopReady
        \/ DrainFilled

Spec == Init /\ [][Next]_vars

-----------------------------------------------------------------------------
(* The abstract buffer this one represents. *)
HeldSeqs == {s \in next_seq .. next_seq + Len(pending) - 1 : pending[Slot(s)] # NoItem}
Held == [s \in HeldSeqs |-> pending[Slot(s)]]

Map == INSTANCE ReorderMap WITH held <- Held

(***************************************************************************)
(* The deque behaves as the map it stands for: an accepted push adds one   *)
(* item at its number, a pop removes the next number and nothing else, and *)
(* a refused call changes nothing (try_push, pop_ready, drain_filled).     *)
(***************************************************************************)
ImplementsMap == Map!RBSpec

(***************************************************************************)
(* The lengths consumers decide by are true: the deque never outgrows the  *)
(* window, filled_len counts the items held, and pending_len is zero       *)
(* exactly when nothing is held, since the last slot is never empty (the   *)
(* end-of-stream checks of the gzip and the PBF writers).                  *)
(***************************************************************************)
LengthsAreTrue ==
    /\ pending \in Seq(Items \cup {NoItem}) /\ next_seq \in Nat
    /\ Len(pending) <= MaxWindow
    /\ filled = Cardinality(HeldSeqs)
    /\ pending # <<>> => pending[Len(pending)] # NoItem

-----------------------------------------------------------------------------
(***************************************************************************)
(* The deque implements the map, for every window, item set and length of  *)
(* run.  The invariant the argument needs is only that the deque is a      *)
(* sequence of optional items no longer than the window; that a slot's     *)
(* meaning moves with next_seq is what the refinement mapping says.        *)
(***************************************************************************)
Slots == Items \cup {NoItem}

BInv ==
    /\ next_seq \in Nat
    /\ pending \in Seq(Slots)
    /\ Len(pending) <= MaxWindow
    /\ pending # <<>> => pending[Len(pending)] # NoItem

USE BufferAssumption

LEMMA FunctionIsSeq ==
    ASSUME NEW S, NEW n \in Nat, NEW f \in [1 .. n -> S]
    PROVE  f \in Seq(S) /\ Len(f) = n
  OBVIOUS

LEMMA ExceptOfSeq ==
    ASSUME NEW S, NEW q \in Seq(S), NEW k \in 1 .. Len(q), NEW e \in S
    PROVE  /\ [q EXCEPT ![k] = e] \in Seq(S)
           /\ Len([q EXCEPT ![k] = e]) = Len(q)
           /\ [q EXCEPT ![k] = e][k] = e
           /\ \A i \in 1 .. Len(q) : i # k => [q EXCEPT ![k] = e][i] = q[i]
<1>1. Len(q) \in Nat /\ q \in [1 .. Len(q) -> S]
  OBVIOUS
<1>2. [q EXCEPT ![k] = e] \in [1 .. Len(q) -> S]
  BY <1>1
<1> QED  BY <1>1, <1>2, FunctionIsSeq

LEMMA ResizedIs ==
    ASSUME BInv, NEW seq \in Nat, seq >= next_seq, ~WindowExceeded(seq)
    PROVE  /\ Resized(seq) \in Seq(Slots)
           /\ Slot(seq) \in 1 .. Len(Resized(seq))
           /\ Len(pending) <= Len(Resized(seq))
           /\ Len(Resized(seq)) <= MaxWindow
           /\ \A i \in 1 .. Len(pending) : Resized(seq)[i] = pending[i]
           /\ \A i \in Len(pending) + 1 .. Len(Resized(seq)) : Resized(seq)[i] = NoItem
           /\ Len(pending) < Len(Resized(seq)) => Len(Resized(seq)) = Slot(seq)
<1>1. /\ Slot(seq) \in Nat \ {0} /\ Slot(seq) <= MaxWindow
      /\ Len(pending) \in Nat /\ pending \in [1 .. Len(pending) -> Slots]
  BY DEF BInv, Slot, WindowExceeded
<1>2. CASE Slot(seq) <= Len(pending)
  BY <1>1, <1>2 DEF Resized, BInv
<1>3. CASE ~(Slot(seq) <= Len(pending))
  <2> DEFINE f == [i \in 1 .. Slot(seq) |->
                     IF i <= Len(pending) THEN pending[i] ELSE NoItem]
  <2>1. Resized(seq) = f
    BY <1>3 DEF Resized
  <2>2. f \in [1 .. Slot(seq) -> Slots]
    BY <1>1 DEF Slots
  <2>3. f \in Seq(Slots) /\ Len(f) = Slot(seq)
    BY <1>1, <2>2, FunctionIsSeq
  <2> QED  BY <1>1, <1>3, <2>1, <2>3
<1> QED  BY <1>2, <1>3

LEMMA PushedStep ==
    ASSUME BInv, NEW seq \in Nat, NEW item \in Items, seq >= next_seq,
           ~WindowExceeded(seq), Resized(seq)[Slot(seq)] = NoItem,
           pending' = [Resized(seq) EXCEPT ![Slot(seq)] = item], next_seq' = next_seq
    PROVE  BInv' /\ Map!RBPush(seq, item)
<1> DEFINE r == Resized(seq)
           k == Slot(seq)
<1>1. /\ r \in Seq(Slots) /\ k \in 1 .. Len(r) /\ Len(pending) <= Len(r)
      /\ Len(r) <= MaxWindow /\ Len(r) \in Nat /\ Len(pending) \in Nat
      /\ \A i \in 1 .. Len(pending) : r[i] = pending[i]
      /\ \A i \in Len(pending) + 1 .. Len(r) : r[i] = NoItem
      /\ Len(pending) < Len(r) => Len(r) = k
      /\ r[k] = NoItem
  BY ResizedIs DEF BInv
<1> HIDE DEF r, k
<1>2. pending' = [r EXCEPT ![k] = item]
  BY DEF r, k
<1>3. /\ pending' \in Seq(Slots) /\ Len(pending') = Len(r)
      /\ pending'[k] = item
      /\ \A i \in 1 .. Len(r) : i # k => pending'[i] = r[i]
  <2>1. item \in Slots
    BY DEF Slots
  <2> DEFINE q == [r EXCEPT ![k] = item]
  <2>2. /\ q \in Seq(Slots) /\ Len(q) = Len(r) /\ q[k] = item
        /\ \A i \in 1 .. Len(r) : i # k => q[i] = r[i]
    BY <1>1, <2>1, ExceptOfSeq
  <2> HIDE DEF q
  <2>3. pending' = q
    BY Zenon, <1>2 DEF q
  <2> QED  BY Zenon, <2>2, <2>3
<1>4. item # NoItem
  OBVIOUS
<1>5. pending'[Len(pending')] # NoItem
  <2>1. CASE Len(r) = k
    BY <1>3, <1>4, <2>1
  <2>2. CASE Len(r) # k
    <3>1. Len(pending) = Len(r) /\ Len(r) >= 1
      BY <1>1, <2>2
    <3>2. pending # <<>> /\ r[Len(r)] = pending[Len(pending)]
      BY <1>1, <3>1
    <3> QED  BY <1>1, <1>3, <2>2, <3>1, <3>2 DEF BInv
  <2> QED  BY <2>1, <2>2
<1>6. BInv'
  BY <1>1, <1>3, <1>5 DEF BInv
<1>7. k = seq - next_seq + 1 /\ next_seq \in Nat
  BY DEF k, Slot, BInv
<1>8. Held' = [s \in DOMAIN Held \cup {seq} |-> IF s = seq THEN item ELSE Held[s]]
  <2>0. Len(r) \in Nat /\ Len(pending) \in Nat
    BY <1>1
  <2>1. \A s \in Nat : Slot(s)' = Slot(s) /\ Slot(s) = s - next_seq + 1
    BY <1>7 DEF Slot
  <2>2. HeldSeqs' = {s \in next_seq .. next_seq + Len(r) - 1 :
                        pending'[s - next_seq + 1] # NoItem}
    BY <1>3 DEF HeldSeqs, Slot
  <2>3. HeldSeqs = {s \in next_seq .. next_seq + Len(pending) - 1 :
                        pending[s - next_seq + 1] # NoItem}
    BY DEF HeldSeqs, Slot
  <2>4. HeldSeqs' = HeldSeqs \cup {seq}
    <3>1. ASSUME NEW s \in HeldSeqs' PROVE s \in HeldSeqs \cup {seq}
      <4>1. /\ s \in Nat /\ s - next_seq + 1 \in 1 .. Len(r)
            /\ pending'[s - next_seq + 1] # NoItem
        <5>1. s \in next_seq .. next_seq + Len(r) - 1 /\ pending'[s - next_seq + 1] # NoItem
          BY <2>2
        <5> QED  BY <1>7, <2>0, <5>1
      <4>2. CASE s - next_seq + 1 = k
        BY <1>7, <4>1, <4>2
      <4>3. CASE s - next_seq + 1 # k
        <5>1. r[s - next_seq + 1] # NoItem
          BY <1>3, <4>1, <4>3
        <5>2. s - next_seq + 1 \in 1 .. Len(pending)
          BY <1>1, <4>1, <5>1
        <5>3. pending[s - next_seq + 1] # NoItem
          BY <1>1, <5>1, <5>2
        <5> QED  BY <1>1, <1>7, <2>3, <4>1, <5>2, <5>3
      <4> QED  BY <4>2, <4>3
    <3>2. seq \in HeldSeqs'
      BY <1>1, <1>3, <1>4, <1>7, <2>2
    <3>3. ASSUME NEW s \in HeldSeqs PROVE s \in HeldSeqs'
      <4>1. /\ s \in Nat /\ s - next_seq + 1 \in 1 .. Len(pending)
            /\ pending[s - next_seq + 1] # NoItem
        <5>1. /\ s \in next_seq .. next_seq + Len(pending) - 1
              /\ pending[s - next_seq + 1] # NoItem
          BY <2>3
        <5> QED  BY <1>7, <2>0, <5>1
      <4>2. s - next_seq + 1 # k /\ s - next_seq + 1 \in 1 .. Len(r)
        BY <1>1, <4>1
      <4>3. pending'[s - next_seq + 1] # NoItem
        BY <1>1, <1>3, <4>1, <4>2
      <4> QED  BY <1>1, <1>7, <2>2, <4>1, <4>2, <4>3
    <3> QED  BY Zenon, <3>1, <3>2, <3>3
  <2>5. \A s \in HeldSeqs : s # seq =>
           /\ s - next_seq + 1 \in 1 .. Len(pending) /\ s - next_seq + 1 # k
           /\ pending'[s - next_seq + 1] = pending[s - next_seq + 1]
    <3> SUFFICES ASSUME NEW s \in HeldSeqs, s # seq
                 PROVE  /\ s - next_seq + 1 \in 1 .. Len(pending)
                        /\ s - next_seq + 1 # k
                        /\ pending'[s - next_seq + 1] = pending[s - next_seq + 1]
      OBVIOUS
    <3>1. s \in next_seq .. next_seq + Len(pending) - 1
      BY <2>3
    <3>2. s - next_seq + 1 \in 1 .. Len(pending) /\ s - next_seq + 1 # k
      BY <1>7, <2>0, <3>1
    <3>3. s - next_seq + 1 \in 1 .. Len(r)
      BY <1>1, <2>0, <3>2
    <3> QED  BY <1>1, <1>3, <3>2, <3>3
  <2>6. \A s \in HeldSeqs' : Held'[s] = pending'[s - next_seq + 1]
    BY <1>7, <2>1, <2>2 DEF Held
  <2>7. \A s \in HeldSeqs : Held[s] = pending[s - next_seq + 1]
    BY <1>7, <2>1, <2>3 DEF Held
  <2>8. /\ Held' = [s \in HeldSeqs' |-> Held'[s]]
        /\ DOMAIN Held = HeldSeqs
    BY DEF Held
  <2>9. \A s \in HeldSeqs' : Held'[s] = IF s = seq THEN item ELSE Held[s]
    BY <1>3, <1>7, <2>4, <2>5, <2>6, <2>7
  <2> QED  BY <2>4, <2>8, <2>9
<1>9. Map!Accepts(seq)
  <2>1. seq \notin DOMAIN Held
    BY <1>1, <1>7 DEF Held, HeldSeqs, Slot
  <2> QED  BY <1>7, <2>1 DEF Map!Accepts, WindowExceeded
<1> QED  BY <1>6, <1>8, <1>9 DEF Map!RBPush

LEMMA TailOfSeq ==
    ASSUME NEW S, NEW q \in Seq(S), q # <<>>
    PROVE  /\ Tail(q) \in Seq(S) /\ Len(Tail(q)) = Len(q) - 1 /\ Len(q) \in Nat \ {0}
           /\ Head(q) = q[1]
           /\ \A i \in 1 .. Len(q) - 1 : Tail(q)[i] = q[i + 1]
  OBVIOUS

LEMMA PoppedStep ==
    ASSUME BInv, FrontReady, pending' = Tail(pending), next_seq' = next_seq + 1
    PROVE  BInv' /\ Map!RBPop
<1>1. /\ pending' \in Seq(Slots) /\ Len(pending') = Len(pending) - 1
      /\ Len(pending) \in Nat \ {0} /\ pending[1] # NoItem
      /\ \A i \in 1 .. Len(pending) - 1 : pending'[i] = pending[i + 1]
  BY TailOfSeq DEF BInv, FrontReady
<1>2. next_seq \in Nat
  BY DEF BInv
<1>3. BInv'
  <2>1. ASSUME pending' # <<>> PROVE pending'[Len(pending')] = pending[Len(pending)]
    <3>1. Len(pending') \in 1 .. Len(pending) - 1
      BY <1>1, <2>1
    <3> QED  BY <1>1, <3>1
  <2> QED  BY <1>1, <1>2, <2>1 DEF BInv, FrontReady
<1>4. HeldSeqs = {s \in next_seq .. next_seq + Len(pending) - 1 :
                      pending[s - next_seq + 1] # NoItem}
  BY DEF HeldSeqs, Slot
<1>5. HeldSeqs' = {s \in next_seq + 1 .. next_seq + Len(pending) - 1 :
                      pending'[s - (next_seq + 1) + 1] # NoItem}
  <2>1. next_seq' + Len(pending') - 1 = next_seq + Len(pending) - 1
    BY <1>1, <1>2
  <2> QED  BY <2>1 DEF HeldSeqs, Slot
<1>6. \A s \in next_seq + 1 .. next_seq + Len(pending) - 1 :
         pending'[s - (next_seq + 1) + 1] = pending[s - next_seq + 1]
  <2> SUFFICES ASSUME NEW s \in next_seq + 1 .. next_seq + Len(pending) - 1
               PROVE  pending'[s - (next_seq + 1) + 1] = pending[s - next_seq + 1]
    BY Zenon
  <2>1. /\ s - (next_seq + 1) + 1 \in 1 .. Len(pending) - 1
        /\ (s - (next_seq + 1) + 1) + 1 = s - next_seq + 1
    BY <1>1, <1>2
  <2> QED  BY <1>1, <2>1
<1>7. next_seq \in HeldSeqs
  BY <1>1, <1>2, <1>4
<1>8. HeldSeqs' = HeldSeqs \ {next_seq}
  <2>1. ASSUME NEW s \in HeldSeqs' PROVE s \in HeldSeqs /\ s # next_seq
    BY <1>1, <1>2, <1>4, <1>5, <1>6
  <2>2. ASSUME NEW s \in HeldSeqs, s # next_seq PROVE s \in HeldSeqs'
    BY <1>1, <1>2, <1>4, <1>5, <1>6, <2>2
  <2> QED  BY <2>1, <2>2
<1>9. Held' = [s \in DOMAIN Held \ {next_seq} |-> Held[s]]
  <2>1. \A s \in HeldSeqs' : Held'[s] = pending'[s - (next_seq + 1) + 1]
    BY Zenon DEF Held, Slot
  <2>2. \A s \in HeldSeqs : Held[s] = pending[s - next_seq + 1]
    BY DEF Held, Slot
  <2>3. \A s \in HeldSeqs' : Held'[s] = Held[s]
    BY Zenon, <1>5, <1>6, <1>8, <2>1, <2>2
  <2>4. Held' = [s \in HeldSeqs' |-> Held'[s]] /\ DOMAIN Held = HeldSeqs
    BY Zenon DEF Held
  <2> QED  BY <1>8, <2>3, <2>4
<1> QED  BY Zenon, <1>3, <1>7, <1>9 DEF Map!RBPop, Map!Ready, Held

LEMMA DrainedStep ==
    ASSUME BInv, pending' = <<>>, next_seq' = next_seq
    PROVE  BInv' /\ Map!RBDrain
<1>1. HeldSeqs' = {}
  BY DEF HeldSeqs, BInv
<1>2. Held' = << >>
  BY <1>1 DEF Held
<1> QED  BY <1>2 DEF Map!RBDrain, BInv

LEMMA UnchangedStep ==
    ASSUME BInv, UNCHANGED bufferVars
    PROVE  BInv' /\ UNCHANGED Map!rbVars
<1>1. Held' = Held
  BY DEF bufferVars, Held, HeldSeqs, Slot
<1> QED  BY <1>1 DEF bufferVars, BInv, Map!rbVars

LEMMA StepImplements ==
    ASSUME BInv, [Next]_vars
    PROVE  BInv' /\ [Map!RBNext]_(Map!rbVars)
<1>1. ASSUME NEW seq \in 0 .. MaxSeq, NEW item \in Items, TryPush(seq, item)
      PROVE  BInv' /\ [Map!RBNext]_(Map!rbVars)
  <2>1. CASE UNCHANGED bufferVars
    BY <2>1, UnchangedStep
  <2>2. CASE /\ seq >= next_seq /\ ~WindowExceeded(seq)
             /\ Resized(seq)[Slot(seq)] = NoItem
             /\ pending' = [Resized(seq) EXCEPT ![Slot(seq)] = item]
             /\ next_seq' = next_seq
    <3>0. seq \in Nat
      OBVIOUS
    <3>1. BInv' /\ Map!RBPush(seq, item)
      BY Zenon, <2>2, <3>0, PushedStep
    <3>2. seq \in next_seq .. next_seq + MaxWindow - 1
      BY <2>2 DEF WindowExceeded, BInv
    <3> QED  BY <3>1, <3>2 DEF Map!RBNext
  <2> QED  BY <1>1, <2>1, <2>2 DEF TryPush, BInv
<1>2. CASE PopReady
  BY <1>2, PoppedStep, UnchangedStep DEF PopReady, Map!RBNext
<1>3. CASE DrainFilled
  BY <1>3, DrainedStep DEF DrainFilled, Map!RBNext
<1>4. CASE UNCHANGED vars
  BY <1>4, UnchangedStep DEF vars, bufferVars
<1> QED  BY <1>1, <1>2, <1>3, <1>4 DEF Next

LEMMA InitImplements == Init => BInv /\ Map!RBInit
<1> SUFFICES ASSUME Init PROVE BInv /\ Map!RBInit
  OBVIOUS
<1>1. HeldSeqs = {}
  BY DEF Init, HeldSeqs
<1>2. Held = << >>
  BY <1>1 DEF Held
<1> QED  BY <1>2 DEF Init, BInv, Map!RBInit

(***************************************************************************)
(* ReorderBuffer implements ReorderMap: whatever is pushed, popped and     *)
(* drained, the deque of try_push, pop_ready and drain_filled behaves as   *)
(* the partial function its callers' arguments are about.                  *)
(***************************************************************************)
THEOREM Implements == Spec => ImplementsMap
<1>1. BInv /\ [Next]_vars => BInv' /\ [Map!RBNext]_(Map!rbVars)
  BY StepImplements
<1> QED  BY InitImplements, <1>1, PTL DEF Spec, ImplementsMap, Map!RBSpec

Counted == IsFiniteSet(HeldSeqs) /\ filled = Cardinality(HeldSeqs)

LEMMA CountedStep ==
    ASSUME BInv, Counted, [Next]_vars
    PROVE  Counted'
<1>1. DOMAIN Held = HeldSeqs /\ (DOMAIN Held)' = HeldSeqs'
  BY DEF Held
<1>2. ASSUME NEW seq \in 0 .. MaxSeq, NEW item \in Items, TryPush(seq, item)
      PROVE  Counted'
  <2>1. CASE UNCHANGED bufferVars
    BY <2>1 DEF Counted, bufferVars, HeldSeqs, Slot
  <2>2. CASE /\ seq >= next_seq /\ ~WindowExceeded(seq)
             /\ Resized(seq)[Slot(seq)] = NoItem
             /\ pending' = [Resized(seq) EXCEPT ![Slot(seq)] = item]
             /\ next_seq' = next_seq /\ filled' = filled + 1
    <3>0. seq \in Nat
      OBVIOUS
    <3>1. Map!RBPush(seq, item)
      BY Zenon, <2>2, <3>0, PushedStep
    <3>2. HeldSeqs' = HeldSeqs \cup {seq} /\ seq \notin HeldSeqs
      BY <1>1, <3>1 DEF Map!RBPush, Map!Accepts
    <3> QED  BY <2>2, <3>2, FS_AddElement DEF Counted
  <2> QED  BY <1>2, <2>1, <2>2 DEF TryPush, BInv
<1>3. CASE PopReady
  <2>1. CASE UNCHANGED bufferVars
    BY <2>1 DEF Counted, bufferVars, HeldSeqs, Slot
  <2>2. CASE FrontReady /\ pending' = Tail(pending) /\ next_seq' = next_seq + 1
             /\ filled' = filled - 1
    <3>1. Map!RBPop
      BY <2>2, PoppedStep
    <3>2. HeldSeqs' = HeldSeqs \ {next_seq} /\ next_seq \in HeldSeqs
      BY <1>1, <3>1 DEF Map!RBPop, Map!Ready
    <3> QED  BY <2>2, <3>2, FS_RemoveElement DEF Counted
  <2> QED  BY <1>3, <2>1, <2>2 DEF PopReady
<1>4. CASE DrainFilled
  <2>1. HeldSeqs' = {} /\ filled' = 0
    BY <1>4 DEF DrainFilled, HeldSeqs, BInv
  <2> QED  BY <2>1, FS_EmptySet DEF Counted
<1>5. CASE UNCHANGED vars
  BY <1>5 DEF Counted, vars, HeldSeqs, Slot
<1> QED  BY <1>2, <1>3, <1>4, <1>5 DEF Next

(***************************************************************************)
(* The lengths are true in every run: the deque keeps inside the window,   *)
(* filled counts the held items, and an empty deque is the only one that   *)
(* holds nothing.                                                          *)
(***************************************************************************)
THEOREM Lengths == Spec => []LengthsAreTrue
<1>1. Init => BInv /\ Counted
  <2> SUFFICES ASSUME Init PROVE Counted
    BY InitImplements
  <2>1. HeldSeqs = {} /\ filled = 0
    BY DEF Init, HeldSeqs
  <2> QED  BY <2>1, FS_EmptySet DEF Counted
<1>2. BInv /\ Counted /\ [Next]_vars => BInv' /\ Counted'
  BY StepImplements, CountedStep
<1>3. BInv /\ Counted => LengthsAreTrue
  BY DEF BInv, Counted, LengthsAreTrue, Slots
<1> QED  BY <1>1, <1>2, <1>3, PTL DEF Spec
=============================================================================
