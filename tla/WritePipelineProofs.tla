------------------------ MODULE WritePipelineProofs -------------------------
(***************************************************************************)
(* Proofs about the pipelined writer, for any executor, permits, window    *)
(* and channel.                                                            *)
(*                                                                         *)
(* What the run checks is not inductive.  IInv adds where every reserved   *)
(* position is while the writer thread lives: in exactly one of a slot,    *)
(* the channel and the reorder buffer, inside the delivery window; so the  *)
(* buffer accepts every item and none is missing when the senders are      *)
(* gone.  The permits that are out are counted against the positions they  *)
(* are held for, whence a barrier that has all of them has outwaited every *)
(* job.  And it ties the producer to the thread: the sender drops only     *)
(* once the total is announced or the writer is dropped, and the thread    *)
(* ends well only after that.                                              *)
(***************************************************************************)
EXTENDS WritePipeline, FiniteSetTheorems, TLAPS

\* n is the number of the elements of S.
Counts(n, S) == IsFiniteSet(S) /\ n = Cardinality(S)

LEMMA CountsEmpty ==
    /\ Counts(0, {})
    /\ \A n, S : Counts(n, S) => n \in Nat /\ (n = 0 <=> S = {})
  BY FS_EmptySet, FS_CardinalityType, Zenon DEF Counts

LEMMA CountsAdd ==
    ASSUME NEW n, NEW S, NEW x, Counts(n, S), x \notin S
    PROVE  Counts(n + 1, S \cup {x})
  BY FS_AddElement, Zenon DEF Counts

LEMMA CountsRemove ==
    ASSUME NEW n, NEW S, NEW x \in S, Counts(n, S)
    PROVE  Counts(n - 1, S \ {x})
  BY FS_RemoveElement, Zenon DEF Counts

PPCs == {"idle", "window", "permit", "send", "recover", "barrier", "join", "dropped"}
TypeInv ==
    /\ ppc \in PPCs
    /\ seq \in Nat /\ slot \in Nat \cup {NoSlot}
    /\ permits \in Nat /\ taken \in Nat /\ window \in Nat /\ next_seq \in Nat
    /\ jobs \subseteq Nat
    /\ rpc \in [Threads -> {"idle", "frame", "notice", "release"}]
    /\ rseq \in [Threads -> Nat]
    /\ chan \in Seq([seq : Nat, ok : BOOLEAN])
    /\ tx \in BOOLEAN /\ inbox \in BOOLEAN /\ handle \in BOOLEAN /\ lost \in BOOLEAN
    /\ held = [s \in DOMAIN held |-> held[s]] /\ DOMAIN held \subseteq Nat
    /\ announced \in Nat \cup {Unannounced}
    /\ wpc \in {"recv", "drain", "complete", "dropping", "dropped", "gone"}

\* The producer: what it is doing, and what its last join left.
CallInv ==
    /\ slot # NoSlot <=> ppc = "send"
    /\ ppc \in {"window", "permit", "send", "recover"} => tx /\ announced = Unannounced
    /\ ppc \in {"barrier", "join"} => kind \in {"recover", "flush", "drop"}
    /\ ppc \in {"barrier", "join"} /\ kind = "recover" =>
          tx /\ announced = Unannounced /\ session = "failed"
    /\ ppc \in {"barrier", "join"} /\ kind = "flush" => announced # Unannounced
    /\ announced # Unannounced =>
          announced = seq /\ ((ppc \in {"barrier", "join"} /\ kind = "flush") \/ ~handle)
    /\ ~tx => announced # Unannounced \/ (ppc = "join" /\ kind = "drop") \/ ppc = "dropped"
    /\ ~handle /\ ppc # "dropped" =>
          /\ lost \/ announced # Unannounced
          /\ session = "failed" \/ result = "ok"
    /\ lost => session = "failed"
    /\ session = "finished" => result = "ok"

\* The writer thread: what it has handed off and how it ended.
Live == {"recv", "drain", "complete"}
ThreadInv ==
    /\ wpc \in Live <=> result = "none"
    /\ wpc \in Live => inbox /\ written = [k \in 1 .. next_seq |-> k - 1]
    /\ result = "ok" => ~tx /\ written = [k \in 1 .. seq |-> k - 1]
    /\ result \in {"none", "ok", "item", "sink"}

\* The permits that are out, by the position each is held for.
Running == {r \in Threads : rpc[r] # "idle"}
Busy == jobs \cup {rseq[r] : r \in Running} \cup ({slot} \ {NoSlot})
PermitInv ==
    /\ \A p \in Busy : p < seq
    /\ \A r \in Running : rseq[r] \notin jobs /\ rseq[r] # slot
    /\ \A r, u \in Running : rseq[r] = rseq[u] => r = u
    /\ slot \notin jobs
    /\ Counts(Permits - permits - taken, Busy)
    /\ ppc = "join" => Busy = {}

\* The positions that are out fit the delivery window.
WindowInv ==
    /\ next_seq <= seq
    /\ window + (seq - next_seq) + (IF ppc = "permit" THEN 1 ELSE 0) <= MaxWindow

\* While the writer thread lives, each position that is out is in one place.
Unsent == SlotHolders \cup ({slot} \ {NoSlot})
Sent == {chan[i].seq : i \in 1 .. Len(chan)}
FlightInv ==
    wpc \in Live =>
       /\ \A p \in Unsent \cup Sent \cup DOMAIN held : next_seq <= p /\ p < seq
       /\ \A p \in Unsent : p \notin Sent /\ p \notin DOMAIN held
       /\ \A p \in Sent : p \notin DOMAIN held
       /\ \A i, j \in 1 .. Len(chan) : chan[i].seq = chan[j].seq => i = j
       /\ \A p \in next_seq .. seq - 1 : p \in Unsent \cup Sent \cup DOMAIN held
       /\ wpc = "recv" => next_seq \notin DOMAIN held
       /\ wpc = "complete" => ~tx /\ next_seq = seq /\ held = << >>

IInv == TypeInv /\ CallInv /\ ThreadInv /\ PermitInv /\ WindowInv /\ FlightInv

-----------------------------------------------------------------------------
(* Facts about the data. *)

LEMMA EmptyMap ==
    /\ DOMAIN << >> = {} /\ << >> = [s \in DOMAIN << >> |-> << >>[s]]
    /\ \A f : f = [s \in DOMAIN f |-> f[s]] /\ DOMAIN f = {} => f = << >>
  OBVIOUS

LEMMA HeadTyped ==
    ASSUME NEW S, NEW s \in Seq(S), s # << >>
    PROVE  Head(s) \in S
  OBVIOUS

LEMMA EntryTyped ==
    ASSUME NEW S, NEW s \in Seq(S)
    PROVE  \A i \in 1 .. Len(s) : s[i] \in S
  OBVIOUS

LEMMA EmptyTyped == \A S : << >> \in Seq(S)
  OBVIOUS

LEMMA ItemFacts ==
    ASSUME NEW p \in Nat, NEW ok \in BOOLEAN
    PROVE  Item(p, ok) \in [seq : Nat, ok : BOOLEAN] /\ Item(p, ok).seq = p
  BY DEF Item

\* An item joins the channel at its end.
LEMMA SentAppend ==
    ASSUME chan \in Seq([seq : Nat, ok : BOOLEAN]), NEW p \in Nat, NEW ok \in BOOLEAN,
           chan' = Append(chan, Item(p, ok))
    PROVE  /\ chan' \in Seq([seq : Nat, ok : BOOLEAN])
           /\ Sent' = Sent \cup {p}
           /\ (\A i, j \in 1 .. Len(chan) : chan[i].seq = chan[j].seq => i = j) /\ p \notin Sent =>
                 \A i, j \in 1 .. Len(chan') : chan'[i].seq = chan'[j].seq => i = j
  <1> DEFINE e == Item(p, ok)
  <1>1. e \in [seq : Nat, ok : BOOLEAN] /\ e.seq = p
    BY ItemFacts, Zenon
  <1> HIDE DEF e
  <1>2. /\ chan' \in Seq([seq : Nat, ok : BOOLEAN]) /\ Len(chan) \in Nat
        /\ Len(chan') = Len(chan) + 1
        /\ \A i \in 1 .. Len(chan) : chan'[i] = chan[i]
        /\ chan'[Len(chan) + 1] = e
    BY <1>1 DEF e
  <1>3. \A i \in 1 .. Len(chan') : i \in 1 .. Len(chan) \/ i = Len(chan) + 1
    BY <1>2
  <1>4. \A i \in 1 .. Len(chan) : i \in 1 .. Len(chan') /\ Len(chan) + 1 \in 1 .. Len(chan')
    BY <1>2
  <1>5. Len(chan) + 1 \in 1 .. Len(chan')
    BY <1>2
  <1>6. Sent' = Sent \cup {p}
    BY <1>1, <1>2, <1>3, <1>4, <1>5 DEF Sent
  <1>7. ASSUME \A i, j \in 1 .. Len(chan) : chan[i].seq = chan[j].seq => i = j, p \notin Sent,
               NEW i \in 1 .. Len(chan'), NEW j \in 1 .. Len(chan'), chan'[i].seq = chan'[j].seq
        PROVE  i = j
    <2>1. \A k \in 1 .. Len(chan) : chan[k].seq # p
      BY <1>7 DEF Sent
    <2> QED
      BY <1>1, <1>2, <1>3, <1>7, <2>1
  <1> QED
    BY <1>2, <1>6, <1>7, Zenon

\* An item leaves the channel at its front.
LEMMA SentTail ==
    ASSUME chan \in Seq([seq : Nat, ok : BOOLEAN]), chan # << >>, chan' = Tail(chan),
           \A i, j \in 1 .. Len(chan) : chan[i].seq = chan[j].seq => i = j
    PROVE  /\ chan' \in Seq([seq : Nat, ok : BOOLEAN])
           /\ Head(chan) \in [seq : Nat, ok : BOOLEAN]
           /\ Head(chan).seq \in Sent /\ Sent' = Sent \ {Head(chan).seq}
           /\ \A i, j \in 1 .. Len(chan') : chan'[i].seq = chan'[j].seq => i = j
  <1> DEFINE e == Head(chan)
  <1>1. /\ Len(chan) \in Nat \ {0} /\ Len(chan') = Len(chan) - 1
        /\ \A i \in 1 .. Len(chan') : chan'[i] = chan[i + 1]
        /\ e = chan[1] /\ chan' \in Seq([seq : Nat, ok : BOOLEAN])
    OBVIOUS
  <1>2. e \in [seq : Nat, ok : BOOLEAN]
    BY HeadTyped, Zenon
  <1> HIDE DEF e
  <1>3. 1 \in 1 .. Len(chan) /\ \A i \in 1 .. Len(chan') : i + 1 \in 1 .. Len(chan) /\ i + 1 # 1
    BY <1>1
  <1>4. \A i \in 1 .. Len(chan) : i = 1 \/ \E j \in 1 .. Len(chan') : i = j + 1
    BY <1>1
  <1>5. e.seq \in Sent /\ Sent' = Sent \ {e.seq}
    <2>1. e.seq \in Sent
      BY <1>1, <1>3, Zenon DEF Sent
    <2>2. ASSUME NEW p \in Sent, p # e.seq
          PROVE  p \in Sent'
      BY <1>1, <1>4, <2>2 DEF Sent
    <2>3. ASSUME NEW p \in Sent'
          PROVE  p \in Sent /\ p # e.seq
      <3>1. PICK i \in 1 .. Len(chan') : p = chan'[i].seq
        BY <2>3 DEF Sent
      <3> QED
        BY <1>1, <1>3, <3>1 DEF Sent
    <2> QED
      BY <2>1, <2>2, <2>3
  <1>6. \A i, j \in 1 .. Len(chan') : chan'[i].seq = chan'[j].seq => i = j
    BY <1>1, <1>3
  <1> QED
    BY <1>1, <1>2, <1>5, <1>6 DEF e

LEMMA OutNat ==
    ASSUME TypeInv
    PROVE  Unsent \cup Sent \cup DOMAIN held \subseteq Nat
  <1>1. Unsent \subseteq Nat
    BY DEF TypeInv, Unsent, SlotHolders
  <1>2. Sent \subseteq Nat
    <2>1. \A i \in 1 .. Len(chan) : chan[i] \in [seq : Nat, ok : BOOLEAN]
      BY EntryTyped, Zenon DEF TypeInv
    <2> QED
      BY <2>1 DEF Sent
  <1> QED
    BY <1>1, <1>2, Zenon DEF TypeInv

-----------------------------------------------------------------------------
(* What a step that stays clear of a conjunct leaves true. *)

LEMMA CallStays ==
    ASSUME CallInv, UNCHANGED <<ppc, kind, seq, slot, tx, announced, handle, lost, session>>,
           result = "ok" => result' = "ok"
    PROVE  CallInv'
  BY Zenon DEF CallInv

LEMMA ThreadStays ==
    ASSUME ThreadInv, UNCHANGED <<wpc, result, written, next_seq, seq, inbox>>, tx' => tx
    PROVE  ThreadInv'
  BY Zenon DEF ThreadInv

LEMMA PermitStays ==
    ASSUME PermitInv, UNCHANGED <<jobs, rpc, rseq, slot, seq, permits, taken>>,
           ppc' = "join" => ppc = "join"
    PROVE  PermitInv'
  <1>1. Running' = Running
    BY Zenon DEF Running
  <1>2. Busy' = Busy
    BY <1>1, Zenon DEF Busy
  <1> QED
    BY <1>1, <1>2, Zenon DEF PermitInv

LEMMA WindowStays ==
    ASSUME WindowInv, UNCHANGED <<window, seq, next_seq>>, ppc' = "permit" <=> ppc = "permit"
    PROVE  WindowInv'
  BY Zenon DEF WindowInv

LEMMA FlightStays ==
    ASSUME FlightInv, UNCHANGED <<held, next_seq, chan, jobs, rpc, rseq, slot, seq>>, tx' => tx,
           wpc' = wpc \/ wpc' \notin Live
    PROVE  FlightInv'
  <1>1. Unsent' = Unsent /\ Sent' = Sent
    BY Zenon DEF Unsent, Sent, SlotHolders
  <1> QED
    BY <1>1, Zenon DEF FlightInv

-----------------------------------------------------------------------------
(* Framing jobs. *)

\* A position leaves its slot for the channel.
LEMMA FlightSends ==
    ASSUME TypeInv, FlightInv, NEW p \in Nat, NEW ok \in BOOLEAN, p \in Unsent,
           chan' = Append(chan, Item(p, ok)), Unsent' = Unsent \ {p},
           UNCHANGED <<wpc, held, next_seq, seq, tx>>
    PROVE  FlightInv' /\ chan' \in Seq([seq : Nat, ok : BOOLEAN])
  <1>1. /\ chan' \in Seq([seq : Nat, ok : BOOLEAN]) /\ Sent' = Sent \cup {p}
        /\ (\A i, j \in 1 .. Len(chan) : chan[i].seq = chan[j].seq => i = j) /\ p \notin Sent =>
              \A i, j \in 1 .. Len(chan') : chan'[i].seq = chan'[j].seq => i = j
    BY SentAppend, Zenon DEF TypeInv
  <1> QED
    BY <1>1, Zenon DEF FlightInv

LEMMA StartJobStep ==
    ASSUME IInv, NEW r \in Threads, StartJob(r)
    PROVE  IInv'
  <1>1. PICK s \in jobs : jobs' = jobs \ {s} /\ rseq' = [rseq EXCEPT ![r] = s]
    BY Zenon DEF StartJob
  <1>2. /\ rpc[r] = "idle" /\ rpc' = [rpc EXCEPT ![r] = "frame"]
        /\ UNCHANGED <<producer, tokens, chan, ends, thread, announced, report>>
    BY Zenon DEF StartJob
  <1> USE DEF producer, tokens, ends, thread, rbVars, report
  <1>3. /\ rpc'[r] = "frame" /\ rseq'[r] = s
        /\ \A u \in Threads \ {r} : rpc'[u] = rpc[u] /\ rseq'[u] = rseq[u]
    BY <1>1, <1>2, Zenon DEF IInv, TypeInv
  <1>4. TypeInv'
    BY <1>1, <1>2, Zenon DEF IInv, TypeInv
  <1>5. CallInv' /\ ThreadInv' /\ WindowInv'
    BY <1>2, CallStays, ThreadStays, WindowStays, Zenon DEF IInv
  <1>6. /\ Running' = Running \cup {r} /\ r \notin Running
        /\ Busy' = Busy /\ Unsent' = Unsent
    <2>1. Running' = Running \cup {r} /\ r \notin Running
      BY <1>2, <1>3, Zenon DEF Running
    <2>2. {rseq'[u] : u \in Running'} = {rseq[u] : u \in Running} \cup {s}
      <3>1. \A u \in Running : rseq'[u] = rseq[u]
        BY <1>3, <2>1, Zenon DEF Running
      <3> QED
        BY <1>3, <2>1, <3>1
    <2>3. Busy' = Busy
      BY <1>1, <1>2, <2>2, Zenon DEF Busy
    <2>4. SlotHolders' = SlotHolders
      <3> DEFINE F == {t \in Threads : rpc[t] = "frame"}
      <3>1. F' = F \cup {r} /\ r \notin F
        BY <1>2, <1>3
      <3>2. {rseq'[u] : u \in F'} = {rseq[u] : u \in F} \cup {s}
        BY <1>3, <3>1
      <3> QED
        BY <1>1, <3>2 DEF SlotHolders
    <2> QED
      BY <1>2, <2>1, <2>3, <2>4, Zenon DEF Unsent
  <1>7. PermitInv'
    <2>1. \A u \in Running : rseq'[u] = rseq[u] /\ rseq[u] # s
      BY <1>3, <1>6, Zenon DEF IInv, PermitInv, Running
    <2> QED
      BY <1>1, <1>2, <1>3, <1>6, <2>1 DEF IInv, PermitInv
  <1>8. FlightInv'
    <2>1. Sent' = Sent
      BY <1>2, Zenon DEF Sent
    <2> QED
      BY <1>2, <1>6, <2>1, Zenon DEF IInv, FlightInv
  <1> QED
    BY <1>4, <1>5, <1>7, <1>8, Zenon DEF IInv

\* A job moves on: its position stays busy, or is given back.
LEMMA JobMoves ==
    ASSUME TypeInv, NEW r \in Threads, NEW place \in {"notice", "release"},
           rpc[r] # "idle", rpc' = [rpc EXCEPT ![r] = place], UNCHANGED <<jobs, rseq, slot>>
    PROVE  /\ rpc' \in [Threads -> {"idle", "frame", "notice", "release"}]
           /\ Running' = Running /\ Busy' = Busy
           /\ rpc[r] # "frame" => Unsent' = Unsent
           /\ \A u \in Threads \ {r} : rpc'[u] = rpc[u]
           /\ rpc'[r] = place
  <1>1. /\ \A u \in Threads \ {r} : rpc'[u] = rpc[u]
        /\ rpc'[r] = place
        /\ rpc' \in [Threads -> {"idle", "frame", "notice", "release"}]
    BY Zenon DEF TypeInv
  <1>2. place # "idle" /\ place # "frame"
    OBVIOUS
  <1>3. Running' = Running
    BY <1>1, <1>2, Zenon DEF Running
  <1>4. Busy' = Busy
    BY <1>3, Zenon DEF Busy
  <1>5. ASSUME rpc[r] # "frame"
        PROVE  Unsent' = Unsent
    <2>1. {t \in Threads : rpc'[t] = "frame"} = {t \in Threads : rpc[t] = "frame"}
      BY <1>1, <1>2, <1>5, Zenon
    <2>2. SlotHolders' = SlotHolders
      BY <2>1, Zenon DEF SlotHolders
    <2> QED
      BY <2>2, Zenon DEF Unsent
  <1> QED
    BY <1>1, <1>3, <1>4, <1>5, Zenon

LEMMA PermitSame ==
    ASSUME PermitInv, Running' = Running, Busy' = Busy, ppc' = "join" => ppc = "join",
           UNCHANGED <<jobs, rseq, slot, seq, permits, taken>>
    PROVE  PermitInv'
  BY Zenon DEF PermitInv

LEMMA FrameStep ==
    ASSUME IInv, NEW r \in Threads, Frame(r)
    PROVE  IInv'
  <1>1. /\ rpc[r] = "frame"
        /\ UNCHANGED <<producer, tokens, jobs, rseq, ends, thread, announced, report>>
    BY Zenon DEF Frame
  <1>2. PICK place \in {"notice", "release"} :
           /\ rpc' = [rpc EXCEPT ![r] = place]
           /\ \/ inbox /\ \E ok \in BOOLEAN : chan' = Append(chan, Item(rseq[r], ok))
              \/ ~inbox /\ chan' = chan
    BY Zenon DEF Frame, CanSend, Refused, SlotDrop
  <1> USE DEF producer, tokens, ends, thread, rbVars, report
  <1>3. /\ rpc' \in [Threads -> {"idle", "frame", "notice", "release"}]
        /\ Running' = Running /\ Busy' = Busy
        /\ \A u \in Threads \ {r} : rpc'[u] = rpc[u]
        /\ rpc'[r] # "frame"
    BY <1>1, <1>2, JobMoves, Zenon DEF IInv
  <1>4. CallInv' /\ ThreadInv' /\ WindowInv' /\ PermitInv'
    BY <1>1, <1>3, CallStays, ThreadStays, WindowStays, PermitSame, Zenon DEF IInv
  <1>5. CASE inbox
    <2>1. PICK ok \in BOOLEAN : chan' = Append(chan, Item(rseq[r], ok))
      BY <1>2, <1>5, Zenon
    <2>2. rseq[r] \in Nat /\ rseq[r] \in Unsent
      BY <1>1, Zenon DEF IInv, TypeInv, Unsent, SlotHolders
    <2>3. Unsent' = Unsent \ {rseq[r]}
      <3> DEFINE F == {t \in Threads : rpc[t] = "frame"}
      <3>1. F' = F \ {r}
        BY <1>3
      <3>2. \A u \in F : u # r => rseq[u] # rseq[r]
        BY <1>1, Zenon DEF IInv, PermitInv, Running
      <3>3. {rseq'[u] : u \in F'} = {rseq[u] : u \in F} \ {rseq[r]}
        BY <1>1, <3>1, <3>2
      <3>4. rseq[r] \notin jobs /\ rseq[r] # slot
        BY <1>1, Zenon DEF IInv, PermitInv, Running
      <3> QED
        BY <1>1, <3>3, <3>4 DEF Unsent, SlotHolders
    <2>4. FlightInv' /\ chan' \in Seq([seq : Nat, ok : BOOLEAN])
      BY <1>1, <2>1, <2>2, <2>3, FlightSends, Zenon DEF IInv
    <2> QED
      BY <1>1, <1>3, <1>4, <2>4, Zenon DEF IInv, TypeInv
  <1>6. CASE ~inbox
    <2>1. wpc \notin Live
      BY <1>6, Zenon DEF IInv, ThreadInv
    <2> QED
      BY <1>1, <1>2, <1>3, <1>4, <1>6, <2>1, Zenon DEF IInv, TypeInv, FlightInv
  <1> QED
    BY <1>5, <1>6, Zenon

LEMMA DeathNoticeStep ==
    ASSUME IInv, NEW r \in Threads, DeathNotice(r)
    PROVE  IInv'
  <1>1. /\ rpc[r] = "notice" /\ rpc' = [rpc EXCEPT ![r] = "release"]
        /\ UNCHANGED <<producer, tokens, jobs, rseq, chan, ends, thread, announced, report>>
    BY Zenon DEF DeathNotice
  <1> USE DEF producer, tokens, ends, thread, rbVars, report
  <1>2. /\ rpc' \in [Threads -> {"idle", "frame", "notice", "release"}]
        /\ Running' = Running /\ Busy' = Busy /\ Unsent' = Unsent
    BY <1>1, JobMoves, Zenon DEF IInv
  <1>3. CallInv' /\ ThreadInv' /\ WindowInv' /\ PermitInv'
    BY <1>1, <1>2, CallStays, ThreadStays, WindowStays, PermitSame, Zenon DEF IInv
  <1>4. FlightInv'
    <2>1. Sent' = Sent
      BY <1>1, Zenon DEF Sent
    <2> QED
      BY <1>1, <1>2, <2>1, Zenon DEF IInv, FlightInv
  <1> QED
    BY <1>1, <1>2, <1>3, <1>4, Zenon DEF IInv, TypeInv

LEMMA ReleaseStep ==
    ASSUME IInv, NEW r \in Threads, Release(r)
    PROVE  IInv'
  <1>1. /\ rpc[r] = "release" /\ rpc' = [rpc EXCEPT ![r] = "idle"]
        /\ rseq' = [rseq EXCEPT ![r] = 0] /\ permits' = permits + 1
        /\ UNCHANGED <<producer, taken, window, jobs, chan, ends, thread, announced, report>>
    BY Zenon DEF Release
  <1> USE DEF producer, ends, thread, rbVars, report
  <1>2. /\ rpc'[r] = "idle"
        /\ \A u \in Threads \ {r} : rpc'[u] = rpc[u] /\ rseq'[u] = rseq[u]
    BY <1>1, Zenon DEF IInv, TypeInv
  <1>3. TypeInv'
    <2>1. 0 \in Nat /\ permits' \in Nat
      BY <1>1 DEF IInv, TypeInv
    <2> QED
      BY <1>1, <2>1, Zenon DEF IInv, TypeInv
  <1>4. CallInv' /\ ThreadInv' /\ WindowInv'
    BY <1>1, CallStays, ThreadStays, WindowStays, Zenon DEF IInv
  <1>5. /\ Running' = Running \ {r} /\ r \in Running
        /\ \A u \in Running' : rseq'[u] = rseq[u] /\ rseq[u] # rseq[r]
    <2>1. Running' = Running \ {r} /\ r \in Running
      BY <1>1, <1>2 DEF Running
    <2>2. \A u \in Running : u # r => rseq'[u] = rseq[u] /\ rseq[u] # rseq[r]
      BY <1>2, <2>1, Zenon DEF IInv, PermitInv, Running
    <2> QED
      BY <2>1, <2>2, Zenon
  <1>6. rseq[r] \in Busy /\ Busy' = Busy \ {rseq[r]}
    <2>1. {rseq'[u] : u \in Running'} = {rseq[u] : u \in Running} \ {rseq[r]}
      BY <1>5
    <2>2. rseq[r] \notin jobs /\ rseq[r] # slot
      BY <1>5, Zenon DEF IInv, PermitInv
    <2> QED
      BY <1>1, <1>5, <2>1, <2>2 DEF Busy
  <1>7. Unsent' = Unsent
    <2>1. {t \in Threads : rpc'[t] = "frame"} = {t \in Threads : rpc[t] = "frame"}
      BY <1>1, <1>2
    <2>2. \A u \in {t \in Threads : rpc[t] = "frame"} : rseq'[u] = rseq[u]
      BY <1>1, <1>2
    <2>3. SlotHolders' = SlotHolders
      BY <1>1, <2>1, <2>2 DEF SlotHolders
    <2> QED
      BY <1>1, <2>3, Zenon DEF Unsent
  <1>8. PermitInv'
    <2>1. Counts((Permits - permits - taken) - 1, Busy')
      BY <1>6, CountsRemove DEF IInv, PermitInv
    <2>2. Permits - permits' - taken' = (Permits - permits - taken) - 1
      BY <1>1, PipelineAssumption DEF IInv, TypeInv
    <2>3. ppc # "join"
      BY <1>6, Zenon DEF IInv, PermitInv
    <2>4. /\ \A p \in Busy' : p < seq'
          /\ \A u \in Running' : rseq'[u] \notin jobs' /\ rseq'[u] # slot'
          /\ \A u, v \in Running' : rseq'[u] = rseq'[v] => u = v
          /\ slot' \notin jobs'
      BY <1>1, <1>5, <1>6 DEF IInv, PermitInv
    <2> QED
      BY <1>1, <2>1, <2>2, <2>3, <2>4, Zenon DEF PermitInv
  <1>9. FlightInv'
    <2>1. Sent' = Sent
      BY <1>1, Zenon DEF Sent
    <2> QED
      BY <1>1, <1>7, <2>1, Zenon DEF IInv, FlightInv
  <1> QED
    BY <1>3, <1>4, <1>8, <1>9, Zenon DEF IInv

-----------------------------------------------------------------------------
(* The writer thread. *)

\* The thread stops: nothing it held is owed any more.
LEMMA ThreadStops ==
    ASSUME IInv, wpc' \in {"dropping", "dropped", "gone"}, TypeInv',
           UNCHANGED <<producer, permits, taken, executor, tx, handle, announced, report>>,
           result = "ok" => result' = "ok", ThreadInv', WindowInv'
    PROVE  IInv'
  <1> USE DEF producer, executor, report
  <1>1. CallInv'
    BY CallStays, Zenon DEF IInv
  <1>2. PermitInv'
    BY PermitStays, Zenon DEF IInv
  <1>3. FlightInv'
    BY Zenon DEF FlightInv, Live
  <1> QED
    BY <1>1, <1>2, <1>3, Zenon DEF IInv

LEMMA ReceiveStep ==
    ASSUME IInv, Receive
    PROVE  IInv'
  <1>1. /\ wpc = "recv" /\ result = "none"
        /\ UNCHANGED <<producer, tokens, executor, ends, written, announced, report>>
    BY Zenon DEF Receive, IInv, ThreadInv, Live
  <1> USE DEF producer, tokens, executor, ends, report
  <1>2. /\ \A p \in Unsent \cup Sent \cup DOMAIN held : next_seq <= p /\ p < seq
        /\ \A p \in Unsent : p \notin Sent /\ p \notin DOMAIN held
        /\ \A p \in Sent : p \notin DOMAIN held
        /\ \A i, j \in 1 .. Len(chan) : chan[i].seq = chan[j].seq => i = j
        /\ \A p \in next_seq .. seq - 1 : p \in Unsent \cup Sent \cup DOMAIN held
        /\ next_seq \notin DOMAIN held
    BY <1>1, Zenon DEF IInv, FlightInv, Live
  <1>3. Unsent' = Unsent
    BY <1>1, Zenon DEF Unsent, SlotHolders
  <1>4. CASE chan # << >>
    <2> DEFINE item == Head(chan)
    <2>1. chan' = Tail(chan)
      BY <1>4, Zenon DEF Receive
    <2>2. /\ chan' \in Seq([seq : Nat, ok : BOOLEAN]) /\ item \in [seq : Nat, ok : BOOLEAN]
          /\ item.seq \in Sent /\ Sent' = Sent \ {item.seq}
          /\ \A i, j \in 1 .. Len(chan') : chan'[i].seq = chan'[j].seq => i = j
      BY <1>2, <1>4, <2>1, SentTail, Zenon DEF IInv, TypeInv
    <2>3. Accepts(item.seq)
      <3>1. item.seq \in Nat /\ next_seq <= item.seq /\ item.seq < seq /\ item.seq \notin DOMAIN held
        BY <1>2, <2>2
      <3>2. seq - next_seq <= MaxWindow
        BY MaxWindowAssumption DEF IInv, WindowInv, TypeInv
      <3> QED
        BY <3>1, <3>2, MaxWindowAssumption DEF Accepts, IInv, TypeInv
    <2>4. RBPush(item.seq, item.ok) /\ wpc' = "drain" /\ UNCHANGED result
      BY <1>4, <2>3, Zenon DEF Receive
    <2> HIDE DEF item
    <2>5. /\ DOMAIN held' = DOMAIN held \cup {item.seq} /\ UNCHANGED next_seq
          /\ held' = [s \in DOMAIN held' |-> held'[s]]
      BY <2>4 DEF RBPush
    <2>6. TypeInv'
      BY <1>1, <2>2, <2>4, <2>5, Zenon DEF IInv, TypeInv
    <2>7. CallInv' /\ WindowInv' /\ PermitInv'
      BY <1>1, <2>4, <2>5, CallStays, WindowStays, PermitStays, Zenon DEF IInv
    <2>8. ThreadInv'
      BY <1>1, <2>4, <2>5, Zenon DEF IInv, ThreadInv, Live
    <2>9. FlightInv'
      BY <1>1, <1>2, <1>3, <2>2, <2>4, <2>5, Zenon DEF FlightInv
    <2> QED
      BY <2>6, <2>7, <2>8, <2>9, Zenon DEF IInv
  <1>5. CASE chan = << >>
    <2>1. wpc' = "complete" /\ Disconnected /\ UNCHANGED <<chan, rbVars, result>>
      BY <1>5, Zenon DEF Receive
    <2>2. Unsent = {} /\ Sent = {} /\ ~tx
      BY <1>5, <2>1 DEF Disconnected, Unsent, Sent
    <2>3. next_seq = seq
      <3>1. next_seq \in Nat /\ seq \in Nat /\ next_seq <= seq
        BY Zenon DEF IInv, TypeInv, WindowInv
      <3>2. next_seq \notin next_seq .. seq - 1
        BY <1>2, <2>2
      <3> QED
        BY <3>1, <3>2
    <2>4. held = << >>
      <3>1. DOMAIN held = {}
        <4>1. ASSUME NEW p \in DOMAIN held
              PROVE  FALSE
          <5>1. next_seq <= p /\ p < next_seq
            BY <1>2, <2>3, <4>1
          <5> QED
            BY <5>1 DEF IInv, TypeInv
        <4> QED
          BY <4>1, Zenon
      <3> QED
        BY <3>1, EmptyMap, Zenon DEF IInv, TypeInv
    <2> USE DEF rbVars
    <2>5. TypeInv'
      BY <1>1, <2>1, Zenon DEF IInv, TypeInv
    <2>6. CallInv' /\ WindowInv' /\ PermitInv'
      BY <1>1, <2>1, CallStays, WindowStays, PermitStays, Zenon DEF IInv
    <2>7. ThreadInv'
      BY <1>1, <2>1, Zenon DEF IInv, ThreadInv, Live
    <2>8. Sent' = Sent
      BY <2>1, Zenon DEF Sent
    <2>9. FlightInv'
      BY <1>1, <1>2, <1>3, <2>1, <2>2, <2>3, <2>4, <2>8, Zenon DEF FlightInv
    <2> QED
      BY <2>5, <2>6, <2>7, <2>9, Zenon DEF IInv
  <1> QED
    BY <1>4, <1>5, Zenon

LEMMA DrainStep ==
    ASSUME IInv, Drain
    PROVE  IInv'
  <1>1. /\ wpc = "drain" /\ result = "none" /\ inbox
        /\ written = [k \in 1 .. next_seq |-> k - 1]
        /\ UNCHANGED <<producer, permits, taken, executor, chan, ends, announced, report>>
    BY Zenon DEF Drain, IInv, ThreadInv, Live
  <1> USE DEF producer, executor, ends, report
  <1>2. /\ \A p \in Unsent \cup Sent \cup DOMAIN held : next_seq <= p /\ p < seq
        /\ \A p \in Unsent : p \notin Sent /\ p \notin DOMAIN held
        /\ \A p \in Sent : p \notin DOMAIN held
        /\ \A i, j \in 1 .. Len(chan) : chan[i].seq = chan[j].seq => i = j
        /\ \A p \in next_seq .. seq - 1 : p \in Unsent \cup Sent \cup DOMAIN held
    BY <1>1, Zenon DEF IInv, FlightInv, Live
  <1>3. Unsent' = Unsent /\ Sent' = Sent
    BY <1>1, Zenon DEF Unsent, SlotHolders, Sent
  <1>4. next_seq \in Nat /\ seq \in Nat /\ window \in Nat /\ MaxWindow \in Nat
    BY MaxWindowAssumption, Zenon DEF IInv, TypeInv
  <1>5. CASE ~Ready
    <2>1. wpc' = "recv" /\ UNCHANGED <<rbVars, written, result, window>>
      BY <1>5, Zenon DEF Drain, RBPop
    <2> USE DEF rbVars
    <2>2. TypeInv'
      BY <1>1, <2>1, Zenon DEF IInv, TypeInv
    <2>3. CallInv' /\ WindowInv' /\ PermitInv'
      BY <1>1, <2>1, CallStays, WindowStays, PermitStays, Zenon DEF IInv
    <2>4. ThreadInv'
      BY <1>1, <2>1, Zenon DEF IInv, ThreadInv, Live
    <2>5. FlightInv'
      BY <1>1, <1>2, <1>3, <1>5, <2>1, Zenon DEF FlightInv, Ready
    <2> QED
      BY <2>2, <2>3, <2>4, <2>5, Zenon DEF IInv
  <1>6. CASE Ready
    <2>1. next_seq \in DOMAIN held /\ RBPop
      BY <1>6, Zenon DEF Drain, Ready
    <2>2. /\ next_seq' = next_seq + 1 /\ DOMAIN held' = DOMAIN held \ {next_seq}
          /\ held' = [s \in DOMAIN held' |-> held'[s]]
      BY <2>1 DEF RBPop
    <2>3. next_seq < seq
      BY <1>2, <2>1, Zenon
    <2>4. CASE /\ written' = Append(written, next_seq) /\ window' = window + 1
               /\ UNCHANGED <<wpc, result>>
      <3>1. TypeInv'
        <4>1. next_seq' \in Nat /\ window' \in Nat
          BY <1>4, <2>2, <2>4
        <4> QED
          BY <1>1, <2>2, <2>4, <4>1, Zenon DEF IInv, TypeInv
      <3>2. CallInv' /\ PermitInv'
        BY <1>1, <2>4, CallStays, PermitStays, Zenon DEF IInv
      <3>3. WindowInv'
        BY <1>1, <1>4, <2>2, <2>3, <2>4 DEF IInv, WindowInv
      <3>4. written' = [k \in 1 .. next_seq' |-> k - 1]
        BY <1>1, <1>4, <2>2, <2>4
      <3>5. ThreadInv'
        BY <1>1, <2>4, <3>4, Zenon DEF IInv, ThreadInv, Live
      <3>6. FlightInv'
        <4>1. \A p \in Unsent \cup Sent : p # next_seq
          BY <1>2, <2>1, Zenon
        <4>2. \A p \in Unsent \cup Sent \cup DOMAIN held' : next_seq' <= p /\ p < seq
          <5>1. Unsent \cup Sent \cup DOMAIN held \subseteq Nat
            BY OutNat, Zenon DEF IInv
          <5> QED
            BY <1>2, <1>4, <2>2, <4>1, <5>1
        <4>3. \A p \in next_seq' .. seq - 1 : p \in Unsent \cup Sent \cup DOMAIN held'
          BY <1>2, <1>4, <2>2
        <4> QED
          BY <1>1, <1>2, <1>3, <2>2, <2>4, <4>2, <4>3, Zenon DEF FlightInv
      <3> QED
        BY <3>1, <3>2, <3>3, <3>5, <3>6, Zenon DEF IInv
    <2>5. CASE /\ wpc' = "dropping" /\ result' \in {"sink", "item"}
               /\ UNCHANGED <<written, window>>
      <3>1. TypeInv'
        <4>1. next_seq' \in Nat
          BY <1>4, <2>2
        <4> QED
          BY <1>1, <2>2, <2>5, <4>1, Zenon DEF IInv, TypeInv
      <3>2. WindowInv'
        BY <1>1, <1>4, <2>2, <2>3, <2>5 DEF IInv, WindowInv
      <3>3. ThreadInv'
        BY <2>5, Zenon DEF ThreadInv, Live
      <3> QED
        BY <1>1, <2>5, <3>1, <3>2, <3>3, ThreadStops, Zenon
    <2> QED
      BY <1>6, <2>4, <2>5, Zenon DEF Drain, Stop, TokenBack
  <1> QED
    BY <1>5, <1>6, Zenon

LEMMA CompleteStep ==
    ASSUME IInv, Complete
    PROVE  IInv'
  <1>1. /\ wpc = "complete" /\ wpc' = "dropping" /\ result = "none" /\ wpc \in Live
        /\ UNCHANGED <<producer, tokens, executor, chan, ends, rbVars, written, announced, report>>
    BY Zenon DEF Complete, Stop, IInv, ThreadInv, Live
  <1> USE DEF producer, tokens, executor, ends, rbVars, report
  <1>2. next_seq = seq /\ held = << >> /\ ~tx /\ written = [k \in 1 .. next_seq |-> k - 1]
    BY <1>1, Zenon DEF IInv, FlightInv, ThreadInv
  <1>3. announced # Unannounced => announced = seq
    BY Zenon DEF IInv, CallInv
  <1>4. CheckComplete = "ok"
    BY <1>2, <1>3 DEF CheckComplete, IInv, TypeInv
  <1>5. result' \in {"ok", "sink"}
    BY <1>4, Zenon DEF Complete, Stop
  <1>6. ThreadInv'
    BY <1>1, <1>2, <1>5, Zenon DEF ThreadInv, Live
  <1>7. TypeInv' /\ WindowInv'
    BY <1>1, WindowStays, Zenon DEF IInv, TypeInv
  <1> QED
    BY <1>1, <1>6, <1>7, ThreadStops, Zenon DEF IInv

\* The stopped thread lets go of its ends.
LEMMA DropItemsStep ==
    ASSUME IInv, DropItems
    PROVE  IInv'
  <1>1. /\ wpc = "dropping" /\ wpc' = "dropped" /\ inbox' = FALSE /\ chan' = << >>
        /\ UNCHANGED <<producer, tokens, executor, tx, handle, rbVars, written, result, announced,
                       report>>
    BY Zenon DEF DropItems
  <1> USE DEF producer, tokens, executor, rbVars, report
  <1>2. wpc \notin Live /\ wpc' \notin Live
    BY <1>1, Zenon DEF Live
  <1>3. TypeInv'
    BY <1>1, EmptyTyped, Zenon DEF IInv, TypeInv
  <1>4. CallInv' /\ WindowInv' /\ PermitInv'
    BY <1>1, CallStays, WindowStays, PermitStays, Zenon DEF IInv
  <1>5. ThreadInv' /\ FlightInv'
    BY <1>1, <1>2, Zenon DEF IInv, ThreadInv, FlightInv
  <1> QED
    BY <1>3, <1>4, <1>5, Zenon DEF IInv

LEMMA DropWindowStep ==
    ASSUME IInv, DropWindow
    PROVE  IInv'
  <1>1. /\ wpc = "dropped" /\ wpc' = "gone"
        /\ UNCHANGED <<producer, tokens, executor, chan, tx, inbox, handle, rbVars, written, result,
                       announced, report>>
    BY Zenon DEF DropWindow
  <1> USE DEF producer, tokens, executor, rbVars, report
  <1>2. wpc \notin Live /\ wpc' \notin Live
    BY <1>1, Zenon DEF Live
  <1>3. TypeInv'
    BY <1>1, Zenon DEF IInv, TypeInv
  <1>4. CallInv' /\ WindowInv' /\ PermitInv'
    BY <1>1, CallStays, WindowStays, PermitStays, Zenon DEF IInv
  <1>5. ThreadInv' /\ FlightInv'
    BY <1>1, <1>2, Zenon DEF IInv, ThreadInv, FlightInv
  <1> QED
    BY <1>3, <1>4, <1>5, Zenon DEF IInv

-----------------------------------------------------------------------------
(* The producer. *)

LEMMA TakeWindowStep ==
    ASSUME IInv, TakeWindow
    PROVE  IInv'
  <1>1. /\ ppc = "window" /\ ppc' \in {"permit", "recover"}
        /\ UNCHANGED <<kind, calls, seq, slot, permits, taken, executor, chan, ends, thread,
                       announced, report>>
    BY Zenon DEF TakeWindow
  <1> USE DEF executor, ends, thread, rbVars, report
  <1>2. \/ ppc' = "permit" /\ window > 0 /\ window' = window - 1
        \/ ppc' = "recover" /\ window' = window
    BY Zenon DEF TakeWindow
  <1>3. window \in Nat /\ seq \in Nat /\ next_seq \in Nat /\ MaxWindow \in Nat
    BY MaxWindowAssumption, Zenon DEF IInv, TypeInv
  <1>4. window' \in Nat
    BY <1>2, <1>3
  <1>5. TypeInv'
    BY <1>1, <1>4, Zenon DEF IInv, TypeInv, PPCs
  <1>6. CallInv'
    BY <1>1 DEF IInv, CallInv
  <1>7. WindowInv'
    BY <1>1, <1>2, <1>3 DEF IInv, WindowInv
  <1>8. ThreadInv' /\ PermitInv' /\ FlightInv'
    BY <1>1, ThreadStays, PermitStays, FlightStays, Zenon DEF IInv
  <1> QED
    BY <1>5, <1>6, <1>7, <1>8, Zenon DEF IInv

\* A position is reserved: it gets its job or the producer's slot.
LEMMA TakePermitStep ==
    ASSUME IInv, TakePermit
    PROVE  IInv'
  <1>1. /\ ppc = "permit" /\ permits > 0 /\ permits' = permits - 1 /\ seq' = seq + 1
        /\ UNCHANGED <<calls, taken, window, rpc, rseq, chan, ends, thread, announced, session, lost>>
    BY Zenon DEF TakePermit
  <1> USE DEF ends, thread, rbVars
  <1>2. tx /\ announced = Unannounced /\ slot = NoSlot
    BY <1>1, Zenon DEF IInv, CallInv
  <1>3. /\ seq \in Nat /\ seq' \in Nat /\ permits \in Nat /\ permits' \in Nat /\ taken \in Nat
        /\ window \in Nat /\ next_seq \in Nat /\ MaxWindow \in Nat /\ seq # NoSlot
        /\ Permits \in Nat
    <2>1. /\ seq \in Nat /\ permits \in Nat /\ taken \in Nat /\ window \in Nat /\ next_seq \in Nat
          /\ MaxWindow \in Nat /\ Permits \in Nat
      BY MaxWindowAssumption, PipelineAssumption, Zenon DEF IInv, TypeInv
    <2> QED
      BY <1>1, <2>1 DEF NoSlot
  <1>4. \/ /\ jobs' = jobs \cup {seq} /\ slot' = NoSlot /\ ppc' = "idle"
        \/ /\ jobs' = jobs /\ slot' = seq /\ ppc' = "send"
    BY <1>2, Zenon DEF TakePermit
  <1>5. TypeInv'
    <2>1. jobs' \subseteq Nat /\ slot' \in Nat \cup {NoSlot} /\ ppc' \in PPCs
      BY <1>3, <1>4 DEF IInv, TypeInv, PPCs
    <2> QED
      BY <1>1, <1>3, <2>1, Zenon DEF IInv, TypeInv
  <1>6. CallInv'
    BY <1>1, <1>2, <1>3, <1>4 DEF IInv, CallInv
  <1>7. ThreadInv'
    BY <1>1, <1>2, Zenon DEF IInv, ThreadInv
  <1>8. /\ Running' = Running /\ Busy' = Busy \cup {seq} /\ Unsent' = Unsent \cup {seq}
        /\ seq \notin Busy
    <2>1. Running' = Running
      BY <1>1, Zenon DEF Running
    <2>2. jobs' \cup ({slot'} \ {NoSlot}) = jobs \cup ({slot} \ {NoSlot}) \cup {seq}
      BY <1>2, <1>3, <1>4, Zenon
    <2>3. Busy' = Busy \cup {seq}
      BY <1>1, <2>1, <2>2, Zenon DEF Busy
    <2>4. Unsent' = Unsent \cup {seq}
      BY <1>1, <2>2, Zenon DEF Unsent, SlotHolders
    <2>5. seq \notin Busy
      BY <1>3 DEF IInv, PermitInv
    <2> QED
      BY <2>1, <2>3, <2>4, <2>5, Zenon
  <1>9. PermitInv'
    <2>1. Counts(Permits - permits' - taken', Busy')
      <3>1. Counts(Permits - permits - taken + 1, Busy \cup {seq})
        BY <1>8, CountsAdd, Zenon DEF IInv, PermitInv
      <3>2. Permits - permits' - taken' = Permits - permits - taken + 1
        BY <1>1, <1>3
      <3> QED
        BY <1>8, <3>1, <3>2, Zenon
    <2>2. \A p \in Busy' : p < seq'
      <3>1. Busy \subseteq Nat
        BY DEF IInv, TypeInv, Busy, Running
      <3> QED
        BY <1>1, <1>3, <1>8, <3>1 DEF IInv, PermitInv
    <2>3. \A u \in Running : rseq[u] # seq
      BY <1>8, Zenon DEF Busy
    <2>4. seq \notin jobs
      BY <1>8, Zenon DEF Busy
    <2>5. slot' \notin jobs' /\ ppc' # "join"
      BY <1>2, <1>3, <1>4, <2>4 DEF IInv, PermitInv
    <2>6. \A u \in Running' : rseq'[u] \notin jobs' /\ rseq'[u] # slot'
      BY <1>1, <1>2, <1>4, <1>8, <2>3, Zenon DEF IInv, PermitInv
    <2> QED
      BY <1>1, <1>8, <2>1, <2>2, <2>5, <2>6, Zenon DEF IInv, PermitInv
  <1>10. WindowInv'
    BY <1>1, <1>3, <1>4 DEF IInv, WindowInv
  <1>11. FlightInv'
    <2> SUFFICES ASSUME wpc \in Live
                 PROVE  FlightInv'
      BY <1>1, Zenon DEF FlightInv
    <2>1. Sent' = Sent
      BY <1>1, Zenon DEF Sent
    <2>2. seq \notin Sent /\ seq \notin DOMAIN held
      BY <1>3 DEF IInv, FlightInv
    <2>3. \A p \in Unsent' \cup Sent' \cup DOMAIN held' : next_seq' <= p /\ p < seq'
      BY <1>1, <1>3, <1>8, <2>1, OutNat DEF IInv, FlightInv, WindowInv
    <2>4. \A p \in next_seq' .. seq' - 1 : p \in Unsent' \cup Sent' \cup DOMAIN held'
      BY <1>1, <1>3, <1>8, <2>1 DEF IInv, FlightInv
    <2> QED
      BY <1>1, <1>2, <1>8, <2>1, <2>2, <2>3, <2>4, Zenon DEF IInv, FlightInv
  <1> QED
    BY <1>5, <1>6, <1>7, <1>9, <1>10, <1>11, Zenon DEF IInv

\* The producer's own item, sent or refused; its permit comes back.
LEMMA SendRawStep ==
    ASSUME IInv, SendRaw
    PROVE  IInv'
  <1>1. /\ ppc = "send" /\ slot' = NoSlot /\ permits' = permits + 1
        /\ \/ inbox /\ chan' = Append(chan, Item(slot, TRUE)) /\ ppc' = "idle"
           \/ ~inbox /\ chan' = chan /\ ppc' = "recover"
        /\ UNCHANGED <<calls, seq, taken, window, executor, ends, thread, announced, session, lost>>
    BY Zenon DEF SendRaw, CanSend, Refused, RawPermit
  <1> USE DEF executor, ends, thread, rbVars
  <1>2. slot # NoSlot /\ slot \in Nat /\ tx /\ announced = Unannounced
    BY <1>1, Zenon DEF IInv, CallInv, TypeInv
  <1>3. permits \in Nat /\ taken \in Nat /\ permits' \in Nat /\ Permits \in Nat
    BY <1>1, PipelineAssumption DEF IInv, TypeInv
  <1>4. CallInv'
    BY <1>1, <1>2, Zenon DEF IInv, CallInv
  <1>5. ThreadInv' /\ WindowInv'
    BY <1>1, ThreadStays, WindowStays, Zenon DEF IInv
  <1>6. /\ Running' = Running /\ Busy' = Busy \ {slot} /\ slot \in Busy
    <2>1. Running' = Running
      BY <1>1, Zenon DEF Running
    <2>2. slot \notin jobs /\ \A u \in Running : rseq[u] # slot
      BY Zenon DEF IInv, PermitInv
    <2> QED
      BY <1>1, <1>2, <2>1, <2>2, Zenon DEF Busy
  <1>7. PermitInv'
    <2>1. Counts(Permits - permits' - taken', Busy')
      <3>1. Counts(Permits - permits - taken - 1, Busy \ {slot})
        BY <1>6, CountsRemove, Zenon DEF IInv, PermitInv
      <3>2. Permits - permits' - taken' = Permits - permits - taken - 1
        BY <1>1, <1>3
      <3> QED
        BY <1>6, <3>1, <3>2, Zenon
    <2>2. NoSlot \notin jobs /\ \A u \in Running : rseq[u] # NoSlot
      BY DEF IInv, TypeInv, NoSlot, Running
    <2>3. ppc' # "join"
      BY <1>1, Zenon
    <2> QED
      BY <1>1, <1>6, <2>1, <2>2, <2>3, Zenon DEF IInv, PermitInv
  <1>8. CASE inbox
    <2>1. chan' = Append(chan, Item(slot, TRUE)) /\ ppc' \in PPCs
      BY <1>1, <1>8, Zenon DEF PPCs
    <2>2. slot \in Unsent /\ (wpc \in Live => Unsent' = Unsent \ {slot})
      <3>1. slot \notin SlotHolders
        <4>1. SlotHolders \subseteq jobs \cup {rseq[u] : u \in Running}
          BY DEF SlotHolders, Running
        <4> QED
          BY <4>1 DEF IInv, PermitInv
      <3> QED
        BY <1>1, <1>2, <3>1, Zenon DEF Unsent, SlotHolders
    <2>3. FlightInv' /\ chan' \in Seq([seq : Nat, ok : BOOLEAN])
      <3>1. chan' \in Seq([seq : Nat, ok : BOOLEAN])
        BY <1>2, <2>1, SentAppend, Zenon DEF IInv, TypeInv
      <3>2. CASE wpc \in Live
        BY <1>1, <1>2, <2>1, <2>2, <3>2, FlightSends, Zenon DEF IInv
      <3>3. CASE wpc \notin Live
        BY <1>1, <3>1, <3>3, Zenon DEF FlightInv
      <3> QED
        BY <3>2, <3>3, Zenon
    <2>4. TypeInv'
      BY <1>1, <1>3, <2>1, <2>3, Zenon DEF IInv, TypeInv
    <2> QED
      BY <1>4, <1>5, <1>7, <2>3, <2>4, Zenon DEF IInv
  <1>9. CASE ~inbox
    <2>1. wpc \notin Live
      BY <1>9, Zenon DEF IInv, ThreadInv
    <2>2. FlightInv'
      BY <1>1, <2>1, Zenon DEF FlightInv
    <2>3. TypeInv'
      BY <1>1, <1>3, <1>9, Zenon DEF IInv, TypeInv, PPCs
    <2> QED
      BY <1>4, <1>5, <1>7, <2>2, <2>3, Zenon DEF IInv
  <1> QED
    BY <1>8, <1>9, Zenon

\* A producer's step that only moves it.
LEMMA OnlyProducerMoves ==
    ASSUME IInv, CallInv', UNCHANGED <<seq, slot, tokens, executor, chan, ends, thread>>,
           ppc' \in PPCs, ppc' # "join", ppc # "permit", ppc' # "permit",
           announced' \in Nat \cup {Unannounced}, lost' \in BOOLEAN
    PROVE  IInv'
  <1> USE DEF tokens, executor, ends, thread, rbVars
  <1>1. TypeInv'
    BY Zenon DEF IInv, TypeInv
  <1>2. ThreadInv' /\ WindowInv' /\ PermitInv' /\ FlightInv'
    BY ThreadStays, WindowStays, PermitStays, FlightStays, Zenon DEF IInv
  <1> QED
    BY <1>1, <1>2, Zenon DEF IInv

LEMMA RecoverStep ==
    ASSUME IInv, Recover
    PROVE  IInv'
  <1>1. /\ ppc = "recover" /\ session' = "failed" /\ ppc' = "barrier" /\ kind' = "recover"
        /\ UNCHANGED <<seq, slot, tokens, executor, chan, ends, thread, announced, lost>>
    BY Zenon DEF Recover, Fail
  <1>2. CallInv'
    BY <1>1 DEF IInv, CallInv, ends, thread
  <1>3. announced' \in Nat \cup {Unannounced} /\ lost' \in BOOLEAN /\ ppc' \in PPCs
    BY <1>1, Zenon DEF IInv, TypeInv, PPCs
  <1> QED
    BY <1>1, <1>2, <1>3, OnlyProducerMoves, Zenon

LEMMA BeginWriteStep ==
    ASSUME IInv, NEW k \in {"raw", "framed"}, BeginWrite(k)
    PROVE  IInv'
  <1>1. /\ ppc = "idle" /\ ppc' \in {"idle", "recover", "window"}
        /\ UNCHANGED <<seq, slot, tokens, executor, chan, ends, thread, announced>>
        /\ \/ ppc' = "idle" /\ session' = "failed" /\ lost' = TRUE
           \/ ppc' # "idle" /\ announced = Unannounced /\ UNCHANGED <<session, lost>>
    BY Zenon DEF BeginWrite, Errs, Fail, report
  <1>2. CallInv'
    BY <1>1 DEF IInv, CallInv, ends, thread
  <1>3. announced' \in Nat \cup {Unannounced} /\ lost' \in BOOLEAN /\ ppc' \in PPCs
    BY <1>1, Zenon DEF IInv, TypeInv, PPCs
  <1> QED
    BY <1>1, <1>2, <1>3, OnlyProducerMoves, Zenon

LEMMA BeginFlushStep ==
    ASSUME IInv, BeginFlush
    PROVE  IInv'
  <1>1. /\ ppc = "idle"
        /\ UNCHANGED <<seq, slot, tokens, executor, chan, ends, thread, lost>>
        /\ \/ /\ announced = Unannounced /\ announced' = seq
              /\ ppc' = "barrier" /\ kind' = "flush" /\ UNCHANGED session
           \/ /\ announced # Unannounced /\ session' = FinishSession
              /\ UNCHANGED <<ppc, kind, announced>>
    BY Zenon DEF BeginFlush
  <1>2. seq \in Nat /\ seq # Unannounced
    BY DEF IInv, TypeInv, Unannounced
  <1>3. CallInv'
    BY <1>1, <1>2 DEF IInv, CallInv, ends, thread, FinishSession
  <1>4. announced' \in Nat \cup {Unannounced} /\ lost' \in BOOLEAN /\ ppc' \in PPCs /\ ppc' # "join"
    BY <1>1, <1>2, Zenon DEF IInv, TypeInv, PPCs
  <1> QED
    BY <1>1, <1>3, <1>4, OnlyProducerMoves

LEMMA BeginDropStep ==
    ASSUME IInv, BeginDrop
    PROVE  IInv'
  <1>1. /\ ppc = "idle" /\ kind' = "drop"
        /\ ppc' = IF announced = Unannounced THEN "barrier" ELSE "dropped"
        /\ session' = "failed" \/ session' = session
        /\ UNCHANGED <<seq, slot, tokens, executor, chan, ends, thread, announced, lost>>
    BY Zenon DEF BeginDrop, Fail
  <1>2. CallInv'
    BY <1>1 DEF IInv, CallInv, ends, thread
  <1>3. announced' \in Nat \cup {Unannounced} /\ lost' \in BOOLEAN /\ ppc' \in PPCs /\ ppc' # "join"
    BY <1>1 DEF IInv, TypeInv, PPCs
  <1> QED
    BY <1>1, <1>2, <1>3, OnlyProducerMoves

LEMMA TakeBackStep ==
    ASSUME IInv, TakeBack
    PROVE  IInv'
  <1>1. /\ permits > 0 /\ permits' = permits - 1 /\ taken' = taken + 1
        /\ UNCHANGED <<producer, window, executor, chan, ends, thread, announced, report>>
    BY Zenon DEF TakeBack
  <1> USE DEF producer, executor, ends, thread, rbVars, report
  <1>2. permits \in Nat /\ taken \in Nat /\ permits' \in Nat /\ taken' \in Nat /\ Permits \in Nat
    BY <1>1, PipelineAssumption DEF IInv, TypeInv
  <1>3. Permits - permits' - taken' = Permits - permits - taken
    BY <1>1, <1>2
  <1>4. TypeInv'
    BY <1>1, <1>2, Zenon DEF IInv, TypeInv
  <1>5. CallInv' /\ ThreadInv' /\ WindowInv' /\ FlightInv'
    BY <1>1, CallStays, ThreadStays, WindowStays, FlightStays, Zenon DEF IInv
  <1>6. Running' = Running /\ Busy' = Busy
    BY <1>1, Zenon DEF Running, Busy
  <1>7. PermitInv'
    BY <1>1, <1>3, <1>6, Zenon DEF IInv, PermitInv
  <1> QED
    BY <1>4, <1>5, <1>7, Zenon DEF IInv

\* With every permit in hand no position is held for anyone.
LEMMA BarrierDoneStep ==
    ASSUME IInv, BarrierDone
    PROVE  IInv'
  <1>1. /\ ppc = "barrier" /\ taken = Permits /\ permits' = permits + taken /\ taken' = 0
        /\ tx' = (tx /\ kind = "recover") /\ ppc' = "join"
        /\ UNCHANGED <<kind, calls, seq, slot, window, executor, chan, inbox, handle, thread,
                       announced, report>>
    BY Zenon DEF BarrierDone, BarrierNeeds
  <1> USE DEF executor, thread, rbVars, report
  <1>2. permits \in Nat /\ taken \in Nat /\ permits' \in Nat /\ taken' \in Nat /\ Permits \in Nat
    BY <1>1, PipelineAssumption DEF IInv, TypeInv
  <1>3. Running' = Running /\ Busy' = Busy
    BY <1>1, Zenon DEF Running, Busy
  <1>4. Counts(Permits - permits - taken, Busy)
    BY Zenon DEF IInv, PermitInv
  <1>5. Permits - permits' - taken' = Permits - permits - taken
    BY <1>1, <1>2
  <1>6. Permits - permits - taken \in Nat /\ (Permits - permits - taken = 0 => Busy = {})
    BY <1>4, CountsEmpty, Zenon
  <1>7. Busy = {}
    BY <1>1, <1>2, <1>6
  <1>8. PermitInv'
    BY <1>1, <1>3, <1>4, <1>5, <1>7, Zenon DEF IInv, PermitInv
  <1>9. TypeInv'
    <2>1. tx' \in BOOLEAN /\ ppc' \in PPCs
      BY <1>1, Zenon DEF PPCs
    <2> QED
      BY <1>1, <1>2, <2>1, Zenon DEF IInv, TypeInv
  <1>10. CallInv'
    BY <1>1, Zenon DEF IInv, CallInv
  <1>11. tx' => tx
    BY <1>1, Zenon
  <1>12. ThreadInv' /\ WindowInv' /\ FlightInv'
    BY <1>1, <1>11, ThreadStays, WindowStays, FlightStays DEF IInv
  <1> QED
    BY <1>8, <1>9, <1>10, <1>12, Zenon DEF IInv

LEMMA JoinStep ==
    ASSUME IInv, Join
    PROVE  IInv'
  <1>1. /\ ppc = "join" /\ (handle => wpc = "gone") /\ handle' = FALSE
        /\ UNCHANGED <<calls, seq, slot, tokens, executor, chan, tx, inbox, thread, announced>>
    BY Zenon DEF Join
  <1> USE DEF tokens, executor, thread, rbVars, report
  <1>2. kind \in {"recover", "flush", "drop"}
    BY <1>1, Zenon DEF IInv, CallInv
  <1>3. \/ kind = "recover" /\ ppc' = "idle" /\ lost' = TRUE /\ session' = session
        \/ /\ kind = "flush" /\ ppc' = "idle" /\ lost' = lost
           /\ \/ handle /\ result # "ok" /\ session' = "failed"
              \/ ~(handle /\ result # "ok") /\ session' = FinishSession
        \/ kind = "drop" /\ ppc' = "dropped" /\ UNCHANGED <<session, lost>>
    <2>1. CASE kind = "recover"
      BY <2>1 DEF Join
    <2>2. CASE kind = "flush"
      BY <2>2 DEF Join
    <2>3. CASE kind = "drop"
      BY <2>3 DEF Join
    <2> QED
      BY <1>2, <2>1, <2>2, <2>3, Zenon
  <1>4. TypeInv'
    <2>1. ppc' \in PPCs /\ lost' \in BOOLEAN /\ handle' \in BOOLEAN
      BY <1>1, <1>3, Zenon DEF IInv, TypeInv, PPCs
    <2> QED
      BY <1>1, <2>1, Zenon DEF IInv, TypeInv
  <1>5. CallInv'
    <2>1. CASE kind = "recover"
      BY <1>1, <1>3, <2>1 DEF IInv, CallInv
    <2>2. CASE kind = "flush"
      BY <1>1, <1>3, <2>2 DEF IInv, CallInv, FinishSession
    <2>3. CASE kind = "drop"
      BY <1>1, <1>3, <2>3 DEF IInv, CallInv
    <2> QED
      BY <1>2, <2>1, <2>2, <2>3, Zenon
  <1>6. ppc' # "join" /\ ppc' # "permit"
    BY <1>3
  <1>7. ThreadInv' /\ WindowInv' /\ PermitInv' /\ FlightInv'
    BY <1>1, <1>6, ThreadStays, WindowStays, PermitStays, FlightStays DEF IInv
  <1> QED
    BY <1>4, <1>5, <1>7, Zenon DEF IInv

-----------------------------------------------------------------------------
(* The theorems. *)

LEMMA InitIInv ==
    ASSUME Init
    PROVE  IInv
  <1> USE DEF Init, RBInit
  <1>1. TypeInv
    BY MaxWindowAssumption, PipelineAssumption, EmptyTyped, EmptyMap, Zenon DEF TypeInv, PPCs, NewWindow
  <1>2. CallInv
    BY DEF CallInv
  <1>3. ThreadInv
    BY DEF ThreadInv, Live
  <1>4. Running = {} /\ Busy = {} /\ Unsent = {} /\ Sent = {}
    BY DEF Running, Busy, Unsent, SlotHolders, Sent
  <1>5. PermitInv
    <2>1. Permits - permits - taken = 0
      BY PipelineAssumption
    <2> QED
      BY <1>4, <2>1, CountsEmpty DEF PermitInv
  <1>6. WindowInv
    BY MaxWindowAssumption DEF WindowInv, NewWindow
  <1>7. FlightInv
    BY <1>4, EmptyMap DEF FlightInv
  <1> QED
    BY <1>1, <1>2, <1>3, <1>5, <1>6, <1>7, Zenon DEF IInv

LEMMA NextIInv ==
    ASSUME IInv, [Next]_vars
    PROVE  IInv'
  <1>1. CASE UNCHANGED <<ppc, kind, seq, slot, tokens, executor, chan, ends, thread, announced,
                         session, lost>>
    <2> USE DEF tokens, executor, ends, thread, rbVars
    <2>1. TypeInv'
      BY <1>1, Zenon DEF IInv, TypeInv
    <2>2. CallInv' /\ ThreadInv' /\ WindowInv' /\ PermitInv' /\ FlightInv'
      BY <1>1, CallStays, ThreadStays, WindowStays, PermitStays, FlightStays, Zenon DEF IInv
    <2> QED
      BY <2>1, <2>2, Zenon DEF IInv
  <1>2. CASE \E r \in Threads : JobStep(r)
    BY <1>2, StartJobStep, FrameStep, DeathNoticeStep, ReleaseStep, Zenon DEF JobStep
  <1>3. CASE ThreadStep
    BY <1>3, ReceiveStep, DrainStep, CompleteStep, DropItemsStep, DropWindowStep, Zenon
       DEF ThreadStep
  <1>4. CASE CallStep
    BY <1>4, TakeWindowStep, TakePermitStep, SendRawStep, RecoverStep, TakeBackStep,
       BarrierDoneStep, JoinStep, Zenon DEF CallStep
  <1>5. CASE Calls
    BY <1>5, BeginWriteStep, BeginFlushStep, BeginDropStep, Zenon DEF Calls
  <1>6. CASE Cancel
    BY <1>1, <1>6, Zenon DEF Cancel, producer, report
  <1>7. CASE UNCHANGED vars
    BY <1>1, <1>7, Zenon DEF vars, producer, report
  <1> QED
    BY <1>2, <1>3, <1>4, <1>5, <1>6, <1>7, Zenon DEF Next

LEMMA AlwaysIInv == Spec => []IInv
  <1>1. Init => IInv
    BY InitIInv, Zenon
  <1>2. IInv /\ [Next]_vars => IInv'
    BY NextIInv, Zenon
  <1> QED
    BY <1>1, <1>2, PTL DEF Spec

\* A session certified as finished lost nothing, whatever the capacities: the
\* sink has every position, in order.  check_stream_complete never finds a gap
\* and the reorder buffer never refuses an item (write/pipeline.rs, the writer
\* thread; write/writer.rs, flush).
THEOREM FinishedIsCompleteTheorem == Spec => []FinishedIsComplete
  <1>1. IInv => FinishedIsComplete
    BY DEF IInv, CallInv, ThreadInv, FinishedIsComplete
  <1> QED
    BY <1>1, AlwaysIInv, PTL

\* A method that has joined the writer thread leaves no framing job queued or
\* running, and the first write to notice the thread's death returns the
\* thread's own error (write/writer.rs, wait_for_framing and
\* pipeline_send_error).
THEOREM JoinedIsOverTheorem == Spec => JoinedIsOver
  <1> DEFINE Over == ppc = "join" /\ ppc' # "join" =>
                        /\ jobs' = {} /\ \A r \in Threads : rpc'[r] = "idle"
                        /\ kind = "recover" => outcome' \in {"item", "sink"} \/ lost
  <1>1. ASSUME IInv, Join
        PROVE  Over
    <2>1. /\ ppc = "join" /\ (handle => wpc = "gone")
          /\ UNCHANGED <<jobs, rpc>>
          /\ kind = "recover" => outcome' = JoinError
      BY <1>1 DEF Join, executor
    <2>2. Busy = {}
      BY <1>1, <2>1, Zenon DEF IInv, PermitInv
    <2>3. jobs = {} /\ Running = {}
      BY <2>2 DEF Busy
    <2>4. \A r \in Threads : rpc[r] = "idle"
      BY <2>3 DEF Running
    <2>5. ASSUME kind = "recover"
          PROVE  outcome' \in {"item", "sink"} \/ lost
      <3>1. tx /\ announced = Unannounced /\ (~handle => lost)
        BY <1>1, <2>1, <2>5 DEF IInv, CallInv
      <3>2. handle => result \in {"item", "sink"}
        <4>1. /\ wpc \in Live <=> result = "none"
              /\ result = "ok" => ~tx
              /\ result \in {"none", "ok", "item", "sink"}
          BY <1>1, Zenon DEF IInv, ThreadInv
        <4> QED
          BY <2>1, <3>1, <4>1 DEF Live
      <3> QED
        BY <2>1, <2>5, <3>1, <3>2 DEF JoinError
    <2> QED
      BY <2>1, <2>3, <2>4, <2>5
  <1>2. ASSUME IInv, Next, ppc = "join", ppc' # "join"
        PROVE  Join
    BY <1>2, Zenon DEF Next, JobStep, ThreadStep, CallStep, Calls, Cancel, producer, StartJob, Frame,
       DeathNotice, Release, Receive, Drain, Complete, DropItems, DropWindow, TakeWindow,
       TakePermit, SendRaw, Recover, TakeBack, BarrierDone, BeginWrite, BeginFlush, BeginDrop
  <1>3. IInv /\ [Next]_vars => [Over]_vars
    BY <1>1, <1>2, Zenon
  <1> QED
    BY <1>3, AlwaysIInv, PTL DEF Spec, JoinedIsOver
=============================================================================
