----------------------------- MODULE ReorderMap -----------------------------
(***************************************************************************)
(* What the sequence-number reorder buffer promises, without its deque:    *)
(* a partial function from sequence numbers to items, and the next number  *)
(* to be handed out (src/reorder_buffer.rs).  OrderedPool.tla,             *)
(* WritePipeline.tla and GzipWriter.tla build on it.                       *)
(***************************************************************************)
EXTENDS Naturals

CONSTANTS
    Items,       \* what may be pushed
    MaxWindow    \* `max_window`: how far ahead of next_seq an item may sit

ASSUME MaxWindowAssumption == MaxWindow \in Nat \ {0}

VARIABLES
    next_seq,    \* the sequence number handed out next
    held         \* sequence number -> item, for the items not yet handed out

rbVars == <<next_seq, held>>

RBInit == /\ next_seq = 0
          /\ held = << >>

\* try_push refuses a stale, an out-of-window and a duplicate number.
Accepts(seq) ==
    /\ next_seq <= seq
    /\ seq < next_seq + MaxWindow
    /\ seq \notin DOMAIN held

RBPush(seq, item) ==
    /\ Accepts(seq)
    /\ held' = [s \in DOMAIN held \cup {seq} |->
                   IF s = seq THEN item ELSE held[s]]
    /\ UNCHANGED next_seq

Ready == next_seq \in DOMAIN held

RBPop ==
    /\ Ready
    /\ held' = [s \in DOMAIN held \ {next_seq} |-> held[s]]
    /\ next_seq' = next_seq + 1

\* drain_filled hands everything back without counting it as delivered.
RBDrain == /\ held' = << >>
           /\ UNCHANGED next_seq

RBNext == \/ \E seq \in next_seq .. next_seq + MaxWindow - 1, item \in Items :
                 RBPush(seq, item)
          \/ RBPop
          \/ RBDrain

RBSpec == RBInit /\ [][RBNext]_rbVars
=============================================================================
