----------------------------- MODULE Invocation -----------------------------
(* One invocation of the program (src/debug.rs and the CLI's threads): the    *)
(* call stream on the sidecar FIFO, the threads that write to it, and its     *)
(* end.                                                                       *)
EXTENDS Naturals, Sequences, TLC

-----------------------------------------------------------------------------
(***************************************************************************)
(* The call stream of one invocation on the sidecar FIFO (src/debug.rs):   *)
(* the lines that went out whole, and the sink's own account of the ones   *)
(* that did not.  The reader of the FIFO is outside the program; each line *)
(* is one write that it takes whole, turns away (a full FIFO, a refused or *)
(* overlong line) or fails outright (no reader).                           *)
(*                                                                         *)
(* The rest of this module owns the sink and says which thread takes which *)
(* step.                                                                   *)
(***************************************************************************)

CONSTANTS
    NCounters,      \* the counters of a snapshot, in for_each's order
    MaxDrops        \* where the drop count saturates (u64::MAX)

ASSUME SinkAssumption == NCounters \in Nat \ {0} /\ MaxDrops \in Nat \ {0}

VARIABLES
    cell,           \* StreamCell.state
    drops,          \* StreamCell.drops
    hard_error,     \* StreamCell.hard_error
    stream,         \* the lines the FIFO took
    tried           \* history: how many lines were offered to it

sinkVars == <<cell, drops, hard_error, stream, tried>>

Sent == {"Whole", "Dropped", "Failed"}

Lines == [kind : {"record", "sealing", "sealed", "failed"}, n : Nat]

Line(kind, n) == [kind |-> kind, n |-> n]

SinkInit ==
    /\ cell = "open"
    /\ drops = 0
    /\ hard_error = FALSE
    /\ stream = << >>
    /\ tried = 0

\* A saturating increment.
PlusOne(n) == IF n < MaxDrops THEN n + 1 ELSE n

\* Line::emit: a whole line or nothing.
Emit(line, sent) ==
    /\ stream' = IF sent = "Whole" THEN Append(stream, line) ELSE stream
    /\ tried' = tried + 1

AccountLine(sent) ==
    /\ drops' = IF sent = "Whole" THEN drops ELSE PlusOne(drops)
    /\ hard_error' = (hard_error \/ sent = "Failed")

\* close(): no ordinary record is admitted from here on.
CloseBegins ==
    /\ cell' = "closing"
    /\ UNCHANGED <<drops, hard_error, stream, tried>>

\* One counter of the snapshot.
SealingEmission(i, sent) ==
    /\ Emit(Line("sealing", i), sent)
    /\ AccountLine(sent)
    /\ UNCHANGED cell

\* The terminal record says how the stream ended and how many lines were
\* dropped before it.
TerminalKind(unwound) == IF unwound \/ hard_error THEN "failed" ELSE "sealed"

Terminal(unwound, sent) ==
    /\ Emit(Line(TerminalKind(unwound), drops), sent)
    /\ UNCHANGED <<cell, drops, hard_error>>

\* Variant: a terminal record that did not go out is not counted.
CloseEnds_KeepsCount(kind, before, sent) ==
    /\ drops' = before
    /\ cell' = IF sent = "Failed" THEN "failed" ELSE kind
    /\ UNCHANGED <<hard_error, stream, tried>>

\* After the terminal write only the account moves: before is the count that
\* record carried.
CloseEnds(kind, before, sent) ==
    /\ drops' = IF sent = "Whole" THEN before ELSE PlusOne(before)
    /\ cell' = IF sent = "Failed" THEN "failed" ELSE kind
    /\ UNCHANGED <<hard_error, stream, tried>>

SinkTypeOK ==
    /\ cell \in {"open", "closing", "sealed", "failed"}
    /\ drops \in 0 .. MaxDrops
    /\ hard_error \in BOOLEAN
    /\ stream \in Seq(Lines)
    /\ tried \in Nat

Ended == cell \in {"sealed", "failed"}

\* What the reader of the call stream relies on.  Ordinary records come first,
\* then the snapshot's counters in order, then at most one terminal record.
\* Once the stream has ended, its account agrees with the FIFO: it counts
\* every line that was offered and did not go out (the terminal record
\* included), and a terminal record that did go out says the same as the
\* account (CallSink::close: "the account always agrees with a terminal
\* record that reached the FIFO").
StreamIsTrue ==
    /\ \A i, j \in 1 .. Len(stream) : i < j =>
          \/ stream[i].kind = "record"
          \/ /\ stream[i].kind = "sealing"
             /\ stream[j].kind # "record"
             /\ stream[j].kind = "sealing" => stream[i].n < stream[j].n
    /\ Ended =>
          /\ drops < MaxDrops => drops = tried - Len(stream)
          /\ \A i \in 1 .. Len(stream) :
                stream[i].kind \in {"sealed", "failed"} =>
                   stream[i] = Line(cell, drops)

-----------------------------------------------------------------------------
(***************************************************************************)
(* The lifecycle of an invocation (src/host.rs, ADR-0020): who may record, *)
(* and the seal that ends it by one exchange on the transition word.       *)
(*                                                                         *)
(* A capability is a Call guard or a Permit.  A thread mints one from the  *)
(* control handle (refused once a seal has begun) or under a live one      *)
(* (never refused), records and emits through it, and drops it.  Threads   *)
(* seal, cancel and issue census tickets concurrently.  word is one        *)
(* atomic: a mint loads it, then exchanges it; a seal exchanges it once.   *)
(***************************************************************************)

CONSTANTS
    Threads,
    Caps,           \* identities of capabilities (each is used once at a time)
    None,
    MaxGuards,      \* the guard field's maximum (2^30 - 1)
    MaxPermits,     \* the permit field's maximum (2^31 - 1)
    MaxRecorded,    \* bound on the recordings into one counter
    MaxEmitted,     \* bound on the ordinary lines offered to the sink
    MaxTickets      \* bound on the live tickets

ASSUME InvocationAssumption ==
    /\ MaxGuards \in Nat \ {0} /\ MaxPermits \in Nat \ {0}
    /\ MaxRecorded \in Nat /\ MaxEmitted \in Nat /\ MaxTickets \in Nat
    /\ None \notin Caps

VARIABLES
    word,           \* the transition word
    caps,           \* every capability: "free", "minting" or live
    metrics,        \* the counters
    sealed,         \* the OnceLock a successful seal sets
    census,         \* live issued values, under its mutex
    lock,           \* the census mutex: a thread, or None
    tickets,        \* history: the tickets in existence
    tripped,        \* the cancellation flag
    tap_failed,     \* the tap's latch
    pc,             \* what each thread is doing
    loc,            \* its locals
    callback,       \* the capability whose sink callback the thread runs
    outcome         \* what the last seal or cancel in that callback returned

threadVars == <<pc, loc, callback, outcome>>
vars == <<sinkVars, word, caps, metrics, sealed, census, lock, tickets, tripped,
          tap_failed, threadVars>>

Units == {"guard", "permit"}
States == {"Open", "Finalizing", "Sealed", "Failed"}
Words == [state : States, saturated : BOOLEAN, guard : Nat, permit : Nat]

OpenWord == [state |-> "Open", saturated |-> FALSE, guard |-> 0, permit |-> 0]

FieldMax(unit) == IF unit = "guard" THEN MaxGuards ELSE MaxPermits

\* Variant: the field takes one count too many.
IsFull_Late(w, unit) == w[unit] = FieldMax(unit) + 1

\* word::is_full
IsFull(w, unit) == w[unit] = FieldMax(unit)

Free == [st |-> "free"]
Minting == [st |-> "minting"]
Live(unit, counted) == [st |-> "live", unit |-> unit, counted |-> counted]

IsLive(c) == caps[c].st = "live"

\* A live capability some thread is recording, emitting or minting through
\* cannot be dropped: the borrow checker's rule.
Borrowed(c) ==
    \E t \in Threads : \/ callback[t] = c
                       \/ pc[t] \in {"mint", "trip", "write", "account", "ticket"}
                             /\ loc[t].by = c

Counters == 1 .. NCounters
NoSnapshot == [k \in Counters |-> MaxRecorded + 1]

Idle == [by |-> None]

Init ==
    /\ SinkInit
    /\ word = OpenWord
    /\ caps = [c \in Caps |-> Free]
    /\ metrics = [k \in Counters |-> 0]
    /\ sealed = NoSnapshot
    /\ census = 0
    /\ lock = None
    /\ tickets = 0
    /\ tripped = FALSE
    /\ tap_failed = FALSE
    /\ pc = [t \in Threads |-> "idle"]
    /\ loc = [t \in Threads |-> Idle]
    /\ callback = [t \in Threads |-> None]
    /\ outcome = [t \in Threads |-> "none"]

Goto(t, where) == pc' = [pc EXCEPT ![t] = where]

\* History: only what a callback is told is kept.
Told(t, what) ==
    outcome' = [outcome EXCEPT ![t] = IF callback[t] = None THEN "none" ELSE what]

\* The operation ends and its locals go.
Return(t) == Goto(t, "idle") /\ loc' = [loc EXCEPT ![t] = Idle]

-----------------------------------------------------------------------------
(* Capabilities. *)

\* mint(): the load.  by is the live capability the Recorder is borrowed
\* from, or None for the control handle, which mints guards only.  A sink
\* callback may cancel and must not run other library work.
MintLoad(t, c, unit, by, then) ==
    /\ pc[t] = "idle"
    /\ caps[c] = Free
    /\ by = None => unit = "guard"
    /\ by # None => IsLive(by) /\ then = "call"
    /\ callback[t] # None => then = "cancel"
    /\ caps' = [caps EXCEPT ![c] = Minting]
    /\ Goto(t, "mint")
    /\ loc' = [loc EXCEPT ![t] = [by |-> by, cap |-> c, unit |-> unit,
                                  then |-> then, seen |-> word]]
    /\ UNCHANGED <<sinkVars, word, metrics, sealed, census, lock, tickets, tripped,
                   tap_failed, callback, outcome>>

\* The capability exists; cancel() goes on to trip the token under it.
Minted(t, counted) ==
    /\ caps' = [caps EXCEPT ![loc[t].cap] = Live(loc[t].unit, counted)]
    /\ IF loc[t].then = "cancel"
          THEN /\ Goto(t, "trip")
               /\ loc' = [loc EXCEPT ![t] = [by |-> loc[t].cap]]
          ELSE Return(t)

\* Variant: the word is stored, not exchanged.
Exchange_Store(t, seen, next, counted) ==
    word' = next /\ Minted(t, counted)

\* compare_exchange: on failure the loop goes on with the word it found.
Exchange(t, seen, next, counted) ==
    IF word = seen
       THEN word' = next /\ Minted(t, counted)
       ELSE /\ loc' = [loc EXCEPT ![t].seen = word]
            /\ UNCHANGED <<word, caps, pc>>

\* One turn of the loop with the word the thread last saw.  A nested mint
\* that were refused would leave an uncounted capability (unwrap_or(false)).
MintTurn(t) ==
    LET seen == loc[t].seen
        unit == loc[t].unit
        full == IsFull(seen, unit)
        next == IF full THEN [seen EXCEPT !.saturated = TRUE]
                        ELSE [seen EXCEPT ![unit] = @ + 1]
    IN /\ pc[t] = "mint"
       /\ \/ /\ seen.state # "Open"
             /\ IF loc[t].by = None
                   THEN /\ caps' = [caps EXCEPT ![loc[t].cap] = Free]
                        /\ Return(t)
                        /\ Told(t, IF loc[t].then = "cancel" THEN "Ended" ELSE "none")
                   ELSE Minted(t, FALSE) /\ UNCHANGED outcome
             /\ UNCHANGED word
          \/ /\ seen.state = "Open" /\ full /\ seen.saturated
             /\ Minted(t, FALSE)
             /\ UNCHANGED <<word, outcome>>
          \/ /\ seen.state = "Open" /\ ~(full /\ seen.saturated)
             /\ Exchange(t, seen, next, ~full)
             /\ UNCHANGED outcome
       /\ UNCHANGED <<sinkVars, metrics, sealed, census, lock, tickets, tripped,
                      tap_failed, callback>>

\* Drop for Call and Permit: a counted one retires.
Drop(c) ==
    /\ IsLive(c) /\ ~Borrowed(c)
    /\ word' = IF caps[c].counted THEN [word EXCEPT ![caps[c].unit] = @ - 1] ELSE word
    /\ caps' = [caps EXCEPT ![c] = Free]
    /\ UNCHANGED <<sinkVars, metrics, sealed, census, lock, tickets, tripped,
                   tap_failed, threadVars>>

\* A recording site adds to a counter through a live capability.
Record(c, k) ==
    /\ IsLive(c)
    /\ metrics[k] < MaxRecorded
    /\ metrics' = [metrics EXCEPT ![k] = @ + 1]
    /\ UNCHANGED <<sinkVars, word, caps, sealed, census, lock, tickets, tripped,
                   tap_failed, threadVars>>

\* cancel() past its admission.
Trip(t) ==
    /\ pc[t] = "trip"
    /\ tripped' = TRUE
    /\ Return(t)
    /\ UNCHANGED <<sinkVars, word, caps, metrics, sealed, census, lock, tickets,
                   tap_failed, callback, outcome>>

-----------------------------------------------------------------------------
(* Emission: the sink, then the tap. *)

\* CallSink::marker and counter: the guard that ignores a record once the
\* stream is closing.
EmitOpen(t, c) ==
    /\ pc[t] = "idle" /\ callback[t] = None
    /\ IsLive(c)
    /\ tried < MaxEmitted
    /\ cell = "open"
    /\ Goto(t, "write")
    /\ loc' = [loc EXCEPT ![t] = [by |-> c]]
    /\ UNCHANGED <<sinkVars, word, caps, metrics, sealed, census, lock, tickets,
                   tripped, tap_failed, callback, outcome>>

EmitWrite(t, sent) ==
    /\ pc[t] = "write"
    /\ Emit(Line("record", 0), sent)
    /\ Goto(t, "account")
    /\ loc' = [loc EXCEPT ![t] = [by |-> loc[t].by, sent |-> sent]]
    /\ UNCHANGED <<cell, drops, hard_error, word, caps, metrics, sealed, census, lock,
                   tickets, tripped, tap_failed, callback, outcome>>

\* deliver() then calls the tap, unless it is latched off.
EmitAccount(t) ==
    /\ pc[t] = "account"
    /\ AccountLine(loc[t].sent)
    /\ Return(t)
    /\ callback' = IF tap_failed THEN callback
                                 ELSE [callback EXCEPT ![t] = loc[t].by]
    /\ UNCHANGED <<cell, stream, tried, word, caps, metrics, sealed, census, lock,
                   tickets, tripped, tap_failed, outcome>>

\* contained(): the callback returns, or unwinds and is latched off.
TapReturns(t) ==
    /\ pc[t] = "idle" /\ callback[t] # None
    /\ callback' = [callback EXCEPT ![t] = None]
    /\ outcome' = [outcome EXCEPT ![t] = "none"]
    /\ tap_failed' \in {tap_failed, TRUE}
    /\ UNCHANGED <<sinkVars, word, caps, metrics, sealed, census, lock, tickets,
                   tripped, pc, loc>>

-----------------------------------------------------------------------------
(* The census. *)

\* Recorder::ticket and Drop for Ticket: census_adjust under the mutex.  A
\* ticket holds the control handle, so dropping one needs no capability.
TicketIssue(t, c) ==
    /\ pc[t] = "idle" /\ callback[t] = None
    /\ IsLive(c)
    /\ lock = None /\ tickets < MaxTickets
    /\ lock' = t
    /\ census' = census + 1
    /\ tickets' = tickets + 1
    /\ Goto(t, "ticket")
    /\ loc' = [loc EXCEPT ![t] = [by |-> c]]
    /\ UNCHANGED <<sinkVars, word, caps, metrics, sealed, tripped, tap_failed,
                   callback, outcome>>

TicketDrop(t) ==
    /\ pc[t] = "idle" /\ callback[t] = None
    /\ lock = None /\ tickets > 0
    /\ lock' = t
    /\ census' = IF census > 0 THEN census - 1 ELSE 0
    /\ tickets' = tickets - 1
    /\ Goto(t, "ticket")
    /\ loc' = [loc EXCEPT ![t] = Idle]
    /\ UNCHANGED <<sinkVars, word, caps, metrics, sealed, tripped, tap_failed,
                   callback, outcome>>

TicketUnlock(t) ==
    /\ pc[t] = "ticket"
    /\ lock' = None
    /\ Return(t)
    /\ UNCHANGED <<sinkVars, word, caps, metrics, sealed, census, tickets, tripped,
                   tap_failed, callback, outcome>>

-----------------------------------------------------------------------------
(* seal(). *)

\* Variant: an exchange that leaves the permits out of the word.
Sealable_IgnoresPermits == word.state = "Open" /\ ~word.saturated /\ word.guard = 0

\* What the one exchange expects: the all-zero word.
Sealable == word = OpenWord

SealExchange(t) ==
    /\ pc[t] = "idle"
    /\ IF Sealable
          THEN /\ word' = [word EXCEPT !.state = "Finalizing"]
               /\ Goto(t, "snapshot")
               /\ loc' = [loc EXCEPT ![t] = [by |-> None, i |-> 1, snap |-> NoSnapshot]]
          ELSE /\ Goto(t, "classify")
               /\ loc' = [loc EXCEPT ![t] = [by |-> None, seen |-> word]]
               /\ UNCHANGED word
    /\ outcome' = [outcome EXCEPT ![t] = "none"]
    /\ UNCHANGED <<sinkVars, caps, metrics, sealed, census, lock, tickets, tripped,
                   tap_failed, callback>>

SealReturns(t, what) ==
    /\ Return(t)
    /\ Told(t, what)

\* classify(): why not, from the word the exchange observed.
Reason(seen) ==
    CASE seen.guard > 0 -> "InProgress"
      [] seen.guard = 0 /\ seen.state = "Finalizing" -> "Finalizing"
      [] seen.guard = 0 /\ seen.state = "Sealed" ->
            IF sealed # NoSnapshot THEN "Sealed" ELSE "Finalizing"
      [] seen.guard = 0 /\ seen.state = "Failed" -> "FinalizationFailed"
      [] seen.guard = 0 /\ seen.state = "Open" ->
            IF seen.saturated THEN "Saturated"
            ELSE IF seen.permit = 0 THEN "Busy" ELSE "census"

Classify(t) ==
    /\ pc[t] = "classify"
    /\ IF Reason(loc[t].seen) = "census"
          THEN Goto(t, "census") /\ UNCHANGED <<loc, outcome>>
          ELSE SealReturns(t, Reason(loc[t].seen))
    /\ UNCHANGED <<sinkVars, word, caps, metrics, sealed, census, lock, tickets,
                   tripped, tap_failed, callback>>

\* Variant: lock() in place of try_lock().
ReadCensus_Waits(t) ==
    /\ pc[t] = "census"
    /\ lock = None
    /\ SealReturns(t, IF census = 0 THEN "Unticketed" ELSE "Outstanding")
    /\ UNCHANGED <<sinkVars, word, caps, metrics, sealed, census, lock, tickets,
                   tripped, tap_failed, callback>>

\* try_lock: it never waits.
ReadCensus(t) ==
    /\ pc[t] = "census"
    /\ SealReturns(t, IF lock # None THEN "Busy"
                      ELSE IF census = 0 THEN "Unticketed" ELSE "Outstanding")
    /\ UNCHANGED <<sinkVars, word, caps, metrics, sealed, census, lock, tickets,
                   tripped, tap_failed, callback>>

\* finalize(): each counter is read on its own.
SnapshotRead(t) ==
    /\ pc[t] = "snapshot" /\ loc[t].i <= NCounters
    /\ loc' = [loc EXCEPT ![t] =
                 [by |-> None, i |-> loc[t].i + 1,
                  snap |-> [loc[t].snap EXCEPT ![loc[t].i] = metrics[loc[t].i]]]]
    /\ UNCHANGED <<sinkVars, word, caps, metrics, sealed, census, lock, tickets,
                   tripped, tap_failed, pc, callback, outcome>>

\* An unwind before the commit point.
SnapshotPanics(t) ==
    /\ pc[t] = "snapshot"
    /\ word' = [OpenWord EXCEPT !.state = "Failed"]
    /\ SealReturns(t, "FinalizationFailed")
    /\ UNCHANGED <<sinkVars, caps, metrics, sealed, census, lock, tickets, tripped,
                   tap_failed, callback>>

\* Variant: Sealed is published before the commit point.
Commit_AfterPublish(t) ==
    /\ pc[t] = "snapshot" /\ loc[t].i > NCounters
    /\ word' = [OpenWord EXCEPT !.state = "Sealed"]
    /\ Goto(t, "close")
    /\ UNCHANGED <<sinkVars, sealed, caps, metrics, census, lock, tickets, tripped,
                   tap_failed, loc, callback, outcome>>

\* The commit point.
Commit(t) ==
    /\ pc[t] = "snapshot" /\ loc[t].i > NCounters
    /\ sealed' = loc[t].snap
    /\ Goto(t, "close")
    /\ UNCHANGED <<sinkVars, word, caps, metrics, census, lock, tickets, tripped,
                   tap_failed, loc, callback, outcome>>

SealCloses(t) ==
    /\ pc[t] = "close"
    /\ CloseBegins
    /\ Goto(t, "emissions")
    /\ loc' = [loc EXCEPT ![t] = [by |-> None, i |-> 1]]
    /\ UNCHANGED <<word, caps, metrics, sealed, census, lock, tickets, tripped,
                   tap_failed, callback, outcome>>

SealEmits(t, sent) ==
    /\ pc[t] = "emissions" /\ loc[t].i <= NCounters
    /\ SealingEmission(loc[t].i, sent)
    /\ loc' = [loc EXCEPT ![t].i = @ + 1]
    /\ UNCHANGED <<word, caps, metrics, sealed, census, lock, tickets, tripped,
                   tap_failed, pc, callback, outcome>>

\* An unwind of the emissions (at most the hook after them) only marks the
\* stream failed.
SealTerminal(t, unwound, sent) ==
    /\ pc[t] = "emissions" /\ loc[t].i > NCounters
    /\ Terminal(unwound, sent)
    /\ Goto(t, "ending")
    /\ loc' = [loc EXCEPT ![t] = [by |-> None, kind |-> TerminalKind(unwound),
                                  before |-> drops, sent |-> sent]]
    /\ UNCHANGED <<word, caps, metrics, sealed, census, lock, tickets, tripped,
                   tap_failed, callback, outcome>>

SealEnds(t) ==
    /\ pc[t] = "ending"
    /\ CloseEnds(loc[t].kind, loc[t].before, loc[t].sent)
    /\ Goto(t, "publish")
    /\ loc' = [loc EXCEPT ![t] = Idle]
    /\ UNCHANGED <<word, caps, metrics, sealed, census, lock, tickets, tripped,
                   tap_failed, callback, outcome>>

SealPublishes(t) ==
    /\ pc[t] = "publish"
    /\ word' = [OpenWord EXCEPT !.state = "Sealed"]
    /\ SealReturns(t, "Sealed")
    /\ UNCHANGED <<sinkVars, caps, metrics, sealed, census, lock, tickets, tripped,
                   tap_failed, callback>>

-----------------------------------------------------------------------------
\* A seal past its first step: it takes no lock and waits for nobody.
SealStep(t) ==
    \/ Classify(t) \/ ReadCensus(t)
    \/ SnapshotRead(t) \/ SnapshotPanics(t) \/ Commit(t)
    \/ SealCloses(t) \/ SealEnds(t) \/ SealPublishes(t)
    \/ \E sent \in Sent : SealEmits(t, sent)
    \/ \E sent \in Sent, unwound \in BOOLEAN : SealTerminal(t, unwound, sent)

Next ==
    \/ \E t \in Threads, c \in Caps, unit \in Units, by \in Caps \cup {None},
          then \in {"call", "cancel"} : MintLoad(t, c, unit, by, then)
    \/ \E t \in Threads :
          \/ MintTurn(t) \/ Trip(t)
          \/ EmitAccount(t) \/ TapReturns(t)
          \/ TicketDrop(t) \/ TicketUnlock(t)
          \/ SealExchange(t) \/ SealStep(t)
    \/ \E t \in Threads, c \in Caps : EmitOpen(t, c) \/ TicketIssue(t, c)
    \/ \E t \in Threads, sent \in Sent : EmitWrite(t, sent)
    \/ \E c \in Caps : Drop(c)
    \/ \E c \in Caps, k \in Counters : Record(c, k)

Spec == Init /\ [][Next]_vars

-----------------------------------------------------------------------------
Outcomes == {"none", "Ended", "InProgress", "Finalizing", "Sealed",
             "FinalizationFailed", "Saturated", "Busy", "Unticketed", "Outstanding"}

TypeOK ==
    /\ SinkTypeOK
    /\ word \in Words
    /\ word.guard <= MaxGuards /\ word.permit <= MaxPermits
    /\ \A c \in Caps :
          caps[c] \in {Free, Minting} \cup {Live(u, b) : u \in Units, b \in BOOLEAN}
    /\ metrics \in [Counters -> 0 .. MaxRecorded]
    /\ sealed \in [Counters -> 0 .. MaxRecorded + 1]
    /\ census \in 0 .. MaxTickets /\ tickets \in 0 .. MaxTickets
    /\ lock \in Threads \cup {None}
    /\ tripped \in BOOLEAN /\ tap_failed \in BOOLEAN
    /\ \A t \in Threads : callback[t] \in Caps \cup {None} /\ outcome[t] \in Outcomes

\* While any capability exists the invocation is Open: a capability minted
\* under a live one is never refused, and no seal begins under a recorder
\* (Recorder::call "Never refused", seal()'s one exchange).
LiveKeepsOpen ==
    (\E c \in Caps : IsLive(c)) => word.state = "Open"

\* The snapshot a seal stored is the last word on every counter, although it
\* reads them one at a time: nothing records after the exchange.  Whoever
\* observes Sealed finds the snapshot (classify's `sealed.get()`).
SnapshotIsFinal ==
    /\ sealed # NoSnapshot => sealed = metrics
    /\ word.state = "Sealed" => sealed # NoSnapshot
    /\ \A t \in Threads :
          pc[t] = "classify" /\ loc[t].seen.state = "Sealed" => sealed # NoSnapshot

\* The lifecycle only moves forward, and an invocation that has saturated a
\* count is Open for good ("a saturated invocation can never seal").  The
\* token is never tripped once a seal has begun: a cancel() that returns
\* Ended "trips nothing", and one that was admitted trips before any seal.
Forward ==
    [][/\ tripped' # tripped => word.state = "Open"
       /\ word.state \in {"Sealed", "Failed"} => word' = word
       /\ word.state = "Finalizing" => word'.state # "Open"
       /\ word.saturated => word'.saturated /\ word'.state = "Open"]_vars

\* A seal can always take its next step, of which there are boundedly many,
\* although every other thread may have stopped where it is, with the census
\* mutex held or a capability leaked: "It never waits and never retries."
SealNeverWaits ==
    \A t \in Threads :
       pc[t] \in {"classify", "census", "snapshot", "close", "emissions", "ending",
                  "publish"} => ENABLED SealStep(t)

\* debug.rs on InstrumentSink: "a seal attempted from inside a callback is
\* refused as a call in progress".
SealInCallbackIsInProgress ==
    \A t \in Threads :
       callback[t] # None /\ outcome[t] \notin {"none", "Ended"} =>
          outcome[t] = "InProgress"

-----------------------------------------------------------------------------


\* No thread and no capability is told apart by the specification.
Symmetry == Permutations(Threads) \cup Permutations(Caps)
=============================================================================
