---------------------------- MODULE PublishUnit -----------------------------
(* Publication of one unit (src/publication.rs): the invocation's log and the *)
(* threads that publish through it.                                           *)
EXTENDS Integers, Sequences, FiniteSets

-----------------------------------------------------------------------------
(***************************************************************************)
(* An invocation's publication log (src/publication.rs): the pending       *)
(* units, one row per decided unit, the latest authorized ordinal and the  *)
(* thread executing an authorized publication.  Every operation runs under *)
(* the log's mutex, so each is one step of whoever calls it.               *)
(***************************************************************************)

CONSTANTS Threads, NoThread,
          Effects             \* the effects an execution may record

VARIABLES rows,               \* one row per decided unit, in ordinal order
          pending,            \* the undecided units, in bind order
          decided,            \* each unit's decision, indexed by unit (from 1)
          latest_authorized,  \* the latest authorized ordinal, 0 for none
          executing           \* the thread executing, or NoThread

log == <<rows, pending, decided, latest_authorized, executing>>

Decisions == {"Authorized", "RefusedCancelled", "RefusedError"}
Undecided == "Undecided"

LogInit ==
    /\ rows = <<>> /\ pending = <<>> /\ decided = <<>>
    /\ latest_authorized = 0
    /\ executing = NoThread

IsPending(u) == \E k \in DOMAIN pending : pending[k] = u

(* push_row: a refused row is born finished. *)
Row(u, decision) == [unit |-> u, decision |-> decision,
                     finished |-> decision # "Authorized", effect |-> "None"]

(* enlist: unit ids count up from the first *)
Enlist ==
    /\ pending' = Append(pending, Len(decided) + 1)
    /\ decided' = Append(decided, Undecided)
    /\ UNCHANGED <<rows, latest_authorized, executing>>

reentered(t) == executing = t

(* The position of a pending unit, and what is left without it. *)
Position(u) == CHOOSE k \in DOMAIN pending : pending[k] = u
Without(u) == [i \in 1 .. Len(pending) - 1 |-> pending[IF i < Position(u) THEN i ELSE i + 1]]

DecideNow_OffByOne(t, u, decision) ==
    /\ pending' = Without(u)
    /\ rows' = Append(rows, Row(u, decision))
    /\ decided' = [decided EXCEPT ![u] = decision]
    /\ IF decision = "Authorized"
       THEN latest_authorized' = Len(rows') + 1 /\ executing' = t
       ELSE UNCHANGED <<latest_authorized, executing>>

(* decide, for a unit still pending *)
DecideNow(t, u, decision) ==
    /\ pending' = Without(u)
    /\ rows' = Append(rows, Row(u, decision))
    /\ decided' = [decided EXCEPT ![u] = decision]
    /\ IF decision = "Authorized"
       THEN latest_authorized' = Len(rows) + 1 /\ executing' = t
       ELSE UNCHANGED <<latest_authorized, executing>>

Decide_Again(t, u, decision) == DecideNow(t, u, decision)

(* decide: the one pending-to-decided transition; an earlier one stands *)
Decide(t, u, decision) ==
    IF IsPending(u) THEN DecideNow(t, u, decision) ELSE UNCHANGED log

(* finish: record the effects and end the execution *)
FinishRow(ordinal, effect) ==
    /\ rows' = [rows EXCEPT ![ordinal] = [@ EXCEPT !.effect = effect, !.finished = TRUE]]
    /\ executing' = NoThread
    /\ UNCHANGED <<pending, decided, latest_authorized>>

(* cancel: every pending unit is refused, in bind order *)
CancelPending ==
    /\ rows' = rows \o [k \in DOMAIN pending |-> Row(pending[k], "RefusedCancelled")]
    /\ pending' = <<>>
    /\ decided' = [u \in DOMAIN decided |-> IF IsPending(u) THEN "RefusedCancelled" ELSE decided[u]]
    /\ UNCHANGED <<latest_authorized, executing>>

(* what cancel answers *)
CancelOutcome ==
    CASE pending # <<>> -> [kind |-> "BeforeDecision", ordinal |-> Len(rows) + 1]
      [] pending = <<>> /\ latest_authorized # 0 ->
            [kind |-> "AfterDecision", ordinal |-> latest_authorized]
      [] OTHER -> [kind |-> "NoPublicationPending", ordinal |-> 0]

CancelLog == IF pending = <<>> THEN UNCHANGED log ELSE CancelPending

LogTypeOK ==
    /\ \A k \in DOMAIN rows : /\ rows[k].unit \in DOMAIN decided
                              /\ rows[k].decision \in Decisions
                              /\ rows[k].finished \in BOOLEAN
                              /\ rows[k].effect \in Effects \union {"None"}
    /\ \A k \in DOMAIN pending : pending[k] \in DOMAIN decided
    /\ \A u \in DOMAIN decided : decided[u] \in Decisions \union {Undecided}
    /\ latest_authorized \in 0 .. Len(rows)
    /\ executing \in Threads \union {NoThread}

-----------------------------------------------------------------------------
RowsAgree ==
    /\ \A j, k \in DOMAIN pending : j < k => pending[j] < pending[k]
    /\ \A u \in DOMAIN decided :
           IF decided[u] = Undecided
           THEN IsPending(u) /\ \A k \in DOMAIN rows : rows[k].unit # u
           ELSE /\ ~IsPending(u)
                /\ \E k \in DOMAIN rows : rows[k].unit = u /\ rows[k].decision = decided[u]
                /\ \A j, k \in DOMAIN rows : rows[j].unit = u /\ rows[k].unit = u => j = k

OrdinalsAreExecutionOrder ==
    \A j, k \in DOMAIN rows :
        j < k /\ rows[j].decision = "Authorized" /\ rows[k].decision = "Authorized"
            => rows[j].finished

-----------------------------------------------------------------------------
(***************************************************************************)
(* Deciding the outputs bound to one invocation (src/output.rs             *)
(* publish_unit, Enlisted, Completion, the writers; src/host.rs cancel).   *)
(* Threads bind outputs, write them, publish or drop them, and cancel, and *)
(* a thread executing a publication runs caller code (hooks, the sink)     *)
(* that may do any of that again.  What an execution does to destinations  *)
(* is module Publication; here it is the effect it records.                *)
(***************************************************************************)

CONSTANTS MaxUnits        \* the outputs bound in one behaviour

VARIABLES tripped,     \* the cancellation token
          told,        \* what the calls of cancel answered
          owner,       \* each unit's bound owner: "bound", "publishing", "gone"
          session,     \* each unit's writing session
          open,        \* the units whose writer holds the staging file
          lost,        \* the units one of whose writes failed
          lock,        \* the holder of the publication execution lock
          pc, cur,     \* where each thread is in publish_unit, and its unit
          ready,       \* what check_ready found
          answers      \* the results publish returned

writers == <<session, open, lost>>
unitvars == <<owner, writers>>
threadvars == <<lock, pc, cur, ready, answers>>
vars == <<log, tripped, told, unitvars, threadvars>>

Units == DOMAIN decided

Init ==
    /\ LogInit
    /\ tripped = FALSE /\ told = {}
    /\ owner = <<>> /\ session = <<>> /\ open = {} /\ lost = {}
    /\ lock = NoThread
    /\ pc = [t \in Threads |-> "idle"]
    /\ cur = [t \in Threads |-> 0]
    /\ ready = [t \in Threads |-> FALSE]
    /\ answers = {}

(* Caller code runs on an idle thread, and on one executing a publication. *)
RunsCaller(t) == pc[t] \in {"idle", "execute"}

Moves(t, to) == pc' = [pc EXCEPT ![t] = to]

(* publish_unit returns, dropping its execution lock, its locals and the owner. *)
Returns(t) ==
    /\ lock' = NoThread
    /\ owner' = [owner EXCEPT ![cur[t]] = "gone"]
    /\ Moves(t, "idle")
    /\ cur' = [cur EXCEPT ![t] = 0]
    /\ ready' = [ready EXCEPT ![t] = FALSE]

Answer(a) == answers' = answers \union {a}

-----------------------------------------------------------------------------
(* Binding, and the writing session. *)

(* Output::bind_under: the unit is enlisted and owned at once. *)
Bind(t) ==
    /\ RunsCaller(t) /\ Len(decided) < MaxUnits
    /\ Enlist
    /\ owner' = Append(owner, "bound")
    /\ session' = Append(session, "Reserved")
    /\ UNCHANGED <<tripped, told, open, lost, threadvars>>

InSession(u, s) == session' = [session EXCEPT ![u] = s]

(* begin: a second session on one output is refused; opening the staging   *)
(* file may fail.                                                          *)
OpenWriter(u) ==
    /\ owner[u] = "bound" /\ session[u] = "Reserved"
    /\ \/ InSession(u, "Writing") /\ open' = open \union {u}
       \/ InSession(u, "Failed") /\ UNCHANGED open
    /\ UNCHANGED <<log, tripped, told, owner, lost, threadvars>>

(* A write that fails, or that the token refuses, fails the session. *)
WriteFails(u) ==
    /\ u \in open
    /\ InSession(u, "Failed")
    /\ lost' = lost \union {u}
    /\ UNCHANGED <<log, tripped, told, owner, open, threadvars>>

CompletionFinish_Overwrites(u) == InSession(u, "Finished")

(* Completion::finish: nothing but Writing becomes Finished. *)
CompletionFinish(u) ==
    IF session[u] = "Writing" THEN InSession(u, "Finished") ELSE UNCHANGED session

(* The end of stream, a checked flush that releases the file for good.  A  *)
(* text writer observes the token and fails; the end of stream of a PBF or *)
(* directory writer does not.                                              *)
FinishWriter(u) ==
    /\ u \in open
    /\ \/ /\ CompletionFinish(u)
          /\ open' = open \ {u}
          /\ UNCHANGED lost
       \/ /\ InSession(u, "Failed")
          /\ UNCHANGED open
          /\ lost' \in {lost, lost \union {u}}
    /\ UNCHANGED <<log, tripped, told, owner, threadvars>>

(* A write after the end of stream wrote nothing and fails the session. *)
WriteAfterEnd(u) ==
    /\ session[u] = "Finished"
    /\ InSession(u, "Failed")
    /\ UNCHANGED <<log, tripped, told, owner, open, lost, threadvars>>

-----------------------------------------------------------------------------
(* publish_unit *)

(* A publication attempted by the thread executing one is refused, under   *)
(* the log's lock, and the owner is consumed.                              *)
RefuseReentry(t, u) ==
    /\ Decide(t, u, "RefusedError")
    /\ Answer(IF IsPending(u) \/ decided[u] # "RefusedCancelled" THEN "Reentered" ELSE "Cancelled")
    /\ owner' = [owner EXCEPT ![u] = "gone"]
    /\ UNCHANGED <<pc, cur>>

EnterPublish_NoCheck(t, u) ==
    /\ RunsCaller(t) /\ owner[u] = "bound"
    /\ owner' = [owner EXCEPT ![u] = "publishing"]
    /\ Moves(t, "lock")
    /\ cur' = [cur EXCEPT ![t] = u]
    /\ UNCHANGED <<log, answers, tripped, told, writers, lock, ready>>

EnterPublish(t, u) ==
    /\ RunsCaller(t) /\ owner[u] = "bound"
    /\ IF reentered(t)
       THEN RefuseReentry(t, u)
       ELSE /\ owner' = [owner EXCEPT ![u] = "publishing"]
            /\ Moves(t, "lock")
            /\ cur' = [cur EXCEPT ![t] = u]
            /\ UNCHANGED <<log, answers>>
    /\ UNCHANGED <<tripped, told, writers, lock, ready>>

TakeLock(t) ==
    /\ pc[t] = "lock" /\ lock = NoThread
    /\ lock' = t
    /\ Moves(t, "ready")
    /\ UNCHANGED <<log, tripped, told, unitvars, cur, ready, answers>>

(* check_ready of every member: a finished session, the reserved staging. *)
CheckReady(t) ==
    /\ pc[t] = "ready"
    /\ \E replaced \in BOOLEAN :
           ready' = [ready EXCEPT ![t] = (session[cur[t]] = "Finished") /\ ~replaced]
    /\ Moves(t, "decide")
    /\ UNCHANGED <<log, tripped, told, unitvars, lock, cur, answers>>

Decision_ReadyFirst(t) ==
    CASE ready[t]             -> "Authorized"
      [] ~ready[t] /\ tripped -> "RefusedCancelled"
      [] OTHER                -> "RefusedError"

Decision(t) ==
    CASE tripped               -> "RefusedCancelled"
      [] ~tripped /\ ~ready[t] -> "RefusedError"
      [] OTHER                 -> "Authorized"

(* What an attempt that authorized nothing returns. *)
Refusal(t, u) ==
    CASE IsPending(u) /\ Decision(t) = "RefusedCancelled"   -> "Cancelled"
      [] IsPending(u) /\ Decision(t) = "RefusedError"       -> "NotReady"
      [] ~IsPending(u) /\ decided[u] = "RefusedCancelled"   -> "Cancelled"
      [] OTHER                                              -> "DecidedTwice"

(* Under the log's lock; a refusal returns, releasing the execution lock   *)
(* and consuming the owner, whose drop finds the unit decided.             *)
DecideUnit(t) ==
    /\ pc[t] = "decide"
    /\ Decide(t, cur[t], Decision(t))
    /\ IF IsPending(cur[t]) /\ Decision(t) = "Authorized"
       THEN Moves(t, "execute") /\ UNCHANGED <<lock, owner, cur, ready, answers>>
       ELSE Answer(Refusal(t, cur[t])) /\ Returns(t)
    /\ UNCHANGED <<tripped, told, writers>>

(* execute has returned or unwound: the row is finished from the effects,  *)
(* a panic among them, before the execution lock is released.              *)
ExecuteEnds(t) ==
    /\ pc[t] = "execute"
    /\ \E effect \in Effects : FinishRow(latest_authorized, effect)
    /\ Moves(t, "release")
    /\ UNCHANGED <<tripped, told, unitvars, lock, cur, ready, answers>>

Release(t) ==
    /\ pc[t] = "release"
    /\ Returns(t)
    /\ UNCHANGED <<log, tripped, told, writers, answers>>

-----------------------------------------------------------------------------
(* Enlisted::drop: an owner abandoned undecided decides its unit. *)
DropOwner(t, u) ==
    /\ RunsCaller(t) /\ owner[u] = "bound"
    /\ Decide(t, u, IF tripped THEN "RefusedCancelled" ELSE "RefusedError")
    /\ owner' = [owner EXCEPT ![u] = "gone"]
    /\ UNCHANGED <<tripped, told, writers, threadvars>>

(* Invocation::cancel: the token and the pending units, under the log. *)
Cancel(t) ==
    /\ RunsCaller(t)
    /\ tripped' = TRUE
    /\ told' = told \union {CancelOutcome}
    /\ CancelLog
    /\ UNCHANGED <<unitvars, threadvars>>

PublishStep(t) == TakeLock(t) \/ CheckReady(t) \/ DecideUnit(t) \/ ExecuteEnds(t) \/ Release(t)

CallerStep(t) ==
    \/ Bind(t) \/ Cancel(t)
    \/ \E u \in Units : EnterPublish(t, u) \/ DropOwner(t, u)

WriterStep(u) == OpenWriter(u) \/ WriteFails(u) \/ FinishWriter(u) \/ WriteAfterEnd(u)

Next == \/ \E t \in Threads : PublishStep(t) \/ CallerStep(t)
        \/ \E u \in Units : WriterStep(u)

Spec == Init /\ [][Next]_vars

-----------------------------------------------------------------------------
(* Properties. *)

(* Every variable keeps its type. *)
TypeOK ==
    /\ LogTypeOK
    /\ tripped \in BOOLEAN
    /\ \A o \in told : o.ordinal \in 0 .. Len(rows)
    /\ DOMAIN owner = Units /\ DOMAIN session = Units /\ open \subseteq Units /\ lost \subseteq Units
    /\ \A u \in Units : /\ owner[u] \in {"bound", "publishing", "gone"}
                        /\ session[u] \in {"Reserved", "Writing", "Finished", "Failed"}
    /\ lock \in Threads \union {NoThread}
    /\ \A t \in Threads :
           /\ pc[t] \in {"idle", "lock", "ready", "decide", "execute", "release"}
           /\ cur[t] \in {0} \union Units /\ ready[t] \in BOOLEAN
    /\ answers \subseteq {"Cancelled", "NotReady", "Reentered", "DecidedTwice"}

(* What cancel answered stays true: the units it refused are refused in    *)
(* rows from the ordinal it named on, the publication it found authorized  *)
(* is the last ever authorized, and where it found neither none ever is.   *)
CancelToldTrue ==
    \A o \in told :
        /\ o.kind = "BeforeDecision" => rows[o.ordinal].decision = "RefusedCancelled"
        /\ o.kind = "AfterDecision"  => rows[o.ordinal].decision = "Authorized"
        /\ \A k \in DOMAIN rows : k > o.ordinal => rows[k].decision # "Authorized"

(* Every unit is either pending, in bind order, or has exactly one row,    *)
(* with the decision a waiting publisher is later told of.  publish never  *)
(* meets a unit someone else decided otherwise than by cancelling: the     *)
(* internal error "decided twice" is unreachable.  An output is authorized *)
(* only if no write of it was lost, whatever its writer did after the loss *)
(* and however the session raced the decision.                             *)
DecidedExactlyOnce ==
    /\ RowsAgree /\ "DecidedTwice" \notin answers
    /\ \A k \in DOMAIN rows : rows[k].decision = "Authorized" => rows[k].unit \notin lost

(* Ordinal order is execution order: a publication is authorized only once *)
(* the effects of every earlier authorized one are recorded.  The          *)
(* executing mark is the lock holder's, exactly while its authorized row   *)
(* is unfinished: a callback is told re-entry, no one else is, and no      *)
(* thread waits for the lock it holds.                                     *)
OneAtATime ==
    /\ OrdinalsAreExecutionOrder
    /\ \A t \in Threads : pc[t] = "lock" => lock # t
    /\ executing # NoThread => lock = executing /\ pc[executing] = "execute"
    /\ executing = NoThread <=> \A k \in DOMAIN rows : rows[k].finished
=============================================================================
