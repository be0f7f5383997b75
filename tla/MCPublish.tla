----------------------------- MODULE MCPublish ------------------------------
(* Publication and PublishUnit for TLC, side by side: a behaviour is one of  *)
(* an output's publication, step by step on the file system, or one of the   *)
(* publication log and its threads, which takes an execution as one step.    *)
(* The variables of the other stand still.                                   *)
EXTENDS Publication, Sequences, TLC

CONSTANTS Threads, NoThread, Effects, MaxUnits

\* A free lock is not a thread's.
ASSUME UnitsAssumption == NoThread \notin Threads

VARIABLES part,
          rows, pending, decided, latest_authorized, executing,
          tripped, told, owner, session, open, lost, lock, cur, ready, answers

U == INSTANCE PublishUnit

alone == <<count, shape, overwrite, placement, had, view, disk, synced, state, moved, linked, at,
           present, upto, todo, unsynced, named, warned, result>>
units == <<rows, pending, decided, latest_authorized, executing,
           tripped, told, owner, session, open, lost, lock, cur, ready, answers>>

BothInit ==
    \/ /\ part = "publication" /\ Init
       /\ rows = 0 /\ pending = 0 /\ decided = 0 /\ latest_authorized = 0 /\ executing = 0 /\ tripped = 0 /\ told = 0
       /\ owner = 0 /\ session = 0 /\ open = 0 /\ lost = 0 /\ lock = 0 /\ cur = 0 /\ ready = 0
       /\ answers = 0
    \/ /\ part = "units" /\ U!Init
       /\ count = 0 /\ shape = 0 /\ overwrite = 0 /\ placement = 0 /\ had = 0 /\ view = 0 /\ disk = 0
       /\ synced = 0 /\ state = 0 /\ moved = 0 /\ linked = 0 /\ at = 0 /\ present = 0 /\ upto = 0
       /\ todo = 0 /\ unsynced = 0 /\ named = 0 /\ warned = 0 /\ result = 0

BothNext ==
    \/ part = "publication" /\ Next /\ UNCHANGED <<part, units>>
    \/ part = "units" /\ U!Next /\ UNCHANGED <<part, alone>>

BothSpec == BothInit /\ [][BothNext]_<<part, vars, units>>

ThreadSymmetry == Permutations(Threads)

\* A crash at any moment leaves whole generations (Publication).
PublicationKeepsGenerations == part = "publication" => GenerationKept

\* The answer and its report say what the file system holds (Publication).
PublicationTellsTrue == part = "publication" => ResultIsTrue

\* Nobody else's destination is lost (Publication).
PublicationKeepsDestinations == [][part = "publication" => DestinationStep]_<<part, vars>>

\* Each output is decided exactly once, and one publication executes at a time
\* (PublishUnit).
UnitsDecidedInTurn == part = "units" => U!DecidedExactlyOnce /\ U!OneAtATime

\* cancel answers what its effect was (PublishUnit).
CancelAnswersTrue == part = "units" => U!CancelToldTrue
=============================================================================
