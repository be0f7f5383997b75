---------------------------- MODULE FirstFailure ----------------------------
(***************************************************************************)
(* The first-failure record shared by the threads of one writer pool       *)
(* (src/write/pool_failure.rs).  The slot is filled and the stop flag      *)
(* published under one mutex, so the two are one variable here.            *)
(***************************************************************************)

CONSTANT NoFailure

VARIABLE first

FailureInit == first = NoFailure

\* record: a later failure does not outrank the first.
Record(e) == first' = IF first = NoFailure THEN e ELSE first

stopped == first # NoFailure
=============================================================================
