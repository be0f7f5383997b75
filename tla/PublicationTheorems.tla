------------------------ MODULE PublicationTheorems -------------------------
(***************************************************************************)
(* What the publication run checks of one output, for any number of        *)
(* members, from the invariant of PublicationProofs.                       *)
(***************************************************************************)
EXTENDS MCPublish, PublicationProofs

-----------------------------------------------------------------------------
(* One publication, at every step. *)

LEMMA PublicationInvariant == BothSpec => [](part = "publication" => PubInv)
  <1>1. BothInit => (part = "publication" => PubInv)
    <2>1. "publication" # "units"
      OBVIOUS
    <2> QED
      BY <2>1, PubStart, Zenon DEF BothInit
  <1>2. (part = "publication" => PubInv) /\ [BothNext]_<<part, vars, units>> => (part = "publication" => PubInv)'
    <2> SUFFICES ASSUME part = "publication" => PubInv, [BothNext]_<<part, vars, units>>, part' = "publication"
                 PROVE  PubInv'
      OBVIOUS
    <2>1. part = "publication" /\ PubInv
      BY Zenon DEF BothNext
    <2>2. CASE Next
      BY <2>1, <2>2, PubStep, Zenon
    <2>3. CASE UNCHANGED vars
      BY <2>1, <2>3, StutterKeeps, Zenon
    <2>4. "publication" # "units"
      OBVIOUS
    <2> QED
      BY <2>1, <2>2, <2>3, <2>4, Zenon DEF BothNext
  <1> QED
    BY <1>1, <1>2, PTL DEF BothSpec

\* A crash at any moment leaves whole generations: a destination that existed
\* holds its previous output or the new one, or nothing while its backup is
\* whole; and once the new one stands there, a power loss that takes any set of
\* unsynced directory changes leaves one of them recoverable.  The chain of
\* syncs of `install_replacing` before the rename is what it rests on.
THEOREM PublicationKeepsGenerationsTheorem == BothSpec => []PublicationKeepsGenerations
  <1>1. (part = "publication" => PubInv) => PublicationKeepsGenerations
    BY GenerationsKept, Zenon DEF PublicationKeepsGenerations
  <1> QED
    BY <1>1, PublicationInvariant, PTL

\* What `execute` and its targets tell the caller is true: the effect read from
\* the recorded transitions is what happened to the destination, success means
\* every member installed, a plain error every one as it was, an incomplete
\* rollback names exactly the others, and nothing is left behind unreported.
THEOREM PublicationTellsTrueTheorem == BothSpec => []PublicationTellsTrue
  <1>1. (part = "publication" => PubInv) => PublicationTellsTrue
    BY ResultsTrue, Zenon DEF PublicationTellsTrue
  <1> QED
    BY <1>1, PublicationInvariant, PTL

\* No step of `execute` changes a destination before every member's staged
\* contents are synced, and none replaces or removes what another process put
\* at the destination of an exclusive output.
THEOREM PublicationKeepsDestinationsTheorem == BothSpec => PublicationKeepsDestinations
  <1>1. (part = "publication" => PubInv) /\ [BothNext]_<<part, vars, units>>
           => [part = "publication" => DestinationStep]_<<part, vars>>
    <2> SUFFICES ASSUME part = "publication" => PubInv, [BothNext]_<<part, vars, units>>, part = "publication"
                 PROVE  DestinationStep \/ UNCHANGED <<part, vars>>
      BY Zenon
    <2>1. "publication" # "units"
      OBVIOUS
    <2>2. CASE Next
      BY <2>2, DestinationsKept, Zenon
    <2> QED
      BY <2>1, <2>2, Zenon DEF BothNext
  <1> QED
    BY <1>1, PublicationInvariant, PTL DEF BothSpec, PublicationKeepsDestinations
=============================================================================
