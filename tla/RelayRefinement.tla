-------------------------- MODULE RelayRefinement --------------------------
(***************************************************************************)
(* The relay implements Handoff: uploads, blobs, cleaners and crashes are  *)
(* invisible, a row that is being received does not exist yet.             *)
(***************************************************************************)
EXTENDS Relay

StageOf == [none |-> "absent", receiving |-> "absent", ready |-> "ready",
            acknowledged |-> "taken", failed |-> "lost"]

Promise == INSTANCE Handoff WITH
  drop      <- dp,
  sub       <- [k \in Keys |-> StageOf[status[k]]],
  content   <- owner,
  Contents  <- Uploads,
  NoContent <- NoOne

\* Every step of the relay is a step of the promised life cycle or invisible: a
\* submission is offered once and while its drop point is open, keeps its content,
\* leaves "ready" only by an acknowledgement while the drop point lives, and no
\* drop point returns from its end (the transitions of SPEC.md:103-113).
ImplementsHandoff == Promise!HandoffSpec
=============================================================================
