----------------------------- MODULE RelayBase -----------------------------
(***************************************************************************)
(* The constants every module of the relay shares, and the two variables   *)
(* that belong to no component: the state of the server process and the    *)
(* number of injected faults.                                              *)
(*                                                                         *)
(* A submission is identified by its key <<d, s>>: the drop point d and    *)
(* the submission id s the sender chose (internal/store/migrate.go makes   *)
(* that pair the primary key).  An upload handler u carries one content;   *)
(* the name u stands for that content wherever it is stored.               *)
(***************************************************************************)
EXTENDS Naturals, FiniteSets

CONSTANTS DropPoints,       \* identifiers of drop points, fresh and random in the code
          SubIds,           \* submission ids chosen by senders
          Uploads,          \* concurrent HandleSubmitDrop requests
          Requests,         \* concurrent receiver requests (pickup, acknowledge, close)
          Cleaners,         \* processes that run cleanup.Service.Expire
          Loop,             \* the cleaner that lives inside the server process
          NoOne,            \* no content
          MaxPending,       \* max_pending_submissions of a drop point
          MaxPendingBytes,  \* max_pending_bytes of a drop point
          SizeOf,           \* encrypted size of the content of each upload
          MaxActive,        \* active drop points the API token may have
          MaxFaults,        \* bound: injected faults and crashes in one behaviour
          SweepIsolated,    \* no drop point is created between the two orphan listings
          HandlersInTime    \* no upload handler works longer than ReceivingStaleAfter

Keys == DropPoints \X SubIds

ASSUME SetsAssumption ==
  /\ Loop \in Cleaners
  /\ NoOne \notin Uploads
  /\ DropPoints # {} /\ SubIds # {}

ASSUME SizesAssumption ==
  /\ MaxPending \in Nat /\ MaxPendingBytes \in Nat /\ MaxActive \in Nat
  /\ MaxFaults \in Nat
  /\ SizeOf \in [Uploads -> Nat]

ASSUME TimingAssumption == SweepIsolated \in BOOLEAN /\ HandlersInTime \in BOOLEAN

Owners == Uploads \cup {NoOne}

\* The value of a key register that no handler is using.
AnyKey == CHOOSE k \in Keys : TRUE
AnyDropPoint == CHOOSE d \in DropPoints : TRUE

KeysOf(d) == {k \in Keys : k[1] = d}

VARIABLES server, \* "down", "starting" (ReconcileStartup runs) or "serving"
          faults  \* faults injected so far

baseVars == <<server, faults>>

Fault == /\ faults < MaxFaults
         /\ faults' = faults + 1
=============================================================================
