------------------------------- MODULE Store -------------------------------
(***************************************************************************)
(* The SQLite metadata store: the drop_points and submissions tables and   *)
(* the statements of internal/store/repository.go.  The pool holds one     *)
(* connection and every statement or transaction is atomic, so each is one *)
(* operator here; a repository method of several statements is several     *)
(* actions where another process can tell.                                 *)
(*                                                                         *)
(* Time is kept as the regions the statements compare: a drop point is     *)
(* lapsed once expires_at <= now, aged once it passed the terminal         *)
(* retention, and a receiving row is stale once receiving_started_at is    *)
(* older than ReceivingStaleAfter.                                         *)
(***************************************************************************)
EXTENDS RelayBase, FiniteSetsExt

VARIABLES dp,     \* status of each drop point row
          lapsed, \* drop points whose expires_at has passed
          aged,   \* drop points whose end is older than the retention
          status, \* status of each submission row
          ptr,    \* keys whose envelope_path and payload_path are set
          stale,  \* receiving rows older than the stale bound
          owner,  \* content whose size the row records (encrypted_size)
          picked  \* keys whose first_picked_up_at is set

storeVars == <<dp, lapsed, aged, status, ptr, stale, owner, picked>>
rowVars == <<status, ptr, stale, owner, picked>>
clockVars == <<lapsed, aged>>

Ended == {"closed", "expired"}
Exists(d) == dp[d] \in {"open"} \cup Ended
Pending == {"receiving", "ready"}

StoreTypeOK ==
  /\ dp \in [DropPoints -> {"none", "open", "closed", "expired", "purged"}]
  /\ lapsed \subseteq DropPoints
  /\ aged \subseteq DropPoints
  /\ status \in [Keys -> {"none", "receiving", "ready", "acknowledged", "failed"}]
  /\ ptr \subseteq Keys
  /\ stale \subseteq Keys
  /\ owner \in [Keys -> Owners]
  /\ picked \subseteq Keys

StoreInit ==
  /\ dp = [d \in DropPoints |-> "none"]
  /\ lapsed = {} /\ aged = {}
  /\ status = [k \in Keys |-> "none"]
  /\ ptr = {} /\ stale = {} /\ picked = {}
  /\ owner = [k \in Keys |-> NoOne]

-----------------------------------------------------------------------------
(* drop_points *)

Active == {d \in DropPoints : dp[d] = "open" /\ d \notin lapsed}

InsertDropPoint(d) ==
  /\ dp[d] = "none"
  /\ Cardinality(Active) < MaxActive
  /\ dp' = [dp EXCEPT ![d] = "open"]
  /\ UNCHANGED <<clockVars, rowVars>>

\* UPDATE ... SET status = 'expired' WHERE id IN D AND status = 'open'
MarkExpired(D) ==
  /\ dp' = [d \in DropPoints |-> IF d \in D /\ dp[d] = "open" THEN "expired" ELSE dp[d]]
  /\ UNCHANGED <<clockVars, rowVars>>

MarkClosed(d) ==
  /\ dp' = [dp EXCEPT ![d] = "closed"]
  /\ aged' = aged \ {d}
  /\ UNCHANGED <<lapsed, rowVars>>

\* DELETE FROM drop_points; the foreign key cascades to the submissions.
PurgeTerminalDropPoints(D) ==
  LET gone == {d \in D : dp[d] \in Ended /\ ptr \cap KeysOf(d) = {}}
      keys == {k \in Keys : k[1] \in gone}
  IN /\ dp' = [d \in DropPoints |-> IF d \in gone THEN "purged" ELSE dp[d]]
     /\ status' = [k \in Keys |-> IF k \in keys THEN "none" ELSE status[k]]
     /\ owner' = [k \in Keys |-> IF k \in keys THEN NoOne ELSE owner[k]]
     /\ stale' = stale \ keys
     /\ picked' = picked \ keys
     /\ lapsed' = lapsed \ gone
     /\ aged' = aged \ gone
     /\ UNCHANGED ptr

-----------------------------------------------------------------------------
(* submissions *)

PendingCount(d) == Cardinality({k \in KeysOf(d) : status[k] \in Pending})

ReadyBytes(d) ==
  MapThenSumSet(LAMBDA k : SizeOf[owner[k]], {k \in KeysOf(d) : status[k] = "ready"})

\* Mutant of MayBegin: an existing row is begun again.
MayBeginAgain(k) ==
  /\ dp[k[1]] = "open"
  /\ status[k] # "receiving"
  /\ PendingCount(k[1]) < MaxPending

\* Mutant of MayBegin: the limit is off by one.
MayBeginOneMore(k) ==
  /\ dp[k[1]] = "open"
  /\ status[k] = "none"
  /\ PendingCount(k[1]) <= MaxPending

\* The INSERT ... SELECT of BeginSubmission would insert a row: the now it compares
\* expires_at with is the reading that authorised the drop token, so only the status is left.
MayBegin(k) ==
  /\ dp[k[1]] = "open"
  /\ status[k] = "none"
  /\ PendingCount(k[1]) < MaxPending

InsertReceiving(k) ==
  /\ status' = [status EXCEPT ![k] = "receiving"]
  /\ UNCHANGED <<dp, clockVars, ptr, stale, owner, picked>>

\* Mutant of MayCommit: the bytes of the submission itself are not counted.
MayCommitUncounted(k, u) ==
  /\ dp[k[1]] = "open"
  /\ status[k] = "receiving"
  /\ ReadyBytes(k[1]) < MaxPendingBytes

MayCommit(k, u) ==
  /\ dp[k[1]] = "open"
  /\ status[k] = "receiving"
  /\ SizeOf[u] + ReadyBytes(k[1]) <= MaxPendingBytes

CommitSubmission(k, u) ==
  /\ status' = [status EXCEPT ![k] = "ready"]
  /\ ptr' = ptr \cup {k}
  /\ owner' = [owner EXCEPT ![k] = u]
  /\ stale' = stale \ {k}
  /\ UNCHANGED <<dp, clockVars, picked>>

\* DELETE ... WHERE status = 'receiving'
DeleteReceivingSubmission(k) ==
  /\ status' = [status EXCEPT ![k] = IF @ = "receiving" THEN "none" ELSE @]
  /\ stale' = stale \ {k}
  /\ UNCHANGED <<dp, clockVars, ptr, owner, picked>>

\* Mutant of MarkSubmissionPickedUp: it asks for an open drop point.
MarkPickedUpWhileOpen(k) ==
  /\ picked' = IF status[k] \in {"ready", "acknowledged"} /\ dp[k[1]] = "open"
                  THEN picked \cup {k} ELSE picked
  /\ UNCHANGED <<dp, clockVars, status, ptr, stale, owner>>

MarkSubmissionPickedUp(k) ==
  /\ picked' = IF status[k] \in {"ready", "acknowledged"} THEN picked \cup {k} ELSE picked
  /\ UNCHANGED <<dp, clockVars, status, ptr, stale, owner>>

AcknowledgeSubmission(k) ==
  /\ status' = [status EXCEPT ![k] = IF @ = "ready" THEN "acknowledged" ELSE @]
  /\ UNCHANGED <<dp, clockVars, ptr, stale, owner, picked>>

\* Mutant of FailSubmission: an acknowledged row is failed too.
FailAnySubmission(k) ==
  /\ status' = [status EXCEPT ![k] = IF @ = "none" THEN "none" ELSE "failed"]
  /\ stale' = stale \ {k}
  /\ UNCHANGED <<dp, clockVars, ptr, owner, picked>>

FailSubmission(k) ==
  /\ status' = [status EXCEPT ![k] = IF @ \in Pending THEN "failed" ELSE @]
  /\ stale' = stale \ {k}
  /\ UNCHANGED <<dp, clockVars, ptr, owner, picked>>

\* ClearSubmissionFiles and ClearDropPointFiles: both paths become NULL.
ClearFiles(ks) ==
  /\ ptr' = ptr \ ks
  /\ UNCHANGED <<dp, clockVars, status, stale, owner, picked>>
=============================================================================
