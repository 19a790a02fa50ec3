------------------------------ MODULE Receiver ------------------------------
(***************************************************************************)
(* The receiver's requests, one process each: HandlePickupSubmission       *)
(* (internal/httpapi/pickup.go), HandleAcknowledgeSubmission and           *)
(* HandleCloseDropPoint (internal/httpapi/receiver.go).  The status and    *)
(* list requests change nothing but a lapsed drop point (ExpireLazily).    *)
(***************************************************************************)
EXTENDS Store, BlobStore

VARIABLES rpc,  \* what the handler does next
          rkey, \* the submission (or, for close, the drop point of it)
          rgot  \* what a pickup read: the row's content, the envelope, the open payload

requestVars == <<rpc, rkey, rgot>>

Nothing == [row |-> NoOne, env |-> NoOne, pay |-> NoOne]

Detached == {"mark", "corrupt"}  \* run under context.WithoutCancel
Attached == {"find", "envelope", "payload", "send", "ack", "ackDelete", "ackClear",
             "close", "closeDelete", "closeClear"}

ReceiverTypeOK ==
  /\ rpc \in [Requests -> {"idle"} \cup Detached \cup Attached]
  /\ rkey \in [Requests -> Keys]
  /\ rgot \in [Requests -> [row : Owners, env : Owners, pay : Owners]]

ReceiverInit ==
  /\ rpc = [r \in Requests |-> "idle"]
  /\ rkey = [r \in Requests |-> AnyKey]
  /\ rgot = [r \in Requests |-> Nothing]

Continue(r, pc) ==
  /\ rpc' = [rpc EXCEPT ![r] = pc]
  /\ UNCHANGED <<rkey, rgot>>

\* What the pickup has read so far.
Got(r, row, env, pay) == rgot' = [rgot EXCEPT ![r] = [row |-> row, env |-> env, pay |-> pay]]

Reply(r) ==
  /\ rpc' = [rpc EXCEPT ![r] = "idle"]
  /\ rkey' = [rkey EXCEPT ![r] = AnyKey]
  /\ rgot' = [rgot EXCEPT ![r] = Nothing]

\* authorizePickup, and requireOpenDropPoint where the handler asks for it.  A
\* close goes on to delete the blobs of a drop point that has ended already.
Authorize(r, k) ==
  LET d == k[1] IN
  /\ server = "serving"
  /\ rpc[r] = "idle"
  /\ Exists(d)
  /\ \/ /\ dp[d] = "open" /\ d \notin lapsed
        /\ \E pc \in {"find", "ack", "close"} : rpc' = [rpc EXCEPT ![r] = pc]
        /\ UNCHANGED storeVars
     \/ /\ dp[d] # "open" \/ d \in lapsed
        /\ rpc' = [rpc EXCEPT ![r] = "closeDelete"]
        /\ MarkExpired({d} \cap lapsed)
  /\ rkey' = [rkey EXCEPT ![r] = k]
  /\ UNCHANGED <<rgot, blobVars>>

\* The lookups by drop token and by pickup token mark a lapsed drop point.
ExpireLazily(d) ==
  /\ server = "serving"
  /\ dp[d] = "open" /\ d \in lapsed
  /\ MarkExpired({d})
  /\ UNCHANGED <<requestVars, blobVars>>

-----------------------------------------------------------------------------
(* Pickup *)

FindReady(r) ==
  /\ rpc[r] = "find"
  /\ status[rkey[r]] = "ready"
  /\ rpc' = [rpc EXCEPT ![r] = IF rkey[r] \in ptr THEN "envelope" ELSE "corrupt"]
  /\ Got(r, owner[rkey[r]], NoOne, NoOne)
  /\ UNCHANGED <<rkey, storeVars, blobVars>>

FindOther(r) ==
  /\ rpc[r] = "find"
  /\ status[rkey[r]] # "ready"
  /\ Reply(r)
  /\ UNCHANGED <<storeVars, blobVars>>

ReadEnvelope(r) ==
  /\ rpc[r] = "envelope"
  /\ envelope[rkey[r]] # NoOne
  /\ rpc' = [rpc EXCEPT ![r] = "payload"]
  /\ Got(r, rgot[r].row, envelope[rkey[r]], NoOne)
  /\ UNCHANGED <<rkey, storeVars, blobVars>>

\* The payload file exists and has the size the row recorded.
SizeMatches(r) ==
  /\ payload[rkey[r]] # NoOne
  /\ rgot[r].row # NoOne
  /\ SizeOf[payload[rkey[r]]] = SizeOf[rgot[r].row]

\* A HEAD request ends here.
OpenPayload(r) ==
  /\ rpc[r] = "payload"
  /\ SizeMatches(r)
  /\ \/ /\ rpc' = [rpc EXCEPT ![r] = "send"]
        /\ Got(r, rgot[r].row, rgot[r].env, payload[rkey[r]])
        /\ UNCHANGED rkey
     \/ Reply(r)
  /\ UNCHANGED <<storeVars, blobVars>>

BlobMissing(r) ==
  /\ \/ rpc[r] = "envelope" /\ envelope[rkey[r]] = NoOne
     \/ rpc[r] = "payload" /\ ~SizeMatches(r)
  /\ Continue(r, "corrupt")
  /\ UNCHANGED <<storeVars, blobVars>>

\* The whole response was written: the open file survives a concurrent deletion.
Send(r) ==
  /\ rpc[r] = "send"
  /\ Continue(r, "mark")
  /\ UNCHANGED <<storeVars, blobVars>>

Mark(r) ==
  /\ rpc[r] = "mark"
  /\ MarkSubmissionPickedUp(rkey[r])
  /\ Reply(r)
  /\ UNCHANGED blobVars

FailCorrupt(r) ==
  /\ rpc[r] = "corrupt"
  /\ FailSubmission(rkey[r])
  /\ Reply(r)
  /\ UNCHANGED blobVars

-----------------------------------------------------------------------------
(* Acknowledge *)

Acknowledge(r) ==
  /\ rpc[r] = "ack"
  /\ AcknowledgeSubmission(rkey[r])
  /\ IF status[rkey[r]] \in {"ready", "acknowledged"} THEN Continue(r, "ackDelete") ELSE Reply(r)
  /\ UNCHANGED blobVars

AckDelete(r) ==
  /\ rpc[r] = "ackDelete"
  /\ DeleteSubmission(rkey[r])
  /\ Continue(r, "ackClear")
  /\ UNCHANGED storeVars

AckClear(r) ==
  /\ rpc[r] = "ackClear"
  /\ ClearFiles({rkey[r]})
  /\ Reply(r)
  /\ UNCHANGED blobVars

-----------------------------------------------------------------------------
(* Close *)

\* The clock is read again for CloseDropPoint, so an open drop point that has
\* lapsed since it was authorised is closed or expired by that reading.
Close(r) ==
  LET d == rkey[r][1] IN
  /\ rpc[r] = "close"
  /\ Exists(d)
  /\ \/ dp[d] = "open" /\ MarkClosed(d)
     \/ dp[d] = "open" /\ d \in lapsed /\ MarkExpired({d})
     \/ dp[d] \in Ended /\ UNCHANGED storeVars
  /\ Continue(r, "closeDelete")
  /\ UNCHANGED blobVars

CloseMissing(r) ==
  /\ rpc[r] = "close"
  /\ ~Exists(rkey[r][1])
  /\ Reply(r)
  /\ UNCHANGED <<storeVars, blobVars>>

CloseDelete(r) ==
  /\ rpc[r] = "closeDelete"
  /\ DeleteDropPoint(rkey[r][1])
  /\ Continue(r, "closeClear")
  /\ UNCHANGED storeVars

CloseClear(r) ==
  /\ rpc[r] = "closeClear"
  /\ ClearFiles(KeysOf(rkey[r][1]))
  /\ Reply(r)
  /\ UNCHANGED blobVars

\* The client goes away or the request times out: the handler stops at its next
\* use of the request context.
Abandon(r) ==
  /\ rpc[r] \in Attached
  /\ Reply(r)
  /\ UNCHANGED <<storeVars, blobVars>>

RequestStep(r) ==
  \/ FindReady(r) \/ FindOther(r)
  \/ ReadEnvelope(r) \/ OpenPayload(r) \/ BlobMissing(r)
  \/ Send(r) \/ Mark(r) \/ FailCorrupt(r)
  \/ Acknowledge(r) \/ AckDelete(r) \/ AckClear(r)
  \/ Close(r) \/ CloseMissing(r) \/ CloseDelete(r) \/ CloseClear(r)
  \/ Abandon(r)

\* A detached database call fails; the failure is only logged.
RequestFault(r) ==
  /\ rpc[r] \in Detached
  /\ Reply(r)
  /\ UNCHANGED <<storeVars, blobVars>>
=============================================================================
