-------------------------------- MODULE Relay --------------------------------
(***************************************************************************)
(* The relay as a whole: upload handlers, receiver requests and cleaners   *)
(* over one metadata store and one blob directory, with the passage of     *)
(* time, the server's restarts and a bounded number of faults.             *)
(***************************************************************************)
EXTENDS Upload, Receiver, Cleanup

vars == <<baseVars, storeVars, blobVars, uploadVars, requestVars, cleanerVars>>

Init ==
  /\ server = "down"
  /\ faults = 0
  /\ StoreInit /\ BlobInit /\ UploadInit /\ ReceiverInit /\ CleanupInit

\* HandleCreateDropPoint's insert; authentication is the subject of ApiTokens.
Create(d) ==
  /\ server = "serving"
  /\ SweepIsolated => \A c \in Cleaners : cpc[c] # "dirs"
  /\ InsertDropPoint(d)
  /\ UNCHANGED <<baseVars, blobVars, uploadVars, requestVars, cleanerVars>>

-----------------------------------------------------------------------------
(* Time *)

Lapse(d) ==
  /\ Exists(d) /\ d \notin lapsed
  /\ lapsed' = lapsed \cup {d}
  /\ UNCHANGED <<dp, aged, rowVars>>

\* TerminalRetention after the end of d: closed_at, or expires_at, is past the cutoff.
Age(d) ==
  /\ dp[d] = "closed" \/ (dp[d] \in {"open", "expired"} /\ d \in lapsed)
  /\ d \notin aged
  /\ aged' = aged \cup {d}
  /\ UNCHANGED <<dp, lapsed, rowVars>>

\* ReceivingStaleAfter is the longer HTTP timeout plus 30 seconds.  It is chosen so that
\* no handler still works on a row this old, but nothing makes a handler stop.
GoStale(k) ==
  /\ status[k] = "receiving" /\ k \notin stale
  /\ HandlersInTime => \A u \in Uploads : upc[u] \in Working => ukey[u] # k
  /\ stale' = stale \cup {k}
  /\ UNCHANGED <<dp, clockVars, status, ptr, owner, picked>>

Tick == (\E d \in DropPoints : Lapse(d) \/ Age(d)) \/ (\E k \in Keys : GoStale(k))

\* The process stops: whatever its handlers and its loop were doing stays half done.
Crash ==
  /\ server # "down"
  /\ server' = "down"
  /\ upc' = [u \in Uploads |-> "idle"] /\ ukey' = [u \in Uploads |-> AnyKey]
  /\ rpc' = [r \in Requests |-> "idle"] /\ rkey' = [r \in Requests |-> AnyKey]
  /\ rgot' = [r \in Requests |-> Nothing]
  /\ EndPass(Loop)
  /\ UNCHANGED <<storeVars, blobVars>>

-----------------------------------------------------------------------------
UploadNext(u) ==
  \/ (\E k \in Keys : AuthorizeDrop(u, k)) /\ UNCHANGED faults
  \/ UploadStep(u) /\ UNCHANGED faults
  \/ UploadFault(u) /\ Fault

RequestNext(r) ==
  \/ (\E k \in Keys : Authorize(r, k)) /\ UNCHANGED faults
  \/ RequestStep(r) /\ UNCHANGED faults
  \/ RequestFault(r) /\ Fault

CleanerNext(c) ==
  \/ CleanerStep(c) /\ UNCHANGED faults
  \/ Abort(c) /\ Fault

Next ==
  \/ \E d \in DropPoints : Create(d)
  \/ Tick /\ UNCHANGED <<baseVars, blobVars, uploadVars, requestVars, cleanerVars>>
  \/ Crash /\ Fault
  \/ \E u \in Uploads : UploadNext(u) /\ UNCHANGED <<server, requestVars, cleanerVars>>
  \/ \E r \in Requests : RequestNext(r) /\ UNCHANGED <<server, uploadVars, cleanerVars>>
  \/ \E d \in DropPoints : ExpireLazily(d) /\ UNCHANGED <<baseVars, uploadVars, cleanerVars>>
  \/ \E c \in Cleaners : CleanerNext(c) /\ UNCHANGED <<uploadVars, requestVars>>

Spec == Init /\ [][Next]_vars

\* Handlers run to their end (the server's timeouts bound every read and write),
\* the loop's ticker keeps firing and starts the next pass, the container restarts
\* the server, and time passes.
Fairness ==
  /\ \A u \in Uploads : WF_vars(UploadStep(u) /\ UNCHANGED <<baseVars, requestVars, cleanerVars>>)
  /\ \A r \in Requests : WF_vars(RequestStep(r) /\ UNCHANGED <<baseVars, uploadVars, cleanerVars>>)
  /\ WF_vars(CleanerStep(Loop) /\ UNCHANGED <<faults, uploadVars, requestVars>>)
  /\ \A k \in Keys : WF_vars(GoStale(k) /\ UNCHANGED <<baseVars, blobVars, uploadVars, requestVars, cleanerVars>>)

FairSpec == Spec /\ Fairness

-----------------------------------------------------------------------------
(* Properties *)

\* Every variable keeps to the values its part of the code can produce.
TypeOK ==
  /\ server \in {"down", "starting", "serving"}
  /\ faults \in 0 .. MaxFaults
  /\ StoreTypeOK /\ BlobTypeOK /\ UploadTypeOK /\ ReceiverTypeOK /\ CleanupTypeOK

\* While a drop point is open, a ready submission has its pointers and both its
\* files, and both are the ones the committing upload wrote: SPEC.md says a
\* committed submission stays available until it is acknowledged or its parent
\* ends, whatever uploads, deletions, cleanups and crashes run meanwhile.
ReadyAvailable ==
  \A k \in Keys :
    dp[k[1]] = "open" /\ status[k] = "ready"
      => k \in ptr /\ owner[k] # NoOne /\ payload[k] = owner[k] /\ envelope[k] = owner[k]

\* BeginSubmission counts in the same statement that inserts, so concurrent
\* uploads never hold more rows than max_pending_submissions allows.
PendingWithinQuota == \A d \in DropPoints : PendingCount(d) <= MaxPending

\* CommitSubmission sums and updates in one transaction, so concurrent commits
\* never make more bytes pending than max_pending_bytes allows.
ReadyBytesWithinQuota == \A d \in DropPoints : ReadyBytes(d) <= MaxPendingBytes

\* Files nobody knows of: a submission directory of an open drop point always has
\* a row, or a handler that is still going to make or remove it.  (Every path that
\* deletes the row of an attempt deletes its directory first.)
NoLeak ==
  \A k \in made :
    dp[k[1]] = "open" /\ status[k] = "none"
      => \E u \in Uploads : upc[u] \in Working /\ ukey[u] = k

\* A pickup never mixes two uploads: the envelope and the payload it is about to
\* send are those of the commit it read, even when the blobs are deleted or
\* replaced between its reads.
PickupIntact ==
  \A r \in Requests : rpc[r] = "send" => rgot[r].env = rgot[r].row /\ rgot[r].pay = rgot[r].row

\* A committed submission is immutable: while its drop point is open its row
\* neither disappears, nor returns to receiving, nor changes its content, and it
\* leaves "ready" only by an acknowledgement.  In particular no pickup declares it
\* corrupt because it lost a race with a deletion.
ReadyIsKept ==
  [][\A k \in Keys :
       dp[k[1]] = "open" /\ dp'[k[1]] = "open" /\ status[k] \in {"ready", "acknowledged"}
         => /\ status'[k] \in {status[k], "acknowledged"}
            /\ owner'[k] = owner[k]]_vars

\* A pickup whose response was written is recorded when its handler gets to record
\* it, as long as the drop point's row still exists (SPEC.md: a concurrent close
\* or expiry must not prevent recording it).
PickupRecorded ==
  [][\A r \in Requests :
       rpc[r] = "mark" /\ rpc'[r] = "idle" /\ faults' = faults /\ Exists(rkey[r][1])
         => rkey[r] \in picked']_vars

\* The same for a row no other request has failed in between: an acknowledgement, a
\* close, an expiry or a cleanup beside the response does not lose the pickup.
PickupRecordedUnlessFailed ==
  [][\A r \in Requests :
       rpc[r] = "mark" /\ rpc'[r] = "idle" /\ faults' = faults
           /\ Exists(rkey[r][1]) /\ status[rkey[r]] # "failed"
         => rkey[r] \in picked']_vars

\* A drop point row is purged only when no file of it could be found again through
\* the metadata: the purge never outruns the deletion of committed blobs.
PurgedIsEmpty ==
  [][\A k \in Keys :
       dp[k[1]] # "purged" /\ dp'[k[1]] = "purged" /\ status[k] \in {"ready", "acknowledged"}
         => k \notin made]_vars

\* The blobs of an ended drop point are eventually gone for good, its directory
\* included, although a handler may recreate it after a close deleted it.
EndedIsErased ==
  \A d \in DropPoints : dp[d] \in Ended ~> [](d \notin dropdir)

\* Every interrupted or running upload is eventually settled: no row stays
\* "receiving" and holds a place in the queue.
ReceivingSettles ==
  \A k \in Keys : status[k] = "receiving" ~> status[k] # "receiving"

\* Acknowledged blobs are eventually deleted and forgotten by the row, even when
\* the acknowledging request stopped in between.
AcknowledgedIsErased ==
  \A k \in Keys : status[k] = "acknowledged" ~> [](k \notin made /\ k \notin ptr)
=============================================================================
