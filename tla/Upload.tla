------------------------------- MODULE Upload -------------------------------
(***************************************************************************)
(* HandleSubmitDrop (internal/httpapi/drop.go), one process per upload:    *)
(* authorise, BeginSubmission, WriteSubmission, CommitSubmission, and on   *)
(* any failure DeleteSubmission then DeleteReceivingSubmission.            *)
(***************************************************************************)
EXTENDS Store, BlobStore

VARIABLES upc,  \* what the handler does next
          ukey  \* the submission it uploads

uploadVars == <<upc, ukey>>

\* Handlers past BeginSubmission: they may touch the row or the directory of their key.
Working == {"stage", "payload", "envelope", "commit", "late", "verify", "undo", "unrow"}

UploadTypeOK ==
  /\ upc \in [Uploads -> {"idle", "begin"} \cup Working]
  /\ ukey \in [Uploads -> Keys]

UploadInit ==
  /\ upc = [u \in Uploads |-> "idle"]
  /\ ukey = [u \in Uploads |-> AnyKey]

Goto(u, pc) ==
  /\ upc' = [upc EXCEPT ![u] = pc]
  /\ UNCHANGED ukey

Answer(u) ==
  /\ upc' = [upc EXCEPT ![u] = "idle"]
  /\ ukey' = [ukey EXCEPT ![u] = AnyKey]

\* FindOpenDropPointByDropTokenHash succeeds.  The clock reading it uses is also
\* the one BeginSubmission gets.
AuthorizeDrop(u, k) ==
  /\ server = "serving"
  /\ upc[u] = "idle"
  /\ dp[k[1]] = "open"
  /\ k[1] \notin lapsed
  /\ upc' = [upc EXCEPT ![u] = "begin"]
  /\ ukey' = [ukey EXCEPT ![u] = k]
  /\ UNCHANGED <<storeVars, blobVars>>

Begin(u) ==
  /\ upc[u] = "begin"
  /\ MayBegin(ukey[u])
  /\ InsertReceiving(ukey[u])
  /\ Goto(u, "stage")
  /\ UNCHANGED blobVars

\* A row with this id exists (its status is answered), the queue is full, or
\* the drop point ended since it was authorised.
BeginRefused(u) ==
  /\ upc[u] = "begin"
  /\ ~MayBegin(ukey[u])
  /\ Answer(u)
  /\ UNCHANGED <<storeVars, blobVars>>

\* The row was inserted but the call returned an error (the client went away):
\* nobody works on the row.
BeginLost(u) ==
  /\ upc[u] = "begin"
  /\ MayBegin(ukey[u])
  /\ InsertReceiving(ukey[u])
  /\ Answer(u)
  /\ UNCHANGED blobVars

-----------------------------------------------------------------------------
(* WriteSubmission *)

Stage(u) ==
  /\ upc[u] = "stage"
  /\ CreateTemps(u, ukey[u])
  /\ Goto(u, "payload")
  /\ UNCHANGED storeVars

InstallPayload(u) ==
  /\ upc[u] = "payload"
  /\ RenamePayload(u, ukey[u])
  /\ Goto(u, "envelope")
  /\ UNCHANGED storeVars

\* The clock is read for CommitSubmission before its transaction starts.
InstallEnvelope(u) ==
  /\ upc[u] = "envelope"
  /\ RenameEnvelope(u, ukey[u])
  /\ Goto(u, IF ukey[u][1] \in lapsed THEN "late" ELSE "commit")
  /\ UNCHANGED storeVars

\* A bad request, a lost client, a full disk, a missing directory: any error
\* before the payload is installed.
WriteFails(u) ==
  /\ upc[u] \in {"stage", "payload"}
  /\ RemoveTemps(u, ukey[u])
  /\ Goto(u, "undo")
  /\ UNCHANGED storeVars

EnvelopeFails(u) ==
  /\ upc[u] = "envelope"
  /\ RemovePayload(u, ukey[u])
  /\ Goto(u, "undo")
  /\ UNCHANGED storeVars

\* Both files are installed, but the directory sync or the context check after it fails.
SyncFails(u) ==
  /\ upc[u] = "envelope"
  /\ RenameEnvelope(u, ukey[u])
  /\ Goto(u, "undo")
  /\ UNCHANGED storeVars

-----------------------------------------------------------------------------
(* CommitSubmission, and what follows an error of it *)

Commit(u) ==
  /\ upc[u] = "commit"
  /\ MayCommit(ukey[u], u)
  /\ CommitSubmission(ukey[u], u)
  /\ Answer(u)
  /\ UNCHANGED blobVars

CommitRejected(u) ==
  /\ \/ upc[u] = "late"
     \/ upc[u] = "commit" /\ ~MayCommit(ukey[u], u)
  /\ Goto(u, "verify")
  /\ UNCHANGED <<storeVars, blobVars>>

\* The transaction fails, or its outcome is lost after it took effect.
CommitErrs(u) ==
  /\ upc[u] = "commit"
  /\ \/ UNCHANGED storeVars
     \/ MayCommit(ukey[u], u) /\ CommitSubmission(ukey[u], u)
  /\ Goto(u, "verify")
  /\ UNCHANGED blobVars

\* FindSubmission after the error: a ready, acknowledged or failed row is answered.
VerifySettled(u) ==
  /\ upc[u] = "verify"
  /\ status[ukey[u]] \in {"ready", "acknowledged", "failed"}
  /\ Answer(u)
  /\ UNCHANGED <<storeVars, blobVars>>

\* Mutant of VerifyUnsettled: a commit that failed is undone without another look.
UndoUnverified(u) ==
  /\ upc[u] = "verify"
  /\ Goto(u, "undo")
  /\ UNCHANGED <<storeVars, blobVars>>

VerifyUnsettled(u) ==
  /\ upc[u] = "verify"
  /\ status[ukey[u]] \in {"none", "receiving"}
  /\ Goto(u, "undo")
  /\ UNCHANGED <<storeVars, blobVars>>

\* Mutant of Undo: the row is removed and its blobs are left to cleanup.
UndoRowOnly(u) ==
  /\ upc[u] = "undo"
  /\ Goto(u, "unrow")
  /\ UNCHANGED <<storeVars, blobVars>>

\* finalizeSubmissionAttempt: the blobs first, then the row.
Undo(u) ==
  /\ upc[u] = "undo"
  /\ DeleteSubmission(ukey[u])
  /\ Goto(u, "unrow")
  /\ UNCHANGED storeVars

Unrow(u) ==
  /\ upc[u] = "unrow"
  /\ DeleteReceivingSubmission(ukey[u])
  /\ Answer(u)
  /\ UNCHANGED blobVars

\* Verification, blob deletion or row deletion fails: the handler answers 500
\* and leaves the rest to cleanup.
GiveUp(u) ==
  /\ upc[u] \in {"verify", "undo", "unrow"}
  /\ Answer(u)
  /\ UNCHANGED <<storeVars, blobVars>>

UploadStep(u) ==
  \/ Begin(u) \/ BeginRefused(u)
  \/ Stage(u) \/ InstallPayload(u) \/ InstallEnvelope(u)
  \/ WriteFails(u) \/ EnvelopeFails(u) \/ SyncFails(u)
  \/ Commit(u) \/ CommitRejected(u)
  \/ VerifySettled(u) \/ VerifyUnsettled(u)
  \/ Undo(u) \/ Unrow(u)

UploadFault(u) == BeginLost(u) \/ CommitErrs(u) \/ GiveUp(u)
=============================================================================
