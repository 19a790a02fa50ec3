----------------------------- MODULE RelayProofs -----------------------------
(***************************************************************************)
(* The rows of Relay, for every value of its constants: the types, the     *)
(* queue limit of a drop point, and IInv, by which a ready submission      *)
(* stays available.  For each kind of process one lemma says what its      *)
(* steps do to the rows and the files, and further lemmas derive the parts *)
(* of the invariant from that.                                             *)
(***************************************************************************)
EXTENDS Relay, FiniteSetTheorems, TLAPS

-----------------------------------------------------------------------------
(***************************************************************************)
(* The inductive invariant behind ReadyAvailable.  Every deletion the      *)
(* relay performs works from something it read earlier; each part below    *)
(* says what of that reading is still true when the deletion happens.      *)
(* "Gone" stands for a purged drop point, whose rows vanish under          *)
(* everybody.                                                              *)
(***************************************************************************)

Gone(k) == dp[k[1]] = "purged"

\* Rows belong to drop points that exist, and only such drop points ever had a
\* directory.
RowsHaveParents ==
  /\ \A k \in Keys : status[k] # "none" => Exists(k[1])
  /\ \A d \in dropdir : dp[d] # "none"

\* Handlers run only while the server serves.
IdleUnlessServing ==
  server # "serving" =>
    /\ \A u \in Uploads : upc[u] = "idle"
    /\ \A r \in Requests : rpc[r] = "idle"

\* A handler past BeginSubmission owns its key: the row is still receiving (only
\* an uncertain commit may have made it ready), and nobody else works on it.
UploadOwnsKey ==
  \A u \in Uploads : upc[u] \in Working =>
    /\ \/ Gone(ukey[u])
       \/ status[ukey[u]] = "receiving"
       \/ upc[u] = "verify" /\ status[ukey[u]] # "none"
    /\ \A v \in Uploads \ {u} : upc[v] \in Working => ukey[v] # ukey[u]

\* What an upload has installed is still there when it commits.
UploadHasFiles ==
  \A u \in Uploads : dp[ukey[u][1]] = "open" =>
    /\ upc[u] = "envelope" => payload[ukey[u]] = u
    /\ upc[u] \in {"commit", "late"} => payload[ukey[u]] = u /\ envelope[ukey[u]] = u

\* A stale row is an interrupted one.
StaleIsInterrupted ==
  \A k \in stale :
    /\ status[k] = "receiving"
    /\ \A u \in Uploads : upc[u] \in Working => ukey[u] # k

Interrupted(k) ==
  /\ Gone(k) \/ status[k] = "receiving"
  /\ \A u \in Uploads : upc[u] \in Working => ukey[u] # k

Finished(k) == Gone(k) \/ status[k] \in {"acknowledged", "failed"}

Over(d) == dp[d] \in Ended \cup {"purged"}

\* What the pass of c listed still holds when it deletes.
ListsHold(c) ==
  /\ cpc[c] \in {"recover", "recoverRow"} => \A k \in ckeys[c] : Interrupted(k)
  /\ cpc[c] = "recoverRow" => Interrupted(ckey[c]) /\ ckey[c] \notin ckeys[c]
  /\ cpc[c] \in {"child", "childClear"} => \A k \in ckeys[c] : Finished(k)
  /\ cpc[c] = "childClear" => Finished(ckey[c])
  /\ cpc[c] \in {"terminal", "terminalClear"} => \A d \in cdrops[c] : Over(d)
  /\ cpc[c] = "terminalClear" => Over(cdrop[c])
  /\ cpc[c] = "dirs" => \A d \in DropPoints : Exists(d) => d \in cdrops[c]
  /\ cpc[c] = "orphans" => \A d \in cdrops[c] : dp[d] = "purged"

CleanerListsHold == \A c \in Cleaners : ListsHold(c)

\* What a receiver request read still holds when it deletes or fails a row.
RequestReadingsHold ==
  \A r \in Requests :
    /\ rpc[r] \in {"ackDelete", "ackClear"} => Gone(rkey[r]) \/ status[rkey[r]] = "acknowledged"
    /\ rpc[r] \in {"closeDelete", "closeClear"} => Over(rkey[r][1])
    /\ rpc[r] \in {"envelope", "payload", "send", "mark", "corrupt"}
         => Gone(rkey[r]) \/ status[rkey[r]] \notin {"none", "receiving"}

IInv ==
  /\ TypeOK
  /\ RowsHaveParents
  /\ IdleUnlessServing
  /\ UploadOwnsKey
  /\ UploadHasFiles
  /\ StaleIsInterrupted
  /\ CleanerListsHold
  /\ RequestReadingsHold
  /\ ReadyAvailable

-----------------------------------------------------------------------------
(* Types *)

\* The idle value of a key register is a key, and a key names a drop point.
LEMMA KeyFacts ==
  /\ AnyKey \in Keys
  /\ AnyDropPoint \in DropPoints
  /\ \A k \in Keys : k[1] \in DropPoints
  /\ \A d \in DropPoints : KeysOf(d) \subseteq Keys
<1>1. Keys # {} /\ DropPoints # {}
  <2>1. PICK d \in DropPoints, s \in SubIds : TRUE
    BY SetsAssumption
  <2>2. <<d, s>> \in Keys
    BY <2>1 DEF Keys
  <2>3. QED
    BY <2>1, <2>2
<1>2. AnyKey \in Keys /\ AnyDropPoint \in DropPoints
  BY <1>1 DEF AnyKey, AnyDropPoint
<1>3. QED
  BY <1>2 DEF Keys, KeysOf

\* Initially every variable has its type.
LEMMA InitTypeOK == Init => TypeOK
<1>1. Init => StoreTypeOK /\ BlobTypeOK
  BY DEF Init, StoreInit, BlobInit, StoreTypeOK, BlobTypeOK, Owners
<1>2. Init => UploadTypeOK
  BY KeyFacts DEF Init, UploadInit, UploadTypeOK
<1>3. Init => ReceiverTypeOK
  BY KeyFacts DEF Init, ReceiverInit, ReceiverTypeOK, Owners, Nothing
<1>4. Init => CleanupTypeOK
  BY KeyFacts DEF Init, CleanupInit, CleanupTypeOK
<1>5. QED
  BY <1>1, <1>2, <1>3, <1>4, SizesAssumption DEF Init, TypeOK

-----------------------------------------------------------------------------
(* Every statement of the store and every change of the directory keeps the types. *)

\* Every statement of repository.go keeps the types of the two tables.
LEMMA StoreStatements ==
  ASSUME StoreTypeOK,
         NEW k \in Keys, NEW u \in Uploads, NEW d \in DropPoints,
         \/ InsertDropPoint(d) \/ MarkClosed(d)
         \/ \E D \in SUBSET DropPoints : MarkExpired(D) \/ PurgeTerminalDropPoints(D)
         \/ InsertReceiving(k) \/ CommitSubmission(k, u) \/ DeleteReceivingSubmission(k)
         \/ MarkSubmissionPickedUp(k) \/ AcknowledgeSubmission(k) \/ FailSubmission(k)
         \/ \E ks \in SUBSET Keys : ClearFiles(ks)
         \/ UNCHANGED storeVars
  PROVE  StoreTypeOK'
<1>1. CASE InsertDropPoint(d) \/ MarkClosed(d)
  BY <1>1 DEF StoreTypeOK, InsertDropPoint, MarkClosed, clockVars, rowVars
<1>2. CASE \E D \in SUBSET DropPoints : MarkExpired(D)
  BY <1>2 DEF StoreTypeOK, MarkExpired, clockVars, rowVars
<1>3. CASE \E D \in SUBSET DropPoints : PurgeTerminalDropPoints(D)
  BY <1>3 DEF StoreTypeOK, PurgeTerminalDropPoints, Owners
<1>4. CASE InsertReceiving(k) \/ CommitSubmission(k, u) \/ DeleteReceivingSubmission(k)
  BY <1>4 DEF StoreTypeOK, InsertReceiving, CommitSubmission, DeleteReceivingSubmission,
              Owners, clockVars
<1>5. CASE MarkSubmissionPickedUp(k) \/ AcknowledgeSubmission(k) \/ FailSubmission(k)
  BY <1>5 DEF StoreTypeOK, MarkSubmissionPickedUp, AcknowledgeSubmission, FailSubmission,
              clockVars
<1>6. CASE \E ks \in SUBSET Keys : ClearFiles(ks)
  BY <1>6 DEF StoreTypeOK, ClearFiles, clockVars
<1>7. CASE UNCHANGED storeVars
  BY <1>7 DEF StoreTypeOK, storeVars
<1>8. QED
  BY <1>1, <1>2, <1>3, <1>4, <1>5, <1>6, <1>7

\* Every operation of blobstore.go keeps the types of the directory tree.
LEMMA BlobChanges ==
  ASSUME BlobTypeOK,
         NEW k \in Keys, NEW u \in Uploads, NEW d \in DropPoints,
         \/ CreateTemps(u, k) \/ RenamePayload(u, k) \/ RenameEnvelope(u, k)
         \/ RemoveTemps(u, k) \/ RemovePayload(u, k)
         \/ DeleteSubmission(k) \/ DeleteDropPoint(d)
         \/ UNCHANGED blobVars
  PROVE  BlobTypeOK'
<1>1. CASE CreateTemps(u, k) \/ RenamePayload(u, k) \/ RenameEnvelope(u, k)
  BY <1>1, KeyFacts DEF BlobTypeOK, CreateTemps, RenamePayload, RenameEnvelope, Owners
<1>2. CASE RemoveTemps(u, k) \/ RemovePayload(u, k)
  BY <1>2 DEF BlobTypeOK, RemoveTemps, RemovePayload, Owners
<1>3. CASE DeleteSubmission(k) \/ DeleteDropPoint(d)
  BY <1>3 DEF BlobTypeOK, DeleteSubmission, DeleteDropPoint, RemoveAll, Owners
<1>4. CASE UNCHANGED blobVars
  BY <1>4 DEF BlobTypeOK, blobVars
<1>5. QED
  BY <1>1, <1>2, <1>3, <1>4

-----------------------------------------------------------------------------
(* Every action of a component keeps the types of the store, the directory and the component. *)

\* Every step of HandleSubmitDrop keeps the types, whatever fails.
LEMMA UploadTypes ==
  ASSUME StoreTypeOK, BlobTypeOK, UploadTypeOK, NEW u \in Uploads,
         UploadStep(u) \/ UploadFault(u) \/ \E k \in Keys : AuthorizeDrop(u, k)
  PROVE  StoreTypeOK' /\ BlobTypeOK' /\ UploadTypeOK'
<1> DEFINE k == ukey[u]
<1>0. k \in Keys /\ k[1] \in DropPoints /\ AnyKey \in Keys
  BY KeyFacts DEF UploadTypeOK
<1> HIDE DEF k
<1>1. StoreTypeOK'
  <2>1. \/ InsertReceiving(k) \/ CommitSubmission(k, u) \/ DeleteReceivingSubmission(k)
        \/ UNCHANGED storeVars
    BY DEF k, UploadStep, UploadFault, AuthorizeDrop, Begin, BeginRefused, BeginLost, Stage,
           InstallPayload, InstallEnvelope, WriteFails, EnvelopeFails, SyncFails, Commit,
           CommitRejected, CommitErrs, VerifySettled, VerifyUnsettled, Undo, Unrow, GiveUp
  <2>2. QED
    BY <1>0, <2>1, StoreStatements
<1>2. BlobTypeOK'
  <2>1. \/ CreateTemps(u, k) \/ RenamePayload(u, k) \/ RenameEnvelope(u, k)
        \/ RemoveTemps(u, k) \/ RemovePayload(u, k) \/ DeleteSubmission(k)
        \/ UNCHANGED blobVars
    BY DEF k, UploadStep, UploadFault, AuthorizeDrop, Begin, BeginRefused, BeginLost, Stage,
           InstallPayload, InstallEnvelope, WriteFails, EnvelopeFails, SyncFails, Commit,
           CommitRejected, CommitErrs, VerifySettled, VerifyUnsettled, Undo, Unrow, GiveUp
  <2>2. QED
    BY <1>0, <2>1, BlobChanges
<1>3. UploadTypeOK'
  <2>1. CASE \E pc \in Working : Goto(u, pc)
    BY <2>1 DEF UploadTypeOK, Goto
  <2>2. CASE Answer(u)
    BY <2>2, <1>0 DEF UploadTypeOK, Answer
  <2>3. CASE \E l \in Keys : AuthorizeDrop(u, l)
    BY <2>3 DEF UploadTypeOK, AuthorizeDrop
  <2>4. (UploadStep(u) \/ UploadFault(u)) => (\E pc \in Working : Goto(u, pc)) \/ Answer(u)
    BY DEF Working, UploadStep, UploadFault, Begin, BeginRefused, BeginLost, Stage,
           InstallPayload, InstallEnvelope, WriteFails, EnvelopeFails, SyncFails, Commit,
           CommitRejected, CommitErrs, VerifySettled, VerifyUnsettled, Undo, Unrow, GiveUp
  <2>5. QED
    BY <2>1, <2>2, <2>3, <2>4
<1>4. QED
  BY <1>1, <1>2, <1>3

\* Every step of a pickup, an acknowledgement and a close keeps the types.
LEMMA RequestTypes ==
  ASSUME StoreTypeOK, BlobTypeOK, ReceiverTypeOK, NEW r \in Requests,
         RequestStep(r) \/ RequestFault(r) \/ \E k \in Keys : Authorize(r, k)
  PROVE  StoreTypeOK' /\ BlobTypeOK' /\ ReceiverTypeOK'
<1> DEFINE k == rkey[r]
<1>0. k \in Keys /\ k[1] \in DropPoints /\ AnyKey \in Keys /\ KeysOf(k[1]) \subseteq Keys
  BY KeyFacts DEF ReceiverTypeOK
<1> HIDE DEF k
<1>1. StoreTypeOK'
  <2>1. CASE \E l \in Keys : Authorize(r, l)
    BY <2>1, KeyFacts DEF Authorize, StoreTypeOK, MarkExpired, clockVars, rowVars, storeVars
  <2>2. CASE RequestStep(r) \/ RequestFault(r)
    <3>1. \/ MarkSubmissionPickedUp(k) \/ AcknowledgeSubmission(k) \/ FailSubmission(k)
          \/ ClearFiles({k}) \/ ClearFiles(KeysOf(k[1]))
          \/ MarkClosed(k[1]) \/ MarkExpired({k[1]}) \/ UNCHANGED storeVars
      BY <2>2 DEF k, RequestStep, RequestFault, FindReady, FindOther, ReadEnvelope, OpenPayload,
             BlobMissing, Send, Mark, FailCorrupt, Acknowledge, AckDelete, AckClear, Close,
             CloseMissing, CloseDelete, CloseClear, Abandon
    <3>2. CASE \/ MarkSubmissionPickedUp(k) \/ AcknowledgeSubmission(k) \/ FailSubmission(k)
               \/ ClearFiles({k}) \/ ClearFiles(KeysOf(k[1]))
      BY <3>2, <1>0 DEF StoreTypeOK, MarkSubmissionPickedUp, AcknowledgeSubmission,
             FailSubmission, ClearFiles, clockVars
    <3>3. CASE MarkClosed(k[1]) \/ MarkExpired({k[1]}) \/ UNCHANGED storeVars
      BY <3>3, <1>0 DEF StoreTypeOK, MarkClosed, MarkExpired, clockVars, rowVars, storeVars
    <3>4. QED
      BY <3>1, <3>2, <3>3
  <2>3. QED
    BY <2>1, <2>2
<1>2. BlobTypeOK'
  <2>1. DeleteSubmission(k) \/ DeleteDropPoint(k[1]) \/ UNCHANGED blobVars
    BY DEF k, RequestStep, RequestFault, Authorize, FindReady, FindOther, ReadEnvelope,
           OpenPayload, BlobMissing, Send, Mark, FailCorrupt, Acknowledge, AckDelete, AckClear,
           Close, CloseMissing, CloseDelete, CloseClear, Abandon
  <2>2. QED
    BY <1>0, <2>1 DEF BlobTypeOK, DeleteSubmission, DeleteDropPoint, RemoveAll, Owners, blobVars
<1>3. ReceiverTypeOK'
  <2>0. Nothing \in [row : Owners, env : Owners, pay : Owners]
    BY DEF Nothing, Owners
  <2>1. CASE Reply(r)
    BY <2>0, <2>1, <1>0 DEF ReceiverTypeOK, Reply
  <2>8. CASE \E pc \in Attached \cup Detached : Continue(r, pc)
    BY <2>8 DEF ReceiverTypeOK, Continue
  <2>2. CASE \E l \in Keys : Authorize(r, l)
    BY <2>2 DEF ReceiverTypeOK, Authorize, Attached
  <2>3. CASE FindReady(r)
    BY <2>3, <1>0 DEF k, ReceiverTypeOK, StoreTypeOK, FindReady, Got, Attached, Detached, Owners
  <2>4. \A row, env, pay \in Owners : Got(r, row, env, pay) =>
          rgot' \in [Requests -> [row : Owners, env : Owners, pay : Owners]]
    BY DEF ReceiverTypeOK, Got
  <2>5. NoOne \in Owners /\ rgot[r].row \in Owners /\ rgot[r].env \in Owners
    BY DEF ReceiverTypeOK, Owners
  <2>6. CASE ReadEnvelope(r)
    BY <2>4, <2>5, <2>6, <1>0 DEF k, ReceiverTypeOK, BlobTypeOK, ReadEnvelope, Attached
  <2>7. CASE OpenPayload(r)
    <3>1. CASE Reply(r)
      BY <3>1, <2>1
    <3>2. CASE ~Reply(r)
      BY <2>4, <2>5, <2>7, <3>2, <1>0
         DEF k, ReceiverTypeOK, BlobTypeOK, OpenPayload, Attached
    <3>3. QED
      BY <3>1, <3>2
  <2>9. QED
    BY <2>1, <2>2, <2>3, <2>6, <2>7, <2>8
       DEF RequestStep, RequestFault, FindOther, BlobMissing, Send, Mark, FailCorrupt,
           Acknowledge, AckDelete, AckClear, Close, CloseMissing, CloseDelete, CloseClear,
           Abandon, Attached, Detached
<1>4. QED
  BY <1>1, <1>2, <1>3

\* Every step of a cleanup pass keeps the types.
LEMMA CleanerTypes ==
  ASSUME StoreTypeOK, BlobTypeOK, CleanupTypeOK, server \in {"down", "starting", "serving"},
         NEW c \in Cleaners, CleanerStep(c) \/ Abort(c)
  PROVE  /\ StoreTypeOK' /\ BlobTypeOK' /\ CleanupTypeOK'
         /\ server' \in {"down", "starting", "serving"}
<1>0. /\ ckey[c] \in Keys /\ cdrop[c] \in DropPoints /\ cdrops[c] \subseteq DropPoints
      /\ clapsed[c] \in SUBSET DropPoints /\ caged[c] \in SUBSET DropPoints
      /\ AnyKey \in Keys /\ AnyDropPoint \in DropPoints
      /\ \A d \in DropPoints : KeysOf(d) \in SUBSET Keys
  BY KeyFacts DEF CleanupTypeOK
<1>1. StoreTypeOK'
  <2>1. \/ DeleteReceivingSubmission(ckey[c]) \/ MarkExpired(clapsed[c])
        \/ ClearFiles({ckey[c]}) \/ ClearFiles(KeysOf(cdrop[c]))
        \/ PurgeTerminalDropPoints(caged[c] \cap aged) \/ UNCHANGED storeVars
    BY DEF CleanerStep, StartPass, Boot, RecoverBlobs, RecoverRow, ExpireDropPoints,
           ListChildren, ChildBlobs, ChildClear, ListTerminals, TerminalBlobs, TerminalClear,
           ListRows, ListDirs, OrphanBlobs, Purge, Abort
  <2>2. CASE DeleteReceivingSubmission(ckey[c])
    BY <2>2, <1>0 DEF StoreTypeOK, DeleteReceivingSubmission, clockVars
  <2>3. CASE MarkExpired(clapsed[c])
    BY <2>3, <1>0 DEF StoreTypeOK, MarkExpired, clockVars, rowVars
  <2>4. CASE ClearFiles({ckey[c]}) \/ ClearFiles(KeysOf(cdrop[c]))
    BY <2>4, <1>0 DEF StoreTypeOK, ClearFiles, clockVars
  <2>5. CASE PurgeTerminalDropPoints(caged[c] \cap aged)
    BY <2>5, <1>0 DEF StoreTypeOK, PurgeTerminalDropPoints, Owners
  <2>6. CASE UNCHANGED storeVars
    BY <2>6 DEF StoreTypeOK, storeVars
  <2>7. QED
    BY <2>1, <2>2, <2>3, <2>4, <2>5, <2>6
<1>2. BlobTypeOK'
  <2>1. \/ \E k \in Keys : DeleteSubmission(k)
        \/ \E d \in DropPoints : DeleteDropPoint(d)
        \/ UNCHANGED blobVars
    BY DEF CleanerStep, StartPass, Boot, RecoverBlobs, RecoverRow, ExpireDropPoints,
           ListChildren, ChildBlobs, ChildClear, ListTerminals, TerminalBlobs, TerminalClear,
           ListRows, ListDirs, OrphanBlobs, Purge, Abort, TakeKey, TakeDrop
  <2>2. QED
    BY <2>1 DEF BlobTypeOK, DeleteSubmission, DeleteDropPoint, RemoveAll, Owners, blobVars
<1>3. CleanupTypeOK'
  <2>1. CASE EndPass(c)
    BY <2>1, <1>0 DEF CleanupTypeOK, EndPass, At
  <2>2. CASE \E keys \in SUBSET Keys, pc \in {"recover", "child"} :
               OpenPass(c, keys) \/ ListKeys(c, pc, keys)
    BY <2>2 DEF CleanupTypeOK, OpenPass, ListKeys, At, StoreTypeOK
  <2>3. CASE \E drops \in SUBSET DropPoints, pc \in {"terminal", "dirs", "orphans"} :
               ListDrops(c, pc, drops)
    BY <2>3 DEF CleanupTypeOK, ListDrops, At
  <2>4. CASE \E k \in Keys, pc \in {"recoverRow", "childClear"} : TakeKey(c, k, pc)
    BY <2>4 DEF CleanupTypeOK, TakeKey, At
  <2>5. CASE \E d \in DropPoints, pc \in {"terminalClear", "orphans"} : TakeDrop(c, d, pc)
    BY <2>5 DEF CleanupTypeOK, TakeDrop, At
  <2>6. CASE /\ UNCHANGED listVars
             /\ \E pc \in {"recover", "children", "child", "terminal"} : At(c, pc)
    BY <2>6 DEF CleanupTypeOK, listVars, At
  <2>7. CASE StartPass(c) \/ (c = Loop /\ Boot) \/ ListChildren(c)
    <3>1. /\ {k \in stale : status[k] = "receiving"} \in SUBSET Keys
          /\ {k \in Keys : status[k] = "receiving"} \in SUBSET Keys
          /\ {k \in Keys : status[k] \in {"acknowledged", "failed"}} \in SUBSET Keys
      BY DEF StoreTypeOK
    <3>2. QED
      BY <2>2, <2>7, <3>1 DEF StartPass, Boot, ListChildren
  <2>8. CASE ListTerminals(c) \/ ListRows(c) \/ ListDirs(c)
    <3>1. /\ {d \in DropPoints : dp[d] \in Ended} \in SUBSET DropPoints
          /\ {d \in DropPoints : Exists(d)} \in SUBSET DropPoints
          /\ dropdir \ cdrops[c] \in SUBSET DropPoints
      BY DEF BlobTypeOK
    <3>2. QED
      BY <2>3, <2>8, <3>1 DEF ListTerminals, ListRows, ListDirs
  <2>9. QED
    BY <2>1, <2>4, <2>5, <2>6, <2>7, <2>8
       DEF CleanerStep, RecoverBlobs, RecoverRow, ExpireDropPoints, ChildBlobs, ChildClear,
           TerminalBlobs, TerminalClear, OrphanBlobs, Purge, Abort
<1>4. server' \in {"down", "starting", "serving"}
  BY DEF CleanerStep, StartPass, Boot, RecoverBlobs, RecoverRow, ExpireDropPoints,
         ListChildren, ChildBlobs, ChildClear, ListTerminals, TerminalBlobs, TerminalClear,
         ListRows, ListDirs, OrphanBlobs, Purge, Abort
<1>5. QED
  BY <1>1, <1>2, <1>3, <1>4

-----------------------------------------------------------------------------
\* So does every step of the relay.
LEMMA StepTypeOK == TypeOK /\ [Next]_vars => TypeOK'
<1> SUFFICES ASSUME TypeOK, [Next]_vars PROVE TypeOK'
  OBVIOUS
<1> USE DEF TypeOK
<1>0. faults' \in 0 .. MaxFaults
  <2>1. UNCHANGED faults \/ Fault
    BY DEF Next, vars, baseVars, Create, UploadNext, RequestNext, CleanerNext
  <2>2. QED
    BY <2>1, SizesAssumption DEF Fault
<1>1. ASSUME NEW d \in DropPoints, Create(d) PROVE TypeOK'
  BY <1>1 DEF Create, InsertDropPoint, baseVars, blobVars, uploadVars, requestVars,
         cleanerVars, clockVars, rowVars, StoreTypeOK, BlobTypeOK, UploadTypeOK,
         ReceiverTypeOK, CleanupTypeOK
<1>2. ASSUME Tick, UNCHANGED <<baseVars, blobVars, uploadVars, requestVars, cleanerVars>>
      PROVE  TypeOK'
  BY <1>2 DEF Tick, Lapse, Age, GoStale, baseVars, blobVars, uploadVars, requestVars,
         cleanerVars, clockVars, rowVars, StoreTypeOK, BlobTypeOK, UploadTypeOK,
         ReceiverTypeOK, CleanupTypeOK
<1>3. ASSUME Crash PROVE TypeOK'
  <2>1. StoreTypeOK' /\ BlobTypeOK' /\ server' \in {"down", "starting", "serving"}
    BY <1>3 DEF Crash, storeVars, blobVars, StoreTypeOK, BlobTypeOK
  <2>2. UploadTypeOK' /\ ReceiverTypeOK'
    BY <1>3, KeyFacts DEF Crash, UploadTypeOK, ReceiverTypeOK, Nothing, Owners
  <2>3. CleanupTypeOK'
    BY <1>3, KeyFacts, SetsAssumption DEF Crash, EndPass, At, CleanupTypeOK
  <2>4. QED
    BY <1>0, <2>1, <2>2, <2>3
<1>4. ASSUME NEW u \in Uploads, UploadNext(u), UNCHANGED <<server, requestVars, cleanerVars>>
      PROVE  TypeOK'
  <2>1. StoreTypeOK' /\ BlobTypeOK' /\ UploadTypeOK'
    BY <1>4, UploadTypes DEF UploadNext
  <2>2. QED
    BY <1>0, <1>4, <2>1 DEF requestVars, cleanerVars, ReceiverTypeOK, CleanupTypeOK
<1>5. ASSUME NEW r \in Requests, RequestNext(r), UNCHANGED <<server, uploadVars, cleanerVars>>
      PROVE  TypeOK'
  <2>1. StoreTypeOK' /\ BlobTypeOK' /\ ReceiverTypeOK'
    BY <1>5, RequestTypes DEF RequestNext
  <2>2. QED
    BY <1>0, <1>5, <2>1 DEF uploadVars, cleanerVars, UploadTypeOK, CleanupTypeOK
<1>6. ASSUME NEW d \in DropPoints, ExpireLazily(d), UNCHANGED <<baseVars, uploadVars, cleanerVars>>
      PROVE  TypeOK'
  BY <1>6 DEF ExpireLazily, MarkExpired, baseVars, blobVars, uploadVars, requestVars,
         cleanerVars, clockVars, rowVars, StoreTypeOK, BlobTypeOK, UploadTypeOK,
         ReceiverTypeOK, CleanupTypeOK
<1>7. ASSUME NEW c \in Cleaners, CleanerNext(c), UNCHANGED <<uploadVars, requestVars>>
      PROVE  TypeOK'
  <2>1. /\ StoreTypeOK' /\ BlobTypeOK' /\ CleanupTypeOK'
        /\ server' \in {"down", "starting", "serving"}
    BY <1>7, CleanerTypes DEF CleanerNext
  <2>2. QED
    BY <1>0, <1>7, <2>1 DEF uploadVars, requestVars, UploadTypeOK, ReceiverTypeOK
<1>8. CASE UNCHANGED vars
  BY <1>8 DEF vars, baseVars, storeVars, blobVars, uploadVars, requestVars, cleanerVars,
         StoreTypeOK, BlobTypeOK, UploadTypeOK, ReceiverTypeOK, CleanupTypeOK
<1>9. QED
  BY <1>1, <1>2, <1>3, <1>4, <1>5, <1>6, <1>7, <1>8 DEF Next

\* Whatever the handlers, the cleaners, the clock and the faults do, every variable
\* keeps to the values its part of the code can produce.
THEOREM TypeCorrectness == Spec => []TypeOK
  BY InitTypeOK, StepTypeOK, PTL DEF Spec

-----------------------------------------------------------------------------
(* The queue limit.  BeginSubmission counts and inserts in one statement   *)
(* and nothing else makes a row pending, so the limit needs no assumption  *)
(* about cleaners or time.                                                 *)

PendingKeys(d) == {k \in KeysOf(d) : status[k] \in Pending}

QuotaInv ==
  \A d \in DropPoints : IsFiniteSet(PendingKeys(d)) /\ Cardinality(PendingKeys(d)) <= MaxPending

\* Only the insert of BeginSubmission makes a row pending, one row and below the limit.
LEMMA OnlyBeginAdds ==
  ASSUME TypeOK, [Next]_vars
  PROVE  \/ \A k \in Keys : status'[k] \in Pending => status[k] \in Pending
         \/ \E k \in Keys : /\ PendingCount(k[1]) < MaxPending
                            /\ \A l \in Keys \ {k} : status'[l] = status[l]
<1> DEFINE Only == \A k \in Keys : status'[k] \in Pending => status[k] \in Pending
<1> USE DEF TypeOK, StoreTypeOK, Pending
<1>1. CASE status' = status
  BY <1>1
<1>2. ASSUME NEW k \in Keys,
             \/ DeleteReceivingSubmission(k) \/ AcknowledgeSubmission(k) \/ FailSubmission(k)
             \/ status[k] = "receiving" /\ \E u \in Uploads : CommitSubmission(k, u)
      PROVE  Only
  BY <1>2 DEF DeleteReceivingSubmission, AcknowledgeSubmission, FailSubmission, CommitSubmission
<1>3. ASSUME NEW u \in Uploads, UploadStep(u) \/ UploadFault(u) \/ \E k \in Keys : AuthorizeDrop(u, k)
      PROVE  Only \/ \E k \in Keys : /\ PendingCount(k[1]) < MaxPending
                                     /\ \A l \in Keys \ {k} : status'[l] = status[l]
  <2>0. ukey[u] \in Keys
    BY DEF UploadTypeOK
  <2>1. CASE Begin(u) \/ BeginLost(u)
    BY <2>0, <2>1 DEF Begin, BeginLost, MayBegin, InsertReceiving
  <2>2. CASE Commit(u) \/ CommitErrs(u) \/ Unrow(u)
    BY <1>1, <1>2, <2>0, <2>2 DEF Commit, CommitErrs, MayCommit, Unrow, storeVars
  <2>3. QED
    BY <1>1, <1>3, <2>1, <2>2
       DEF UploadStep, UploadFault, AuthorizeDrop, BeginRefused, Stage, InstallPayload,
           InstallEnvelope, WriteFails, EnvelopeFails, SyncFails, CommitRejected, VerifySettled,
           VerifyUnsettled, Undo, GiveUp, storeVars
<1>4. ASSUME NEW r \in Requests, RequestStep(r) \/ RequestFault(r) \/ \E k \in Keys : Authorize(r, k)
      PROVE  Only
  <2>0. rkey[r] \in Keys
    BY DEF ReceiverTypeOK
  <2>1. CASE Acknowledge(r) \/ FailCorrupt(r)
    BY <1>2, <2>0, <2>1 DEF Acknowledge, FailCorrupt
  <2>2. CASE Close(r) \/ \E k \in Keys : Authorize(r, k)
    BY <1>1, <2>2 DEF Close, Authorize, MarkClosed, MarkExpired, storeVars, rowVars
  <2>3. QED
    BY <1>1, <1>4, <2>1, <2>2
       DEF RequestStep, RequestFault, FindReady, FindOther, ReadEnvelope, OpenPayload, BlobMissing,
           Send, Mark, MarkSubmissionPickedUp, AckDelete, AckClear, ClearFiles, CloseMissing,
           CloseDelete, CloseClear, Abandon, storeVars
<1>5. ASSUME NEW c \in Cleaners, CleanerStep(c) \/ Abort(c)
      PROVE  Only
  <2>0. ckey[c] \in Keys
    BY DEF CleanupTypeOK
  <2>1. CASE RecoverRow(c)
    BY <1>2, <2>0, <2>1 DEF RecoverRow
  <2>2. CASE Purge(c)
    BY <2>2 DEF Purge, PurgeTerminalDropPoints
  <2>3. CASE ExpireDropPoints(c) \/ ChildClear(c) \/ TerminalClear(c)
    BY <1>1, <2>3 DEF ExpireDropPoints, MarkExpired, ChildClear, TerminalClear, ClearFiles, rowVars
  <2>4. QED
    BY <1>1, <1>5, <2>1, <2>2, <2>3
       DEF CleanerStep, Abort, StartPass, Boot, RecoverBlobs, ListChildren, ChildBlobs,
           ListTerminals, TerminalBlobs, ListRows, ListDirs, OrphanBlobs, storeVars
<1>6. CASE \/ \E d \in DropPoints : Create(d) \/ ExpireLazily(d)
           \/ Tick \/ Crash \/ UNCHANGED vars
  BY <1>1, <1>6 DEF Create, InsertDropPoint, ExpireLazily, MarkExpired, Tick, Lapse, Age, GoStale,
         Crash, vars, storeVars, rowVars
<1>7. QED
  BY <1>3, <1>4, <1>5, <1>6 DEF Next, UploadNext, RequestNext, CleanerNext

\* The receiving and ready rows of a drop point are finitely many and within the limit.
LEMMA PendingIsCounted == Spec => []QuotaInv
<1>1. Init => QuotaInv
  <2> SUFFICES ASSUME Init, NEW d \in DropPoints
               PROVE  IsFiniteSet(PendingKeys(d)) /\ Cardinality(PendingKeys(d)) <= MaxPending
    BY DEF QuotaInv
  <2>1. PendingKeys(d) = {}
    BY DEF Init, StoreInit, PendingKeys, KeysOf, Pending
  <2>2. QED
    BY <2>1, FS_EmptySet, SizesAssumption
<1>2. TypeOK /\ QuotaInv /\ [Next]_vars => QuotaInv'
  <2> SUFFICES ASSUME TypeOK, QuotaInv, [Next]_vars, NEW d \in DropPoints
               PROVE  IsFiniteSet(PendingKeys(d)') /\ Cardinality(PendingKeys(d)') <= MaxPending
    BY DEF QuotaInv
  <2>0. /\ IsFiniteSet(PendingKeys(d))
        /\ Cardinality(PendingKeys(d)) \in Nat /\ Cardinality(PendingKeys(d)) <= MaxPending
    BY FS_CardinalityType DEF QuotaInv
  <2>1. CASE PendingKeys(d)' \subseteq PendingKeys(d)
    <3>1. IsFiniteSet(PendingKeys(d)') /\ Cardinality(PendingKeys(d)') <= Cardinality(PendingKeys(d))
      BY <2>0, <2>1, FS_Subset
    <3>2. QED
      BY <2>0, <3>1, FS_CardinalityType, SizesAssumption
  <2>2. ASSUME NEW k \in Keys, Cardinality(PendingKeys(d)) < MaxPending,
               PendingKeys(d)' \subseteq PendingKeys(d) \cup {k}
        PROVE  IsFiniteSet(PendingKeys(d)') /\ Cardinality(PendingKeys(d)') <= MaxPending
    <3>1. /\ IsFiniteSet(PendingKeys(d) \cup {k})
          /\ Cardinality(PendingKeys(d) \cup {k}) \in Nat
          /\ Cardinality(PendingKeys(d) \cup {k}) <= MaxPending
      <4>1. /\ IsFiniteSet(PendingKeys(d) \cup {k})
            /\ Cardinality(PendingKeys(d) \cup {k})
                 \in {Cardinality(PendingKeys(d)), Cardinality(PendingKeys(d)) + 1}
        BY <2>0, FS_AddElement
      <4>2. QED
        BY <2>0, <2>2, <4>1, SizesAssumption
    <3>2. /\ IsFiniteSet(PendingKeys(d)')
          /\ Cardinality(PendingKeys(d)') <= Cardinality(PendingKeys(d) \cup {k})
      BY <2>2, <3>1, FS_Subset
    <3>3. QED
      BY <3>1, <3>2, FS_CardinalityType, SizesAssumption
  <2>3. CASE \A k \in Keys : status'[k] \in Pending => status[k] \in Pending
    BY <2>1, <2>3 DEF PendingKeys, KeysOf
  <2>4. CASE \E k \in Keys : /\ PendingCount(k[1]) < MaxPending
                             /\ \A l \in Keys \ {k} : status'[l] = status[l]
    <3>1. PICK k \in Keys : /\ PendingCount(k[1]) < MaxPending
                            /\ \A l \in Keys \ {k} : status'[l] = status[l]
      BY <2>4
    <3>2. CASE k[1] = d
      <4>1. Cardinality(PendingKeys(d)) < MaxPending
        BY <3>1, <3>2 DEF PendingCount, PendingKeys
      <4>2. PendingKeys(d)' \subseteq PendingKeys(d) \cup {k}
        BY <3>1 DEF PendingKeys, KeysOf
      <4>3. QED
        BY <2>2, <4>1, <4>2
    <3>3. CASE k[1] # d
      BY <2>1, <3>1, <3>3 DEF PendingKeys, KeysOf
    <3>4. QED
      BY <3>2, <3>3
  <2>5. QED
    BY <2>3, <2>4, OnlyBeginAdds
<1>3. QED
  BY <1>1, <1>2, TypeCorrectness, PTL DEF Spec

\* However many uploads run and however they interleave, fail or are cleaned up, a drop
\* point never holds more receiving and ready rows than max_pending_submissions: with any
\* number of cleaners and without any assumption on timing.
THEOREM QueueIsBounded == Spec => []PendingWithinQuota
<1>1. QuotaInv => PendingWithinQuota
  BY DEF QuotaInv, PendingWithinQuota, PendingCount, PendingKeys
<1>2. QED
  BY <1>1, PendingIsCounted, PTL

-----------------------------------------------------------------------------
(* Sums over finite sets.  SUM of a query is MapThenSumSet, which takes    *)
(* elements out one by one in an order nobody knows; what it is follows by *)
(* induction over the subsets, from the smallest counterexample.           *)

\* The element that MapThenSumSet takes out of a set.
OneOf(s) == CHOOSE x \in s : TRUE

\* g[s] is the sum of the numbers F over s, for every subset s of S.
SumsOf(g, F, S) ==
  g = [s \in SUBSET S |-> IF s = {} THEN 0 ELSE F[OneOf(s)] + g[s \ {OneOf(s)}]]

\* MapThenSumSet of what F maps to.
SumOver(F, S) == (CHOOSE g : SumsOf(g, F, S))[S]

\* A set that has every subset of S all of whose smaller subsets it has, has them all.
LEMMA SubsetInduction ==
  ASSUME NEW S, IsFiniteSet(S), NEW G,
         ASSUME NEW s \in SUBSET S, \A r \in SUBSET s : r # s => r \in G
         PROVE  s \in G
  PROVE  \A s \in SUBSET S : s \in G
<1> DEFINE B == {s \in SUBSET S : s \notin G}
<1> SUFFICES B = {}
  OBVIOUS
<1>1. IsWellFoundedOn(StrictSubsetOrdering(S), FiniteSubsetsOf(S))
  BY FS_StrictSubsetOrderingWellFounded
<1>2. B \subseteq FiniteSubsetsOf(S)
  BY FS_Subset DEF FiniteSubsetsOf
<1>3. SUFFICES ASSUME B # {} PROVE FALSE
  OBVIOUS
<1>4. PICK s \in B : \A r \in B : <<r, s>> \notin StrictSubsetOrdering(S)
  <2> HIDE DEF B
  <2> QED BY <1>1, <1>2, <1>3, WFMin
<1>5. \A r \in SUBSET s : r # s => r \in G
  BY <1>4 DEF StrictSubsetOrdering
<1>6. QED
  BY <1>4, <1>5

\* A function of sums over S is one of sums over a subset, as far as it goes.
LEMMA SumsBelow ==
  ASSUME NEW F, NEW S, NEW g, SumsOf(g, F, S), NEW R \in SUBSET S
  PROVE  SumsOf([s \in SUBSET R |-> g[s]], F, R)
<1> DEFINE h == [s \in SUBSET R |-> g[s]]
<1>1. \A s \in SUBSET S : g[s] = IF s = {} THEN 0 ELSE F[OneOf(s)] + g[s \ {OneOf(s)}]
  BY DEF SumsOf
<1>2. \A s \in SUBSET R : s \ {OneOf(s)} \in SUBSET R
  OBVIOUS
<1>3. h = [s \in SUBSET R |-> IF s = {} THEN 0 ELSE F[OneOf(s)] + h[s \ {OneOf(s)}]]
  BY <1>1, <1>2
<1>4. QED
  BY <1>3 DEF SumsOf

\* There is such a function for a finite set, so its recursion defines something, and all
\* of them agree on all subsets.
LEMMA SumsAgree ==
  ASSUME NEW F, NEW S, IsFiniteSet(S)
  PROVE  /\ \E g : SumsOf(g, F, S)
         /\ \A g : SumsOf(g, F, S) => \A s \in SUBSET S : g[s] = SumOver(F, s)
<1> DEFINE Good == {s \in SUBSET S : /\ \E g : SumsOf(g, F, s)
                                     /\ \A g : SumsOf(g, F, s) => \A r \in SUBSET s : g[r] = SumOver(F, r)}
<1>1. ASSUME NEW s \in SUBSET S, \A r \in SUBSET s : r # s => r \in Good
      PROVE  s \in Good
  <2>1. \A r \in SUBSET s : r # s =>
          /\ \E g : SumsOf(g, F, r)
          /\ \A g : SumsOf(g, F, r) => \A q \in SUBSET r : g[q] = SumOver(F, q)
    BY <1>1
  <2>2. \A r \in SUBSET s : r # s => SumOver(F, r) = IF r = {} THEN 0 ELSE F[OneOf(r)] + SumOver(F, r \ {OneOf(r)})
    <3> SUFFICES ASSUME NEW r \in SUBSET s, r # s
                 PROVE  SumOver(F, r) = IF r = {} THEN 0 ELSE F[OneOf(r)] + SumOver(F, r \ {OneOf(r)})
      OBVIOUS
    <3>1. PICK g : SumsOf(g, F, r)
      BY <2>1
    <3>2. \A q \in SUBSET r : g[q] = SumOver(F, q)
      BY <2>1, <3>1
    <3>3. g[r] = IF r = {} THEN 0 ELSE F[OneOf(r)] + g[r \ {OneOf(r)}]
      BY <3>1 DEF SumsOf
    <3>4. QED
      BY <3>2, <3>3
  <2> DEFINE first == IF s = {} THEN 0 ELSE F[OneOf(s)] + SumOver(F, s \ {OneOf(s)})
             h == [r \in SUBSET s |-> IF r = s THEN first ELSE SumOver(F, r)]
  <2>3. s # {} => OneOf(s) \in s
    BY DEF OneOf
  <2>4. SumsOf(h, F, s)
    <3>1. ASSUME NEW r \in SUBSET s PROVE h[r] = IF r = {} THEN 0 ELSE F[OneOf(r)] + h[r \ {OneOf(r)}]
      <4>1. CASE r = s
        <5>1. s # {} => s \ {OneOf(s)} # s /\ s \ {OneOf(s)} \in SUBSET s
          BY <2>3
        <5>2. QED
          BY <4>1, <5>1
      <4>2. CASE r # s
        <5>1. r \ {OneOf(r)} # s /\ r \ {OneOf(r)} \in SUBSET s
          BY <4>2
        <5>2. QED
          BY <2>2, <4>2, <5>1
      <4>3. QED
        BY <4>1, <4>2
    <3>2. h = [r \in SUBSET s |-> IF r = {} THEN 0 ELSE F[OneOf(r)] + h[r \ {OneOf(r)}]]
      BY <3>1
    <3>3. QED
      BY <3>2 DEF SumsOf
  <2>5. ASSUME NEW g, SumsOf(g, F, s) PROVE \A r \in SUBSET s : g[r] = h[r]
    <3>1. ASSUME NEW r \in SUBSET s, r # s PROVE g[r] = SumOver(F, r)
      <4>1. SumsOf([q \in SUBSET r |-> g[q]], F, r)
        BY <2>5, SumsBelow
      <4>2. [q \in SUBSET r |-> g[q]][r] = SumOver(F, r)
        BY <2>1, <3>1, <4>1
      <4>3. QED
        BY <4>2
    <3>2. g[s] = IF s = {} THEN 0 ELSE F[OneOf(s)] + g[s \ {OneOf(s)}]
      BY <2>5 DEF SumsOf
    <3>3. g[s] = first
      BY <2>3, <3>1, <3>2
    <3>4. QED
      BY <3>1, <3>3
  <2>6. SumOver(F, s) = h[s]
    <3>1. SumsOf(CHOOSE g : SumsOf(g, F, s), F, s)
      <4> HIDE DEF h
      <4> QED BY <2>4
    <3>2. (CHOOSE g : SumsOf(g, F, s))[s] = h[s]
      <4> HIDE DEF h
      <4> QED BY <2>5, <3>1
    <3>3. QED
      BY <3>2 DEF SumOver
  <2>7. \A r \in SUBSET s : h[r] = SumOver(F, r)
    BY <2>6
  <2>8. QED
    <3> HIDE DEF h
    <3> QED BY <2>4, <2>5, <2>7
<1>2. \A s \in SUBSET S : s \in Good
  <2> HIDE DEF Good
  <2> QED BY <1>1, SubsetInduction
<1>3. QED
  BY <1>2

\* The sum over a set is that over the rest and one more.
LEMMA SumUnfolds ==
  ASSUME NEW F, NEW S, IsFiniteSet(S)
  PROVE  SumOver(F, S) = IF S = {} THEN 0 ELSE F[OneOf(S)] + SumOver(F, S \ {OneOf(S)})
<1>1. PICK g : SumsOf(g, F, S)
  BY SumsAgree
<1>2. \A s \in SUBSET S : g[s] = SumOver(F, s)
  BY <1>1, SumsAgree
<1>3. g[S] = IF S = {} THEN 0 ELSE F[OneOf(S)] + g[S \ {OneOf(S)}]
  BY <1>1 DEF SumsOf
<1>4. QED
  BY <1>2, <1>3

\* Numbers that agree on a set have one sum over it, and it is a number.
LEMMA SumsEqual ==
  ASSUME NEW F, NEW G, NEW S, IsFiniteSet(S), \A x \in S : F[x] \in Nat /\ G[x] = F[x]
  PROVE  SumOver(F, S) \in Nat /\ SumOver(G, S) = SumOver(F, S)
<1> DEFINE Good == {s \in SUBSET S : SumOver(F, s) \in Nat /\ SumOver(G, s) = SumOver(F, s)}
<1>1. ASSUME NEW s \in SUBSET S, \A r \in SUBSET s : r # s => r \in Good
      PROVE  s \in Good
  <2>1. IsFiniteSet(s)
    BY FS_Subset
  <2>2. CASE s = {}
    <3>1. SumOver(F, s) = 0 /\ SumOver(G, s) = 0
      BY <2>1, <2>2, SumUnfolds
    <3>2. QED
      BY <3>1
  <2>3. CASE s # {}
    <3>1. OneOf(s) \in s
      BY <2>3 DEF OneOf
    <3>2. s \ {OneOf(s)} \in Good
      BY <1>1, <3>1
    <3>3. SumOver(F, s) = F[OneOf(s)] + SumOver(F, s \ {OneOf(s)}) /\ SumOver(G, s) = G[OneOf(s)] + SumOver(G, s \ {OneOf(s)})
      BY <2>1, <2>3, SumUnfolds
    <3>4. QED
      BY <3>1, <3>2, <3>3
  <2>4. QED
    BY <2>2, <2>3
<1>2. \A s \in SUBSET S : s \in Good
  <2> HIDE DEF Good
  <2> QED BY <1>1, SubsetInduction
<1>3. QED
  BY <1>2

\* It does not matter which element is taken out of the sum.
LEMMA SumWithout ==
  ASSUME NEW F, NEW S, IsFiniteSet(S), \A x \in S : F[x] \in Nat
  PROVE  \A x \in S : SumOver(F, S) = F[x] + SumOver(F, S \ {x})
<1> DEFINE Good == {s \in SUBSET S : \A x \in s : SumOver(F, s) = F[x] + SumOver(F, s \ {x})}
<1>1. ASSUME NEW s \in SUBSET S, \A r \in SUBSET s : r # s => r \in Good
      PROVE  s \in Good
  <2> SUFFICES ASSUME NEW x \in s PROVE SumOver(F, s) = F[x] + SumOver(F, s \ {x})
    OBVIOUS
  <2> DEFINE y == OneOf(s)
             rest == s \ {x, y}
  <2>1. y \in s /\ SumOver(F, s) = F[y] + SumOver(F, s \ {y})
    BY FS_Subset, SumUnfolds DEF OneOf
  <2>2. CASE x = y
    BY <2>1, <2>2
  <2>3. CASE x # y
    <3>1. s \ {x} \in Good /\ s \ {y} \in Good
      BY <1>1, <2>1
    <3>2. (s \ {x}) \ {y} = rest /\ (s \ {y}) \ {x} = rest /\ y \in s \ {x} /\ x \in s \ {y}
      BY <2>1, <2>3
    <3>3. SumOver(F, s \ {y}) = F[x] + SumOver(F, rest) /\ SumOver(F, s \ {x}) = F[y] + SumOver(F, rest)
      BY <3>1, <3>2
    <3>4. SumOver(F, rest) \in Nat
      BY FS_Subset, SumsEqual
    <3>5. F[x] \in Nat /\ F[y] \in Nat
      BY <2>1
    <3>6. QED
      BY <2>1, <3>3, <3>4, <3>5
  <2>4. QED
    BY <2>2, <2>3
<1>2. \A s \in SUBSET S : s \in Good
  <2> HIDE DEF Good
  <2> QED BY <1>1, SubsetInduction
<1>3. QED
  BY <1>2

\* Less is summed over less.
LEMMA SumOfLess ==
  ASSUME NEW F, NEW S, IsFiniteSet(S), \A x \in S : F[x] \in Nat, NEW R \in SUBSET S
  PROVE  SumOver(F, R) <= SumOver(F, S)
<1> DEFINE Good == {s \in SUBSET S : \A r \in SUBSET s : SumOver(F, r) <= SumOver(F, s)}
<1>1. ASSUME NEW s \in SUBSET S, \A r \in SUBSET s : r # s => r \in Good
      PROVE  s \in Good
  <2> SUFFICES ASSUME NEW r \in SUBSET s PROVE SumOver(F, r) <= SumOver(F, s)
    OBVIOUS
  <2>1. SumOver(F, s) \in Nat
    BY FS_Subset, SumsEqual
  <2>2. CASE r = s
    BY <2>1, <2>2
  <2>3. CASE r # s
    <3>1. PICK x \in s : x \notin r
      BY <2>3
    <3>2. SumOver(F, s) = F[x] + SumOver(F, s \ {x})
      BY FS_Subset, SumWithout
    <3>3. SumOver(F, r) <= SumOver(F, s \ {x})
      BY <1>1, <3>1
    <3>4. SumOver(F, r) \in Nat /\ SumOver(F, s \ {x}) \in Nat /\ F[x] \in Nat
      BY FS_Subset, SumsEqual
    <3>5. QED
      BY <3>2, <3>3, <3>4
  <2>4. QED
    BY <2>2, <2>3
<1>2. \A s \in SUBSET S : s \in Good
  <2> HIDE DEF Good
  <2> QED BY <1>1, SubsetInduction
<1>3. QED
  BY <1>2

-----------------------------------------------------------------------------
(* The byte limit: CommitSubmission sums and updates in one transaction    *)

\* The rows that CommitSubmission sums over, and the size that each row records.
ReadyKeys(d) == {k \in KeysOf(d) : status[k] = "ready"}
SizeIn == [k \in Keys |-> SizeOf[owner[k]]]

\* Stated with the sums of the section above; only rows of an upload are summed.
BytesInv ==
  /\ \A k \in Keys : status[k] = "ready" => owner[k] \in Uploads
  /\ \A d \in DropPoints : SumOver(SizeIn, ReadyKeys(d)) <= MaxPendingBytes

\* ReadyBytes, which the transaction of CommitSubmission computes with SUM, is that sum.
LEMMA ReadyBytesSum ==
  \A d \in DropPoints : IsFiniteSet(ReadyKeys(d)) => ReadyBytes(d) = SumOver(SizeIn, ReadyKeys(d))
<1> SUFFICES ASSUME NEW d \in DropPoints, IsFiniteSet(ReadyKeys(d))
             PROVE  ReadyBytes(d) = SumOver(SizeIn, ReadyKeys(d))
  OBVIOUS
<1> DEFINE Sums(g) ==
      g = [s \in SUBSET ReadyKeys(d) |->
             IF s = {} THEN 0 ELSE SizeOf[owner[OneOf(s)]] + g[s \ {OneOf(s)}]]
<1>1. ReadyBytes(d) = (CHOOSE g : Sums(g))[ReadyKeys(d)]
  BY DEF ReadyBytes, ReadyKeys, MapThenSumSet, MapThenFoldSet, OneOf
<1>2. \A s \in SUBSET ReadyKeys(d) : s # {} => OneOf(s) \in Keys
  <2>1. \A s \in SUBSET ReadyKeys(d) : s # {} => OneOf(s) \in s
    BY DEF OneOf
  <2>2. QED
    BY <2>1 DEF ReadyKeys, KeysOf
<1>3. ASSUME NEW g PROVE Sums(g) <=> SumsOf(g, SizeIn, ReadyKeys(d))
  <2> DEFINE L == [s \in SUBSET ReadyKeys(d) |->
                     IF s = {} THEN 0 ELSE SizeOf[owner[OneOf(s)]] + g[s \ {OneOf(s)}]]
             R == [s \in SUBSET ReadyKeys(d) |->
                     IF s = {} THEN 0 ELSE SizeIn[OneOf(s)] + g[s \ {OneOf(s)}]]
  <2>1. \A s \in SUBSET ReadyKeys(d) : L[s] = R[s]
    BY <1>2 DEF SizeIn
  <2>2. L = R
    BY <2>1
  <2>3. QED
    BY <2>2 DEF SumsOf
<1>4. PICK g : SumsOf(g, SizeIn, ReadyKeys(d))
  BY SumsAgree
<1>5. Sums(CHOOSE h : Sums(h))
  <2>1. Sums(g)
    BY <1>3, <1>4
  <2> HIDE DEF Sums
  <2>2. QED
    BY <2>1
<1>6. PICK h : h = CHOOSE i : Sums(i)
  OBVIOUS
<1>7. SumsOf(h, SizeIn, ReadyKeys(d))
  <2> HIDE DEF Sums
  <2> QED BY <1>3, <1>5, <1>6
<1>8. h[ReadyKeys(d)] = SumOver(SizeIn, ReadyKeys(d))
  BY <1>7, SumsAgree
<1>9. QED
  BY <1>1, <1>6, <1>8

\* Only a commit that MayCommit admits makes a row ready, and no other step changes what a
\* ready row records.
LEMMA OnlyCommitReadies ==
  ASSUME TypeOK, [Next]_vars
  PROVE  \/ \A k \in Keys : status'[k] = "ready" => status[k] = "ready" /\ owner'[k] = owner[k]
         \/ \E k \in Keys, u \in Uploads : MayCommit(k, u) /\ CommitSubmission(k, u)
<1> DEFINE None == \A k \in Keys : status'[k] = "ready" => status[k] = "ready" /\ owner'[k] = owner[k]
<1> USE DEF TypeOK, StoreTypeOK
<1>1. CASE status' = status /\ owner' = owner
  BY <1>1
<1>2. ASSUME NEW k \in Keys,
             DeleteReceivingSubmission(k) \/ AcknowledgeSubmission(k) \/ FailSubmission(k)
      PROVE  None
  BY <1>2 DEF DeleteReceivingSubmission, AcknowledgeSubmission, FailSubmission
<1>3. ASSUME NEW u \in Uploads, UploadStep(u) \/ UploadFault(u) \/ \E k \in Keys : AuthorizeDrop(u, k)
      PROVE  None \/ \E k \in Keys : MayCommit(k, u) /\ CommitSubmission(k, u)
  <2>0. ukey[u] \in Keys
    BY DEF UploadTypeOK
  <2>1. CASE Begin(u) \/ BeginLost(u)
    BY <2>0, <2>1 DEF Begin, BeginLost, MayBegin, InsertReceiving
  <2>2. CASE Commit(u) \/ CommitErrs(u)
    BY <1>1, <2>0, <2>2 DEF Commit, CommitErrs, storeVars
  <2>3. CASE Unrow(u)
    BY <1>1, <1>2, <2>0, <2>3 DEF Unrow, storeVars
  <2>4. QED
    BY <1>1, <1>3, <2>1, <2>2, <2>3
       DEF UploadStep, UploadFault, AuthorizeDrop, BeginRefused, Stage, InstallPayload,
           InstallEnvelope, WriteFails, EnvelopeFails, SyncFails, CommitRejected, VerifySettled,
           VerifyUnsettled, Undo, GiveUp, storeVars
<1>4. ASSUME NEW r \in Requests, RequestStep(r) \/ RequestFault(r) \/ \E k \in Keys : Authorize(r, k)
      PROVE  None
  <2>0. rkey[r] \in Keys
    BY DEF ReceiverTypeOK
  <2>1. CASE Acknowledge(r) \/ FailCorrupt(r)
    BY <1>2, <2>0, <2>1 DEF Acknowledge, FailCorrupt
  <2>2. CASE Close(r) \/ \E k \in Keys : Authorize(r, k)
    BY <1>1, <2>2 DEF Close, Authorize, MarkClosed, MarkExpired, storeVars, rowVars
  <2>3. QED
    BY <1>1, <1>4, <2>1, <2>2
       DEF RequestStep, RequestFault, FindReady, FindOther, ReadEnvelope, OpenPayload, BlobMissing,
           Send, Mark, MarkSubmissionPickedUp, AckDelete, AckClear, ClearFiles, CloseMissing,
           CloseDelete, CloseClear, Abandon, storeVars
<1>5. ASSUME NEW c \in Cleaners, CleanerStep(c) \/ Abort(c)
      PROVE  None
  <2>0. ckey[c] \in Keys
    BY DEF CleanupTypeOK
  <2>1. CASE RecoverRow(c)
    BY <1>2, <2>0, <2>1 DEF RecoverRow
  <2>2. CASE Purge(c)
    BY <2>2 DEF Purge, PurgeTerminalDropPoints
  <2>3. CASE ExpireDropPoints(c) \/ ChildClear(c) \/ TerminalClear(c)
    BY <1>1, <2>3 DEF ExpireDropPoints, MarkExpired, ChildClear, TerminalClear, ClearFiles, rowVars
  <2>4. QED
    BY <1>1, <1>5, <2>1, <2>2, <2>3
       DEF CleanerStep, Abort, StartPass, Boot, RecoverBlobs, ListChildren, ChildBlobs,
           ListTerminals, TerminalBlobs, ListRows, ListDirs, OrphanBlobs, storeVars
<1>6. CASE \/ \E d \in DropPoints : Create(d) \/ ExpireLazily(d)
           \/ Tick \/ Crash \/ UNCHANGED vars
  BY <1>1, <1>6 DEF Create, InsertDropPoint, ExpireLazily, MarkExpired, Tick, Lapse, Age, GoStale,
         Crash, vars, storeVars, rowVars
<1>7. QED
  BY <1>3, <1>4, <1>5, <1>6 DEF Next, UploadNext, RequestNext, CleanerNext

\* What a commit adds to the sum is what MayCommit counted; all else takes from it.
LEMMA StepBytesInv ==
  ASSUME TypeOK, QuotaInv, BytesInv, [Next]_vars
  PROVE  BytesInv'
<1>1. \A d \in DropPoints : IsFiniteSet(ReadyKeys(d)) /\ ReadyKeys(d) \subseteq Keys
  <2> SUFFICES ASSUME NEW d \in DropPoints PROVE IsFiniteSet(ReadyKeys(d)) /\ ReadyKeys(d) \subseteq Keys
    OBVIOUS
  <2>1. ReadyKeys(d) \subseteq PendingKeys(d) /\ ReadyKeys(d) \subseteq Keys
    BY DEF ReadyKeys, PendingKeys, Pending, KeysOf
  <2>2. QED
    BY <2>1, FS_Subset DEF QuotaInv
<1>2. \A d \in DropPoints : \A k \in ReadyKeys(d) : SizeIn[k] \in Nat /\ k \in Keys
  BY SizesAssumption DEF BytesInv, ReadyKeys, KeysOf, SizeIn
<1>3. \A d \in DropPoints : SumOver(SizeIn, ReadyKeys(d)) \in Nat
  BY <1>1, <1>2, SumsEqual
<1>4. PICK own, size : own = owner' /\ size = [k \in Keys |-> SizeOf[own[k]]]
  OBVIOUS
<1>5. size = SizeIn' /\ \A k \in Keys : size[k] = SizeOf[own[k]]
  BY <1>4 DEF SizeIn
<1>6. CASE \A k \in Keys : status'[k] = "ready" => status[k] = "ready" /\ owner'[k] = owner[k]
  <2>1. ASSUME NEW d \in DropPoints PROVE SumOver(SizeIn, ReadyKeys(d))' <= MaxPendingBytes
    <3>1. PICK R : R = ReadyKeys(d)'
      OBVIOUS
    <3>2. R \subseteq ReadyKeys(d) /\ \A k \in R : k \in Keys /\ own[k] = owner[k]
      BY <1>4, <1>6, <3>1 DEF ReadyKeys, KeysOf
    <3>3. IsFiniteSet(R)
      BY <1>1, <3>2, FS_Subset
    <3>4. \A k \in R : SizeIn[k] \in Nat /\ size[k] = SizeIn[k]
      BY <1>2, <1>5, <3>2 DEF SizeIn
    <3>5. SumOver(size, R) = SumOver(SizeIn, R) /\ SumOver(SizeIn, R) \in Nat
      BY <3>3, <3>4, SumsEqual
    <3>6. SumOver(SizeIn, R) <= SumOver(SizeIn, ReadyKeys(d))
      BY <1>1, <1>2, <3>2, SumOfLess
    <3>7. SumOver(SizeIn, ReadyKeys(d)) <= MaxPendingBytes
      BY DEF BytesInv
    <3>8. SumOver(size, R) <= MaxPendingBytes
      BY <1>3, <3>5, <3>6, <3>7, SizesAssumption
    <3>9. QED
      BY <1>5, <3>1, <3>8
  <2>2. \A k \in Keys : status'[k] = "ready" => owner'[k] \in Uploads
    BY <1>6 DEF BytesInv
  <2>3. QED
    BY <2>1, <2>2 DEF BytesInv
<1>7. ASSUME NEW k \in Keys, NEW u \in Uploads, MayCommit(k, u), CommitSubmission(k, u)
      PROVE  BytesInv'
  <2>0. k[1] \in DropPoints /\ SizeOf[u] \in Nat
    BY KeyFacts, SizesAssumption
  <2>1. /\ status[k] = "receiving" /\ status' = [status EXCEPT ![k] = "ready"]
        /\ owner' = [owner EXCEPT ![k] = u]
        /\ SizeOf[u] + ReadyBytes(k[1]) <= MaxPendingBytes
    BY <1>7 DEF MayCommit, CommitSubmission
  <2>2. status \in [Keys -> {"none", "receiving", "ready", "acknowledged", "failed"}] /\ owner \in [Keys -> Owners]
    BY DEF TypeOK, StoreTypeOK
  <2>3. \A l \in Keys : status'[l] = "ready" => owner'[l] \in Uploads
    BY <2>1, <2>2 DEF BytesInv
  <2>4. SizeOf[u] + SumOver(SizeIn, ReadyKeys(k[1])) <= MaxPendingBytes
    BY <1>1, <2>0, <2>1, ReadyBytesSum
  <2>5. ASSUME NEW d \in DropPoints PROVE SumOver(SizeIn, ReadyKeys(d))' <= MaxPendingBytes
    <3>1. PICK R : R = ReadyKeys(d)'
      OBVIOUS
    <3>2. \A l \in ReadyKeys(d) : l \in Keys /\ l # k /\ SizeIn[l] \in Nat /\ size[l] = SizeIn[l]
      BY <1>2, <1>4, <1>5, <2>1, <2>2 DEF ReadyKeys, SizeIn
    <3>3. SumOver(size, ReadyKeys(d)) = SumOver(SizeIn, ReadyKeys(d))
      BY <1>1, <3>2, SumsEqual
    <3>4. CASE k[1] = d
      <4>1. R = ReadyKeys(d) \cup {k} /\ R \ {k} = ReadyKeys(d)
        BY <2>1, <2>2, <3>1, <3>2, <3>4 DEF ReadyKeys, KeysOf
      <4>2. size[k] = SizeOf[u]
        BY <1>4, <1>5, <2>1, <2>2
      <4>3. IsFiniteSet(R)
        BY <1>1, <4>1, FS_AddElement
      <4>4. \A l \in R : size[l] \in Nat
        BY <2>0, <3>2, <4>1, <4>2
      <4>5. SumOver(size, R) = size[k] + SumOver(size, R \ {k})
        BY <4>1, <4>3, <4>4, SumWithout
      <4>6. SumOver(size, R) <= MaxPendingBytes
        BY <2>4, <3>3, <3>4, <4>1, <4>2, <4>5
      <4>7. QED
        BY <1>5, <3>1, <4>6
    <3>5. CASE k[1] # d
      <4>1. R = ReadyKeys(d)
        BY <2>1, <2>2, <3>1, <3>5 DEF ReadyKeys, KeysOf
      <4>2. SumOver(size, R) <= MaxPendingBytes
        BY <3>3, <4>1 DEF BytesInv
      <4>3. QED
        BY <1>5, <3>1, <4>2
    <3>6. QED
      BY <3>4, <3>5
  <2>6. QED
    BY <2>3, <2>5 DEF BytesInv
<1>8. QED
  BY <1>6, <1>7, OnlyCommitReadies

\* However many uploads commit at once and whatever is freed meanwhile, the ready rows of a
\* drop point never hold more bytes than max_pending_bytes: with any number of cleaners and
\* without any assumption on timing.
THEOREM BytesAreBounded == Spec => []ReadyBytesWithinQuota
<1>1. Init => BytesInv
  <2> SUFFICES ASSUME Init PROVE BytesInv
    OBVIOUS
  <2>1. \A k \in Keys : status[k] = "none"
    BY DEF Init, StoreInit
  <2>2. \A d \in DropPoints : ReadyKeys(d) = {}
    BY <2>1 DEF ReadyKeys, KeysOf
  <2>3. SumOver(SizeIn, {}) = 0
    BY FS_EmptySet, SumUnfolds
  <2>4. QED
    BY <2>1, <2>2, <2>3, SizesAssumption DEF BytesInv
<1>2. TypeOK /\ QuotaInv /\ BytesInv /\ [Next]_vars => BytesInv'
  BY StepBytesInv
<1>3. QuotaInv /\ BytesInv => ReadyBytesWithinQuota
  <2> SUFFICES ASSUME QuotaInv, BytesInv, NEW d \in DropPoints PROVE ReadyBytes(d) <= MaxPendingBytes
    BY DEF ReadyBytesWithinQuota
  <2>1. ReadyKeys(d) \subseteq PendingKeys(d)
    BY DEF ReadyKeys, PendingKeys, Pending
  <2>2. IsFiniteSet(ReadyKeys(d))
    BY <2>1, FS_Subset DEF QuotaInv
  <2>3. QED
    BY <2>2, ReadyBytesSum DEF BytesInv
<1>4. QED
  BY <1>1, <1>2, <1>3, TypeCorrectness, PendingIsCounted, PTL DEF Spec

-----------------------------------------------------------------------------
(* What the readings of the processes still say when they act on them *)

SameRow(l) == status'[l] = status[l] /\ owner'[l] = owner[l] /\ (l \in ptr' <=> l \in ptr)
SameFiles(l) == payload'[l] = payload[l] /\ envelope'[l] = envelope[l]

\* The invariant without the types, which StepTypeOK keeps.
Core ==
  /\ RowsHaveParents /\ IdleUnlessServing /\ UploadOwnsKey /\ UploadHasFiles
  /\ StaleIsInterrupted /\ CleanerListsHold /\ RequestReadingsHold /\ ReadyAvailable

\* A relay that has not served anything yet has the invariant.
LEMMA InitIInv == Init => IInv
<1> SUFFICES ASSUME Init PROVE IInv
  OBVIOUS
<1>1. TypeOK
  BY InitTypeOK
<1>2. /\ \A k \in Keys : status[k] = "none"
      /\ dropdir = {} /\ stale = {}
      /\ \A u \in Uploads : upc[u] = "idle"
      /\ \A r \in Requests : rpc[r] = "idle"
      /\ \A c \in Cleaners : cpc[c] = "idle"
  BY DEF Init, StoreInit, BlobInit, UploadInit, ReceiverInit, CleanupInit
<1>3. QED
  BY <1>1, <1>2 DEF IInv, RowsHaveParents, IdleUnlessServing, UploadOwnsKey, UploadHasFiles,
         StaleIsInterrupted, CleanerListsHold, ListsHold, RequestReadingsHold, ReadyAvailable, Working

-----------------------------------------------------------------------------
(* Upload handlers *)

UploadActs(u) == UploadStep(u) \/ UploadFault(u) \/ \E k \in Keys : AuthorizeDrop(u, k)

\* An upload handler touches the row and the files of its own key only.
LEMMA UploadFrame ==
  ASSUME TypeOK, NEW u \in Uploads, UploadActs(u)
  PROVE  /\ dp' = dp
         /\ stale' \subseteq stale
         /\ \A v \in Uploads \ {u} : upc'[v] = upc[v] /\ ukey'[v] = ukey[v]
         /\ \A l \in Keys \ {ukey[u]} : SameRow(l) /\ SameFiles(l)
<1> USE DEF TypeOK, SameRow, SameFiles
<1>1. CASE \E k \in Keys : AuthorizeDrop(u, k)
  BY <1>1, KeyFacts DEF AuthorizeDrop, UploadTypeOK, storeVars, blobVars
<1>2. CASE Begin(u) \/ BeginRefused(u) \/ BeginLost(u)
  BY <1>2 DEF Begin, BeginRefused, BeginLost, InsertReceiving, Goto, Answer, UploadTypeOK,
         StoreTypeOK, storeVars, blobVars, clockVars
<1>3. CASE Stage(u) \/ InstallPayload(u) \/ InstallEnvelope(u) \/ SyncFails(u)
  BY <1>3 DEF Stage, InstallPayload, InstallEnvelope, SyncFails, CreateTemps, RenamePayload,
         RenameEnvelope, Goto, UploadTypeOK, BlobTypeOK, storeVars
<1>4. CASE WriteFails(u) \/ EnvelopeFails(u)
  BY <1>4 DEF WriteFails, EnvelopeFails, RemoveTemps, RemovePayload, Goto, UploadTypeOK,
         BlobTypeOK, storeVars
<1>5. CASE Commit(u) \/ CommitRejected(u) \/ CommitErrs(u)
  BY <1>5 DEF Commit, CommitRejected, CommitErrs, CommitSubmission, Goto, Answer, UploadTypeOK,
         StoreTypeOK, storeVars, blobVars, clockVars
<1>6. CASE VerifySettled(u) \/ VerifyUnsettled(u) \/ GiveUp(u)
  BY <1>6 DEF VerifySettled, VerifyUnsettled, GiveUp, Goto, Answer, UploadTypeOK,
         storeVars, blobVars
<1>7. CASE Undo(u) \/ Unrow(u)
  BY <1>7 DEF Undo, Unrow, DeleteSubmission, RemoveAll, DeleteReceivingSubmission, Goto, Answer,
         UploadTypeOK, StoreTypeOK, BlobTypeOK, storeVars, blobVars, clockVars
<1>8. QED
  BY <1>1, <1>2, <1>3, <1>4, <1>5, <1>6, <1>7 DEF UploadActs, UploadStep, UploadFault

\* How the row of its key changes under an upload handler.
Begun(u) ==
  /\ upc[u] = "begin" /\ dp[ukey[u][1]] = "open"
  /\ status[ukey[u]] = "none" /\ status'[ukey[u]] = "receiving"
Committed(u) ==
  /\ upc[u] = "commit" /\ upc'[u] \in {"idle", "verify"}
  /\ dp[ukey[u][1]] = "open"
  /\ status[ukey[u]] = "receiving" /\ status'[ukey[u]] = "ready"
  /\ ukey[u] \in ptr' /\ owner'[ukey[u]] = u
Dropped(u) ==
  /\ upc[u] = "unrow" /\ upc'[u] = "idle"
  /\ status[ukey[u]] = "receiving" /\ status'[ukey[u]] = "none"

\* An upload changes its row by the insert, the commit or the delete, each in a state that
\* fits it, and touches no file in that step.
LEMMA UploadRow ==
  ASSUME TypeOK, NEW u \in Uploads, UploadActs(u)
  PROVE  \/ SameRow(ukey[u])
         \/ (Begun(u) \/ Committed(u) \/ Dropped(u)) /\ SameFiles(ukey[u]) /\ dropdir' = dropdir
<1> USE DEF TypeOK
<1>0. ukey[u] \in Keys
  BY DEF UploadTypeOK
<1>1. CASE UNCHANGED storeVars
  BY <1>1 DEF storeVars, SameRow
<1>2. CASE Begin(u) \/ BeginLost(u)
  BY <1>0, <1>2 DEF Begin, BeginLost, MayBegin, InsertReceiving, StoreTypeOK, Begun, SameFiles,
         blobVars
<1>3. CASE Commit(u) \/ CommitErrs(u)
  BY <1>0, <1>1, <1>3 DEF Commit, CommitErrs, MayCommit, CommitSubmission, StoreTypeOK,
         UploadTypeOK, Goto, Answer, Committed, SameFiles, blobVars
<1>4. CASE Unrow(u)
  BY <1>0, <1>4 DEF Unrow, DeleteReceivingSubmission, StoreTypeOK, UploadTypeOK, Answer,
         Dropped, SameFiles, SameRow, blobVars, clockVars
<1>5. QED
  BY <1>1, <1>2, <1>3, <1>4
     DEF UploadActs, UploadStep, UploadFault, AuthorizeDrop, BeginRefused, Stage, InstallPayload,
         InstallEnvelope, WriteFails, EnvelopeFails, SyncFails, CommitRejected, VerifySettled,
         VerifyUnsettled, Undo, GiveUp

\* Where an upload handler goes, and when it touches files.
LEMMA UploadControl ==
  ASSUME TypeOK, NEW u \in Uploads, UploadActs(u)
  PROVE  /\ server = "serving" \/ upc[u] # "idle"
         /\ upc'[u] \in Working => ukey'[u] = ukey[u] /\ (upc[u] \in Working \/ Begun(u))
         /\ upc'[u] = "verify" => upc[u] \in {"commit", "late"}
         /\ upc[u] = "verify" /\ upc'[u] \in Working => status[ukey[u]] \in {"none", "receiving"}
         /\ \/ SameFiles(ukey[u]) /\ dropdir' \subseteq dropdir
            \/ upc[u] \in Working \ {"verify"}
         /\ dropdir' \subseteq dropdir \cup {ukey[u][1]}
<1> USE DEF TypeOK
<1>0. ukey[u] \in Keys
  BY DEF UploadTypeOK
<1>1. CASE \E k \in Keys : AuthorizeDrop(u, k)
  BY <1>1 DEF AuthorizeDrop, UploadTypeOK, SameFiles, blobVars, Working
<1>2. CASE Begin(u) \/ BeginRefused(u) \/ BeginLost(u)
  BY <1>0, <1>2 DEF Begin, BeginRefused, BeginLost, MayBegin, InsertReceiving, Goto, Answer,
         UploadTypeOK, StoreTypeOK, SameFiles, blobVars, Working, Begun
<1>3. CASE Stage(u) \/ InstallPayload(u) \/ InstallEnvelope(u) \/ SyncFails(u)
  BY <1>3 DEF Stage, InstallPayload, InstallEnvelope, SyncFails, CreateTemps, RenamePayload,
         RenameEnvelope, Goto, UploadTypeOK, BlobTypeOK, Working
<1>4. CASE WriteFails(u) \/ EnvelopeFails(u) \/ Undo(u)
  BY <1>4 DEF WriteFails, EnvelopeFails, RemoveTemps, RemovePayload, Undo, DeleteSubmission, Goto,
         UploadTypeOK, BlobTypeOK, Working
<1>5. CASE Commit(u) \/ CommitRejected(u) \/ CommitErrs(u)
  BY <1>5 DEF Commit, CommitRejected, CommitErrs, Goto, Answer, UploadTypeOK, SameFiles,
         blobVars, Working
<1>6. CASE VerifySettled(u) \/ VerifyUnsettled(u) \/ GiveUp(u) \/ Unrow(u)
  BY <1>6 DEF VerifySettled, VerifyUnsettled, GiveUp, Unrow, Goto, Answer, UploadTypeOK,
         SameFiles, blobVars, Working
<1>7. QED
  BY <1>1, <1>2, <1>3, <1>4, <1>5, <1>6 DEF UploadActs, UploadStep, UploadFault

\* Every part of the invariant survives a step of an upload handler.
LEMMA UploadKeeps ==
  ASSUME IInv, TypeOK', NEW u \in Uploads, UploadActs(u),
         UNCHANGED <<server, requestVars, cleanerVars>>
  PROVE  Core'
<1> DEFINE k == ukey[u]
<1>0. /\ k \in Keys /\ k[1] \in DropPoints
      /\ TypeOK
  BY KeyFacts DEF IInv, TypeOK, UploadTypeOK
<1>1. /\ dp' = dp /\ stale' \subseteq stale
      /\ \A v \in Uploads \ {u} : upc'[v] = upc[v] /\ ukey'[v] = ukey[v]
      /\ \A l \in Keys \ {k} : SameRow(l) /\ SameFiles(l)
  BY <1>0, UploadFrame
<1>2. \/ SameRow(k)
      \/ (Begun(u) \/ Committed(u) \/ Dropped(u)) /\ SameFiles(k) /\ dropdir' = dropdir
  BY <1>0, UploadRow
<1>3. /\ server = "serving" \/ upc[u] # "idle"
      /\ upc'[u] \in Working => ukey'[u] = k /\ (upc[u] \in Working \/ Begun(u))
      /\ upc'[u] = "verify" => upc[u] \in {"commit", "late"}
      /\ upc[u] = "verify" /\ upc'[u] \in Working => status[k] \in {"none", "receiving"}
      /\ \/ SameFiles(k) /\ dropdir' \subseteq dropdir
         \/ upc[u] \in Working \ {"verify"}
      /\ dropdir' \subseteq dropdir \cup {k[1]}
  BY <1>0, UploadControl
<1>4. RowsHaveParents'
  BY <1>0, <1>1, <1>2, <1>3
     DEF IInv, RowsHaveParents, UploadOwnsKey, Gone, Exists, Ended, SameRow, Begun, Committed,
         Dropped, Working
<1>5. IdleUnlessServing'
  BY <1>3 DEF IInv, IdleUnlessServing, requestVars
<1>6. UploadOwnsKey'
  <2> SUFFICES ASSUME NEW v \in Uploads, upc'[v] \in Working
               PROVE  /\ \/ Gone(ukey[v])'
                         \/ status'[ukey'[v]] = "receiving"
                         \/ upc'[v] = "verify" /\ status'[ukey'[v]] # "none"
                      /\ \A w \in Uploads \ {v} : upc'[w] \in Working => ukey'[w] # ukey'[v]
    BY DEF UploadOwnsKey
  <2>1. \A w \in Uploads : upc'[w] \in Working => ukey'[w] = ukey[w] /\ ukey[w] \in Keys
    BY <1>0, <1>1, <1>3 DEF TypeOK, UploadTypeOK
  <2>2. \A w \in Uploads \ {u} : Begun(u) /\ upc[w] \in Working => ukey[w] # k
    BY DEF IInv, UploadOwnsKey, Begun, Gone
  <2>3. \A w \in Uploads \ {v} : upc'[w] \in Working => ukey'[w] # ukey'[v]
    BY <1>1, <1>3, <2>1, <2>2 DEF IInv, UploadOwnsKey
  <2>4. CASE v = u
    BY <1>1, <1>2, <1>3, <2>1, <2>3, <2>4
       DEF IInv, UploadOwnsKey, Gone, SameRow, Begun, Committed, Dropped, Working
  <2>5. CASE v # u
    <3>1. upc[v] \in Working /\ ukey'[v] = ukey[v] /\ ukey[v] \in Keys
      BY <1>1, <2>1, <2>5
    <3>2. SameRow(ukey[v])
      <4>1. CASE ukey[v] = k
        BY <1>2, <2>2, <2>5, <3>1, <4>1
           DEF IInv, UploadOwnsKey, Committed, Dropped, Working
      <4>2. QED
        BY <1>1, <3>1, <4>1
    <3>3. QED
      BY <1>1, <2>3, <2>5, <3>1, <3>2 DEF IInv, UploadOwnsKey, Gone, SameRow
  <2>6. QED
    BY <2>4, <2>5
<1>7. UploadHasFiles'
  <2> SUFFICES ASSUME NEW v \in Uploads, dp'[ukey'[v][1]] = "open",
                      upc'[v] \in {"envelope", "commit", "late"}
               PROVE  /\ payload'[ukey'[v]] = v
                      /\ upc'[v] # "envelope" => envelope'[ukey'[v]] = v
    BY DEF UploadHasFiles
  <2>1. CASE v # u
    <3>1. upc[v] = upc'[v] /\ ukey'[v] = ukey[v] /\ ukey[v] \in Keys
      BY <1>0, <1>1, <2>1 DEF TypeOK, UploadTypeOK
    <3>2. SameFiles(ukey[v])
      <4>1. CASE ukey[v] = k
        BY <1>2, <1>3, <2>1, <3>1, <4>1 DEF IInv, UploadOwnsKey, Working
      <4>2. QED
        BY <1>1, <3>1, <4>1
    <3>3. QED
      BY <1>1, <3>1, <3>2 DEF IInv, UploadHasFiles, SameFiles
  <2>2. CASE v = u
    <3>1. CASE InstallPayload(u)
      BY <1>0, <2>2, <3>1
         DEF InstallPayload, RenamePayload, Goto, TypeOK, UploadTypeOK, BlobTypeOK
    <3>2. CASE InstallEnvelope(u)
      BY <1>0, <1>1, <2>2, <3>2
         DEF InstallEnvelope, RenameEnvelope, Goto, TypeOK, UploadTypeOK, BlobTypeOK,
             IInv, UploadHasFiles
    <3>3. QED
      BY <1>0, <2>2, <3>1, <3>2
         DEF UploadActs, UploadStep, UploadFault, AuthorizeDrop, Begin, BeginRefused, BeginLost,
             Stage, WriteFails, EnvelopeFails, SyncFails, Commit, CommitRejected, CommitErrs,
             VerifySettled, VerifyUnsettled, Undo, Unrow, GiveUp, Goto, Answer, TypeOK,
             UploadTypeOK
  <2>3. QED
    BY <2>1, <2>2
<1>8. StaleIsInterrupted'
  <2>1. \A l \in stale : l # k \/ (upc[u] \notin Working /\ ~Begun(u))
    BY DEF IInv, StaleIsInterrupted, Begun
  <2>2. stale \subseteq Keys
    BY <1>0 DEF TypeOK, StoreTypeOK
  <2>3. \A l \in stale : SameRow(l)
    BY <1>1, <1>2, <2>1, <2>2 DEF Committed, Dropped, Working
  <2>4. \A v \in Uploads : upc'[v] \in Working =>
          ukey'[v] = ukey[v] /\ (upc[v] \in Working \/ (v = u /\ Begun(u)))
    BY <1>1, <1>3
  <2>5. QED
    BY <1>1, <2>1, <2>3, <2>4 DEF IInv, StaleIsInterrupted, SameRow
<1>9. \A l \in Keys : (Interrupted(l) => Interrupted(l)') /\ (Finished(l) => Finished(l)')
  <2>1. \A v \in Uploads : upc'[v] \in Working =>
          ukey'[v] = ukey[v] /\ (upc[v] \in Working \/ (v = u /\ Begun(u)))
    BY <1>1, <1>3
  <2>2. ASSUME NEW l \in Keys, Interrupted(l) PROVE Interrupted(l)'
    <3>1. l # k \/ (upc[u] \notin Working /\ ~Begun(u))
      BY <2>2 DEF Interrupted, Begun, Gone
    <3>2. SameRow(l)
      BY <1>1, <1>2, <2>2, <3>1 DEF Committed, Dropped, Working
    <3>3. QED
      BY <1>1, <2>1, <2>2, <3>1, <3>2 DEF Interrupted, Gone, SameRow
  <2>3. ASSUME NEW l \in Keys, Finished(l) PROVE Finished(l)'
    BY <1>1, <1>2, <2>3 DEF Finished, Gone, SameRow, Begun, Committed, Dropped
  <2>4. QED
    BY <2>2, <2>3
<1>10. CleanerListsHold'
  BY <1>0, <1>1, <1>9
     DEF IInv, CleanerListsHold, ListsHold, cleanerVars, Over, Exists, TypeOK, CleanupTypeOK
<1>11. RequestReadingsHold'
  BY <1>0, <1>1, <1>2
     DEF IInv, RequestReadingsHold, requestVars, Over, Gone, SameRow, Begun, Committed, Dropped,
         TypeOK, ReceiverTypeOK, RowsHaveParents
<1>12. ReadyAvailable'
  <2> SUFFICES ASSUME NEW l \in Keys, dp'[l[1]] = "open", status'[l] = "ready"
               PROVE  /\ l \in ptr' /\ owner'[l] # NoOne
                      /\ payload'[l] = owner'[l] /\ envelope'[l] = owner'[l]
    BY DEF ReadyAvailable
  <2>1. CASE l = k /\ Committed(u)
    BY <1>1, <1>2, <2>1, SetsAssumption
       DEF IInv, UploadHasFiles, Committed, Begun, Dropped, SameFiles, SameRow
  <2>2. CASE ~(l = k /\ Committed(u))
    <3>1. SameRow(l)
      BY <1>1, <1>2, <2>2 DEF Begun, Dropped
    <3>2. SameFiles(l)
      BY <1>1, <1>3, <3>1 DEF IInv, UploadOwnsKey, Gone, SameRow
    <3>3. QED
      BY <1>1, <3>1, <3>2 DEF IInv, ReadyAvailable, SameRow, SameFiles
  <2>3. QED
    BY <2>1, <2>2
<1>13. QED
  BY <1>4, <1>5, <1>6, <1>7, <1>8, <1>10, <1>11, <1>12 DEF Core

-----------------------------------------------------------------------------
(* Steps that harm no submission *)

\* What a step of a receiver request or of a cleaner does as long as the readings
\* it works from hold: drop points only end or are purged together with their rows;
\* a row changes only when it is ready or interrupted; a ready row that stays ready
\* in an open drop point, and the files an upload has installed there, are left alone.
Harmless ==
  /\ \A d \in DropPoints : \/ dp'[d] = dp[d]
                           \/ dp[d] = "open" /\ dp'[d] \in Ended
                           \/ dp[d] \in Ended /\ dp'[d] = "purged"
  /\ \A l \in Keys : Gone(l)' => status'[l] = "none"
  /\ \A l \in Keys : \/ Gone(l)'
                     \/ status'[l] = status[l]
                     \/ status[l] = "ready" /\ status'[l] \in {"acknowledged", "failed"}
                     \/ Interrupted(l) /\ status'[l] = "none"
  /\ \A l \in Keys : dp'[l[1]] = "open" /\ status[l] = "ready" /\ status'[l] = "ready"
                       => SameRow(l) /\ SameFiles(l)
  /\ \A u \in Uploads : upc[u] \in {"envelope", "commit", "late"} /\ dp'[ukey[u][1]] = "open"
       => SameFiles(ukey[u])
  /\ stale' \subseteq stale /\ \A l \in stale' : status'[l] = status[l]
  /\ dropdir' \subseteq dropdir

\* A harmless step keeps what the invariant says of rows, files and uploads.
LEMMA HarmlessKeeps ==
  ASSUME IInv, TypeOK', Harmless, UNCHANGED uploadVars
  PROVE  /\ RowsHaveParents' /\ UploadOwnsKey' /\ UploadHasFiles'
         /\ StaleIsInterrupted' /\ ReadyAvailable'
<1>0. /\ TypeOK /\ upc' = upc /\ ukey' = ukey
      /\ \A l \in Keys : l[1] \in DropPoints
      /\ \A u \in Uploads : ukey[u] \in Keys
      /\ stale \subseteq Keys /\ dropdir \subseteq DropPoints
  BY KeyFacts DEF IInv, TypeOK, UploadTypeOK, StoreTypeOK, BlobTypeOK, uploadVars
<1>1. RowsHaveParents'
  BY <1>0 DEF Harmless, IInv, RowsHaveParents, Exists, Ended, Gone, Interrupted
<1>2. UploadOwnsKey'
  BY <1>0 DEF Harmless, IInv, UploadOwnsKey, Gone, Interrupted, Ended
<1>3. UploadHasFiles'
  BY <1>0 DEF Harmless, IInv, UploadHasFiles, SameFiles, Ended, Working
<1>4. StaleIsInterrupted'
  BY <1>0 DEF Harmless, IInv, StaleIsInterrupted
<1>5. ReadyAvailable'
  BY <1>0 DEF Harmless, IInv, ReadyAvailable, SameRow, SameFiles, Ended, Gone
<1>6. QED
  BY <1>1, <1>2, <1>3, <1>4, <1>5

\* What has been read of finished rows and ended drop points stays true.
LEMMA HarmlessReadings ==
  ASSUME IInv, Harmless
  PROVE  /\ \A l \in Keys : Finished(l) => Finished(l)'
         /\ \A d \in DropPoints : /\ Over(d) => Over(d)'
                                  /\ dp[d] = "purged" => dp'[d] = "purged"
                                  /\ Exists(d)' => Exists(d)
         /\ \A l \in Keys : /\ Gone(l) \/ status[l] = "acknowledged"
                                 => Gone(l)' \/ status'[l] = "acknowledged"
                            /\ Gone(l) \/ status[l] \notin {"none", "receiving"}
                                 => Gone(l)' \/ status'[l] \notin {"none", "receiving"}
  BY KeyFacts DEF Harmless, Finished, Over, Exists, Ended, Gone, Interrupted

-----------------------------------------------------------------------------
(* Receiver requests *)

RequestActs(r) == RequestStep(r) \/ RequestFault(r) \/ \E k \in Keys : Authorize(r, k)

\* What each step of a receiver request does to the rows and the files, and from
\* which point of the handler it does it.
LEMMA RequestEffect ==
  ASSUME TypeOK, NEW r \in Requests, RequestActs(r)
  PROVE  /\ \A d \in DropPoints : dp'[d] = dp[d] \/ (dp[d] = "open" /\ dp'[d] \in Ended)
         /\ owner' = owner /\ stale' \subseteq stale /\ dropdir' \subseteq dropdir
         /\ \A l \in Keys :
              \/ status'[l] = status[l]
              \/ status[l] = "ready" /\ status'[l] = "acknowledged"
              \/ /\ rpc[r] = "corrupt" /\ l = rkey[r] /\ l \notin stale'
                 /\ status[l] \in Pending /\ status'[l] = "failed"
         /\ \A l \in Keys : \/ l \in ptr' <=> l \in ptr
                            \/ rpc[r] = "ackClear" /\ l = rkey[r]
                            \/ rpc[r] = "closeClear" /\ l[1] = rkey[r][1]
         /\ \A l \in Keys : \/ SameFiles(l)
                            \/ rpc[r] = "ackDelete" /\ l = rkey[r]
                            \/ rpc[r] = "closeDelete" /\ l[1] = rkey[r][1]
<1> USE DEF TypeOK, SameFiles
<1>1. CASE \E k \in Keys : Authorize(r, k)
  BY <1>1, KeyFacts DEF Authorize, MarkExpired, StoreTypeOK, storeVars, blobVars, rowVars,
         clockVars, Ended
<1>2. CASE /\ UNCHANGED <<storeVars, blobVars>>
  BY <1>2 DEF storeVars, blobVars
<1>3. CASE Mark(r) \/ FailCorrupt(r)
  BY <1>3 DEF Mark, MarkSubmissionPickedUp, FailCorrupt, FailSubmission, StoreTypeOK,
         ReceiverTypeOK, blobVars, clockVars
<1>4. CASE Acknowledge(r) \/ AckClear(r) \/ CloseClear(r)
  BY <1>4, KeyFacts DEF Acknowledge, AcknowledgeSubmission, AckClear, CloseClear, ClearFiles,
         KeysOf, StoreTypeOK, ReceiverTypeOK, blobVars, clockVars
<1>5. CASE AckDelete(r) \/ CloseDelete(r)
  BY <1>5, KeyFacts DEF AckDelete, CloseDelete, DeleteSubmission, DeleteDropPoint, RemoveAll,
         KeysOf, BlobTypeOK, ReceiverTypeOK, storeVars
<1>6. CASE Close(r)
  BY <1>6, KeyFacts DEF Close, MarkClosed, MarkExpired, StoreTypeOK, ReceiverTypeOK, storeVars,
         blobVars, rowVars, clockVars, Ended
<1>7. QED
  BY <1>1, <1>2, <1>3, <1>4, <1>5, <1>6
     DEF RequestActs, RequestStep, RequestFault, FindReady, FindOther, ReadEnvelope, OpenPayload,
         BlobMissing, Send, CloseMissing, Abandon

\* Where a receiver request goes, and what it has found there.
LEMMA RequestControl ==
  ASSUME TypeOK, NEW r \in Requests, RequestActs(r)
  PROVE  /\ server = "serving" \/ rpc[r] # "idle"
         /\ \A q \in Requests \ {r} : rpc'[q] = rpc[q] /\ rkey'[q] = rkey[q]
         /\ rpc'[r] \in {"ackDelete", "ackClear"}
              => rkey'[r] = rkey[r] /\ (rpc[r] = "ackDelete" \/ status'[rkey[r]] = "acknowledged")
         /\ rpc'[r] \in {"closeDelete", "closeClear"}
              => Over(rkey[r][1])' \/ (rpc[r] = "closeDelete" /\ rkey'[r] = rkey[r])
         /\ rpc'[r] \in {"envelope", "payload", "send", "mark", "corrupt"}
              => /\ rkey'[r] = rkey[r]
                 /\ \/ status'[rkey[r]] = "ready"
                    \/ rpc[r] \in {"envelope", "payload", "send"} /\ status' = status
<1> USE DEF TypeOK
<1>1. CASE \E k \in Keys : Authorize(r, k)
  <2>1. PICK k \in Keys : Authorize(r, k)
    BY <1>1
  <2>2. /\ server = "serving" /\ rkey' = [rkey EXCEPT ![r] = k]
        /\ \E pc \in {"find", "ack", "close", "closeDelete"} : rpc' = [rpc EXCEPT ![r] = pc]
        /\ rpc'[r] = "closeDelete" => dp[k[1]] \in Ended \/ MarkExpired({k[1]} \cap lapsed)
    BY <2>1 DEF Authorize, ReceiverTypeOK, Exists
  <2>3. rpc'[r] = "closeDelete" => Over(k[1])'
    BY <2>1, <2>2, KeyFacts DEF Authorize, MarkExpired, ReceiverTypeOK, Over, Exists, Ended
  <2>4. /\ rkey'[r] = k /\ \A q \in Requests \ {r} : rpc'[q] = rpc[q] /\ rkey'[q] = rkey[q]
        /\ rpc'[r] \in {"find", "ack", "close", "closeDelete"}
    BY <2>2 DEF ReceiverTypeOK
  <2>5. QED
    BY <2>2, <2>3, <2>4
<1>2. CASE FindReady(r) \/ ReadEnvelope(r) \/ BlobMissing(r) \/ Send(r)
  BY <1>2 DEF FindReady, ReadEnvelope, BlobMissing, Send, Got, Continue, ReceiverTypeOK, storeVars
<1>3. CASE OpenPayload(r)
  BY <1>3 DEF OpenPayload, Got, Reply, ReceiverTypeOK, storeVars
<1>4. CASE FindOther(r) \/ Mark(r) \/ FailCorrupt(r) \/ CloseMissing(r) \/ Abandon(r)
           \/ RequestFault(r) \/ AckClear(r) \/ CloseClear(r)
  BY <1>4 DEF FindOther, Mark, FailCorrupt, CloseMissing, Abandon, RequestFault, AckClear,
         CloseClear, Reply, ReceiverTypeOK, Attached, Detached
<1>5. CASE Acknowledge(r)
  <2>1. CASE status[rkey[r]] \in {"ready", "acknowledged"}
    BY <1>5, <2>1 DEF Acknowledge, AcknowledgeSubmission, Continue, ReceiverTypeOK, StoreTypeOK
  <2>2. CASE status[rkey[r]] \notin {"ready", "acknowledged"}
    BY <1>5, <2>2 DEF Acknowledge, Reply, ReceiverTypeOK
  <2>3. QED
    BY <2>1, <2>2
<1>6. CASE AckDelete(r) \/ CloseDelete(r)
  BY <1>6 DEF AckDelete, CloseDelete, Continue, ReceiverTypeOK, storeVars
<1>7. CASE Close(r)
  <2>1. rpc[r] = "close" /\ rpc' = [rpc EXCEPT ![r] = "closeDelete"] /\ rkey' = rkey
    BY <1>7 DEF Close, Continue
  <2>2. dp'[rkey[r][1]] \in Ended
    BY <1>7, KeyFacts DEF Close, MarkClosed, MarkExpired, ReceiverTypeOK, StoreTypeOK, storeVars,
           Ended
  <2>3. QED
    BY <2>1, <2>2 DEF ReceiverTypeOK, Over
<1>8. QED
  BY <1>1, <1>2, <1>3, <1>4, <1>5, <1>6, <1>7 DEF RequestActs, RequestStep

\* With its readings intact, a step of a receiver request is harmless.
LEMMA RequestHarmless ==
  ASSUME IInv, NEW r \in Requests, RequestActs(r)
  PROVE  Harmless
<1>0. /\ TypeOK
      /\ rkey[r] \in Keys /\ \A l \in Keys : l[1] \in DropPoints
      /\ \A u \in Uploads : ukey[u] \in Keys
  BY KeyFacts DEF IInv, TypeOK, ReceiverTypeOK, UploadTypeOK
<1>1. /\ \A d \in DropPoints : dp'[d] = dp[d] \/ (dp[d] = "open" /\ dp'[d] \in Ended)
      /\ owner' = owner /\ stale' \subseteq stale /\ dropdir' \subseteq dropdir
      /\ \A l \in Keys :
           \/ status'[l] = status[l]
           \/ status[l] = "ready" /\ status'[l] = "acknowledged"
           \/ /\ rpc[r] = "corrupt" /\ l = rkey[r] /\ l \notin stale'
              /\ status[l] \in Pending /\ status'[l] = "failed"
      /\ \A l \in Keys : \/ l \in ptr' <=> l \in ptr
                         \/ rpc[r] = "ackClear" /\ l = rkey[r]
                         \/ rpc[r] = "closeClear" /\ l[1] = rkey[r][1]
      /\ \A l \in Keys : \/ SameFiles(l)
                         \/ rpc[r] = "ackDelete" /\ l = rkey[r]
                         \/ rpc[r] = "closeDelete" /\ l[1] = rkey[r][1]
  BY <1>0, RequestEffect
<1>2. /\ rpc[r] \in {"ackDelete", "ackClear"} => Gone(rkey[r]) \/ status[rkey[r]] = "acknowledged"
      /\ rpc[r] \in {"closeDelete", "closeClear"} => Over(rkey[r][1])
      /\ rpc[r] = "corrupt" => Gone(rkey[r]) \/ status[rkey[r]] \notin {"none", "receiving"}
  BY DEF IInv, RequestReadingsHold
<1>3. \A l \in Keys : Gone(l)' => Gone(l) /\ status[l] = "none"
  BY <1>0, <1>1 DEF Gone, Ended, IInv, RowsHaveParents, Exists
<1>4. \A l \in Keys : \/ status'[l] = status[l]
                      \/ status[l] = "ready" /\ status'[l] \in {"acknowledged", "failed"}
  BY <1>1, <1>2 DEF Pending, Gone, IInv, RowsHaveParents, Exists, Ended
<1>5. \A l \in Keys : dp'[l[1]] = "open" /\ status[l] = "ready" => SameFiles(l) /\ (l \in ptr' <=> l \in ptr)
  BY <1>0, <1>1, <1>2 DEF Gone, Over, Ended
<1>6. \A u \in Uploads : upc[u] \in {"envelope", "commit", "late"} /\ dp'[ukey[u][1]] = "open"
       => SameFiles(ukey[u])
  BY <1>0, <1>1, <1>2 DEF IInv, UploadOwnsKey, Gone, Over, Ended, Working
<1>7. \A l \in stale' : status'[l] = status[l]
  BY <1>0, <1>1, <1>4 DEF IInv, StaleIsInterrupted, TypeOK, StoreTypeOK
<1>8. QED
  BY <1>0, <1>1, <1>3, <1>4, <1>5, <1>6, <1>7 DEF Harmless, SameRow

\* Every part of the invariant survives a step of a receiver request.
LEMMA RequestKeeps ==
  ASSUME IInv, TypeOK', NEW r \in Requests, RequestActs(r),
         UNCHANGED <<server, uploadVars, cleanerVars>>
  PROVE  Core'
<1>0. TypeOK /\ Harmless /\ UNCHANGED uploadVars /\ UNCHANGED cleanerVars /\ server' = server
  BY RequestHarmless DEF IInv
<1>1. /\ \A l \in Keys : Finished(l) => Finished(l)'
      /\ \A d \in DropPoints : /\ Over(d) => Over(d)'
                               /\ dp[d] = "purged" => dp'[d] = "purged"
                               /\ Exists(d)' => Exists(d)
      /\ \A l \in Keys : /\ Gone(l) \/ status[l] = "acknowledged"
                              => Gone(l)' \/ status'[l] = "acknowledged"
                         /\ Gone(l) \/ status[l] \notin {"none", "receiving"}
                              => Gone(l)' \/ status'[l] \notin {"none", "receiving"}
  BY <1>0, HarmlessReadings
<1>2. RowsHaveParents' /\ UploadOwnsKey' /\ UploadHasFiles' /\ StaleIsInterrupted' /\ ReadyAvailable'
  BY <1>0, HarmlessKeeps
<1>3. /\ server = "serving" \/ rpc[r] # "idle"
      /\ \A q \in Requests \ {r} : rpc'[q] = rpc[q] /\ rkey'[q] = rkey[q]
      /\ rpc'[r] \in {"ackDelete", "ackClear"}
           => rkey'[r] = rkey[r] /\ (rpc[r] = "ackDelete" \/ status'[rkey[r]] = "acknowledged")
      /\ rpc'[r] \in {"closeDelete", "closeClear"}
           => Over(rkey[r][1])' \/ (rpc[r] = "closeDelete" /\ rkey'[r] = rkey[r])
      /\ rpc'[r] \in {"envelope", "payload", "send", "mark", "corrupt"}
           => /\ rkey'[r] = rkey[r]
              /\ \/ status'[rkey[r]] = "ready"
                 \/ rpc[r] \in {"envelope", "payload", "send"} /\ status' = status
  BY <1>0, RequestControl
<1>4. IdleUnlessServing'
  BY <1>0, <1>3 DEF IInv, IdleUnlessServing, uploadVars
<1>5. \A l \in Keys : Interrupted(l) => Interrupted(l)'
  <2>1. \A l \in Keys : status[l] = "receiving" => status'[l] = "receiving"
    <3>1. \A l \in Keys : \/ status'[l] = status[l]
                          \/ status[l] = "ready"
                          \/ rpc[r] = "corrupt" /\ l = rkey[r] /\ status[l] \in Pending
      BY <1>0, RequestEffect
    <3>2. rpc[r] = "corrupt" /\ Gone(rkey[r]) => status[rkey[r]] = "none"
      BY <1>0 DEF TypeOK, ReceiverTypeOK, IInv, RowsHaveParents, Gone, Exists, Ended
    <3>3. QED
      BY <3>1, <3>2 DEF IInv, RequestReadingsHold, Pending
  <2>2. QED
    BY <1>0, <1>1, <2>1, KeyFacts DEF Interrupted, Gone, uploadVars
<1>6. CleanerListsHold'
  BY <1>0, <1>1, <1>5 DEF IInv, CleanerListsHold, ListsHold, cleanerVars, TypeOK, CleanupTypeOK
<1>7. RequestReadingsHold'
  <2> SUFFICES ASSUME NEW q \in Requests
               PROVE  /\ rpc'[q] \in {"ackDelete", "ackClear"}
                           => Gone(rkey[q])' \/ status'[rkey'[q]] = "acknowledged"
                      /\ rpc'[q] \in {"closeDelete", "closeClear"} => Over(rkey[q][1])'
                      /\ rpc'[q] \in {"envelope", "payload", "send", "mark", "corrupt"}
                           => Gone(rkey[q])' \/ status'[rkey'[q]] \notin {"none", "receiving"}
    BY DEF RequestReadingsHold
  <2>0. rkey[q] \in Keys /\ rkey[q][1] \in DropPoints
    BY <1>0, KeyFacts DEF TypeOK, ReceiverTypeOK
  <2>1. CASE q # r
    BY <1>1, <1>3, <2>0, <2>1 DEF IInv, RequestReadingsHold, Gone, Over
  <2>2. CASE q = r
    BY <1>1, <1>3, <2>0, <2>2 DEF IInv, RequestReadingsHold, Gone, Over
  <2>3. QED
    BY <2>1, <2>2
<1>8. QED
  BY <1>2, <1>4, <1>6, <1>7 DEF Core

-----------------------------------------------------------------------------
(* Cleaners *)

CleanerActs(c) == CleanerStep(c) \/ Abort(c)

\* What each step of a pass does to the rows and the files, and in which phase.
LEMMA CleanerEffect ==
  ASSUME TypeOK, NEW c \in Cleaners, CleanerActs(c)
  PROVE  /\ \A d \in DropPoints : \/ dp'[d] = dp[d]
                                  \/ dp[d] = "open" /\ dp'[d] \in Ended
                                  \/ dp[d] \in Ended /\ dp'[d] = "purged"
         /\ \A l \in Keys :
              \/ ~(~Gone(l) /\ Gone(l)') /\ status'[l] = status[l] /\ owner'[l] = owner[l]
              \/ Gone(l)' /\ status'[l] = "none"
              \/ /\ cpc[c] = "recoverRow" /\ l = ckey[c]
                 /\ status[l] = "receiving" /\ status'[l] = "none" /\ owner'[l] = owner[l]
         /\ stale' \subseteq stale /\ \A l \in stale' : status'[l] = status[l]
         /\ \A l \in Keys : \/ l \in ptr' <=> l \in ptr
                            \/ cpc[c] = "childClear" /\ l = ckey[c]
                            \/ cpc[c] = "terminalClear" /\ l[1] = cdrop[c]
         /\ \A l \in Keys : \/ SameFiles(l)
                            \/ cpc[c] \in {"recover", "child"} /\ l \in ckeys[c]
                            \/ cpc[c] \in {"terminal", "orphans"} /\ l[1] \in cdrops[c]
         /\ dropdir' \subseteq dropdir
         /\ server' = "serving" \/ server # "serving"
<1> USE DEF TypeOK, SameFiles, Gone
<1>1. CASE UNCHANGED <<storeVars, blobVars>> /\ (StartPass(c) \/ Boot \/ ListChildren(c)
             \/ ListTerminals(c) \/ ListRows(c) \/ ListDirs(c) \/ Abort(c))
  BY <1>1 DEF storeVars, blobVars, StartPass, Boot, ListChildren, ListTerminals, ListRows,
         ListDirs, Abort
<1>2. CASE RecoverRow(c)
  BY <1>2 DEF RecoverRow, DeleteReceivingSubmission, StoreTypeOK, CleanupTypeOK, blobVars, clockVars
<1>3. CASE ExpireDropPoints(c)
  BY <1>3, KeyFacts DEF ExpireDropPoints, MarkExpired, StoreTypeOK, blobVars, rowVars, clockVars,
         Ended
<1>4. CASE ChildClear(c) \/ TerminalClear(c)
  BY <1>4, KeyFacts DEF ChildClear, TerminalClear, ClearFiles, KeysOf, StoreTypeOK, CleanupTypeOK,
         blobVars, clockVars
<1>5. CASE \E k \in Keys : RecoverBlobs(c, k) \/ ChildBlobs(c, k)
  BY <1>5 DEF RecoverBlobs, ChildBlobs, TakeKey, DeleteSubmission, RemoveAll, BlobTypeOK,
         CleanupTypeOK, storeVars
<1>6. CASE \E d \in DropPoints : TerminalBlobs(c, d) \/ OrphanBlobs(c, d)
  BY <1>6, KeyFacts DEF TerminalBlobs, OrphanBlobs, TakeDrop, DeleteDropPoint, RemoveAll, KeysOf,
         BlobTypeOK, CleanupTypeOK, storeVars
<1>7. CASE Purge(c)
  BY <1>7, KeyFacts DEF Purge, PurgeTerminalDropPoints, StoreTypeOK, blobVars, Ended
<1>8. QED
  BY <1>1, <1>2, <1>3, <1>4, <1>5, <1>6, <1>7
     DEF CleanerActs, CleanerStep, StartPass, Boot, ListChildren, ListTerminals, ListRows,
         ListDirs, Abort

\* With its readings intact, a step of a pass is harmless.
LEMMA CleanerHarmless ==
  ASSUME IInv, NEW c \in Cleaners, CleanerActs(c)
  PROVE  Harmless
<1>0. /\ TypeOK
      /\ \A l \in Keys : l[1] \in DropPoints
      /\ \A u \in Uploads : ukey[u] \in Keys
      /\ ckey[c] \in Keys /\ cdrop[c] \in DropPoints
  BY KeyFacts DEF IInv, TypeOK, CleanupTypeOK, UploadTypeOK
<1>1. /\ \A d \in DropPoints : \/ dp'[d] = dp[d]
                               \/ dp[d] = "open" /\ dp'[d] \in Ended
                               \/ dp[d] \in Ended /\ dp'[d] = "purged"
      /\ \A l \in Keys :
           \/ ~(~Gone(l) /\ Gone(l)') /\ status'[l] = status[l] /\ owner'[l] = owner[l]
           \/ Gone(l)' /\ status'[l] = "none"
           \/ /\ cpc[c] = "recoverRow" /\ l = ckey[c]
              /\ status[l] = "receiving" /\ status'[l] = "none" /\ owner'[l] = owner[l]
      /\ stale' \subseteq stale /\ \A l \in stale' : status'[l] = status[l]
      /\ \A l \in Keys : \/ l \in ptr' <=> l \in ptr
                         \/ cpc[c] = "childClear" /\ l = ckey[c]
                         \/ cpc[c] = "terminalClear" /\ l[1] = cdrop[c]
      /\ \A l \in Keys : \/ SameFiles(l)
                         \/ cpc[c] \in {"recover", "child"} /\ l \in ckeys[c]
                         \/ cpc[c] \in {"terminal", "orphans"} /\ l[1] \in cdrops[c]
      /\ dropdir' \subseteq dropdir
  BY <1>0, CleanerEffect
<1>2. /\ cpc[c] = "recover" => \A k \in ckeys[c] : Interrupted(k)
      /\ cpc[c] = "recoverRow" => Interrupted(ckey[c])
      /\ cpc[c] = "child" => \A k \in ckeys[c] : Finished(k)
      /\ cpc[c] = "childClear" => Finished(ckey[c])
      /\ cpc[c] = "terminal" => \A d \in cdrops[c] : Over(d)
      /\ cpc[c] = "terminalClear" => Over(cdrop[c])
      /\ cpc[c] = "orphans" => \A d \in cdrops[c] : dp[d] = "purged"
  BY DEF IInv, CleanerListsHold, ListsHold
<1>3. \A l \in Keys : Gone(l) => status[l] = "none"
  BY DEF IInv, RowsHaveParents, Gone, Exists, Ended
<1>4. \A l \in Keys : Gone(l)' => status'[l] = "none"
  BY <1>1, <1>3
<1>5. \A l \in Keys : \/ Gone(l)'
                      \/ status'[l] = status[l] /\ owner'[l] = owner[l]
                      \/ Interrupted(l) /\ status'[l] = "none"
  BY <1>1, <1>2
<1>6. \A l \in Keys : dp'[l[1]] = "open" /\ status[l] = "ready"
                        => SameFiles(l) /\ (l \in ptr' <=> l \in ptr)
  BY <1>0, <1>1, <1>2 DEF Interrupted, Finished, Over, Gone, Ended
<1>7. \A u \in Uploads : upc[u] \in {"envelope", "commit", "late"} /\ dp'[ukey[u][1]] = "open"
        => SameFiles(ukey[u])
  BY <1>0, <1>1, <1>2
     DEF IInv, UploadOwnsKey, Interrupted, Finished, Over, Gone, Ended, Working
<1>8. QED
  BY <1>0, <1>1, <1>4, <1>5, <1>6, <1>7 DEF Harmless, SameRow, Gone

\* A pass that lists rows or drop points, takes one entry, or goes on to the next
\* phase still holds what it has listed.
LEMMA ListsKept ==
  ASSUME IInv, NEW c \in Cleaners, CleanerActs(c), uploadVars' = uploadVars
  PROVE  ListsHold(c)'
<1>0. /\ TypeOK /\ ListsHold(c)
      /\ DOMAIN cpc = Cleaners /\ DOMAIN ckeys = Cleaners /\ DOMAIN cdrops = Cleaners
      /\ DOMAIN ckey = Cleaners /\ DOMAIN cdrop = Cleaners
      /\ ckeys[c] \subseteq Keys /\ cdrops[c] \subseteq DropPoints
      /\ ckey[c] \in Keys /\ cdrop[c] \in DropPoints
  BY DEF IInv, TypeOK, CleanupTypeOK, CleanerListsHold
<1>1. CASE StartPass(c) \/ (c = Loop /\ Boot)
  <2>1. /\ cpc'[c] = "recover"
        /\ \/ ckeys'[c] = {k \in stale : status[k] = "receiving"}
           \/ server # "serving" /\ ckeys'[c] = {k \in Keys : status[k] = "receiving"}
        /\ status' = status /\ dp' = dp /\ upc' = upc /\ ukey' = ukey
    BY <1>0, <1>1 DEF StartPass, Boot, OpenPass, At, storeVars, uploadVars
  <2>2. \A k \in ckeys'[c] : Interrupted(k)'
    BY <2>1 DEF Interrupted, Gone, IInv, StaleIsInterrupted, IdleUnlessServing, Working
  <2>3. QED
    BY <2>1, <2>2 DEF ListsHold
<1>2. CASE \E k \in Keys : RecoverBlobs(c, k) \/ ChildBlobs(c, k)
  <2>1. /\ \/ cpc[c] = "recover" /\ cpc'[c] = "recoverRow"
           \/ cpc[c] = "child" /\ cpc'[c] = "childClear"
        /\ ckey'[c] \in ckeys[c] /\ ckeys'[c] = ckeys[c] \ {ckey'[c]}
        /\ status' = status /\ dp' = dp /\ upc' = upc /\ ukey' = ukey
    BY <1>0, <1>2 DEF RecoverBlobs, ChildBlobs, TakeKey, At, storeVars, uploadVars
  <2>2. QED
    BY <1>0, <2>1 DEF ListsHold, Interrupted, Finished, Gone
<1>3. CASE \E d \in DropPoints : TerminalBlobs(c, d) \/ OrphanBlobs(c, d)
  <2>1. /\ \/ cpc[c] = "terminal" /\ cpc'[c] = "terminalClear"
           \/ cpc[c] = "orphans" /\ cpc'[c] = "orphans"
        /\ cdrop'[c] \in cdrops[c] /\ cdrops'[c] \subseteq cdrops[c]
        /\ dp' = dp
    BY <1>0, <1>3 DEF TerminalBlobs, OrphanBlobs, TakeDrop, At, storeVars
  <2>2. QED
    BY <1>0, <2>1 DEF ListsHold, Over
<1>4. CASE RecoverRow(c)
  <2>1. /\ cpc[c] = "recoverRow" /\ cpc'[c] = "recover" /\ ckeys' = ckeys
        /\ dp' = dp /\ upc' = upc /\ ukey' = ukey
        /\ \A k \in Keys \ {ckey[c]} : status'[k] = status[k]
    BY <1>0, <1>4
       DEF RecoverRow, DeleteReceivingSubmission, At, listVars, uploadVars, TypeOK, StoreTypeOK
  <2>2. QED
    BY <1>0, <2>1 DEF ListsHold, Interrupted, Gone
<1>5. CASE ChildClear(c) \/ TerminalClear(c)
  <2>1. /\ \/ cpc[c] = "childClear" /\ cpc'[c] = "child"
           \/ cpc[c] = "terminalClear" /\ cpc'[c] = "terminal"
        /\ ckeys' = ckeys /\ cdrops' = cdrops /\ status' = status /\ dp' = dp
    BY <1>0, <1>5 DEF ChildClear, TerminalClear, ClearFiles, At, listVars
  <2>2. QED
    BY <1>0, <2>1 DEF ListsHold, Finished, Gone, Over
<1>6. CASE ListChildren(c) \/ ListTerminals(c) \/ ListRows(c) \/ ListDirs(c)
  <2>1. /\ \/ cpc'[c] = "child" /\ ckeys'[c] = {k \in Keys : status[k] \in {"acknowledged", "failed"}}
           \/ cpc'[c] = "terminal" /\ cdrops'[c] = {d \in DropPoints : dp[d] \in Ended}
           \/ cpc'[c] = "dirs" /\ cdrops'[c] = {d \in DropPoints : Exists(d)}
           \/ cpc[c] = "dirs" /\ cpc'[c] = "orphans" /\ cdrops'[c] = dropdir \ cdrops[c]
        /\ status' = status /\ dp' = dp
    BY <1>0, <1>6
       DEF ListChildren, ListTerminals, ListRows, ListDirs, ListKeys, ListDrops, At, storeVars
  <2>2. cpc[c] = "dirs" => \A d \in dropdir \ cdrops[c] : dp[d] = "purged"
    BY <1>0 DEF ListsHold, IInv, RowsHaveParents, Exists, Ended, TypeOK, BlobTypeOK, StoreTypeOK
  <2>3. QED
    BY <2>1, <2>2 DEF ListsHold, Finished, Over, Gone, Exists
<1>7. CASE ExpireDropPoints(c) \/ Purge(c) \/ Abort(c)
  <2>1. cpc'[c] \in {"children", "idle"}
    BY <1>0, <1>7 DEF ExpireDropPoints, Purge, Abort, EndPass, At
  <2>2. QED
    BY <2>1 DEF ListsHold
<1>8. QED
  BY <1>1, <1>2, <1>3, <1>4, <1>5, <1>6, <1>7 DEF CleanerActs, CleanerStep

\* Every part of the invariant survives a step of the only cleaner.
LEMMA CleanerKeeps ==
  ASSUME IInv, TypeOK', Cleaners = {Loop}, CleanerActs(Loop),
         UNCHANGED <<uploadVars, requestVars>>
  PROVE  Core'
<1>0. /\ TypeOK /\ Loop \in Cleaners
      /\ UNCHANGED uploadVars /\ UNCHANGED requestVars
  BY DEF IInv
<1>1. Harmless
  BY <1>0, CleanerHarmless
<1>2. RowsHaveParents' /\ UploadOwnsKey' /\ UploadHasFiles' /\ StaleIsInterrupted' /\ ReadyAvailable'
  BY <1>0, <1>1, HarmlessKeeps
<1>3. ListsHold(Loop)'
  BY <1>0, ListsKept
<1>4. CleanerListsHold'
  BY <1>3 DEF CleanerListsHold
<1>5. IdleUnlessServing'
  <2>1. server' = "serving" \/ server # "serving"
    BY <1>0, CleanerEffect
  <2>2. QED
    BY <1>0, <2>1 DEF IInv, IdleUnlessServing, uploadVars, requestVars
<1>6. RequestReadingsHold'
  <2>1. \A r \in Requests : rkey[r] \in Keys /\ rkey[r][1] \in DropPoints
    BY <1>0, KeyFacts DEF TypeOK, ReceiverTypeOK
  <2>2. /\ \A d \in DropPoints : Over(d) => Over(d)'
        /\ \A l \in Keys : /\ Gone(l) \/ status[l] = "acknowledged"
                                => Gone(l)' \/ status'[l] = "acknowledged"
                           /\ Gone(l) \/ status[l] \notin {"none", "receiving"}
                                => Gone(l)' \/ status'[l] \notin {"none", "receiving"}
    BY <1>1, HarmlessReadings
  <2>3. QED
    BY <1>0, <2>1, <2>2 DEF IInv, RequestReadingsHold, requestVars, Gone, Over
<1>7. QED
  BY <1>2, <1>4, <1>5, <1>6 DEF Core

-----------------------------------------------------------------------------
(* The remaining steps *)

\* A new drop point has neither rows nor files nor readers, and no sweep misses it.
LEMMA CreateKeeps ==
  ASSUME IInv, SweepIsolated, NEW d \in DropPoints, Create(d)
  PROVE  Core'
<1>0. /\ TypeOK /\ \A l \in Keys : l[1] \in DropPoints
      /\ \A u \in Uploads : ukey[u] \in Keys
      /\ \A r \in Requests : rkey[r] \in Keys
      /\ \A c \in Cleaners : /\ ckeys[c] \subseteq Keys /\ cdrops[c] \subseteq DropPoints
                             /\ ckey[c] \in Keys /\ cdrop[c] \in DropPoints
      /\ stale \subseteq Keys /\ dropdir \subseteq DropPoints
  BY KeyFacts DEF IInv, TypeOK, UploadTypeOK, ReceiverTypeOK, CleanupTypeOK, StoreTypeOK, BlobTypeOK
<1>1. /\ dp[d] = "none" /\ dp'[d] = "open"
      /\ \A e \in DropPoints \ {d} : dp'[e] = dp[e]
      /\ \A c \in Cleaners : cpc[c] # "dirs"
      /\ UNCHANGED <<baseVars, rowVars, blobVars, uploadVars, requestVars, cleanerVars>>
  BY <1>0 DEF Create, InsertDropPoint, TypeOK, StoreTypeOK
<1>2. /\ server' = server /\ status' = status /\ ptr' = ptr /\ owner' = owner /\ stale' = stale
      /\ dropdir' = dropdir /\ payload' = payload /\ envelope' = envelope
      /\ upc' = upc /\ ukey' = ukey /\ rpc' = rpc /\ rkey' = rkey
      /\ cpc' = cpc /\ ckeys' = ckeys /\ cdrops' = cdrops /\ ckey' = ckey /\ cdrop' = cdrop
  BY <1>1 DEF baseVars, rowVars, blobVars, uploadVars, requestVars, cleanerVars
<1>3. \A l \in Keys : status[l] # "none" => l[1] # d
  BY <1>1 DEF IInv, RowsHaveParents, Exists, Ended
<1>4. RowsHaveParents' /\ IdleUnlessServing' /\ StaleIsInterrupted'
  BY <1>0, <1>1, <1>2 DEF IInv, RowsHaveParents, IdleUnlessServing, StaleIsInterrupted, Exists
<1>5. UploadOwnsKey' /\ \A u \in Uploads : upc[u] \in Working => ukey[u][1] # d
  BY <1>0, <1>1, <1>2, <1>3 DEF IInv, UploadOwnsKey, Gone
<1>6. UploadHasFiles'
  BY <1>0, <1>1, <1>2, <1>5 DEF IInv, UploadHasFiles, Working
<1>7. CleanerListsHold'
  BY <1>0, <1>1, <1>2
     DEF IInv, CleanerListsHold, ListsHold, Interrupted, Finished, Over, Gone, Ended
<1>8. RequestReadingsHold'
  BY <1>0, <1>1, <1>2 DEF IInv, RequestReadingsHold, Over, Gone, Ended
<1>9. ReadyAvailable'
  BY <1>0, <1>1, <1>2, <1>3 DEF IInv, ReadyAvailable
<1>10. QED
  BY <1>4, <1>5, <1>6, <1>7, <1>8, <1>9 DEF Core

\* The passage of time only adds to lapsed, aged and, for an interrupted row, stale.
LEMMA TickKeeps ==
  ASSUME IInv, HandlersInTime, Tick, UNCHANGED <<baseVars, blobVars, uploadVars, requestVars, cleanerVars>>
  PROVE  Core'
<1>1. /\ UNCHANGED <<dp, status, ptr, owner>>
      /\ \A k \in stale' : \/ k \in stale
                           \/ /\ status[k] = "receiving"
                              /\ \A u \in Uploads : upc[u] \in Working => ukey[u] # k
  BY DEF Tick, Lapse, Age, GoStale, rowVars, clockVars
<1>2. QED
  BY <1>1
     DEF IInv, Core, RowsHaveParents, IdleUnlessServing, UploadOwnsKey, UploadHasFiles,
         StaleIsInterrupted, CleanerListsHold, ListsHold, RequestReadingsHold, ReadyAvailable,
         Interrupted, Finished, Over, Gone, Exists, baseVars, blobVars, uploadVars, requestVars,
         cleanerVars

\* A lapsed drop point is expired by a lookup: nothing else changes.
LEMMA ExpireLazilyKeeps ==
  ASSUME IInv, TypeOK', NEW d \in DropPoints, ExpireLazily(d),
         UNCHANGED <<baseVars, uploadVars, cleanerVars>>
  PROVE  Core'
<1>0. TypeOK /\ UNCHANGED uploadVars
  BY DEF IInv
<1>1. /\ \A e \in DropPoints : dp'[e] = dp[e] \/ (dp[e] = "open" /\ dp'[e] \in Ended)
      /\ UNCHANGED <<rowVars, blobVars, baseVars, uploadVars, requestVars, cleanerVars>>
  BY <1>0 DEF ExpireLazily, MarkExpired, TypeOK, StoreTypeOK, Ended
<1>2. \A l \in Keys : Gone(l)' => status[l] = "none"
  BY <1>1, KeyFacts DEF Gone, Ended, IInv, RowsHaveParents, Exists
<1>3. Harmless
  BY <1>1, <1>2 DEF Harmless, SameRow, SameFiles, rowVars, blobVars
<1>4. RowsHaveParents' /\ UploadOwnsKey' /\ UploadHasFiles' /\ StaleIsInterrupted' /\ ReadyAvailable'
  BY <1>0, <1>3, HarmlessKeeps
<1>5. IdleUnlessServing'
  BY <1>1 DEF IInv, IdleUnlessServing, baseVars, uploadVars, requestVars
<1>6. /\ \A l \in Keys : Finished(l) => Finished(l)'
      /\ \A e \in DropPoints : /\ Over(e) => Over(e)'
                               /\ dp[e] = "purged" => dp'[e] = "purged"
                               /\ Exists(e)' => Exists(e)
  BY <1>3, HarmlessReadings
<1>7. \A l \in Keys : Gone(l) => Gone(l)'
  BY <1>6, KeyFacts DEF Gone
<1>8. CleanerListsHold'
  BY <1>0, <1>1, <1>6, <1>7
     DEF IInv, CleanerListsHold, ListsHold, Interrupted, cleanerVars, uploadVars, rowVars, TypeOK,
         CleanupTypeOK
<1>9. RequestReadingsHold'
  BY <1>0, <1>1, <1>6, <1>7, KeyFacts
     DEF IInv, RequestReadingsHold, requestVars, rowVars, Gone, Over, TypeOK, ReceiverTypeOK
<1>10. QED
  BY <1>4, <1>5, <1>8, <1>9 DEF Core

\* A crash only stops the handlers and the cleaner.
LEMMA CrashKeeps ==
  ASSUME IInv, Cleaners = {Loop}, Crash
  PROVE  Core'
<1>1. /\ UNCHANGED <<dp, status, ptr, owner, stale, dropdir, payload, envelope>>
      /\ \A u \in Uploads : upc'[u] = "idle"
      /\ \A r \in Requests : rpc'[r] = "idle"
  BY DEF Crash, storeVars, blobVars
<1>2. cpc'[Loop] = "idle"
  BY DEF Crash, EndPass, At, IInv, TypeOK, CleanupTypeOK
<1>3. QED
  BY <1>1, <1>2
     DEF IInv, Core, RowsHaveParents, IdleUnlessServing, UploadOwnsKey, UploadHasFiles,
         StaleIsInterrupted, CleanerListsHold, ListsHold, RequestReadingsHold, ReadyAvailable,
         Exists, Working

-----------------------------------------------------------------------------
(* The theorems *)

\* Every step of the relay keeps the invariant, collected from the lemmas above.
LEMMA StepIInv ==
  ASSUME SweepIsolated, HandlersInTime, Cleaners = {Loop}, IInv, [Next]_vars
  PROVE  IInv'
<1>1. TypeOK'
  BY StepTypeOK DEF IInv
<1>2. Core'
  <2>1. CASE UNCHANGED vars
    BY <2>1
       DEF IInv, Core, RowsHaveParents, IdleUnlessServing, UploadOwnsKey, UploadHasFiles,
           StaleIsInterrupted, CleanerListsHold, ListsHold, RequestReadingsHold, ReadyAvailable,
           Interrupted, Finished, Over, Gone, Exists, vars, baseVars, storeVars, blobVars,
           uploadVars, requestVars, cleanerVars
  <2>2. CASE \E d \in DropPoints : Create(d)
    BY <2>2, CreateKeeps
  <2>3. CASE Tick /\ UNCHANGED <<baseVars, blobVars, uploadVars, requestVars, cleanerVars>>
    BY <2>3, TickKeeps
  <2>4. CASE Crash /\ Fault
    BY <2>4, CrashKeeps
  <2>5. ASSUME NEW u \in Uploads, UploadNext(u), UNCHANGED <<server, requestVars, cleanerVars>>
        PROVE  Core'
    <3>1. UploadActs(u)
      BY <2>5 DEF UploadNext, UploadActs
    <3>2. QED
      BY <1>1, <2>5, <3>1, UploadKeeps
  <2>6. ASSUME NEW r \in Requests, RequestNext(r), UNCHANGED <<server, uploadVars, cleanerVars>>
        PROVE  Core'
    <3>1. RequestActs(r)
      BY <2>6 DEF RequestNext, RequestActs
    <3>2. QED
      BY <1>1, <2>6, <3>1, RequestKeeps
  <2>7. CASE \E d \in DropPoints : ExpireLazily(d) /\ UNCHANGED <<baseVars, uploadVars, cleanerVars>>
    BY <1>1, <2>7, ExpireLazilyKeeps
  <2>8. ASSUME NEW c \in Cleaners, CleanerNext(c), UNCHANGED <<uploadVars, requestVars>>
        PROVE  Core'
    <3>1. CleanerActs(Loop)
      BY <2>8 DEF CleanerNext, CleanerActs
    <3>2. QED
      BY <1>1, <2>8, <3>1, CleanerKeeps
  <2>9. QED
    BY <2>1, <2>2, <2>3, <2>4, <2>5, <2>6, <2>7, <2>8 DEF Next
<1>3. QED
  BY <1>1, <1>2 DEF IInv, Core

\* What every process has read still holds when it acts on it: the conjuncts of IInv say
\* so reader by reader, and hold in every state, for any number of drop points,
\* submissions, uploads, requests and faults, under one cleaner, no drop point created
\* inside an orphan sweep and no handler that outlives ReceivingStaleAfter.
THEOREM ReadingsHold ==
  ASSUME SweepIsolated, HandlersInTime, Cleaners = {Loop}
  PROVE  Spec => []IInv
<1>1. Init => IInv
  BY InitIInv
<1>2. IInv /\ [Next]_vars => IInv'
  BY StepIInv
<1>3. QED
  BY <1>1, <1>2, PTL DEF Spec

\* A committed submission stays available, with its own files, until it is
\* acknowledged or declared failed or its drop point ends: for any number of drop
\* points, submissions, uploads, requests and faults, under the same assumptions.
THEOREM Availability ==
  ASSUME SweepIsolated, HandlersInTime, Cleaners = {Loop}
  PROVE  Spec => []ReadyAvailable
<1>1. Spec => []IInv
  BY ReadingsHold
<1>2. IInv => ReadyAvailable
  BY DEF IInv
<1>3. QED
  BY <1>1, <1>2, PTL
=============================================================================
