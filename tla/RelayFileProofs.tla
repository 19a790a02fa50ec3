-------------------------- MODULE RelayFileProofs --------------------------
(***************************************************************************)
(* Which files there are and what a pickup holds of them: FilesInv is      *)
(* preserved by every step, given IInv.  Then what the two invariants      *)
(* promise to a receiver and to the operator of the disk, and last that    *)
(* the relay implements Handoff: every step is one of the promised life    *)
(* cycle or changes none of its variables.                                 *)
(***************************************************************************)
EXTENDS RelayProofs, RelayRefinement

-----------------------------------------------------------------------------
(* Which files there are, and what a pickup holds of them.  IInv is about the files *)
(* of an open drop point; the parts below follow the files of the others as well.   *)

\* The files of a ready row are those of its upload or are deleted.
ReadyFilesOwn ==
  \A k \in Keys : status[k] = "ready" =>
    /\ owner[k] # NoOne
    /\ payload[k] \in {owner[k], NoOne} /\ envelope[k] \in {owner[k], NoOne}

\* Uploads past the point where they install files.
Settling == {"verify", "undo", "unrow"}

\* A pickup past its lookup: nobody writes below its key any more, so it finds the files
\* of the row it read, or none; and none only when the row is finished or its drop point
\* over.
PickupHolds(r) ==
  LET k == rkey[r] IN
  /\ rpc[r] \in {"envelope", "payload", "send", "mark", "corrupt"} =>
       \A u \in Uploads : upc[u] \in Working /\ ukey[u] = k => upc[u] \in Settling
  /\ rpc[r] \in {"envelope", "payload"} =>
       /\ payload[k] \in {rgot[r].row, NoOne} /\ envelope[k] \in {rgot[r].row, NoOne}
       /\ Over(k[1]) \/ Finished(k) \/ (status[k] = "ready" /\ owner[k] = rgot[r].row)
  /\ rpc[r] \in {"payload", "send"} => rgot[r].env = rgot[r].row
  /\ rpc[r] = "send" => rgot[r].pay = rgot[r].row
  /\ rpc[r] = "corrupt" => Over(k[1]) \/ Finished(k)

PickupsHold == \A r \in Requests : PickupHolds(r)

\* A directory belongs to a drop point that was created, and while that is open, to a row.
MadeHasRow ==
  \A k \in made : dp[k[1]] # "none" /\ (dp[k[1]] = "open" => status[k] # "none")

\* Whoever is about to delete a row has deleted its directory, and nobody remakes it.
UndoneIsEmpty ==
  /\ \A u \in Uploads : upc[u] = "unrow" => ukey[u] \notin made
  /\ \A c \in Cleaners : cpc[c] = "recoverRow" => ckey[c] \notin made

Kept(k) == status[k] \in {"ready", "acknowledged"}

\* A committed row without pointers has no directory, because whoever is about to clear
\* the pointers has deleted it.
UnpointedIsEmpty == \A k \in Keys \ ptr : Kept(k) => k \notin made

ClearedIsEmpty ==
  /\ \A r \in Requests :
       /\ rpc[r] = "ackClear" => (Kept(rkey[r]) => rkey[r] \notin made)
       /\ rpc[r] = "closeClear" => \A k \in KeysOf(rkey[r][1]) : Kept(k) => k \notin made
  /\ \A c \in Cleaners :
       /\ cpc[c] = "childClear" => (Kept(ckey[c]) => ckey[c] \notin made)
       /\ cpc[c] = "terminalClear" => \A k \in KeysOf(cdrop[c]) : Kept(k) => k \notin made

FilesInv ==
  /\ ReadyFilesOwn
  /\ PickupsHold
  /\ MadeHasRow
  /\ UndoneIsEmpty
  /\ UnpointedIsEmpty
  /\ ClearedIsEmpty

-----------------------------------------------------------------------------
FilesGo(l) == payload'[l] \in {payload[l], NoOne} /\ envelope'[l] \in {envelope[l], NoOne}

\* Initially there are no files and nobody reads any.
LEMMA InitFilesInv == Init => FilesInv
<1> SUFFICES ASSUME Init PROVE FilesInv
  OBVIOUS
<1>1. /\ \A k \in Keys : status[k] = "none"
      /\ made = {}
      /\ \A u \in Uploads : upc[u] = "idle"
      /\ \A r \in Requests : rpc[r] = "idle"
      /\ \A c \in Cleaners : cpc[c] = "idle"
  BY DEF Init, StoreInit, BlobInit, UploadInit, ReceiverInit, CleanupInit
<1>2. QED
  BY <1>1 DEF FilesInv, ReadyFilesOwn, PickupsHold, PickupHolds, MadeHasRow, UndoneIsEmpty,
         UnpointedIsEmpty, ClearedIsEmpty, Kept, KeysOf

\* What the registers of a process and the rows say of each other, in one place.
LEMMA RowFacts ==
  ASSUME IInv
  PROVE  /\ TypeOK
         /\ \A l \in Keys : /\ l[1] \in DropPoints
                            /\ Gone(l) => status[l] = "none"
                            /\ status[l] # "none" /\ ~Over(l[1]) => dp[l[1]] = "open"
                            /\ Over(l[1]) => dp[l[1]] \notin {"none", "open"}
         /\ \A u \in Uploads : ukey[u] \in Keys
         /\ \A r \in Requests : rkey[r] \in Keys
         /\ \A c \in Cleaners : ckey[c] \in Keys /\ cdrop[c] \in DropPoints
         /\ made \subseteq Keys
  BY KeyFacts DEF IInv, TypeOK, StoreTypeOK, BlobTypeOK, UploadTypeOK, ReceiverTypeOK,
         CleanupTypeOK, RowsHaveParents, Gone, Exists, Over, Ended

-----------------------------------------------------------------------------
(* Upload handlers *)

\* An upload makes a directory only when it stages, installs files only before its
\* commit, and is about to delete its row only after deleting its directory.
LEMMA UploadFiles ==
  ASSUME TypeOK, NEW u \in Uploads, UploadActs(u)
  PROVE  /\ \A l \in made' : l \in made \/ (l = ukey[u] /\ upc[u] = "stage")
         /\ upc[u] \in {"payload", "envelope"} \/ \A l \in Keys : FilesGo(l)
         /\ upc[u] \in Settling => upc'[u] \in Settling \cup {"idle"}
         /\ upc'[u] = "unrow" => upc[u] = "undo" /\ ukey'[u] = ukey[u] /\ ukey[u] \notin made'
<1> USE DEF TypeOK, FilesGo, Settling
<1>1. CASE \E k \in Keys : AuthorizeDrop(u, k)
  BY <1>1 DEF AuthorizeDrop, UploadTypeOK, blobVars
<1>2. CASE Begin(u) \/ BeginRefused(u) \/ BeginLost(u)
  BY <1>2 DEF Begin, BeginRefused, BeginLost, Goto, Answer, UploadTypeOK, blobVars
<1>3. CASE Stage(u) \/ InstallPayload(u) \/ InstallEnvelope(u) \/ SyncFails(u)
  BY <1>3 DEF Stage, InstallPayload, InstallEnvelope, SyncFails, CreateTemps, RenamePayload,
         RenameEnvelope, Goto, UploadTypeOK, BlobTypeOK
<1>4. CASE WriteFails(u) \/ EnvelopeFails(u)
  BY <1>4 DEF WriteFails, EnvelopeFails, RemoveTemps, RemovePayload, Goto, UploadTypeOK, BlobTypeOK
<1>5. CASE Undo(u)
  BY <1>5 DEF Undo, DeleteSubmission, RemoveAll, Goto, UploadTypeOK, BlobTypeOK
<1>6. CASE Commit(u) \/ CommitRejected(u) \/ CommitErrs(u)
  BY <1>6 DEF Commit, CommitRejected, CommitErrs, Goto, Answer, UploadTypeOK, blobVars
<1>7. CASE VerifySettled(u) \/ VerifyUnsettled(u) \/ GiveUp(u) \/ Unrow(u)
  BY <1>7 DEF VerifySettled, VerifyUnsettled, GiveUp, Unrow, Goto, Answer, UploadTypeOK, blobVars
<1>8. QED
  BY <1>1, <1>2, <1>3, <1>4, <1>5, <1>6, <1>7 DEF UploadActs, UploadStep, UploadFault

\* Every part of the file invariant survives a step of an upload handler.
LEMMA UploadKeepsFiles ==
  ASSUME IInv, FilesInv, NEW u \in Uploads, UploadActs(u),
         UNCHANGED <<server, requestVars, cleanerVars>>
  PROVE  FilesInv'
<1> DEFINE k == ukey[u]
<1>0. /\ TypeOK /\ k \in Keys
      /\ \A l \in Keys : /\ l[1] \in DropPoints
                         /\ Gone(l) => status[l] = "none"
                         /\ status[l] # "none" /\ ~Over(l[1]) => dp[l[1]] = "open"
                         /\ Over(l[1]) => dp[l[1]] \notin {"none", "open"}
      /\ \A v \in Uploads : ukey[v] \in Keys
      /\ \A r \in Requests : rkey[r] \in Keys
      /\ \A c \in Cleaners : ckey[c] \in Keys /\ cdrop[c] \in DropPoints
      /\ made \subseteq Keys
  BY RowFacts
<1>1. /\ dp' = dp
      /\ \A v \in Uploads \ {u} : upc'[v] = upc[v] /\ ukey'[v] = ukey[v]
      /\ \A l \in Keys \ {k} : SameRow(l) /\ SameFiles(l)
  BY <1>0, UploadFrame
<1>2. SameRow(k) \/ ((Begun(u) \/ Committed(u) \/ Dropped(u)) /\ SameFiles(k))
  BY <1>0, UploadRow
<1>3. /\ upc'[u] \in Working => ukey'[u] = k /\ (upc[u] \in Working \/ Begun(u))
      /\ SameFiles(k) \/ upc[u] \in Working \ {"verify"}
  BY <1>0, UploadControl
<1>4. /\ \A l \in made' : l \in made \/ (l = k /\ upc[u] = "stage")
      /\ upc[u] \in {"payload", "envelope"} \/ \A l \in Keys : FilesGo(l)
      /\ upc[u] \in Settling => upc'[u] \in Settling \cup {"idle"}
      /\ upc'[u] = "unrow" => upc[u] = "undo" /\ ukey'[u] = k /\ k \notin made'
  BY <1>0, UploadFiles
<1>5. UNCHANGED <<rpc, rkey, rgot, cpc, ckey, cdrop>>
  BY DEF requestVars, cleanerVars
<1>6. upc[u] \in Working \ {"verify"} => status[k] \in {"none", "receiving"}
  BY <1>0 DEF IInv, UploadOwnsKey
<1>7. \A l \in Keys : SameRow(l) \/ status[l] \in {"none", "receiving"}
  BY <1>1, <1>2 DEF Begun, Committed, Dropped
<1>8. \A l \in Keys : Kept(l)' => Kept(l) \/ (l = k /\ Committed(u))
  BY <1>1, <1>2 DEF Kept, SameRow, Begun, Dropped
<1>9. \A l \in made' : l \in Keys /\ (l \in made \/ (l = k /\ ~Kept(l)' /\ upc[u] = "stage"))
  BY <1>0, <1>2, <1>4, <1>6 DEF Kept, SameRow, Begun, Committed, Dropped, Working
<1>10. ReadyFilesOwn'
  <2> SUFFICES ASSUME NEW l \in Keys, status'[l] = "ready"
               PROVE  /\ owner'[l] # NoOne
                      /\ payload'[l] \in {owner'[l], NoOne} /\ envelope'[l] \in {owner'[l], NoOne}
    BY DEF ReadyFilesOwn
  <2>1. CASE SameRow(l)
    BY <1>1, <1>3, <1>6, <2>1 DEF FilesInv, ReadyFilesOwn, SameRow, SameFiles
  <2>2. CASE ~SameRow(l)
    BY <1>1, <1>2, <2>2, SetsAssumption
       DEF IInv, UploadHasFiles, Begun, Committed, Dropped, SameFiles
  <2>3. QED
    BY <2>1, <2>2
<1>11. PickupsHold'
  <2> SUFFICES ASSUME NEW r \in Requests PROVE PickupHolds(r)'
    BY DEF PickupsHold
  <2> DEFINE q == rkey[r]
  <2>0. q \in Keys /\ PickupHolds(r)
    BY <1>0 DEF FilesInv, PickupsHold
  <2> SUFFICES ASSUME rpc[r] \in {"envelope", "payload", "send", "mark", "corrupt"}
               PROVE  PickupHolds(r)'
    BY <1>5 DEF PickupHolds
  <2>1. Gone(q) \/ status[q] \notin {"none", "receiving"}
    BY DEF IInv, RequestReadingsHold
  <2>2. upc[u] \in Working /\ k = q => upc[u] \in Settling
    BY <2>0 DEF PickupHolds
  <2>3. ~(k = q /\ (Begun(u) \/ Committed(u) \/ Dropped(u)))
    BY <1>0, <2>0, <2>1 DEF Gone, Begun, Committed, Dropped
  <2>4. SameRow(q)
    BY <1>1, <1>2, <2>0, <2>3
  <2>5. FilesGo(q)
    BY <1>1, <1>4, <2>0, <2>2 DEF SameFiles, FilesGo, Settling, Working
  <2>6. \A v \in Uploads : upc'[v] \in Working /\ ukey'[v] = q => upc'[v] \in Settling
    <3>1. \A v \in Uploads \ {u} : upc'[v] \in Working /\ ukey'[v] = q => upc'[v] \in Settling
      BY <1>1, <2>0 DEF PickupHolds
    <3>2. upc'[u] \in Working /\ ukey'[u] = q => upc'[u] \in Settling
      BY <1>3, <1>4, <2>2, <2>3 DEF Working
    <3>3. QED
      BY <3>1, <3>2
  <2>7. QED
    BY <1>1, <1>5, <2>0, <2>4, <2>5, <2>6
       DEF PickupHolds, SameRow, FilesGo, Over, Finished, Gone
<1>12. MadeHasRow'
  <2> SUFFICES ASSUME NEW l \in made'
               PROVE  dp[l[1]] # "none" /\ (dp[l[1]] = "open" => status'[l] # "none")
    BY <1>1 DEF MadeHasRow
  <2>1. CASE l \in made
    <3>1. dp[l[1]] # "none" /\ (dp[l[1]] = "open" => status[l] # "none")
      BY <2>1 DEF FilesInv, MadeHasRow
    <3>2. ~(l = k /\ Dropped(u))
      BY <2>1 DEF FilesInv, UndoneIsEmpty, Dropped
    <3>3. QED
      BY <1>1, <1>2, <1>9, <3>1, <3>2 DEF SameRow, Begun, Committed
  <2>2. CASE l \notin made
    <3>1. l = k /\ upc[u] = "stage"
      BY <1>9, <2>2
    <3>2. Gone(l) \/ status[l] = "receiving"
      BY <3>1 DEF IInv, UploadOwnsKey, Working
    <3>3. dp[l[1]] # "none"
      BY <1>0, <3>1, <3>2 DEF IInv, RowsHaveParents, Gone, Exists, Ended
    <3>4. SameRow(l)
      BY <1>2, <3>1 DEF Begun, Committed, Dropped
    <3>5. QED
      BY <3>2, <3>3, <3>4 DEF SameRow, Gone
  <2>3. QED
    BY <2>1, <2>2
<1>13. UndoneIsEmpty'
  <2>1. ASSUME NEW v \in Uploads, upc'[v] = "unrow" PROVE ukey'[v] \notin made'
    <3>1. CASE v = u
      BY <1>4, <2>1, <3>1
    <3>2. CASE v # u
      <4>1. upc[v] = "unrow" /\ ukey'[v] = ukey[v] /\ ukey[v] \notin made
        BY <1>1, <2>1, <3>2 DEF FilesInv, UndoneIsEmpty
      <4>2. upc[u] = "stage" => ukey[v] # k
        BY <3>2, <4>1 DEF IInv, UploadOwnsKey, Working
      <4>3. QED
        BY <1>4, <4>1, <4>2
    <3>3. QED
      BY <3>1, <3>2
  <2>2. ASSUME NEW c \in Cleaners, cpc[c] = "recoverRow" PROVE ckey[c] \notin made'
    <3>1. ckey[c] \notin made /\ Interrupted(ckey[c])
      BY <2>2 DEF FilesInv, UndoneIsEmpty, IInv, CleanerListsHold, ListsHold
    <3>2. upc[u] = "stage" => ckey[c] # k
      BY <3>1 DEF Interrupted, Working
    <3>3. QED
      BY <1>4, <3>1, <3>2
  <2>3. QED
    BY <1>5, <2>1, <2>2 DEF UndoneIsEmpty
<1>14. UnpointedIsEmpty'
  <2> SUFFICES ASSUME NEW l \in Keys, l \notin ptr', Kept(l)' PROVE l \notin made'
    BY DEF UnpointedIsEmpty
  <2>1. Kept(l) /\ l \notin ptr
    BY <1>1, <1>2, <1>7, <1>8 DEF Kept, SameRow, Committed
  <2>2. QED
    BY <1>9, <2>1 DEF FilesInv, UnpointedIsEmpty
<1>15. ClearedIsEmpty'
  <2>1. \A l \in Keys : Over(l[1]) \/ Finished(l) => (Kept(l)' => Kept(l))
    BY <1>0, <1>8 DEF Committed, Finished, Gone
  <2>2. \A l \in Keys : Over(l[1]) \/ Finished(l) =>
          ((Kept(l) => l \notin made) => (Kept(l)' => l \notin made'))
    BY <1>9, <2>1
  <2>3. ASSUME NEW r \in Requests
        PROVE  /\ rpc[r] = "ackClear" => (Kept(rkey[r])' => rkey[r] \notin made')
               /\ rpc[r] = "closeClear" => \A l \in KeysOf(rkey[r][1]) : Kept(l)' => l \notin made'
    <3>1. /\ rpc[r] = "ackClear" => Finished(rkey[r])
          /\ rpc[r] = "closeClear" => Over(rkey[r][1])
      BY DEF IInv, RequestReadingsHold, Finished
    <3>2. /\ rpc[r] = "ackClear" => (Kept(rkey[r]) => rkey[r] \notin made)
          /\ rpc[r] = "closeClear" => \A l \in KeysOf(rkey[r][1]) : Kept(l) => l \notin made
      BY DEF FilesInv, ClearedIsEmpty
    <3>3. QED
      BY <1>0, <1>5, <2>2, <3>1, <3>2 DEF KeysOf, Kept
  <2>4. ASSUME NEW c \in Cleaners
        PROVE  /\ cpc[c] = "childClear" => (Kept(ckey[c])' => ckey[c] \notin made')
               /\ cpc[c] = "terminalClear" => \A l \in KeysOf(cdrop[c]) : Kept(l)' => l \notin made'
    <3>1. /\ cpc[c] = "childClear" => Finished(ckey[c])
          /\ cpc[c] = "terminalClear" => Over(cdrop[c])
      BY DEF IInv, CleanerListsHold, ListsHold
    <3>2. /\ cpc[c] = "childClear" => (Kept(ckey[c]) => ckey[c] \notin made)
          /\ cpc[c] = "terminalClear" => \A l \in KeysOf(cdrop[c]) : Kept(l) => l \notin made
      BY DEF FilesInv, ClearedIsEmpty
    <3>3. QED
      BY <1>0, <1>5, <2>2, <3>1, <3>2 DEF KeysOf, Kept
  <2>5. QED
    BY <1>5, <2>3, <2>4 DEF ClearedIsEmpty, KeysOf, Kept
<1>16. QED
  BY <1>10, <1>11, <1>12, <1>13, <1>14, <1>15 DEF FilesInv

-----------------------------------------------------------------------------
(* Steps that only delete files *)

\* What the steps of receiver requests, cleaners and the clock do, as long as nobody
\* deletes a row before its directory or a pointer before its file: no drop point opens,
\* files and directories only go, and so do the rows and pointers that are about them.
OnlyDeletes ==
  /\ \A d \in DropPoints : /\ dp'[d] = "none" => dp[d] = "none"
                           /\ dp'[d] = "open" => dp[d] = "open"
                           /\ Over(d) => Over(d)'
  /\ made' \subseteq made /\ \A l \in Keys : FilesGo(l)
  /\ \A l \in Keys : /\ status'[l] = "ready" => status[l] = "ready" /\ owner'[l] = owner[l]
                     /\ Kept(l)' => Kept(l)
                     /\ Finished(l) => Finished(l)'
                     /\ status[l] = "ready" /\ ~Finished(l)' => status'[l] = "ready"
  /\ \A l \in made : dp'[l[1]] = "open" /\ status'[l] = "none" => status[l] = "none"
  /\ \A l \in made : Kept(l) /\ l \in ptr => l \in ptr'

\* Such a step keeps what the file invariant says of rows and files, and of every process
\* that does not move.
LEMMA OnlyDeletesKeeps ==
  ASSUME IInv, FilesInv, OnlyDeletes, uploadVars' = uploadVars
  PROVE  /\ ReadyFilesOwn' /\ MadeHasRow' /\ UnpointedIsEmpty'
         /\ \A u \in Uploads : upc'[u] = "unrow" => ukey'[u] \notin made'
         /\ \A r \in Requests : rpc'[r] = rpc[r] /\ rkey'[r] = rkey[r] /\ rgot'[r] = rgot[r]
              => PickupHolds(r)'
         /\ \A l \in Keys : (Kept(l) => l \notin made) => (Kept(l)' => l \notin made')
<1>0. /\ made \subseteq Keys /\ \A l \in Keys : l[1] \in DropPoints
      /\ \A r \in Requests : rkey[r] \in Keys
      /\ upc' = upc /\ ukey' = ukey
  BY RowFacts DEF uploadVars
<1>1. ReadyFilesOwn'
  BY DEF OnlyDeletes, FilesGo, FilesInv, ReadyFilesOwn
<1>2. MadeHasRow'
  BY <1>0 DEF OnlyDeletes, FilesInv, MadeHasRow
<1>3. UnpointedIsEmpty'
  BY <1>0 DEF OnlyDeletes, FilesInv, UnpointedIsEmpty
<1>4. \A u \in Uploads : upc'[u] = "unrow" => ukey'[u] \notin made'
  BY <1>0 DEF OnlyDeletes, FilesInv, UndoneIsEmpty
<1>5. ASSUME NEW r \in Requests, rpc'[r] = rpc[r], rkey'[r] = rkey[r], rgot'[r] = rgot[r]
      PROVE  PickupHolds(r)'
  <2>1. PickupHolds(r) /\ rkey[r] \in Keys /\ rkey[r][1] \in DropPoints
    BY <1>0 DEF FilesInv, PickupsHold
  <2>2. /\ Over(rkey[r][1]) => Over(rkey[r][1])'
        /\ Finished(rkey[r]) => Finished(rkey[r])'
    BY <1>5, <2>1 DEF OnlyDeletes, Finished, Gone, Over
  <2>3. status[rkey[r]] = "ready"
          => Finished(rkey[r])' \/ (status'[rkey[r]] = "ready" /\ owner'[rkey[r]] = owner[rkey[r]])
    BY <1>5, <2>1 DEF OnlyDeletes, Finished, Gone
  <2>4. FilesGo(rkey[r])
    BY <2>1 DEF OnlyDeletes
  <2>5. QED
    BY <1>0, <1>5, <2>1, <2>2, <2>3, <2>4 DEF PickupHolds, FilesGo
<1>6. \A l \in Keys : (Kept(l) => l \notin made) => (Kept(l)' => l \notin made')
  BY DEF OnlyDeletes
<1>7. QED
  BY <1>1, <1>2, <1>3, <1>4, <1>5, <1>6

-----------------------------------------------------------------------------
(* Receiver requests *)

\* What a request deletes, and what it holds of the files when it goes on.
LEMMA RequestFiles ==
  ASSUME TypeOK, NEW r \in Requests, RequestActs(r)
  PROVE  /\ made' \subseteq made /\ \A l \in Keys : FilesGo(l)
         /\ \A q \in Requests \ {r} : rgot'[q] = rgot[q]
         /\ rpc'[r] = "ackClear" => rkey'[r] \notin made'
         /\ rpc'[r] = "closeClear" => made' \cap KeysOf(rkey'[r][1]) = {}
         /\ rpc'[r] \in {"envelope", "payload", "send", "mark", "corrupt"} =>
              /\ rkey'[r] = rkey[r]
              /\ UNCHANGED <<dp, status, owner, ptr, payload, envelope>>
              /\ \/ /\ rpc[r] = "find" /\ status[rkey[r]] = "ready"
                    /\ rgot'[r].row = owner[rkey[r]]
                    /\ rpc'[r] = IF rkey[r] \in ptr THEN "envelope" ELSE "corrupt"
                 \/ /\ rpc[r] = "envelope" /\ rpc'[r] = "payload"
                    /\ envelope[rkey[r]] # NoOne
                    /\ rgot'[r].row = rgot[r].row /\ rgot'[r].env = envelope[rkey[r]]
                 \/ /\ rpc[r] = "payload" /\ rpc'[r] = "send"
                    /\ payload[rkey[r]] # NoOne
                    /\ rgot'[r].row = rgot[r].row /\ rgot'[r].env = rgot[r].env
                    /\ rgot'[r].pay = payload[rkey[r]]
                 \/ /\ rpc'[r] = "corrupt" /\ rgot'[r] = rgot[r]
                    /\ \/ rpc[r] = "envelope" /\ envelope[rkey[r]] = NoOne
                       \/ rpc[r] = "payload" /\ ~SizeMatches(r)
                 \/ /\ rpc[r] = "send" /\ rpc'[r] = "mark"
<1> USE DEF TypeOK, FilesGo
<1>0. rkey[r] \in Keys
  BY DEF ReceiverTypeOK
<1>1. CASE \E k \in Keys : Authorize(r, k)
  <2>1. PICK k \in Keys : Authorize(r, k)
    BY <1>1
  <2>2. /\ UNCHANGED <<blobVars, rgot>>
        /\ \E pc \in {"find", "ack", "close", "closeDelete"} : rpc' = [rpc EXCEPT ![r] = pc]
    BY <2>1 DEF Authorize
  <2>3. QED
    BY <2>2 DEF ReceiverTypeOK, blobVars
<1>2. CASE FindReady(r) \/ ReadEnvelope(r)
  BY <1>0, <1>2 DEF FindReady, ReadEnvelope, Got, ReceiverTypeOK, storeVars, blobVars
<1>3. CASE BlobMissing(r) \/ Send(r)
  BY <1>0, <1>3 DEF BlobMissing, Send, Continue, ReceiverTypeOK, storeVars, blobVars
<1>4. CASE OpenPayload(r)
  <2>1. CASE Reply(r)
    BY <1>4, <2>1 DEF OpenPayload, Reply, ReceiverTypeOK, storeVars, blobVars
  <2>2. CASE ~Reply(r)
    BY <1>0, <1>4, <2>2 DEF OpenPayload, SizeMatches, Got, ReceiverTypeOK, storeVars, blobVars
  <2>3. QED
    BY <2>1, <2>2
<1>5. CASE FindOther(r) \/ Mark(r) \/ FailCorrupt(r) \/ CloseMissing(r) \/ Abandon(r)
           \/ RequestFault(r) \/ AckClear(r) \/ CloseClear(r)
  BY <1>5 DEF FindOther, Mark, FailCorrupt, CloseMissing, Abandon, RequestFault, AckClear,
         CloseClear, Reply, ReceiverTypeOK, blobVars
<1>6. CASE Acknowledge(r) \/ Close(r)
  BY <1>6 DEF Acknowledge, Close, Continue, Reply, ReceiverTypeOK, blobVars
<1>7. CASE AckDelete(r)
  BY <1>0, <1>7 DEF AckDelete, DeleteSubmission, RemoveAll, Continue, ReceiverTypeOK, BlobTypeOK
<1>8. CASE CloseDelete(r)
  BY <1>0, <1>8 DEF CloseDelete, DeleteDropPoint, RemoveAll, Continue, ReceiverTypeOK, BlobTypeOK
<1>9. QED
  BY <1>1, <1>2, <1>3, <1>4, <1>5, <1>6, <1>7, <1>8 DEF RequestActs, RequestStep

\* With the readings of its handlers intact, a request only deletes.
LEMMA RequestOnlyDeletes ==
  ASSUME IInv, FilesInv, NEW r \in Requests, RequestActs(r)
  PROVE  OnlyDeletes
<1>0. /\ TypeOK
      /\ \A l \in Keys : l[1] \in DropPoints
      /\ made \subseteq Keys
  BY RowFacts
<1>1. /\ \A d \in DropPoints : dp'[d] = dp[d] \/ (dp[d] = "open" /\ dp'[d] \in Ended)
      /\ owner' = owner
      /\ \A l \in Keys :
           \/ status'[l] = status[l]
           \/ status[l] = "ready" /\ status'[l] = "acknowledged"
           \/ rpc[r] = "corrupt" /\ l = rkey[r] /\ status[l] \in Pending /\ status'[l] = "failed"
      /\ \A l \in Keys : \/ l \in ptr' <=> l \in ptr
                         \/ rpc[r] = "ackClear" /\ l = rkey[r]
                         \/ rpc[r] = "closeClear" /\ l[1] = rkey[r][1]
  BY <1>0, RequestEffect
<1>2. made' \subseteq made /\ \A l \in Keys : FilesGo(l)
  BY <1>0, RequestFiles
<1>3. Harmless /\ \A l \in Keys : Finished(l) => Finished(l)'
  BY RequestHarmless, HarmlessReadings
<1>4. \A l \in made : Kept(l) /\ l \in ptr => l \in ptr'
  BY <1>0, <1>1 DEF FilesInv, ClearedIsEmpty, KeysOf
<1>5. \A l \in made : dp'[l[1]] = "open" /\ status'[l] = "none" => status[l] = "none"
  BY <1>0, <1>1
<1>6. \A d \in DropPoints : /\ dp'[d] = "none" => dp[d] = "none"
                            /\ dp'[d] = "open" => dp[d] = "open"
                            /\ Over(d) => Over(d)'
  BY <1>1 DEF Over, Ended
<1>7. \A l \in Keys : /\ status'[l] = "ready" => status[l] = "ready" /\ owner'[l] = owner[l]
                      /\ Kept(l)' => Kept(l)
                      /\ status[l] = "ready" /\ ~Finished(l)' => status'[l] = "ready"
  BY <1>1 DEF Kept, Finished
<1>8. QED
  BY <1>2, <1>3, <1>4, <1>5, <1>6, <1>7 DEF OnlyDeletes

\* Every part of the file invariant survives a step of a receiver request.
LEMMA RequestKeepsFiles ==
  ASSUME IInv, FilesInv, NEW r \in Requests, RequestActs(r),
         UNCHANGED <<server, uploadVars, cleanerVars>>
  PROVE  FilesInv'
<1> DEFINE k == rkey[r]
<1>0. /\ TypeOK /\ k \in Keys /\ k[1] \in DropPoints
      /\ \A l \in Keys : /\ l[1] \in DropPoints
                         /\ Gone(l) => status[l] = "none"
                         /\ status[l] # "none" /\ ~Over(l[1]) => dp[l[1]] = "open"
      /\ \A q \in Requests : rkey[q] \in Keys
      /\ \A c \in Cleaners : ckey[c] \in Keys /\ cdrop[c] \in DropPoints
  BY RowFacts
<1>1. UNCHANGED <<upc, ukey, cpc, ckey, cdrop>>
  BY DEF uploadVars, cleanerVars
<1>2. /\ OnlyDeletes
      /\ ReadyFilesOwn' /\ MadeHasRow' /\ UnpointedIsEmpty'
      /\ \A u \in Uploads : upc'[u] = "unrow" => ukey'[u] \notin made'
      /\ \A q \in Requests : rpc'[q] = rpc[q] /\ rkey'[q] = rkey[q] /\ rgot'[q] = rgot[q]
           => PickupHolds(q)'
      /\ \A l \in Keys : (Kept(l) => l \notin made) => (Kept(l)' => l \notin made')
  BY RequestOnlyDeletes, OnlyDeletesKeeps DEF uploadVars
<1>3. /\ \A q \in Requests \ {r} : rpc'[q] = rpc[q] /\ rkey'[q] = rkey[q] /\ rgot'[q] = rgot[q]
      /\ rpc'[r] = "ackClear" => rkey'[r] \notin made'
      /\ rpc'[r] = "closeClear" => made' \cap KeysOf(rkey'[r][1]) = {}
  BY <1>0, RequestControl, RequestFiles
<1>4. UndoneIsEmpty'
  BY <1>1, <1>2 DEF UndoneIsEmpty, OnlyDeletes, FilesInv
<1>5. ClearedIsEmpty'
  <2>1. ASSUME NEW q \in Requests
        PROVE  /\ rpc'[q] = "ackClear" => (Kept(rkey[q])' => rkey'[q] \notin made')
               /\ rpc'[q] = "closeClear" => \A l \in KeysOf(rkey'[q][1]) : Kept(l)' => l \notin made'
    <3>1. CASE q = r
      BY <1>3, <3>1
    <3>2. CASE q # r
      BY <1>0, <1>2, <1>3, <3>2 DEF FilesInv, ClearedIsEmpty, KeysOf, Kept
    <3>3. QED
      BY <3>1, <3>2
  <2>2. ASSUME NEW c \in Cleaners
        PROVE  /\ cpc'[c] = "childClear" => (Kept(ckey[c])' => ckey'[c] \notin made')
               /\ cpc'[c] = "terminalClear" => \A l \in KeysOf(cdrop'[c]) : Kept(l)' => l \notin made'
    BY <1>0, <1>1, <1>2 DEF FilesInv, ClearedIsEmpty, KeysOf, Kept
  <2>3. QED
    BY <2>1, <2>2 DEF ClearedIsEmpty, KeysOf
<1>6. PickupHolds(r)'
  <2> SUFFICES ASSUME rpc'[r] \in {"envelope", "payload", "send", "mark", "corrupt"}
               PROVE  PickupHolds(r)'
    BY DEF PickupHolds
  <2>1. PickupHolds(r)
    BY DEF FilesInv, PickupsHold
  <2>2. /\ rkey'[r] = k
        /\ UNCHANGED <<dp, status, owner, ptr, payload, envelope>>
        /\ \/ /\ rpc[r] = "find" /\ status[k] = "ready"
              /\ rgot'[r].row = owner[k]
              /\ rpc'[r] = IF k \in ptr THEN "envelope" ELSE "corrupt"
           \/ /\ rpc[r] = "envelope" /\ rpc'[r] = "payload"
              /\ envelope[k] # NoOne
              /\ rgot'[r].row = rgot[r].row /\ rgot'[r].env = envelope[k]
           \/ /\ rpc[r] = "payload" /\ rpc'[r] = "send"
              /\ payload[k] # NoOne
              /\ rgot'[r].row = rgot[r].row /\ rgot'[r].env = rgot[r].env
              /\ rgot'[r].pay = payload[k]
           \/ /\ rpc'[r] = "corrupt" /\ rgot'[r] = rgot[r]
              /\ \/ rpc[r] = "envelope" /\ envelope[k] = NoOne
                 \/ rpc[r] = "payload" /\ ~SizeMatches(r)
           \/ /\ rpc[r] = "send" /\ rpc'[r] = "mark"
    BY <1>0, RequestFiles
  <2>3. CASE rpc[r] = "find"
    <3>1. /\ status[k] = "ready" /\ rgot'[r].row = owner[k]
          /\ rpc'[r] = IF k \in ptr THEN "envelope" ELSE "corrupt"
      BY <2>2, <2>3
    <3>2. \A u \in Uploads : upc[u] \in Working /\ ukey[u] = k => upc[u] \in Settling
      BY <1>0, <3>1 DEF IInv, UploadOwnsKey, Settling
    <3>3. payload[k] \in {owner[k], NoOne} /\ envelope[k] \in {owner[k], NoOne}
      BY <1>0, <3>1 DEF FilesInv, ReadyFilesOwn
    <3>4. k \notin ptr => Over(k[1])
      BY <1>0, <3>1 DEF IInv, ReadyAvailable
    <3>5. QED
      BY <1>1, <2>2, <3>1, <3>2, <3>3, <3>4 DEF PickupHolds, Over
  <2>4. CASE rpc'[r] = "corrupt" /\ rpc[r] \in {"envelope", "payload"}
    <3>1. Over(k[1]) \/ Finished(k)
      <4> SUFFICES ASSUME ~Over(k[1]), ~Finished(k) PROVE FALSE
        OBVIOUS
      <4>1. status[k] = "ready" /\ owner[k] = rgot[r].row
        BY <2>1, <2>4 DEF PickupHolds
      <4>2. owner[k] # NoOne /\ payload[k] = owner[k] /\ envelope[k] = owner[k]
        BY <1>0, <4>1 DEF IInv, ReadyAvailable
      <4>3. QED
        BY <2>2, <2>4, <4>1, <4>2 DEF SizeMatches
    <3>2. QED
      BY <1>1, <2>1, <2>2, <2>4, <3>1 DEF PickupHolds, Over, Finished, Gone
  <2>5. CASE rpc'[r] # "corrupt" /\ rpc[r] \in {"envelope", "payload", "send"}
    BY <1>1, <2>1, <2>2, <2>5 DEF PickupHolds, Over, Finished, Gone
  <2>6. QED
    BY <2>2, <2>3, <2>4, <2>5
<1>7. PickupsHold'
  BY <1>2, <1>3, <1>6 DEF PickupsHold
<1>8. QED
  BY <1>2, <1>4, <1>5, <1>7 DEF FilesInv

-----------------------------------------------------------------------------
(* Cleaners *)

\* What a pass deletes before it goes on to a row or to pointers.
LEMMA CleanerFiles ==
  ASSUME TypeOK, NEW c \in Cleaners, CleanerActs(c)
  PROVE  /\ made' \subseteq made /\ \A l \in Keys : FilesGo(l)
         /\ cpc'[c] \in {"recoverRow", "childClear"} => ckey'[c] \notin made'
         /\ cpc'[c] = "terminalClear" => made' \cap KeysOf(cdrop'[c]) = {}
<1> USE DEF TypeOK, FilesGo
<1>1. CASE \E k \in Keys : RecoverBlobs(c, k) \/ ChildBlobs(c, k)
  BY <1>1 DEF RecoverBlobs, ChildBlobs, TakeKey, DeleteSubmission, RemoveAll, At, BlobTypeOK,
         CleanupTypeOK
<1>2. CASE \E d \in DropPoints : TerminalBlobs(c, d) \/ OrphanBlobs(c, d)
  BY <1>2 DEF TerminalBlobs, OrphanBlobs, TakeDrop, DeleteDropPoint, RemoveAll, At, BlobTypeOK,
         CleanupTypeOK
<1>3. CASE StartPass(c) \/ (c = Loop /\ Boot) \/ Purge(c) \/ Abort(c)
  BY <1>3 DEF StartPass, Boot, OpenPass, Purge, Abort, EndPass, At, CleanupTypeOK, blobVars
<1>4. CASE RecoverRow(c) \/ ExpireDropPoints(c) \/ ChildClear(c) \/ TerminalClear(c)
  BY <1>4 DEF RecoverRow, ExpireDropPoints, ChildClear, TerminalClear, At, CleanupTypeOK, blobVars
<1>5. CASE ListChildren(c) \/ ListTerminals(c) \/ ListRows(c) \/ ListDirs(c)
  BY <1>5 DEF ListChildren, ListTerminals, ListRows, ListDirs, ListKeys, ListDrops, At,
         CleanupTypeOK, blobVars
<1>6. QED
  BY <1>1, <1>2, <1>3, <1>4, <1>5 DEF CleanerActs, CleanerStep

\* With the readings of its phases intact, a pass only deletes.
LEMMA CleanerOnlyDeletes ==
  ASSUME IInv, FilesInv, NEW c \in Cleaners, CleanerActs(c)
  PROVE  OnlyDeletes
<1>0. /\ TypeOK
      /\ \A l \in Keys : l[1] \in DropPoints
      /\ made \subseteq Keys
  BY RowFacts
<1>1. /\ \A d \in DropPoints : \/ dp'[d] = dp[d]
                               \/ dp[d] = "open" /\ dp'[d] \in Ended
                               \/ dp[d] \in Ended /\ dp'[d] = "purged"
      /\ \A l \in Keys :
           \/ status'[l] = status[l] /\ owner'[l] = owner[l]
           \/ Gone(l)' /\ status'[l] = "none"
           \/ /\ cpc[c] = "recoverRow" /\ l = ckey[c]
              /\ status[l] = "receiving" /\ status'[l] = "none"
      /\ \A l \in Keys : \/ l \in ptr' <=> l \in ptr
                         \/ cpc[c] = "childClear" /\ l = ckey[c]
                         \/ cpc[c] = "terminalClear" /\ l[1] = cdrop[c]
  BY <1>0, CleanerEffect
<1>2. made' \subseteq made /\ \A l \in Keys : FilesGo(l)
  BY <1>0, CleanerFiles
<1>3. \A l \in Keys : Finished(l) => Finished(l)'
  BY CleanerHarmless, HarmlessReadings
<1>4. \A l \in made : Kept(l) /\ l \in ptr => l \in ptr'
  BY <1>0, <1>1 DEF FilesInv, ClearedIsEmpty, KeysOf
<1>5. \A l \in made : dp'[l[1]] = "open" /\ status'[l] = "none" => status[l] = "none"
  BY <1>0, <1>1 DEF FilesInv, UndoneIsEmpty, Gone
<1>6. \A d \in DropPoints : /\ dp'[d] = "none" => dp[d] = "none"
                            /\ dp'[d] = "open" => dp[d] = "open"
                            /\ Over(d) => Over(d)'
  BY <1>1 DEF Over, Ended
<1>7. \A l \in Keys : /\ status'[l] = "ready" => status[l] = "ready" /\ owner'[l] = owner[l]
                      /\ Kept(l)' => Kept(l)
                      /\ status[l] = "ready" /\ ~Finished(l)' => status'[l] = "ready"
  BY <1>1 DEF Kept, Finished
<1>8. QED
  BY <1>2, <1>3, <1>4, <1>5, <1>6, <1>7 DEF OnlyDeletes

\* Every part of the file invariant survives a step of the only cleaner.
LEMMA CleanerKeepsFiles ==
  ASSUME IInv, FilesInv, Cleaners = {Loop}, CleanerActs(Loop),
         UNCHANGED <<uploadVars, requestVars>>
  PROVE  FilesInv'
<1>0. /\ TypeOK /\ Loop \in Cleaners
      /\ \A q \in Requests : rkey[q] \in Keys
      /\ UNCHANGED <<uploadVars, rpc, rkey, rgot>>
  BY RowFacts DEF requestVars
<1>1. /\ OnlyDeletes
      /\ ReadyFilesOwn' /\ MadeHasRow' /\ UnpointedIsEmpty'
      /\ \A u \in Uploads : upc'[u] = "unrow" => ukey'[u] \notin made'
      /\ \A q \in Requests : rpc'[q] = rpc[q] /\ rkey'[q] = rkey[q] /\ rgot'[q] = rgot[q]
           => PickupHolds(q)'
      /\ \A l \in Keys : (Kept(l) => l \notin made) => (Kept(l)' => l \notin made')
  BY <1>0, CleanerOnlyDeletes, OnlyDeletesKeeps
<1>2. /\ cpc'[Loop] \in {"recoverRow", "childClear"} => ckey'[Loop] \notin made'
      /\ cpc'[Loop] = "terminalClear" => made' \cap KeysOf(cdrop'[Loop]) = {}
  BY <1>0, CleanerFiles
<1>3. PickupsHold'
  BY <1>0, <1>1 DEF PickupsHold
<1>4. UndoneIsEmpty'
  BY <1>1, <1>2 DEF UndoneIsEmpty
<1>5. ClearedIsEmpty'
  <2>1. ASSUME NEW q \in Requests
        PROVE  /\ rpc'[q] = "ackClear" => (Kept(rkey[q])' => rkey'[q] \notin made')
               /\ rpc'[q] = "closeClear" => \A l \in KeysOf(rkey'[q][1]) : Kept(l)' => l \notin made'
    BY <1>0, <1>1 DEF FilesInv, ClearedIsEmpty, KeysOf, Kept
  <2>2. QED
    BY <1>2, <2>1 DEF ClearedIsEmpty, KeysOf
<1>6. QED
  BY <1>1, <1>3, <1>4, <1>5 DEF FilesInv

-----------------------------------------------------------------------------
(* The remaining steps *)

\* A new drop point has no files, and no pickup of it has started.
LEMMA CreateKeepsFiles ==
  ASSUME IInv, FilesInv, NEW d \in DropPoints, Create(d)
  PROVE  FilesInv'
<1>0. /\ \A l \in Keys : l[1] \in DropPoints
      /\ \A r \in Requests : rkey[r] \in Keys
      /\ made \subseteq Keys
  BY RowFacts
<1>1. /\ dp[d] = "none" /\ dp'[d] = "open"
      /\ \A e \in DropPoints \ {d} : dp'[e] = dp[e]
      /\ UNCHANGED <<rowVars, blobVars, uploadVars, requestVars, cleanerVars>>
  BY DEF Create, InsertDropPoint, IInv, TypeOK, StoreTypeOK
<1>2. UNCHANGED <<status, ptr, owner, made, payload, envelope, upc, ukey, rpc, rkey, rgot, cpc,
                  ckey, cdrop>>
  BY <1>1 DEF rowVars, blobVars, uploadVars, requestVars, cleanerVars
<1>3. MadeHasRow'
  BY <1>0, <1>1, <1>2 DEF FilesInv, MadeHasRow
<1>4. ASSUME NEW r \in Requests PROVE PickupHolds(r)'
  <2>1. PickupHolds(r) /\ rkey[r] \in Keys /\ rkey[r][1] \in DropPoints
    BY <1>0 DEF FilesInv, PickupsHold
  <2>2. /\ Over(rkey[r][1]) => Over(rkey[r][1])'
        /\ Finished(rkey[r]) => Finished(rkey[r])'
    BY <1>1, <1>2, <2>1 DEF Over, Finished, Gone, Ended
  <2>3. QED
    BY <1>2, <2>1, <2>2 DEF PickupHolds
<1>5. ReadyFilesOwn' /\ UndoneIsEmpty' /\ UnpointedIsEmpty' /\ ClearedIsEmpty'
  BY <1>2 DEF FilesInv, ReadyFilesOwn, UndoneIsEmpty, UnpointedIsEmpty, ClearedIsEmpty, Kept
<1>6. QED
  BY <1>3, <1>4, <1>5 DEF FilesInv, PickupsHold

\* The passage of time changes no row and no file, only what the next statements read.
LEMMA TickKeepsFiles ==
  ASSUME FilesInv, Tick, UNCHANGED <<baseVars, blobVars, uploadVars, requestVars, cleanerVars>>
  PROVE  FilesInv'
<1>1. UNCHANGED <<dp, status, ptr, owner, made, payload, envelope, upc, ukey, rpc, rkey, rgot, cpc,
                  ckey, cdrop>>
  BY DEF Tick, Lapse, Age, GoStale, rowVars, clockVars, blobVars, uploadVars, requestVars,
         cleanerVars
<1>2. QED
  BY <1>1 DEF FilesInv, ReadyFilesOwn, PickupsHold, PickupHolds, MadeHasRow, UndoneIsEmpty,
         UnpointedIsEmpty, ClearedIsEmpty, Kept, Over, Finished, Gone

\* A lapsed drop point is expired by a lookup: nothing else changes.
LEMMA ExpireLazilyKeepsFiles ==
  ASSUME IInv, FilesInv, NEW d \in DropPoints, ExpireLazily(d),
         UNCHANGED <<baseVars, uploadVars, cleanerVars>>
  PROVE  FilesInv'
<1>0. /\ \A l \in Keys : l[1] \in DropPoints
      /\ \A r \in Requests : rkey[r] \in Keys
      /\ made \subseteq Keys
  BY RowFacts
<1>1. /\ \A e \in DropPoints : dp'[e] = dp[e] \/ (dp[e] = "open" /\ dp'[e] \in Ended)
      /\ UNCHANGED <<rowVars, blobVars, uploadVars, requestVars, cleanerVars>>
  BY DEF ExpireLazily, MarkExpired, IInv, TypeOK, StoreTypeOK, Ended
<1>2. UNCHANGED <<status, ptr, owner, made, payload, envelope, upc, ukey, rpc, rkey, rgot, cpc,
                  ckey, cdrop>>
  BY <1>1 DEF rowVars, blobVars, uploadVars, requestVars, cleanerVars
<1>3. OnlyDeletes
  BY <1>0, <1>1, <1>2 DEF OnlyDeletes, FilesGo, Over, Ended, Kept, Finished, Gone
<1>4. /\ ReadyFilesOwn' /\ MadeHasRow' /\ UnpointedIsEmpty'
      /\ \A r \in Requests : PickupHolds(r)'
  BY <1>2, <1>3, OnlyDeletesKeeps DEF uploadVars
<1>5. UndoneIsEmpty' /\ ClearedIsEmpty'
  BY <1>2 DEF FilesInv, UndoneIsEmpty, ClearedIsEmpty, Kept
<1>6. QED
  BY <1>4, <1>5 DEF FilesInv, PickupsHold

\* A crash leaves rows and files as they are and forgets every register.
LEMMA CrashKeepsFiles ==
  ASSUME IInv, FilesInv, Cleaners = {Loop}, Crash
  PROVE  FilesInv'
<1>1. /\ UNCHANGED <<dp, status, ptr, owner, made, payload, envelope>>
      /\ \A u \in Uploads : upc'[u] = "idle"
      /\ \A r \in Requests : rpc'[r] = "idle"
  BY DEF Crash, storeVars, blobVars
<1>2. cpc'[Loop] = "idle"
  BY DEF Crash, EndPass, At, IInv, TypeOK, CleanupTypeOK
<1>3. QED
  BY <1>1, <1>2
     DEF FilesInv, ReadyFilesOwn, PickupsHold, PickupHolds, MadeHasRow, UndoneIsEmpty,
         UnpointedIsEmpty, ClearedIsEmpty, Kept

\* The parts of the file invariant survive every step of the relay.
LEMMA StepFilesInv ==
  ASSUME Cleaners = {Loop}, IInv, FilesInv, [Next]_vars
  PROVE  FilesInv'
<1>1. CASE UNCHANGED vars
  BY <1>1
     DEF FilesInv, ReadyFilesOwn, PickupsHold, PickupHolds, MadeHasRow, UndoneIsEmpty,
         UnpointedIsEmpty, ClearedIsEmpty, Kept, Over, Finished, Gone, vars, storeVars, blobVars,
         uploadVars, requestVars, cleanerVars
<1>2. CASE \E d \in DropPoints : Create(d)
  BY <1>2, CreateKeepsFiles
<1>3. CASE Tick /\ UNCHANGED <<baseVars, blobVars, uploadVars, requestVars, cleanerVars>>
  BY <1>3, TickKeepsFiles
<1>4. CASE Crash /\ Fault
  BY <1>4, CrashKeepsFiles
<1>5. ASSUME NEW u \in Uploads, UploadNext(u), UNCHANGED <<server, requestVars, cleanerVars>>
      PROVE  FilesInv'
  <2>1. UploadActs(u)
    BY <1>5 DEF UploadNext, UploadActs
  <2>2. QED
    BY <1>5, <2>1, UploadKeepsFiles
<1>6. ASSUME NEW r \in Requests, RequestNext(r), UNCHANGED <<server, uploadVars, cleanerVars>>
      PROVE  FilesInv'
  <2>1. RequestActs(r)
    BY <1>6 DEF RequestNext, RequestActs
  <2>2. QED
    BY <1>6, <2>1, RequestKeepsFiles
<1>7. CASE \E d \in DropPoints : ExpireLazily(d) /\ UNCHANGED <<baseVars, uploadVars, cleanerVars>>
  BY <1>7, ExpireLazilyKeepsFiles
<1>8. ASSUME NEW c \in Cleaners, CleanerNext(c), UNCHANGED <<uploadVars, requestVars>>
      PROVE  FilesInv'
  <2>1. CleanerActs(Loop)
    BY <1>8 DEF CleanerNext, CleanerActs
  <2>2. QED
    BY <1>8, <2>1, CleanerKeepsFiles
<1>9. QED
  BY <1>1, <1>2, <1>3, <1>4, <1>5, <1>6, <1>7, <1>8 DEF Next

-----------------------------------------------------------------------------
(* The theorems *)

\* Rows, directories and pickups agree, conjunct by conjunct of FilesInv, in every state:
\* for any number of drop points, submissions, uploads, requests and faults, under one
\* cleaner, no drop point created inside an orphan sweep and no handler that outlives
\* ReceivingStaleAfter.
THEOREM FilesHold ==
  ASSUME SweepIsolated, HandlersInTime, Cleaners = {Loop}
  PROVE  Spec => []FilesInv
<1>1. Init => FilesInv
  BY InitFilesInv
<1>2. IInv /\ FilesInv /\ [Next]_vars => FilesInv'
  BY StepFilesInv
<1>3. Spec => []IInv
  BY ReadingsHold
<1>4. QED
  BY <1>1, <1>2, <1>3, PTL DEF Spec

\* A pickup sends the envelope and the payload of the one commit it read, although blobs
\* are deleted, and their rows failed or purged, between its reads.
THEOREM PickupsIntact ==
  ASSUME SweepIsolated, HandlersInTime, Cleaners = {Loop}
  PROVE  Spec => []PickupIntact
<1>1. FilesInv => PickupIntact
  BY DEF FilesInv, PickupsHold, PickupHolds, PickupIntact
<1>2. QED
  BY <1>1, FilesHold, PTL

\* No submission directory of an open drop point is unknown to the metadata: failed
\* uploads, crashes and the recovery of interrupted rows leak no file.
THEOREM NothingLeaks ==
  ASSUME SweepIsolated, HandlersInTime, Cleaners = {Loop}
  PROVE  Spec => []NoLeak
<1>1. FilesInv => NoLeak
  BY DEF FilesInv, MadeHasRow, NoLeak
<1>2. QED
  BY <1>1, FilesHold, PTL

\* While its drop point is open, a committed row keeps its content and leaves "ready" only
\* by an acknowledgement: no deletion, failed pickup or cleanup takes it back.
THEOREM CommittedIsKept ==
  ASSUME SweepIsolated, HandlersInTime, Cleaners = {Loop}
  PROVE  Spec => ReadyIsKept
<1> DEFINE StaysReady(k) ==
      dp[k[1]] = "open" /\ dp'[k[1]] = "open" /\ status[k] \in {"ready", "acknowledged"}
        => /\ status'[k] \in {status[k], "acknowledged"}
           /\ owner'[k] = owner[k]
<1>1. ASSUME IInv, FilesInv, Next, NEW k \in Keys PROVE StaysReady(k)
  <2> SUFFICES ASSUME dp[k[1]] = "open", dp'[k[1]] = "open", status[k] \in {"ready", "acknowledged"}
               PROVE  status'[k] \in {status[k], "acknowledged"} /\ owner'[k] = owner[k]
    OBVIOUS
  <2>0. TypeOK /\ k[1] \in DropPoints
    BY <1>1, RowFacts
  <2>1. CASE UNCHANGED rowVars
    BY <2>1 DEF rowVars
  <2>2. ASSUME NEW u \in Uploads, UploadActs(u)
        PROVE  status'[k] \in {status[k], "acknowledged"} /\ owner'[k] = owner[k]
    <3>1. SameRow(k)
      BY <2>0, <2>2, UploadFrame, UploadRow DEF Begun, Committed, Dropped
    <3>2. QED
      BY <3>1 DEF SameRow
  <2>3. ASSUME NEW r \in Requests, RequestActs(r)
        PROVE  status'[k] \in {status[k], "acknowledged"} /\ owner'[k] = owner[k]
    <3>1. /\ owner' = owner
          /\ \/ status'[k] = status[k]
             \/ status[k] = "ready" /\ status'[k] = "acknowledged"
             \/ rpc[r] = "corrupt" /\ k = rkey[r] /\ status[k] \in Pending
      BY <2>0, <2>3, RequestEffect
    <3>2. rpc[r] = "corrupt" => Over(rkey[r][1]) \/ Finished(rkey[r])
      BY <1>1 DEF FilesInv, PickupsHold, PickupHolds
    <3>3. QED
      BY <3>1, <3>2 DEF Over, Finished, Gone, Pending, Ended
  <2>4. ASSUME NEW c \in Cleaners, CleanerActs(c)
        PROVE  status'[k] \in {status[k], "acknowledged"} /\ owner'[k] = owner[k]
    BY <2>0, <2>4, CleanerEffect DEF Gone
  <2>5. CASE (\E d \in DropPoints : Create(d) \/ ExpireLazily(d)) \/ Tick \/ Crash
    BY <2>1, <2>5 DEF Create, InsertDropPoint, ExpireLazily, MarkExpired, Tick, Lapse, Age, GoStale,
           Crash, rowVars, storeVars
  <2>6. QED
    BY <1>1, <2>2, <2>3, <2>4, <2>5
       DEF Next, UploadNext, RequestNext, CleanerNext, UploadActs, RequestActs, CleanerActs
<1>2. IInv /\ FilesInv /\ [Next]_vars => [\A k \in Keys : StaysReady(k)]_vars
  BY <1>1
<1>3. QED
  BY <1>2, ReadingsHold, FilesHold, PTL DEF Spec, ReadyIsKept

\* The purge never outruns the deletion of committed blobs: a row that goes with its
\* drop point has no directory left.
THEOREM PurgeComesLast ==
  ASSUME SweepIsolated, HandlersInTime, Cleaners = {Loop}
  PROVE  Spec => PurgedIsEmpty
<1> DEFINE Emptied(k) ==
      dp[k[1]] # "purged" /\ dp'[k[1]] = "purged" /\ status[k] \in {"ready", "acknowledged"}
        => k \notin made
<1>1. ASSUME IInv, FilesInv, Next, NEW k \in Keys PROVE Emptied(k)
  <2> SUFFICES ASSUME dp[k[1]] # "purged", dp'[k[1]] = "purged", Kept(k)
               PROVE  k \notin ptr
    BY <1>1 DEF FilesInv, UnpointedIsEmpty, Kept
  <2>0. TypeOK /\ k[1] \in DropPoints
    BY <1>1, RowFacts
  <2>1. CASE \E c \in Cleaners : Purge(c)
    BY <2>0, <2>1 DEF Purge, PurgeTerminalDropPoints, KeysOf
  <2>2. CASE \E c \in Cleaners : CleanerActs(c) /\ ~Purge(c)
    BY <2>0, <2>2 DEF CleanerActs, CleanerStep, StartPass, Boot, RecoverBlobs, RecoverRow,
           DeleteReceivingSubmission, ExpireDropPoints, MarkExpired, ListChildren, ChildBlobs,
           ChildClear, ClearFiles, ListTerminals, TerminalBlobs, TerminalClear, ListRows,
           ListDirs, OrphanBlobs, Abort, storeVars
  <2>3. CASE \E u \in Uploads : UploadActs(u)
    BY <2>0, <2>3, UploadFrame
  <2>4. CASE \E r \in Requests : RequestActs(r)
    BY <2>0, <2>4, RequestEffect DEF Ended
  <2>5. CASE (\E d \in DropPoints : Create(d) \/ ExpireLazily(d)) \/ Tick \/ Crash
    BY <2>0, <2>5 DEF Create, InsertDropPoint, ExpireLazily, MarkExpired, Tick, Lapse, Age, GoStale,
           Crash, rowVars, storeVars, TypeOK, StoreTypeOK
  <2>6. QED
    BY <1>1, <2>1, <2>2, <2>3, <2>4, <2>5
       DEF Next, UploadNext, RequestNext, CleanerNext, UploadActs, RequestActs, CleanerActs
<1>2. IInv /\ FilesInv /\ [Next]_vars => [\A k \in Keys : Emptied(k)]_vars
  BY <1>1
<1>3. QED
  BY <1>2, ReadingsHold, FilesHold, PTL DEF Spec, PurgedIsEmpty

\* A written response is recorded whatever ends beside it, unless another request failed
\* the row: a close, an expiry or a cleanup does not cost the receiver its pickup mark.
THEOREM PickupsAreRecorded ==
  ASSUME SweepIsolated, HandlersInTime, Cleaners = {Loop}
  PROVE  Spec => PickupRecordedUnlessFailed
<1> DEFINE Recorded(r) ==
      rpc[r] = "mark" /\ rpc'[r] = "idle" /\ faults' = faults
          /\ Exists(rkey[r][1]) /\ status[rkey[r]] # "failed"
        => rkey[r] \in picked'
<1>1. ASSUME IInv, Next, NEW r \in Requests PROVE Recorded(r)
  <2> SUFFICES ASSUME rpc[r] = "mark", rpc'[r] # rpc[r], faults' = faults,
                      Exists(rkey[r][1]), status[rkey[r]] # "failed"
               PROVE  rkey[r] \in picked'
    OBVIOUS
  <2>0. TypeOK /\ rkey[r] \in Keys
    BY <1>1, RowFacts
  <2>1. ~Fault
    BY <2>0 DEF Fault, TypeOK
  <2>2. PICK q \in Requests : RequestNext(q)
    BY <1>1, <2>1 DEF Next, Create, ExpireLazily, requestVars
  <2>3. q = r
    BY <2>0, <2>2, RequestControl DEF RequestNext, RequestActs
  <2>4. Mark(r)
    BY <2>1, <2>2, <2>3
       DEF RequestNext, RequestStep, Authorize, FindReady, FindOther, ReadEnvelope, OpenPayload,
           BlobMissing, Send, FailCorrupt, Acknowledge, AckDelete, AckClear, Close, CloseMissing,
           CloseDelete, CloseClear, Abandon, Attached
  <2>5. status[rkey[r]] \in {"ready", "acknowledged"}
    BY <1>1, <2>0 DEF IInv, RequestReadingsHold, Gone, Exists, Ended, TypeOK, StoreTypeOK
  <2>6. QED
    BY <2>4, <2>5 DEF Mark, MarkSubmissionPickedUp
<1>2. IInv /\ [Next]_vars => [\A r \in Requests : Recorded(r)]_vars
  BY <1>1
<1>3. QED
  BY <1>2, ReadingsHold, PTL DEF Spec, PickupRecordedUnlessFailed

-----------------------------------------------------------------------------
(* The relay implements Handoff *)

\* A row in the promise's terms.
Stages == [k \in Keys |-> StageOf[status[k]]]

\* The keys of the promise are the keys of the relay.
LEMMA SameKeys == Promise!Keys = Keys
  BY DEF Promise!Keys, Keys

\* A row whose status changes within one stage of the promise is invisible there.
LEMMA Invisible ==
  ASSUME UNCHANGED <<dp, owner>>,
         \A k \in Keys : StageOf[status'[k]] = StageOf[status[k]]
  PROVE  UNCHANGED Promise!handoffVars
<1>1. Stages' = Stages
  BY DEF Stages
<1>2. QED
  BY <1>1 DEF Promise!handoffVars, Stages

\* A step that stores content in an absent row of an open drop point offers it.
LEMMA Offered ==
  ASSUME TypeOK, NEW k \in Keys, NEW u \in Uploads,
         dp[k[1]] = "open", status[k] = "receiving", CommitSubmission(k, u)
  PROVE  Promise!Offer(k, u)
<1>1. Stages' = [Stages EXCEPT ![k] = "ready"]
  BY DEF Stages, StageOf, CommitSubmission, TypeOK, StoreTypeOK
<1>2. QED
  BY <1>1 DEF Promise!Offer, Stages, StageOf, CommitSubmission

\* A statement that only ends open drop points ends them in the promise.
LEMMA EndsSome ==
  ASSUME TypeOK, NEW D \in SUBSET DropPoints, MarkExpired(D)
  PROVE  Promise!HandoffNext
<1> DEFINE E == {d \in D : dp[d] = "open"}
<1>1. E \in SUBSET DropPoints /\ "expired" \in Promise!Over
  BY DEF Promise!Over
<1>2. dp' = [d \in DropPoints |-> IF d \in E THEN "expired" ELSE dp[d]]
  BY DEF MarkExpired
<1>3. Stages' = Stages /\ owner' = owner
  BY DEF Stages, MarkExpired, rowVars
<1>4. Promise!End(E, "expired")
  BY <1>2, <1>3 DEF Promise!End, Stages
<1>5. QED
  BY <1>1, <1>4 DEF Promise!HandoffNext

-----------------------------------------------------------------------------
(* One lemma per kind of process *)

\* Of an upload only the commit is visible.
LEMMA UploadHandsOff ==
  ASSUME TypeOK, NEW u \in Uploads, UploadActs(u)
  PROVE  Promise!HandoffNext \/ UNCHANGED Promise!handoffVars
<1> DEFINE k == ukey[u]
<1>0. k \in Keys
  BY DEF TypeOK, UploadTypeOK
<1>1. \/ UNCHANGED storeVars
      \/ status[k] = "none" /\ InsertReceiving(k)
      \/ dp[k[1]] = "open" /\ status[k] = "receiving" /\ CommitSubmission(k, u)
      \/ DeleteReceivingSubmission(k)
  BY DEF UploadActs, UploadStep, UploadFault, AuthorizeDrop, Begin, BeginRefused, BeginLost,
         MayBegin, Stage, InstallPayload, InstallEnvelope, WriteFails, EnvelopeFails, SyncFails,
         Commit, MayCommit, CommitRejected, CommitErrs, VerifySettled, VerifyUnsettled, Undo,
         Unrow, GiveUp
<1>2. CASE UNCHANGED storeVars
  BY <1>2, Invisible DEF storeVars
<1>3. CASE status[k] = "none" /\ InsertReceiving(k)
  <2>1. \A l \in Keys : StageOf[status'[l]] = StageOf[status[l]]
    BY <1>0, <1>3 DEF InsertReceiving, TypeOK, StoreTypeOK, StageOf
  <2>2. QED
    BY <1>3, <2>1, Invisible DEF InsertReceiving
<1>4. CASE dp[k[1]] = "open" /\ status[k] = "receiving" /\ CommitSubmission(k, u)
  <2>1. Promise!Offer(k, u)
    BY <1>0, <1>4, Offered
  <2>2. QED
    BY <1>0, <2>1, SameKeys DEF Promise!HandoffNext
<1>5. CASE DeleteReceivingSubmission(k)
  <2>1. \A l \in Keys : StageOf[status'[l]] = StageOf[status[l]]
    BY <1>0, <1>5 DEF DeleteReceivingSubmission, TypeOK, StoreTypeOK, StageOf
  <2>2. QED
    BY <1>5, <2>1, Invisible DEF DeleteReceivingSubmission
<1>6. QED
  BY <1>1, <1>2, <1>3, <1>4, <1>5

\* A request acknowledges or ends, and fails a row only when its drop point is over.
LEMMA RequestHandsOff ==
  ASSUME IInv, FilesInv, NEW r \in Requests, RequestActs(r)
  PROVE  Promise!HandoffNext \/ UNCHANGED Promise!handoffVars
<1> PICK k \in Keys : k = rkey[r]
  BY RowFacts
<1>0. /\ TypeOK /\ k = rkey[r]
      /\ \A l \in Keys : l[1] \in DropPoints
      /\ Gone(k) => status[k] = "none"
  BY RowFacts
<1>1. CASE \E l \in Keys : Authorize(r, l)
  <2>1. PICK l \in Keys : Authorize(r, l)
    BY <1>1
  <2>2. UNCHANGED storeVars \/ MarkExpired({l[1]} \cap lapsed)
    BY <2>1 DEF Authorize
  <2>3. {l[1]} \cap lapsed \in SUBSET DropPoints
    BY <1>0
  <2>4. CASE UNCHANGED storeVars
    BY <2>4, Invisible DEF storeVars
  <2>5. QED
    BY <1>0, <2>2, <2>3, <2>4, EndsSome
<1>2. CASE UNCHANGED <<dp, status, owner>>
  BY <1>2, Invisible
<1>3. CASE Acknowledge(r)
  <2>1. AcknowledgeSubmission(k)
    BY <1>3 DEF Acknowledge
  <2>2. CASE status[k] = "ready"
    <3>1. Stages' = [Stages EXCEPT ![k] = "taken"]
      BY <1>0, <2>1, <2>2 DEF AcknowledgeSubmission, Stages, StageOf, TypeOK, StoreTypeOK
    <3>2. Promise!Take(k)
      BY <1>0, <2>1, <2>2, <3>1 DEF AcknowledgeSubmission, Promise!Take, Stages, StageOf
    <3>3. QED
      BY <3>2, SameKeys DEF Promise!HandoffNext
  <2>3. CASE status[k] # "ready"
    <3>1. \A l \in Keys : status'[l] = status[l]
      BY <1>0, <2>1, <2>3 DEF AcknowledgeSubmission, TypeOK, StoreTypeOK
    <3>2. QED
      BY <2>1, <3>1, Invisible DEF AcknowledgeSubmission
  <2>4. QED
    BY <2>2, <2>3
<1>4. CASE FailCorrupt(r)
  <2>1. rpc[r] = "corrupt" /\ FailSubmission(k)
    BY <1>4 DEF FailCorrupt
  <2>2. CASE status[k] = "ready"
    <3>1. dp[k[1]] \in Promise!Over
      BY <1>0, <2>1, <2>2
         DEF FilesInv, PickupsHold, PickupHolds, Over, Finished, Gone, Ended, Promise!Over
    <3>2. Stages' = [Stages EXCEPT ![k] = "lost"]
      BY <1>0, <2>1, <2>2 DEF FailSubmission, Pending, Stages, StageOf, TypeOK, StoreTypeOK
    <3>3. Promise!Lose(k)
      BY <1>0, <2>1, <2>2, <3>1, <3>2 DEF FailSubmission, Promise!Lose, Stages, StageOf
    <3>4. QED
      BY <3>3, SameKeys DEF Promise!HandoffNext
  <2>3. CASE status[k] # "ready"
    <3>1. status[k] # "receiving"
      BY <1>0, <2>1 DEF IInv, RequestReadingsHold
    <3>2. \A l \in Keys : status'[l] = status[l]
      BY <1>0, <2>1, <2>3, <3>1 DEF FailSubmission, Pending, TypeOK, StoreTypeOK
    <3>3. QED
      BY <2>1, <3>2, Invisible DEF FailSubmission
  <2>4. QED
    BY <2>2, <2>3
<1>5. CASE Close(r)
  <2>1. \/ dp[k[1]] = "open" /\ MarkClosed(k[1])
        \/ MarkExpired({k[1]})
        \/ UNCHANGED storeVars
    BY <1>5 DEF Close
  <2>2. CASE dp[k[1]] = "open" /\ MarkClosed(k[1])
    <3>1. dp' = [d \in DropPoints |-> IF d \in {k[1]} THEN "closed" ELSE dp[d]]
      BY <1>0, <2>2 DEF MarkClosed, TypeOK, StoreTypeOK
    <3>2. Stages' = Stages /\ owner' = owner
      BY <2>2 DEF MarkClosed, rowVars, Stages
    <3>3. Promise!End({k[1]}, "closed")
      BY <2>2, <3>1, <3>2 DEF Promise!End, Stages
    <3>4. {k[1]} \in SUBSET DropPoints /\ "closed" \in Promise!Over
      BY <1>0 DEF Promise!Over
    <3>5. QED
      BY <3>3, <3>4 DEF Promise!HandoffNext
  <2>3. CASE MarkExpired({k[1]})
    BY <1>0, <2>3, EndsSome
  <2>4. CASE UNCHANGED storeVars
    BY <2>4, Invisible DEF storeVars
  <2>5. QED
    BY <2>1, <2>2, <2>3, <2>4
<1>6. QED
  BY <1>1, <1>2, <1>3, <1>4, <1>5
     DEF RequestActs, RequestStep, RequestFault, FindReady, FindOther, ReadEnvelope, OpenPayload,
         BlobMissing, Send, Mark, MarkSubmissionPickedUp, AckDelete, AckClear, ClearFiles,
         CloseMissing, CloseDelete, CloseClear, Abandon, storeVars

\* Of a pass the recovered rows are invisible; it expires and it purges.
LEMMA CleanerHandsOff ==
  ASSUME TypeOK, NEW c \in Cleaners, CleanerActs(c)
  PROVE  Promise!HandoffNext \/ UNCHANGED Promise!handoffVars
<1>0. ckey[c] \in Keys /\ clapsed[c] \in SUBSET DropPoints /\ caged[c] \in SUBSET DropPoints
  BY DEF TypeOK, CleanupTypeOK
<1>1. CASE UNCHANGED <<dp, status, owner>>
  BY <1>1, Invisible
<1>2. CASE RecoverRow(c)
  <2>1. DeleteReceivingSubmission(ckey[c])
    BY <1>2 DEF RecoverRow
  <2>2. \A l \in Keys : StageOf[status'[l]] = StageOf[status[l]]
    BY <1>0, <2>1 DEF DeleteReceivingSubmission, TypeOK, StoreTypeOK, StageOf
  <2>3. QED
    BY <2>1, <2>2, Invisible DEF DeleteReceivingSubmission
<1>3. CASE ExpireDropPoints(c)
  BY <1>0, <1>3, EndsSome DEF ExpireDropPoints
<1>4. CASE Purge(c)
  <2>0. PICK G \in SUBSET DropPoints :
               G = {d \in caged[c] \cap aged : dp[d] \in Ended /\ ptr \cap KeysOf(d) = {}}
    BY <1>0
  <2>1. /\ dp' = [d \in DropPoints |-> IF d \in G THEN "purged" ELSE dp[d]]
        /\ status' = [k \in Keys |-> IF k[1] \in G THEN "none" ELSE status[k]]
        /\ owner' = [k \in Keys |-> IF k[1] \in G THEN NoOne ELSE owner[k]]
    BY <1>4, <2>0 DEF Purge, PurgeTerminalDropPoints
  <2>2. \A d \in G : dp[d] \in Promise!Over
    BY <2>0 DEF Ended, Promise!Over
  <2>3. Stages' = [k \in Keys |-> IF k[1] \in G THEN "absent" ELSE Stages[k]]
    BY <2>1 DEF Stages, StageOf
  <2>4. Promise!Forget(G)
    BY <2>1, <2>2, <2>3, SameKeys DEF Promise!Forget, Stages
  <2>5. QED
    BY <2>4 DEF Promise!HandoffNext
<1>5. QED
  BY <1>1, <1>2, <1>3, <1>4
     DEF CleanerActs, CleanerStep, StartPass, Boot, RecoverBlobs, ListChildren, ChildBlobs,
         ChildClear, ClearFiles, ListTerminals, TerminalBlobs, TerminalClear, ListRows, ListDirs,
         OrphanBlobs, Abort, storeVars

-----------------------------------------------------------------------------
(* The theorem *)

\* The relay starts where the promise starts.
LEMMA InitHandoff == Init => Promise!HandoffInit
<1> SUFFICES ASSUME Init PROVE Promise!HandoffInit
  OBVIOUS
<1>1. Stages = [k \in Keys |-> "absent"]
  BY DEF Init, StoreInit, Stages, StageOf
<1>2. QED
  BY <1>1, SameKeys DEF Init, StoreInit, Promise!HandoffInit, Stages

\* Every step of the relay is one of the promise or invisible in it.
LEMMA StepHandoff ==
  ASSUME IInv, FilesInv, [Next]_vars
  PROVE  Promise!HandoffNext \/ UNCHANGED Promise!handoffVars
<1>0. TypeOK
  BY DEF IInv
<1>1. CASE \E d \in DropPoints : Create(d)
  <2>1. PICK d \in DropPoints : Create(d)
    BY <1>1
  <2>2. Stages' = Stages /\ owner' = owner
    BY <2>1 DEF Create, InsertDropPoint, rowVars, Stages
  <2>3. Promise!Open(d)
    BY <2>1, <2>2 DEF Create, InsertDropPoint, Promise!Open, Stages
  <2>4. QED
    BY <2>3 DEF Promise!HandoffNext
<1>2. CASE Tick \/ Crash \/ UNCHANGED vars
  <2>1. UNCHANGED <<dp, status, owner>>
    BY <1>2 DEF Tick, Lapse, Age, GoStale, Crash, vars, storeVars, rowVars
  <2>2. QED
    BY <2>1, Invisible
<1>3. CASE \E d \in DropPoints : ExpireLazily(d)
  <2>1. PICK d \in DropPoints : MarkExpired({d})
    BY <1>3 DEF ExpireLazily
  <2>2. QED
    BY <1>0, <2>1, EndsSome
<1>4. CASE \E u \in Uploads : UploadActs(u)
  BY <1>0, <1>4, UploadHandsOff
<1>5. CASE \E r \in Requests : RequestActs(r)
  BY <1>5, RequestHandsOff
<1>6. CASE \E c \in Cleaners : CleanerActs(c)
  BY <1>0, <1>6, CleanerHandsOff
<1>7. QED
  BY <1>1, <1>2, <1>3, <1>4, <1>5, <1>6
     DEF Next, UploadNext, RequestNext, CleanerNext, UploadActs, RequestActs, CleanerActs

\* The relay keeps the promise of Handoff to its senders and receivers, whatever its
\* uploads, cleaners, clocks, crashes and faults do: for any number of drop points,
\* submissions, uploads and requests, under one cleaner, no drop point created inside an
\* orphan sweep and no handler that outlives ReceivingStaleAfter.
THEOREM RelayImplementsHandoff ==
  ASSUME SweepIsolated, HandlersInTime, Cleaners = {Loop}
  PROVE  Spec => ImplementsHandoff
<1>1. Init => Promise!HandoffInit
  BY InitHandoff
<1>2. IInv /\ FilesInv /\ [Next]_vars => [Promise!HandoffNext]_(Promise!handoffVars)
  BY StepHandoff
<1>3. QED
  BY <1>1, <1>2, ReadingsHold, FilesHold, PTL DEF Spec, ImplementsHandoff, Promise!HandoffSpec
=============================================================================
