--------------------------- MODULE PowerLossProofs ---------------------------
(***************************************************************************)
(* A power loss takes no ready submission and brings back no directory of  *)
(* a removed row, for every value of the constants: IInv of Relay survives *)
(* the loss because of what DiskInv says about names that were flushed.    *)
(***************************************************************************)
EXTENDS PowerLoss, RelayProofs, SequenceTheorems

Pay(k) == Append(k, "payload.bin")
Env(k) == Append(k, "envelope.json")

-----------------------------------------------------------------------------
(* The invariant of the disk *)

\* A file lies in a directory that is there, and that in its drop point's.
FilesHaveDirs ==
  \A k \in Keys :
    /\ tmp[k] # {} \/ payload[k] # NoOne \/ envelope[k] # NoOne => k \in made
    /\ k \in made => k[1] \in dropdir

\* What is there may be what a power loss leaves.
NowIsPossible == \A e \in Entries : Now(e) \in may[e]

\* What an upload, or the recovery of an interrupted one, has yet to flush before it goes on.
FlushesDue ==
  /\ DOMAIN flush = Actors
  /\ \A u \in Uploads :
       /\ upc[u] = "payload" => flush[u] \in {<< <<>>, <<ukey[u][1]>> >>, << <<ukey[u][1]>> >>, <<>>}
       /\ upc[u] \in {"commit", "late"} => flush[u] \in {<<ukey[u]>>, <<>>}
       /\ upc[u] = "unrow" => flush[u] \in {<< <<ukey[u][1]>> >>, <<>>}
  /\ \A c \in Cleaners : cpc[c] = "recoverRow" => flush[c] \in {<< <<ckey[c][1]>> >>, <<>>}

DirsCertain(k) == may[<<k[1]>>] = {TRUE} /\ may[k] = {TRUE}
FilesCertain(k, x) == may[Pay(k)] = {x} /\ may[Env(k)] = {x}

\* A committed submission of an open drop point is on the disk for certain.
ReadyIsCertain ==
  \A k \in Keys : dp[k[1]] = "open" /\ status[k] = "ready"
    => DirsCertain(k) /\ FilesCertain(k, owner[k])

\* How far an upload has got with that, flush by flush.
UploadIsCertain ==
  \A u \in Uploads : dp[ukey[u][1]] = "open" =>
    /\ upc[u] \in {"payload", "envelope", "commit", "late"} => ukey[u] \in made
    /\ upc[u] = "payload" /\ flush[u] # << <<>>, <<ukey[u][1]>> >> => may[<<ukey[u][1]>>] = {TRUE}
    /\ upc[u] = "payload" /\ flush[u] = <<>> => may[ukey[u]] = {TRUE}
    /\ upc[u] \in {"envelope", "commit", "late"} => DirsCertain(ukey[u])
    /\ upc[u] \in {"commit", "late"} /\ flush[u] = <<>> => FilesCertain(ukey[u], u)

\* A drop point that has not ended and has no directory had none before either.
NoDirNoEntry ==
  \A d \in DropPoints : dp[d] \in {"none", "open"} /\ d \notin dropdir
    => TRUE \notin may[<<d>>] /\ \A k \in KeysOf(d) : TRUE \notin may[k]

\* Where there is no row, no directory comes back.
NoRowNoEntry ==
  \A k \in Keys : dp[k[1]] \in {"none", "open"} /\ status[k] = "none" => TRUE \notin may[k]

\* Whoever is about to delete a row has deleted its directory and, after its flush, for good.
GoneForGood ==
  /\ \A u \in Uploads : upc[u] = "unrow" =>
       /\ ukey[u] \notin made
       /\ flush[u] = <<>> /\ dp[ukey[u][1]] = "open" => TRUE \notin may[ukey[u]]
  /\ \A c \in Cleaners : cpc[c] = "recoverRow" =>
       /\ ckey[c] \notin made
       /\ flush[c] = <<>> /\ dp[ckey[c][1]] = "open" => TRUE \notin may[ckey[c]]

DiskInv ==
  /\ FilesHaveDirs /\ NowIsPossible /\ FlushesDue
  /\ ReadyIsCertain /\ UploadIsCertain
  /\ NoDirNoEntry /\ NoRowNoEntry /\ GoneForGood

PowerInv == IInv /\ DiskInv

-----------------------------------------------------------------------------
(* Paths: the entries of the disk and the directories they lie in *)

Names == DropPoints \cup SubIds \cup {"payload.bin", "envelope.json"}

\* A submission's path and the path of its drop point.
LEMMA KeyPaths ==
  ASSUME NEW k \in Keys
  PROVE  /\ k[1] \in DropPoints
         /\ k \in Seq(Names) /\ Len(k) = 2
         /\ <<k[1]>> \in Seq(Names) /\ Len(<<k[1]>>) = 1
         /\ SubSeq(k, 1, 1) = <<k[1]>> /\ SubSeq(k, 1, 2) = k
<1>1. k \in Seq(Names) /\ Len(k) = 2 /\ k[1] \in DropPoints
  <2>1. PICK d \in DropPoints, s \in SubIds : k = <<d, s>>
    BY DEF Keys
  <2>2. QED
    BY <2>1 DEF Names
<1>2. SubSeq(k, 1, 2) = k
  BY <1>1, SubSeqFull
<1>3. <<k[1]>> \in Seq(Names) /\ Len(<<k[1]>>) = 1 /\ <<k[1]>>[1] = k[1]
  BY <1>1 DEF Names
<1>4. SubSeq(k, 1, 1) = <<k[1]>>
  <2>1. \A i \in 1 .. 1 : k[i] \in Names
    BY <1>1, ElementOfSeq
  <2>2. /\ SubSeq(k, 1, 1) \in Seq(Names) /\ Len(SubSeq(k, 1, 1)) = 1
        /\ SubSeq(k, 1, 1)[1] = k[1]
    BY <2>1, SubSeqProperties
  <2>3. \A i \in 1 .. 1 : SubSeq(k, 1, 1)[i] = <<k[1]>>[i]
    BY <1>3, <2>2
  <2>4. QED
    BY <1>3, <2>2, <2>3, SeqEqual
<1>5. QED
  BY <1>1, <1>2, <1>3, <1>4

\* A path one longer.
LEMMA Appended ==
  ASSUME NEW S, NEW s \in Seq(S), NEW x \in S
  PROVE  /\ Append(s, x) \in Seq(S) /\ Len(Append(s, x)) = Len(s) + 1
         /\ \A i \in 1 .. Len(s) : Append(s, x)[i] = s[i]
         /\ Append(s, x)[Len(s) + 1] = x
<1>1. Append(s, x) \in Seq(S) /\ Len(Append(s, x)) = Len(s) + 1
  OBVIOUS
<1>2. \A i \in 1 .. Len(s) : Append(s, x)[i] = s[i]
  OBVIOUS
<1>3. Append(s, x)[Len(s) + 1] = x
  OBVIOUS
<1>4. QED
  BY <1>1, <1>2, <1>3

\* The path of one of the two files of a submission.
LEMMA FilePaths ==
  ASSUME NEW k \in Keys, NEW f \in {"payload.bin", "envelope.json"}
  PROVE  /\ Append(k, f) \in Seq(Names) /\ Len(Append(k, f)) = 3
         /\ Append(k, f)[1] = k[1] /\ Append(k, f)[3] = f
         /\ SubSeq(Append(k, f), 1, 1) = <<k[1]>> /\ SubSeq(Append(k, f), 1, 2) = k
         /\ Front(Append(k, f)) = k
<1>1. k \in Seq(Names) /\ f \in Names /\ Len(k) = 2 /\ <<k[1]>> \in Seq(Names) /\ Len(<<k[1]>>) = 1
  BY KeyPaths DEF Names
<1>2. PICK e : e = Append(k, f)
  OBVIOUS
<1>3. e \in Seq(Names) /\ Len(e) = 3 /\ e[1] = k[1] /\ e[2] = k[2] /\ e[3] = f
  <2>1. /\ Append(k, f) \in Seq(Names) /\ Len(Append(k, f)) = Len(k) + 1
        /\ \A i \in 1 .. Len(k) : Append(k, f)[i] = k[i]
        /\ Append(k, f)[Len(k) + 1] = f
    <3>1. k \in Seq(Names) /\ f \in Names
      BY <1>1
    <3>2. QED
      BY <3>1, Appended
  <2>2. QED
    BY <1>1, <1>2, <2>1
<1>4. \A i \in 1 .. 3 : e[i] \in Names
  BY <1>3, ElementOfSeq
<1>5. SubSeq(e, 1, 2) = k
  <2>1. /\ SubSeq(e, 1, 2) \in Seq(Names) /\ Len(SubSeq(e, 1, 2)) = 2
        /\ \A i \in 1 .. 2 : SubSeq(e, 1, 2)[i] = e[i]
    BY <1>4, SubSeqProperties
  <2>2. QED
    BY <1>1, <1>3, <2>1, SeqEqual
<1>6. SubSeq(e, 1, 1) = <<k[1]>>
  <2>1. /\ SubSeq(e, 1, 1) \in Seq(Names) /\ Len(SubSeq(e, 1, 1)) = 1
        /\ SubSeq(e, 1, 1)[1] = e[1]
    BY <1>4, SubSeqProperties
  <2>2. \A i \in 1 .. 1 : SubSeq(e, 1, 1)[i] = <<k[1]>>[i]
    BY <1>3, <2>1
  <2>3. QED
    BY <1>1, <2>1, <2>2, SeqEqual
<1>7. Front(e) = k
  BY <1>3, <1>5 DEF Front
<1>8. QED
  BY <1>2, <1>3, <1>5, <1>6, <1>7

\* The entries are these, all different.
LEMMA EntryFacts ==
  /\ \A d \in DropPoints : <<d>> \in Entries
  /\ \A k \in Keys : k \in Entries /\ Pay(k) \in Entries /\ Env(k) \in Entries
  /\ \A d \in DropPoints, k \in Keys : <<d>> # k /\ <<d>> # Pay(k) /\ <<d>> # Env(k)
  /\ \A k, l \in Keys : /\ k # Pay(l) /\ k # Env(l) /\ Pay(k) # Env(l)
                        /\ Pay(k) = Pay(l) => k = l
                        /\ Env(k) = Env(l) => k = l
<1>1. \A k \in Keys : /\ Len(k) = 2 /\ Len(Pay(k)) = 3 /\ Len(Env(k)) = 3
                      /\ Pay(k)[3] # Env(k)[3] /\ Front(Pay(k)) = k /\ Front(Env(k)) = k
                      /\ Pay(k)[3] = "payload.bin"
  BY KeyPaths, FilePaths DEF Pay, Env
<1>2. \A d \in DropPoints : Len(<<d>>) = 1
  OBVIOUS
<1>3. \A k \in Keys : k \in Entries /\ Pay(k) \in Entries /\ Env(k) \in Entries
  BY DEF Entries, FilesOf, Pay, Env
<1>4. \A d \in DropPoints : <<d>> \in Entries
  BY DEF Entries
<1>5. QED
  BY <1>1, <1>2, <1>3, <1>4

\* What each of them is now, and after a step.
LEMMA NowFacts ==
  /\ \A d \in DropPoints : Now(<<d>>) = (d \in dropdir)
  /\ \A k \in Keys : Now(k) = (k \in made) /\ Now(Pay(k)) = payload[k] /\ Now(Env(k)) = envelope[k]
<1>1. ASSUME NEW d \in DropPoints PROVE Now(<<d>>) = (d \in dropdir)
  BY DEF Now
<1>2. ASSUME NEW k \in Keys PROVE Now(k) = (k \in made)
  BY KeyPaths DEF Now
<1>3. ASSUME NEW k \in Keys PROVE Now(Pay(k)) = payload[k] /\ Now(Env(k)) = envelope[k]
  BY FilePaths DEF Now, Pay, Env
<1>4. QED
  BY <1>1, <1>2, <1>3

\* The same after a step: what each entry is follows from the directory the step leaves.
LEMMA NowFactsNext ==
  /\ \A d \in DropPoints : Now(<<d>>)' = (d \in dropdir')
  /\ \A k \in Keys : Now(k)' = (k \in made') /\ Now(Pay(k))' = payload'[k] /\ Now(Env(k))' = envelope'[k]
<1>1. ASSUME NEW d \in DropPoints PROVE Now(<<d>>)' = (d \in dropdir')
  BY DEF Now
<1>2. ASSUME NEW k \in Keys PROVE Now(k)' = (k \in made')
  BY KeyPaths DEF Now
<1>3. ASSUME NEW k \in Keys PROVE Now(Pay(k))' = payload'[k] /\ Now(Env(k))' = envelope'[k]
  BY FilePaths DEF Now, Pay, Env
<1>4. QED
  BY <1>1, <1>2, <1>3

\* What SyncDir of each directory settles: a flush of <<>> the drop points' names (and
\* all below one that is gone), of <<d>> the submissions', of a submission its files.
LEMMA FlushedRoot ==
  \A d \in DropPoints : <<d>> \in Certain(<<>>)
<1> SUFFICES ASSUME NEW d \in DropPoints PROVE <<d>> \in Certain(<<>>)
  OBVIOUS
<1>1. <<d>> \in Entries /\ Len(<<d>>) = 1 /\ Len(<<>>) = 0 /\ <<>> # <<d>>
  BY EntryFacts
<1>2. SubSeq(<<>>, 1, 0) = <<>> /\ SubSeq(<<d>>, 1, 0) = <<>>
  BY SubSeqEmpty
<1>3. QED
  BY <1>1, <1>2 DEF Certain, IsStrictPrefix, IsPrefix

\* SyncDir of a drop point's directory settles the names of its submissions.
LEMMA FlushedDropPoint ==
  \A k \in Keys : k \in Certain(<<k[1]>>)
<1> SUFFICES ASSUME NEW k \in Keys PROVE k \in Certain(<<k[1]>>)
  OBVIOUS
<1>1. k \in Entries /\ Len(k) = 2 /\ Len(<<k[1]>>) = 1 /\ k # <<k[1]>>
  BY EntryFacts, KeyPaths
<1>2. SubSeq(<<k[1]>>, 1, 1) = <<k[1]>> /\ SubSeq(k, 1, 1) = <<k[1]>>
  BY KeyPaths, SubSeqFull
<1>3. IsStrictPrefix(<<k[1]>>, k)
  BY <1>1, <1>2 DEF IsStrictPrefix, IsPrefix
<1>4. Len(k) = Len(<<k[1]>>) + 1
  BY <1>1
<1>5. QED
  BY <1>1, <1>3, <1>4 DEF Certain

\* SyncDir of a submission's directory settles the names of its two files.
LEMMA FlushedSubmission ==
  \A k \in Keys : Pay(k) \in Certain(k) /\ Env(k) \in Certain(k)
<1> SUFFICES ASSUME NEW k \in Keys, NEW f \in {"payload.bin", "envelope.json"}
             PROVE  Append(k, f) \in Entries => Append(k, f) \in Certain(k)
  BY EntryFacts DEF Pay, Env
<1>1. Len(k) = 2 /\ Len(Append(k, f)) = 3 /\ SubSeq(k, 1, 2) = k /\ SubSeq(Append(k, f), 1, 2) = k
  BY KeyPaths, FilePaths
<1>2. IsStrictPrefix(k, Append(k, f))
  <2>1. Len(k) <= Len(Append(k, f)) /\ k # Append(k, f)
    BY <1>1
  <2>2. SubSeq(k, 1, Len(k)) = SubSeq(Append(k, f), 1, Len(k))
    BY <1>1
  <2>3. QED
    BY <2>1, <2>2 DEF IsStrictPrefix, IsPrefix
<1>3. Len(Append(k, f)) = Len(k) + 1
  BY <1>1
<1>4. QED
  BY <1>2, <1>3 DEF Certain

-----------------------------------------------------------------------------
(* Who makes and removes directories *)

\* An upload makes its directory when it stages and removes it when it undoes; it goes
\* from one flush to the next.
LEMMA UploadDirs ==
  ASSUME TypeOK, NEW u \in Uploads, UploadActs(u)
  PROVE  /\ \A l \in Keys : \/ l \in made' <=> l \in made
                            \/ l = ukey[u] /\ upc[u] = "stage"
                            \/ l = ukey[u] /\ upc[u] = "undo" /\ l \notin made'
         /\ dropdir \subseteq dropdir'
         /\ upc'[u] \in {"payload", "envelope", "commit", "late", "unrow"} => ukey'[u] = ukey[u]
         /\ upc'[u] = "payload" => upc[u] = "stage" /\ ukey[u] \in made'
         /\ upc'[u] = "envelope" => upc[u] = "payload"
         /\ upc'[u] \in {"commit", "late"} => upc[u] = "envelope"
         /\ upc'[u] = "unrow" => upc[u] = "undo" /\ ukey[u] \notin made'
<1> USE DEF TypeOK
<1>0. ukey[u] \in Keys
  BY DEF UploadTypeOK
<1>1. CASE \E k \in Keys : AuthorizeDrop(u, k)
  BY <1>1 DEF AuthorizeDrop, UploadTypeOK, blobVars
<1>2. CASE Begin(u) \/ BeginRefused(u) \/ BeginLost(u)
  BY <1>2 DEF Begin, BeginRefused, BeginLost, Goto, Answer, UploadTypeOK, blobVars
<1>3. CASE Stage(u)
  BY <1>0, <1>3 DEF Stage, CreateTemps, Goto, UploadTypeOK, BlobTypeOK
<1>4. CASE InstallPayload(u) \/ InstallEnvelope(u) \/ SyncFails(u)
  BY <1>4 DEF InstallPayload, InstallEnvelope, SyncFails, RenamePayload, RenameEnvelope, Goto,
         UploadTypeOK, BlobTypeOK
<1>5. CASE WriteFails(u) \/ EnvelopeFails(u)
  BY <1>5 DEF WriteFails, EnvelopeFails, RemoveTemps, RemovePayload, Goto, UploadTypeOK, BlobTypeOK
<1>6. CASE Undo(u)
  BY <1>0, <1>6 DEF Undo, DeleteSubmission, RemoveAll, Goto, UploadTypeOK, BlobTypeOK
<1>7. CASE Commit(u) \/ CommitRejected(u) \/ CommitErrs(u)
  BY <1>7 DEF Commit, CommitRejected, CommitErrs, Goto, Answer, UploadTypeOK, blobVars
<1>8. CASE VerifySettled(u) \/ VerifyUnsettled(u) \/ GiveUp(u) \/ Unrow(u)
  BY <1>8 DEF VerifySettled, VerifyUnsettled, GiveUp, Unrow, Goto, Answer, UploadTypeOK, blobVars
<1>9. QED
  BY <1>1, <1>2, <1>3, <1>4, <1>5, <1>6, <1>7, <1>8 DEF UploadActs, UploadStep, UploadFault

\* A request removes the directories of what it acknowledged or closed.
LEMMA RequestDirs ==
  ASSUME TypeOK, NEW r \in Requests, RequestActs(r)
  PROVE  /\ \A l \in Keys : \/ l \in made' <=> l \in made
                            \/ rpc[r] = "ackDelete" /\ l = rkey[r] /\ l \notin made'
                            \/ rpc[r] = "closeDelete" /\ l[1] = rkey[r][1] /\ l \notin made'
         /\ \A d \in DropPoints : \/ d \in dropdir' <=> d \in dropdir
                                  \/ rpc[r] = "closeDelete" /\ d = rkey[r][1]
<1> USE DEF TypeOK
<1>1. CASE UNCHANGED blobVars
  BY <1>1 DEF blobVars
<1>2. CASE AckDelete(r) \/ CloseDelete(r)
  BY <1>2, KeyFacts DEF AckDelete, CloseDelete, DeleteSubmission, DeleteDropPoint, RemoveAll,
         KeysOf, BlobTypeOK, ReceiverTypeOK
<1>3. QED
  BY <1>1, <1>2
     DEF RequestActs, RequestStep, RequestFault, Authorize, FindReady, FindOther, ReadEnvelope,
         OpenPayload, BlobMissing, Send, Mark, FailCorrupt, Acknowledge, AckClear, Close,
         CloseMissing, CloseClear, Abandon, blobVars

\* A pass removes the directories of what it has listed.
LEMMA CleanerDirs ==
  ASSUME TypeOK, NEW c \in Cleaners, CleanerActs(c)
  PROVE  /\ \A l \in Keys : \/ l \in made' <=> l \in made
                            \/ /\ l \notin made'
                               /\ \/ cpc[c] \in {"recover", "child"} /\ l \in ckeys[c]
                                  \/ cpc[c] \in {"terminal", "orphans"} /\ l[1] \in cdrops[c]
         /\ \A d \in DropPoints : \/ d \in dropdir' <=> d \in dropdir
                                  \/ cpc[c] \in {"terminal", "orphans"} /\ d \in cdrops[c]
         /\ cpc'[c] = "recoverRow" => cpc[c] = "recover" /\ ckey'[c] \in Keys /\ ckey'[c] \notin made'
<1> USE DEF TypeOK
<1>1. CASE StartPass(c) \/ (c = Loop /\ Boot) \/ RecoverRow(c) \/ ExpireDropPoints(c) \/ ListChildren(c)
             \/ ChildClear(c) \/ ListTerminals(c) \/ TerminalClear(c) \/ ListRows(c)
             \/ ListDirs(c) \/ Purge(c) \/ Abort(c)
  <2>1. UNCHANGED blobVars
    BY <1>1 DEF StartPass, Boot, RecoverRow, ExpireDropPoints, ListChildren, ChildClear,
           ListTerminals, TerminalClear, ListRows, ListDirs, Purge, Abort
  <2>2. \E pc \in {"idle", "recover", "children", "child", "terminal", "dirs", "orphans"} : At(c, pc)
    BY <1>1 DEF StartPass, Boot, RecoverRow, ExpireDropPoints, ListChildren, ChildClear,
           ListTerminals, TerminalClear, ListRows, ListDirs, Purge, Abort, OpenPass, ListKeys,
           ListDrops, EndPass
  <2>3. cpc'[c] # "recoverRow"
    BY <2>2 DEF At, CleanupTypeOK
  <2>4. QED
    BY <2>1, <2>3 DEF blobVars
<1>2. CASE \E k \in Keys : RecoverBlobs(c, k) \/ ChildBlobs(c, k)
  BY <1>2 DEF RecoverBlobs, ChildBlobs, TakeKey, At, DeleteSubmission, RemoveAll, BlobTypeOK,
         CleanupTypeOK
<1>3. CASE \E d \in DropPoints : TerminalBlobs(c, d) \/ OrphanBlobs(c, d)
  BY <1>3, KeyFacts DEF TerminalBlobs, OrphanBlobs, TakeDrop, At, DeleteDropPoint, RemoveAll,
         KeysOf, BlobTypeOK, CleanupTypeOK
<1>4. QED
  BY <1>1, <1>2, <1>3 DEF CleanerActs, CleanerStep

-----------------------------------------------------------------------------
(* What a step may do on the disk *)

\* Where an upload that moves goes, and what it then has to flush.
UploadsGoOn ==
  \A u \in Uploads :
    \/ upc'[u] = upc[u] /\ ukey'[u] = ukey[u] /\ flush'[u] = flush[u]
    \/ /\ upc'[u] = "payload" => ukey'[u] \in made' /\ flush'[u] = << <<>>, <<ukey'[u][1]>> >>
       /\ upc'[u] = "envelope" => upc[u] = "payload" /\ ukey'[u] = ukey[u] /\ flush[u] = <<>>
       /\ upc'[u] \in {"commit", "late"}
            => upc[u] = "envelope" /\ ukey'[u] = ukey[u] /\ flush'[u] = <<ukey'[u]>>
       /\ upc'[u] = "unrow" => ukey'[u] \notin made' /\ flush'[u] = << <<ukey'[u][1]>> >>

\* Where the recovery of an interrupted upload goes, likewise.
CleanersGoOn ==
  \A c \in Cleaners :
    \/ cpc'[c] = cpc[c] /\ ckey'[c] = ckey[c] /\ flush'[c] = flush[c]
    \/ cpc'[c] = "recoverRow" => ckey'[c] \notin made' /\ flush'[c] = << <<ckey'[c][1]>> >>

\* Directories go where the drop point is over or nobody uploads below them, and come
\* where an upload stages.
DirsGoOn ==
  /\ \A d \in DropPoints : dp[d] \in {"none", "open"} /\ d \in dropdir => d \in dropdir'
  /\ \A u \in Uploads :
       upc[u] \in {"payload", "envelope", "commit", "late"} /\ dp'[ukey[u][1]] = "open"
         => (ukey[u] \in made => ukey[u] \in made')
  /\ \A k \in Keys : k \in made' /\ k \notin made
       => \E v \in Uploads : upc[v] = "stage" /\ ukey[v] = k

\* A row becomes ready when its directories and files are certain, and goes when its
\* directory is gone for good.
RowsGoOn ==
  /\ \A d \in DropPoints : \/ dp'[d] = dp[d]
                           \/ dp[d] = "none" /\ dp'[d] = "open"
                           \/ dp[d] = "open" /\ dp'[d] \in Ended
                           \/ dp[d] \in Ended /\ dp'[d] = "purged"
  /\ \A k \in Keys : dp'[k[1]] = "open" /\ status'[k] = "ready" =>
       \/ status[k] = "ready" /\ owner'[k] = owner[k]
       \/ DirsCertain(k) /\ FilesCertain(k, owner'[k])
  /\ \A k \in Keys : dp'[k[1]] \in {"none", "open"} /\ status'[k] = "none" /\ status[k] # "none"
       => TRUE \notin may[k] /\ k \notin made'

\* Names that a step changed are uncertain after it.
Uncertain == \A e \in Entries : may'[e] = may[e] \cup {Now(e)'}

\* Uncertain, entry by entry.
LEMMA UncertainFacts ==
  ASSUME Uncertain
  PROVE  /\ \A d \in DropPoints : may'[<<d>>] = may[<<d>>] \cup {(d \in dropdir')}
         /\ \A k \in Keys : /\ may'[k] = may[k] \cup {(k \in made')}
                            /\ may'[Pay(k)] = may[Pay(k)] \cup {payload'[k]}
                            /\ may'[Env(k)] = may[Env(k)] \cup {envelope'[k]}
<1>1. ASSUME NEW d \in DropPoints PROVE may'[<<d>>] = may[<<d>>] \cup {(d \in dropdir')}
  <2>1. may'[<<d>>] = may[<<d>>] \cup {Now(<<d>>)'}
    BY EntryFacts DEF Uncertain
  <2>2. QED
    BY <2>1, NowFactsNext
<1>2. ASSUME NEW k \in Keys
      PROVE  /\ may'[k] = may[k] \cup {(k \in made')}
             /\ may'[Pay(k)] = may[Pay(k)] \cup {payload'[k]}
             /\ may'[Env(k)] = may[Env(k)] \cup {envelope'[k]}
  <2>1. /\ may'[k] = may[k] \cup {Now(k)'}
        /\ may'[Pay(k)] = may[Pay(k)] \cup {Now(Pay(k))'}
        /\ may'[Env(k)] = may[Env(k)] \cup {Now(Env(k))'}
    BY EntryFacts DEF Uncertain
  <2>2. QED
    BY <2>1, NowFactsNext
<1>3. QED
  BY <1>1, <1>2

\* What the invariants say of a drop point that exists only now.
LEMMA NotBefore ==
  ASSUME IInv, NEW d \in DropPoints, dp[d] = "none"
  PROVE  /\ \A k \in KeysOf(d) : status[k] = "none"
         /\ \A u \in Uploads : upc[u] \in Working => ukey[u][1] # d
         /\ \A c \in Cleaners : cpc[c] = "recoverRow" => ckey[c][1] # d
<1>1. \A k \in Keys : k[1] = d => status[k] = "none"
  BY DEF IInv, RowsHaveParents, Exists, Ended
<1>2. \A u \in Uploads : ukey[u] \in Keys
  BY DEF IInv, TypeOK, UploadTypeOK
<1>3. \A c \in Cleaners : ckey[c] \in Keys
  BY DEF IInv, TypeOK, CleanupTypeOK
<1>4. \A u \in Uploads : upc[u] \in Working => ukey[u][1] # d
  BY <1>1, <1>2 DEF IInv, UploadOwnsKey, Gone
<1>5. \A c \in Cleaners : cpc[c] = "recoverRow" => ckey[c][1] # d
  BY <1>1, <1>3 DEF IInv, CleanerListsHold, ListsHold, Interrupted, Gone
<1>6. QED
  BY <1>1, <1>4, <1>5 DEF KeysOf

\* A step that leaves what it changed uncertain keeps the invariant of the disk.
LEMMA OnDiskKeeps ==
  ASSUME IInv, IInv', DiskInv, FilesHaveDirs', DOMAIN flush' = Actors,
         Uncertain, UploadsGoOn, CleanersGoOn, DirsGoOn, RowsGoOn
  PROVE  DiskInv'
<1>0. /\ \A l \in Keys : l[1] \in DropPoints /\ l \in Keys
      /\ \A u \in Uploads : ukey[u] \in Keys /\ ukey'[u] \in Keys
      /\ \A c \in Cleaners : ckey[c] \in Keys /\ ckey'[c] \in Keys
  BY KeyFacts DEF IInv, TypeOK, UploadTypeOK, CleanupTypeOK
<1>1. /\ \A d \in DropPoints : may'[<<d>>] = may[<<d>>] \cup {(d \in dropdir')}
      /\ \A k \in Keys : /\ may'[k] = may[k] \cup {(k \in made')}
                         /\ may'[Pay(k)] = may[Pay(k)] \cup {payload'[k]}
                         /\ may'[Env(k)] = may[Env(k)] \cup {envelope'[k]}
  BY UncertainFacts
<1>2. \A k \in Keys : k \in made' => k[1] \in dropdir'
  BY DEF FilesHaveDirs
<1>13. /\ \A d \in DropPoints : d \notin dropdir' /\ TRUE \notin may[<<d>>] => TRUE \notin may'[<<d>>]
       /\ \A k \in Keys : k \notin made' /\ TRUE \notin may[k] => TRUE \notin may'[k]
  <2>1. ASSUME NEW d \in DropPoints, d \notin dropdir', TRUE \notin may[<<d>>]
        PROVE  TRUE \notin may'[<<d>>]
    <3>1. TRUE \notin may[<<d>>] \cup {(d \in dropdir')}
      BY <2>1
    <3>2. may'[<<d>>] = may[<<d>>] \cup {(d \in dropdir')}
      BY <1>1
    <3>3. QED
      BY <3>1, <3>2
  <2>2. ASSUME NEW k \in Keys, k \notin made', TRUE \notin may[k]
        PROVE  TRUE \notin may'[k]
    <3>1. TRUE \notin may[k] \cup {(k \in made')}
      BY <2>2
    <3>2. may'[k] = may[k] \cup {(k \in made')}
      BY <1>1
    <3>3. QED
      BY <3>1, <3>2
  <2>3. QED
    BY <2>1, <2>2
<1>3. \A d \in DropPoints : dp[d] = "none" =>
        /\ \A k \in KeysOf(d) : status[k] = "none"
        /\ \A u \in Uploads : upc[u] \in Working => ukey[u][1] # d
        /\ \A c \in Cleaners : cpc[c] = "recoverRow" => ckey[c][1] # d
  BY NotBefore
<1>4. NowIsPossible'
  BY DEF NowIsPossible, Uncertain
<1>5. FlushesDue'
  <2>1. ASSUME NEW u \in Uploads
        PROVE  /\ upc'[u] = "payload" => flush'[u] \in {<< <<>>, <<ukey'[u][1]>> >>, << <<ukey'[u][1]>> >>, <<>>}
               /\ upc'[u] \in {"commit", "late"} => flush'[u] \in {<<ukey'[u]>>, <<>>}
               /\ upc'[u] = "unrow" => flush'[u] \in {<< <<ukey'[u][1]>> >>, <<>>}
    BY DEF UploadsGoOn, DiskInv, FlushesDue
  <2>2. ASSUME NEW c \in Cleaners
        PROVE  cpc'[c] = "recoverRow" => flush'[c] \in {<< <<ckey'[c][1]>> >>, <<>>}
    BY DEF CleanersGoOn, DiskInv, FlushesDue
  <2>3. QED
    BY <2>1, <2>2 DEF FlushesDue
<1>6. ReadyIsCertain'
  <2> SUFFICES ASSUME NEW k \in Keys, dp'[k[1]] = "open", status'[k] = "ready"
               PROVE  DirsCertain(k)' /\ FilesCertain(k, owner[k])'
    BY DEF ReadyIsCertain
  <2>1. DirsCertain(k) /\ FilesCertain(k, owner'[k])
    <3>1. CASE status[k] = "ready" /\ owner'[k] = owner[k]
      <4>1. dp[k[1]] = "open"
        BY <1>0, <1>3, <3>1 DEF RowsGoOn, Ended, KeysOf
      <4>2. QED
        BY <3>1, <4>1 DEF DiskInv, ReadyIsCertain
    <3>2. QED
      BY <3>1 DEF RowsGoOn
  <2>2. /\ owner'[k] # NoOne /\ payload'[k] = owner'[k] /\ envelope'[k] = owner'[k]
    BY DEF IInv, ReadyAvailable
  <2>3. k \in made' /\ k[1] \in dropdir'
    BY <2>2 DEF FilesHaveDirs
  <2>4. QED
    BY <1>0, <1>1, <2>1, <2>2, <2>3 DEF DirsCertain, FilesCertain
<1>7. UploadIsCertain'
  <2> SUFFICES ASSUME NEW u \in Uploads, dp'[ukey'[u][1]] = "open"
               PROVE  /\ upc'[u] \in {"payload", "envelope", "commit", "late"} => ukey'[u] \in made'
                      /\ upc'[u] = "payload" /\ flush'[u] # << <<>>, <<ukey'[u][1]>> >>
                           => may'[<<ukey'[u][1]>>] = {TRUE}
                      /\ upc'[u] = "payload" /\ flush'[u] = <<>> => may'[ukey'[u]] = {TRUE}
                      /\ upc'[u] \in {"envelope", "commit", "late"} => DirsCertain(ukey[u])'
                      /\ upc'[u] \in {"commit", "late"} /\ flush'[u] = <<>> => FilesCertain(ukey[u], u)'
    BY DEF UploadIsCertain
  <2>1. CASE upc'[u] = upc[u] /\ ukey'[u] = ukey[u] /\ flush'[u] = flush[u]
    <3> SUFFICES ASSUME upc[u] \in {"payload", "envelope", "commit", "late"}
                 PROVE  /\ ukey[u] \in made'
                        /\ upc[u] = "payload" /\ flush[u] # << <<>>, <<ukey[u][1]>> >>
                             => may'[<<ukey[u][1]>>] = {TRUE}
                        /\ upc[u] = "payload" /\ flush[u] = <<>> => may'[ukey[u]] = {TRUE}
                        /\ upc[u] \in {"envelope", "commit", "late"}
                             => may'[<<ukey[u][1]>>] = {TRUE} /\ may'[ukey[u]] = {TRUE}
                        /\ upc[u] \in {"commit", "late"} /\ flush[u] = <<>>
                             => may'[Pay(ukey[u])] = {u} /\ may'[Env(ukey[u])] = {u}
      BY <2>1 DEF DirsCertain, FilesCertain
    <3>1. dp[ukey[u][1]] = "open"
      BY <1>0, <1>3, <2>1 DEF RowsGoOn, Ended, Working
    <3>2. ukey[u] \in made' /\ ukey[u][1] \in dropdir'
      BY <1>0, <1>2, <2>1, <3>1 DEF DiskInv, UploadIsCertain, DirsGoOn
    <3>3. upc[u] \in {"commit", "late"} => payload'[ukey[u]] = u /\ envelope'[ukey[u]] = u
      BY <2>1 DEF IInv, UploadHasFiles
    <3>4. /\ upc[u] = "payload" /\ flush[u] # << <<>>, <<ukey[u][1]>> >> => may[<<ukey[u][1]>>] = {TRUE}
          /\ upc[u] = "payload" /\ flush[u] = <<>> => may[ukey[u]] = {TRUE}
          /\ upc[u] \in {"envelope", "commit", "late"} => may[<<ukey[u][1]>>] = {TRUE} /\ may[ukey[u]] = {TRUE}
          /\ upc[u] \in {"commit", "late"} /\ flush[u] = <<>>
               => may[Pay(ukey[u])] = {u} /\ may[Env(ukey[u])] = {u}
      BY <3>1 DEF DiskInv, UploadIsCertain, DirsCertain, FilesCertain
    <3>5. /\ may'[<<ukey[u][1]>>] = may[<<ukey[u][1]>>] \cup {TRUE}
          /\ may'[ukey[u]] = may[ukey[u]] \cup {TRUE}
          /\ may'[Pay(ukey[u])] = may[Pay(ukey[u])] \cup {payload'[ukey[u]]}
          /\ may'[Env(ukey[u])] = may[Env(ukey[u])] \cup {envelope'[ukey[u]]}
      BY <1>0, <1>1, <3>2
    <3>6. QED
      BY <3>2, <3>3, <3>4, <3>5
  <2>2. CASE ~(upc'[u] = upc[u] /\ ukey'[u] = ukey[u] /\ flush'[u] = flush[u])
    <3>1. /\ upc'[u] = "payload" => ukey'[u] \in made' /\ flush'[u] = << <<>>, <<ukey'[u][1]>> >>
          /\ upc'[u] = "envelope" => upc[u] = "payload" /\ ukey'[u] = ukey[u] /\ flush[u] = <<>>
          /\ upc'[u] \in {"commit", "late"}
               => upc[u] = "envelope" /\ ukey'[u] = ukey[u] /\ flush'[u] = <<ukey'[u]>>
      BY <2>2 DEF UploadsGoOn
    <3>2. CASE upc'[u] = "payload"
      <4>1. << <<>>, <<ukey'[u][1]>> >> # <<>>
        OBVIOUS
      <4>2. QED
        BY <3>1, <3>2, <4>1
    <3>3. CASE upc'[u] \in {"envelope", "commit", "late"}
      <4>1. dp[ukey[u][1]] = "open"
        BY <1>0, <1>3, <3>1, <3>3 DEF RowsGoOn, Ended, Working
      <4>0. << <<>>, <<ukey[u][1]>> >> # <<>>
        OBVIOUS
      <4>2. DirsCertain(ukey[u]) /\ ukey[u] \in made
        BY <3>1, <3>3, <4>0, <4>1 DEF DiskInv, UploadIsCertain, DirsCertain
      <4>3. ukey[u] \in made' /\ ukey[u][1] \in dropdir'
        BY <1>0, <1>2, <3>1, <3>3, <4>2 DEF DirsGoOn
      <4>4. DirsCertain(ukey[u])'
        <5>1. /\ may'[<<ukey[u][1]>>] = may[<<ukey[u][1]>>] \cup {TRUE}
              /\ may'[ukey[u]] = may[ukey[u]] \cup {TRUE}
          BY <1>0, <1>1, <4>3
        <5>2. may[<<ukey[u][1]>>] = {TRUE} /\ may[ukey[u]] = {TRUE}
          BY <4>2 DEF DirsCertain
        <5>3. QED
          BY <3>1, <3>3, <5>1, <5>2 DEF DirsCertain
      <4>5. <<ukey'[u]>> # <<>>
        OBVIOUS
      <4>6. QED
        BY <3>1, <3>3, <4>3, <4>4, <4>5
    <3>4. QED
      BY <3>2, <3>3
  <2>3. QED
    BY <2>1, <2>2
<1>8. NoDirNoEntry'
  <2> SUFFICES ASSUME NEW d \in DropPoints, dp'[d] \in {"none", "open"}, d \notin dropdir'
               PROVE  TRUE \notin may'[<<d>>] /\ \A k \in KeysOf(d) : TRUE \notin may'[k]
    BY DEF NoDirNoEntry, KeysOf
  <2>1. dp[d] \in {"none", "open"}
    BY DEF RowsGoOn, Ended
  <2>2. d \notin dropdir
    BY <2>1 DEF DirsGoOn
  <2>3. TRUE \notin may[<<d>>] /\ \A k \in KeysOf(d) : TRUE \notin may[k]
    BY <2>1, <2>2 DEF DiskInv, NoDirNoEntry
  <2>4. \A k \in KeysOf(d) : k \in Keys /\ k \notin made'
    BY <1>2 DEF KeysOf
  <2>5. QED
    BY <1>13, <2>3, <2>4
<1>9. \A k \in Keys : k \in made' /\ k \notin made =>
        /\ dp'[k[1]] \in {"none", "open"} => status[k] = "receiving"
        /\ \A u \in Uploads : upc[u] # "stage" /\ upc[u] \in Working => ukey[u] # k
        /\ \A c \in Cleaners : cpc[c] = "recoverRow" => ckey[c] # k
  <2> SUFFICES ASSUME NEW k \in Keys, k \in made', k \notin made
               PROVE  /\ dp'[k[1]] \in {"none", "open"} => status[k] = "receiving"
                      /\ \A u \in Uploads : upc[u] # "stage" /\ upc[u] \in Working => ukey[u] # k
                      /\ \A c \in Cleaners : cpc[c] = "recoverRow" => ckey[c] # k
    OBVIOUS
  <2>1. PICK v \in Uploads : upc[v] = "stage" /\ ukey[v] = k
    BY DEF DirsGoOn
  <2>2. Gone(k) \/ status[k] = "receiving"
    BY <2>1 DEF IInv, UploadOwnsKey, Working
  <2>3. Gone(k) => dp'[k[1]] = "purged"
    BY <1>0 DEF RowsGoOn, Gone, Ended
  <2>4. \A u \in Uploads : upc[u] # "stage" /\ upc[u] \in Working => ukey[u] # k
    BY <2>1 DEF IInv, UploadOwnsKey, Working
  <2>5. \A c \in Cleaners : cpc[c] = "recoverRow" => ckey[c] # k
    BY <2>1 DEF IInv, CleanerListsHold, ListsHold, Interrupted, Working
  <2>6. QED
    BY <2>2, <2>3, <2>4, <2>5
<1>10. NoRowNoEntry'
  <2> SUFFICES ASSUME NEW k \in Keys, dp'[k[1]] \in {"none", "open"}, status'[k] = "none"
               PROVE  TRUE \notin may'[k]
    BY DEF NoRowNoEntry
  <2>1. dp[k[1]] \in {"none", "open"}
    BY <1>0 DEF RowsGoOn, Ended
  <2>2. TRUE \notin may[k] /\ k \notin made'
    <3>1. CASE status[k] = "none"
      <4>1. TRUE \notin may[k]
        BY <2>1, <3>1 DEF DiskInv, NoRowNoEntry
      <4>2. (k \in made) \in may[k]
        BY EntryFacts, NowFacts DEF DiskInv, NowIsPossible
      <4>3. QED
        BY <1>9, <3>1, <4>1, <4>2
    <3>2. QED
      BY <3>1 DEF RowsGoOn
  <2>3. QED
    BY <1>1, <2>2
<1>11. GoneForGood'
  <2>1. ASSUME NEW u \in Uploads, upc'[u] = "unrow"
        PROVE  /\ ukey'[u] \notin made'
               /\ flush'[u] = <<>> /\ dp'[ukey'[u][1]] = "open" => TRUE \notin may'[ukey'[u]]
    <3>1. CASE upc'[u] = upc[u] /\ ukey'[u] = ukey[u] /\ flush'[u] = flush[u]
      <4>1. ukey[u] \notin made'
        BY <1>0, <1>9, <2>1, <3>1 DEF DiskInv, GoneForGood, Working
      <4>2. dp'[ukey[u][1]] = "open" => dp[ukey[u][1]] = "open"
        BY <1>0, <1>3, <2>1, <3>1 DEF RowsGoOn, Ended, Working
      <4>3. QED
        BY <1>0, <1>13, <2>1, <3>1, <4>1, <4>2 DEF DiskInv, GoneForGood
    <3>2. CASE ukey'[u] \notin made' /\ flush'[u] = << <<ukey'[u][1]>> >>
      <4>1. << <<ukey'[u][1]>> >> # <<>>
        OBVIOUS
      <4>2. QED
        BY <3>2, <4>1
    <3>3. QED
      BY <2>1, <3>1, <3>2 DEF UploadsGoOn
  <2>2. ASSUME NEW c \in Cleaners, cpc'[c] = "recoverRow"
        PROVE  /\ ckey'[c] \notin made'
               /\ flush'[c] = <<>> /\ dp'[ckey'[c][1]] = "open" => TRUE \notin may'[ckey'[c]]
    <3>1. CASE cpc'[c] = cpc[c] /\ ckey'[c] = ckey[c] /\ flush'[c] = flush[c]
      <4>1. ckey[c] \notin made'
        BY <1>0, <1>9, <2>2, <3>1 DEF DiskInv, GoneForGood
      <4>2. dp'[ckey[c][1]] = "open" => dp[ckey[c][1]] = "open"
        BY <1>0, <1>3, <2>2, <3>1 DEF RowsGoOn, Ended
      <4>3. QED
        BY <1>0, <1>13, <2>2, <3>1, <4>1, <4>2 DEF DiskInv, GoneForGood
    <3>2. CASE ckey'[c] \notin made' /\ flush'[c] = << <<ckey'[c][1]>> >>
      <4>1. << <<ckey'[c][1]>> >> # <<>>
        OBVIOUS
      <4>2. QED
        BY <3>2, <4>1
    <3>3. QED
      BY <2>2, <3>1, <3>2 DEF CleanersGoOn
  <2>3. QED
    BY <2>1, <2>2 DEF GoneForGood
<1>12. QED
  BY <1>4, <1>5, <1>6, <1>7, <1>8, <1>10, <1>11 DEF DiskInv

-----------------------------------------------------------------------------
(* Every change of the directory keeps the files in their directories *)

\* No operation of the blob store leaves a file without its directory, or that without its drop
\* point's: MkdirAll makes both before a file, RemoveAll takes what lies below.
LEMMA BlobsKeepDirs ==
  ASSUME BlobTypeOK, FilesHaveDirs,
         NEW k \in Keys, NEW u \in Uploads, NEW d \in DropPoints,
         \/ CreateTemps(u, k) \/ RenamePayload(u, k) \/ RenameEnvelope(u, k)
         \/ RemoveTemps(u, k) \/ RemovePayload(u, k)
         \/ DeleteSubmission(k) \/ DeleteDropPoint(d)
         \/ UNCHANGED blobVars
  PROVE  FilesHaveDirs'
<1>1. CASE CreateTemps(u, k)
  BY <1>1 DEF BlobTypeOK, FilesHaveDirs, CreateTemps
<1>2. CASE RenamePayload(u, k) \/ RenameEnvelope(u, k)
  BY <1>2 DEF BlobTypeOK, FilesHaveDirs, RenamePayload, RenameEnvelope
<1>3. CASE RemoveTemps(u, k) \/ RemovePayload(u, k)
  BY <1>3 DEF BlobTypeOK, FilesHaveDirs, RemoveTemps, RemovePayload
<1>4. CASE DeleteSubmission(k)
  BY <1>4 DEF BlobTypeOK, FilesHaveDirs, DeleteSubmission, RemoveAll
<1>5. CASE DeleteDropPoint(d)
  BY <1>5 DEF BlobTypeOK, FilesHaveDirs, DeleteDropPoint, RemoveAll, KeysOf
<1>6. CASE UNCHANGED blobVars
  BY <1>6 DEF FilesHaveDirs, blobVars
<1>7. QED
  BY <1>1, <1>2, <1>3, <1>4, <1>5, <1>6

\* So an upload's handler leaves every file in a directory that is there.
LEMMA UploadKeepsDirs ==
  ASSUME TypeOK, FilesHaveDirs, NEW u \in Uploads, UploadActs(u)
  PROVE  FilesHaveDirs'
<1>1. ukey[u] \in Keys /\ ukey[u][1] \in DropPoints /\ BlobTypeOK
  BY KeyFacts DEF TypeOK, UploadTypeOK
<1>2. \/ CreateTemps(u, ukey[u]) \/ RenamePayload(u, ukey[u]) \/ RenameEnvelope(u, ukey[u])
      \/ RemoveTemps(u, ukey[u]) \/ RemovePayload(u, ukey[u]) \/ DeleteSubmission(ukey[u])
      \/ UNCHANGED blobVars
  BY DEF UploadActs, UploadStep, UploadFault, AuthorizeDrop, Begin, BeginRefused, BeginLost, Stage,
         InstallPayload, InstallEnvelope, WriteFails, EnvelopeFails, SyncFails, Commit,
         CommitRejected, CommitErrs, VerifySettled, VerifyUnsettled, Undo, Unrow, GiveUp
<1>3. QED
  BY <1>1, <1>2, BlobsKeepDirs

\* So do the receiver's handlers, which only delete directories.
LEMMA RequestKeepsDirs ==
  ASSUME TypeOK, FilesHaveDirs, NEW r \in Requests, RequestActs(r)
  PROVE  FilesHaveDirs'
<1>1. /\ rkey[r] \in Keys /\ rkey[r][1] \in DropPoints /\ BlobTypeOK
  BY KeyFacts DEF TypeOK, ReceiverTypeOK
<1>2. DeleteSubmission(rkey[r]) \/ DeleteDropPoint(rkey[r][1]) \/ UNCHANGED blobVars
  BY DEF RequestActs, RequestStep, RequestFault, Authorize, FindReady, FindOther, ReadEnvelope,
         OpenPayload, BlobMissing, Send, Mark, FailCorrupt, Acknowledge, AckDelete, AckClear,
         Close, CloseMissing, CloseDelete, CloseClear, Abandon
<1>3. CASE DeleteSubmission(rkey[r])
  BY <1>1, <1>3 DEF BlobTypeOK, FilesHaveDirs, DeleteSubmission, RemoveAll
<1>4. CASE DeleteDropPoint(rkey[r][1])
  BY <1>1, <1>4 DEF BlobTypeOK, FilesHaveDirs, DeleteDropPoint, RemoveAll, KeysOf
<1>5. CASE UNCHANGED blobVars
  BY <1>5 DEF FilesHaveDirs, blobVars
<1>6. QED
  BY <1>2, <1>3, <1>4, <1>5

\* So does a pass of the cleanup, which only deletes directories.
LEMMA CleanerKeepsDirs ==
  ASSUME TypeOK, FilesHaveDirs, NEW c \in Cleaners, CleanerActs(c)
  PROVE  FilesHaveDirs'
<1>1. \/ \E k \in Keys : DeleteSubmission(k)
      \/ \E d \in DropPoints : DeleteDropPoint(d)
      \/ UNCHANGED blobVars
  BY DEF CleanerActs, CleanerStep, StartPass, Boot, RecoverBlobs, RecoverRow, ExpireDropPoints,
         ListChildren, ChildBlobs, ChildClear, ListTerminals, TerminalBlobs, TerminalClear,
         ListRows, ListDirs, OrphanBlobs, Purge, Abort, TakeKey, TakeDrop
<1>2. CASE \E k \in Keys : DeleteSubmission(k)
  BY <1>2 DEF TypeOK, BlobTypeOK, FilesHaveDirs, DeleteSubmission, RemoveAll
<1>3. CASE \E d \in DropPoints : DeleteDropPoint(d)
  BY <1>3 DEF TypeOK, BlobTypeOK, FilesHaveDirs, DeleteDropPoint, RemoveAll, KeysOf
<1>4. CASE UNCHANGED blobVars
  BY <1>4 DEF FilesHaveDirs, blobVars
<1>5. QED
  BY <1>1, <1>2, <1>3, <1>4

-----------------------------------------------------------------------------
(* Uploads on the disk *)

\* What follows a step is decided by the only guard that holds of it.
LEMMA DueCases ==
  ASSUME NEW step, NEW k
  PROVE  LET made1 == step = <<"stage", "payload">>
             made2 == step \in {<<"envelope", "commit">>, <<"envelope", "late">>}
             gone1 == step \in Deletes
             gone2 == step \in DropDeletes
         IN /\ made1 /\ ~made2 /\ ~gone1 /\ ~gone2 => Due(step, k) = << <<>>, <<k[1]>> >>
            /\ ~made1 /\ made2 /\ ~gone1 /\ ~gone2 => Due(step, k) = <<k>>
            /\ ~made1 /\ ~made2 /\ gone1 /\ ~gone2 => Due(step, k) = << <<k[1]>> >>
<1>1. ASSUME step = <<"stage", "payload">>,
             step \notin {<<"envelope", "commit">>, <<"envelope", "late">>},
             step \notin Deletes, step \notin DropDeletes
      PROVE  Due(step, k) = << <<>>, <<k[1]>> >>
  BY <1>1 DEF Due
<1>2. ASSUME step # <<"stage", "payload">>,
             step \in {<<"envelope", "commit">>, <<"envelope", "late">>},
             step \notin Deletes, step \notin DropDeletes
      PROVE  Due(step, k) = <<k>>
  BY <1>2 DEF Due
<1>3. ASSUME step # <<"stage", "payload">>,
             step \notin {<<"envelope", "commit">>, <<"envelope", "late">>},
             step \in Deletes, step \notin DropDeletes
      PROVE  Due(step, k) = << <<k[1]>> >>
  BY <1>3 DEF Due
<1>4. QED
  BY <1>1, <1>2, <1>3

\* What follows the steps that the invariant looks at.
LEMMA DueFacts ==
  \A k \in Keys :
    /\ Due(<<"stage", "payload">>, k) = << <<>>, <<k[1]>> >>
    /\ Due(<<"envelope", "commit">>, k) = <<k>> /\ Due(<<"envelope", "late">>, k) = <<k>>
    /\ Due(<<"undo", "unrow">>, k) = << <<k[1]>> >>
    /\ Due(<<"recover", "recoverRow">>, k) = << <<k[1]>> >>
<1>1. /\ <<"stage", "payload">> \notin {<<"envelope", "commit">>, <<"envelope", "late">>}
      /\ <<"stage", "payload">> \notin Deletes /\ <<"stage", "payload">> \notin DropDeletes
  BY DEF Deletes, DropDeletes
<1>2. ASSUME NEW pc \in {"commit", "late"}
      PROVE  /\ <<"envelope", pc>> # <<"stage", "payload">>
             /\ <<"envelope", pc>> \in {<<"envelope", "commit">>, <<"envelope", "late">>}
             /\ <<"envelope", pc>> \notin Deletes /\ <<"envelope", pc>> \notin DropDeletes
  BY DEF Deletes, DropDeletes
<1>3. /\ <<"undo", "unrow">> # <<"stage", "payload">>
      /\ <<"undo", "unrow">> \notin {<<"envelope", "commit">>, <<"envelope", "late">>}
      /\ <<"undo", "unrow">> \in Deletes /\ <<"undo", "unrow">> \notin DropDeletes
  BY DEF Deletes, DropDeletes
<1>4. /\ <<"recover", "recoverRow">> # <<"stage", "payload">>
      /\ <<"recover", "recoverRow">> \notin {<<"envelope", "commit">>, <<"envelope", "late">>}
      /\ <<"recover", "recoverRow">> \in Deletes /\ <<"recover", "recoverRow">> \notin DropDeletes
  BY DEF Deletes, DropDeletes
<1>5. ASSUME NEW k \in Keys PROVE Due(<<"stage", "payload">>, k) = << <<>>, <<k[1]>> >>
  BY <1>1, DueCases
<1>6. ASSUME NEW k \in Keys, NEW pc \in {"commit", "late"} PROVE Due(<<"envelope", pc>>, k) = <<k>>
  BY <1>2, DueCases
<1>7. ASSUME NEW k \in Keys PROVE Due(<<"undo", "unrow">>, k) = << <<k[1]>> >>
  BY <1>3, DueCases
<1>8. ASSUME NEW k \in Keys PROVE Due(<<"recover", "recoverRow">>, k) = << <<k[1]>> >>
  BY <1>4, DueCases
<1>9. QED
  BY <1>5, <1>6, <1>7, <1>8

\* A flush after the files were installed fails.
Unsynced(u) ==
  upc[u] \in {"commit", "late"} /\ Goto(u, "undo") /\ UNCHANGED <<storeVars, blobVars>>

\* On the disk an upload goes on as in Relay, or undoes what it could not flush.
LEMMA UploadMoves ==
  ASSUME TypeOK, NEW u \in Uploads, UploadOnDisk(u)
  PROVE  /\ \/ UploadNext(u) /\ UNCHANGED <<server, requestVars, cleanerVars>>
            \/ Unsynced(u) /\ UNCHANGED <<baseVars, requestVars, cleanerVars>>
         /\ flush[u] # <<>> => upc'[u] \in {"undo", "idle"} /\ UNCHANGED storeVars
<1>1. CASE Flushed(u) /\ UploadNext(u)
  BY <1>1 DEF UploadOnDisk, Flushed
<1>2. CASE WriteFails(u) /\ UNCHANGED faults
  BY <1>2 DEF UploadOnDisk, UploadNext, UploadStep, WriteFails, Goto, TypeOK, UploadTypeOK
<1>3. CASE Unsynced(u) /\ UNCHANGED faults
  BY <1>3 DEF UploadOnDisk, Unsynced, Goto, TypeOK, UploadTypeOK, baseVars
<1>4. CASE GiveUp(u) /\ Fault
  BY <1>4 DEF UploadOnDisk, UploadNext, UploadFault, GiveUp, Answer, TypeOK, UploadTypeOK
<1>5. QED
  BY <1>1, <1>2, <1>3, <1>4 DEF UploadOnDisk, UnsyncedUpload, Unsynced

\* The flushes of the others stay due, and the names that changed are uncertain.
LEMMA TrackedFacts ==
  ASSUME NEW a \in Actors, Tracked(a), DOMAIN flush = Actors
  PROVE  /\ Uncertain /\ DOMAIN flush' = Actors
         /\ \A b \in Actors \ {a} : flush'[b] = flush[b]
         /\ flush'[a] = Due(<<Pc(a), Pc(a)'>>, KeyOf(a)')
  BY DEF Tracked, Written, Uncertain

\* An upload goes from one step of its handler to the next in the order of the code, with the
\* flushes due that SyncDir makes there, and what it changed stays uncertain.
LEMMA UploadGoesOn ==
  ASSUME TypeOK, TypeOK', DiskInv, NEW u \in Uploads, UploadOnDisk(u)
  PROVE  /\ UploadsGoOn /\ CleanersGoOn
         /\ Uncertain /\ DOMAIN flush' = Actors
<1>1. /\ u \in Actors /\ \A c \in Cleaners : c # u /\ c \in Actors
      /\ \A v \in Uploads : v \in Actors
      /\ DOMAIN flush = Actors
  BY ActorsAssumption DEF Actors, DiskInv, FlushesDue
<1>2. Tracked(u) /\ UNCHANGED cleanerVars
  BY DEF UploadOnDisk
<1>3. /\ Uncertain /\ DOMAIN flush' = Actors
      /\ \A b \in Actors \ {u} : flush'[b] = flush[b]
      /\ flush'[u] = Due(<<Pc(u), Pc(u)'>>, KeyOf(u)')
  BY <1>1, <1>2, TrackedFacts
<1>4. flush'[u] = Due(<<upc[u], upc'[u]>>, ukey'[u])
  <2>1. Pc(u) = upc[u] /\ Pc(u)' = upc'[u] /\ KeyOf(u)' = ukey'[u]
    BY DEF Pc, KeyOf
  <2>2. QED
    BY <1>3, <2>1
<1>5. /\ UploadActs(u) \/ Unsynced(u)
      /\ flush[u] # <<>> => upc'[u] \in {"undo", "idle"}
  BY UploadMoves DEF UploadNext, UploadActs
<1>6. \A v \in Uploads \ {u} : upc'[v] = upc[v] /\ ukey'[v] = ukey[v] /\ flush'[v] = flush[v]
  <2>1. \A v \in Uploads \ {u} : upc'[v] = upc[v] /\ ukey'[v] = ukey[v]
    BY <1>5, UploadFrame DEF Unsynced, Goto, TypeOK, UploadTypeOK
  <2>2. QED
    BY <1>1, <1>3, <2>1
<1>7. ukey'[u] \in Keys
  BY DEF TypeOK, UploadTypeOK
<1>8. /\ upc'[u] = "payload" => ukey'[u] \in made' /\ flush'[u] = << <<>>, <<ukey'[u][1]>> >>
      /\ upc'[u] = "envelope" => upc[u] = "payload" /\ ukey'[u] = ukey[u] /\ flush[u] = <<>>
      /\ upc'[u] \in {"commit", "late"}
           => upc[u] = "envelope" /\ ukey'[u] = ukey[u] /\ flush'[u] = <<ukey'[u]>>
      /\ upc'[u] = "unrow" => ukey'[u] \notin made' /\ flush'[u] = << <<ukey'[u][1]>> >>
  <2>1. CASE UploadActs(u)
    <3>1. /\ upc'[u] \in {"payload", "envelope", "commit", "late", "unrow"} => ukey'[u] = ukey[u]
          /\ upc'[u] = "payload" => upc[u] = "stage" /\ ukey[u] \in made'
          /\ upc'[u] = "envelope" => upc[u] = "payload"
          /\ upc'[u] \in {"commit", "late"} => upc[u] = "envelope"
          /\ upc'[u] = "unrow" => upc[u] = "undo" /\ ukey[u] \notin made'
      BY <2>1, UploadDirs
    <3>2. upc'[u] = "payload" => flush'[u] = << <<>>, <<ukey'[u][1]>> >>
      BY <1>4, <1>7, <3>1, DueFacts
    <3>3. upc'[u] \in {"commit", "late"} => flush'[u] = <<ukey'[u]>>
      BY <1>4, <1>7, <3>1, DueFacts
    <3>4. upc'[u] = "unrow" => flush'[u] = << <<ukey'[u][1]>> >>
      BY <1>4, <1>7, <3>1, DueFacts
    <3>5. QED
      BY <1>5, <3>1, <3>2, <3>3, <3>4
  <2>2. CASE Unsynced(u)
    BY <2>2 DEF Unsynced, Goto, TypeOK, UploadTypeOK
  <2>3. QED
    BY <1>5, <2>1, <2>2
<1>9. UploadsGoOn
  BY <1>6, <1>8 DEF UploadsGoOn
<1>10. CleanersGoOn
  BY <1>1, <1>2, <1>3 DEF CleanersGoOn, cleanerVars
<1>11. QED
  BY <1>3, <1>9, <1>10

\* An upload removes only what it made, and its row changes when the disk is ready for it.
LEMMA UploadOrderly ==
  ASSUME IInv, DiskInv, NEW u \in Uploads, UploadOnDisk(u)
  PROVE  DirsGoOn /\ RowsGoOn
<1>0. /\ TypeOK /\ ukey[u] \in Keys
      /\ \A l \in Keys : l[1] \in DropPoints
      /\ \A v \in Uploads : ukey[v] \in Keys
  BY KeyFacts DEF IInv, TypeOK, UploadTypeOK
<1>1. /\ UploadActs(u) \/ Unsynced(u)
      /\ flush[u] # <<>> => UNCHANGED storeVars
  BY <1>0, UploadMoves DEF UploadNext, UploadActs
<1>2. CASE Unsynced(u)
  <2>1. UNCHANGED <<dp, status, owner, made, dropdir>>
    BY <1>2 DEF Unsynced, storeVars, blobVars
  <2>2. QED
    BY <2>1 DEF DirsGoOn, RowsGoOn
<1>3. CASE UploadActs(u)
  <2>1. /\ \A l \in Keys : \/ l \in made' <=> l \in made
                           \/ l = ukey[u] /\ upc[u] = "stage"
                           \/ l = ukey[u] /\ upc[u] = "undo" /\ l \notin made'
        /\ dropdir \subseteq dropdir'
    BY <1>0, <1>3, UploadDirs
  <2>2. /\ dp' = dp
        /\ \A l \in Keys \ {ukey[u]} : SameRow(l)
    BY <1>0, <1>3, UploadFrame
  <2>3. SameRow(ukey[u]) \/ Begun(u) \/ Committed(u) \/ Dropped(u)
    BY <1>0, <1>3, UploadRow
  <2>4. ASSUME NEW v \in Uploads, upc[v] \in {"payload", "envelope", "commit", "late"}
        PROVE  ukey[v] \in made => ukey[v] \in made'
    <3>1. v # u \/ upc[u] \notin {"stage", "undo"}
      BY <2>4
    <3>2. upc[u] \in {"stage", "undo"} => ukey[v] # ukey[u]
      BY <2>4, <3>1 DEF IInv, UploadOwnsKey, Working
    <3>3. QED
      BY <1>0, <2>1, <3>2
  <2>5. DirsGoOn
    BY <2>1, <2>4 DEF DirsGoOn
  <2>6. status'[ukey[u]] # status[ukey[u]] => flush[u] = <<>>
    BY <1>1 DEF storeVars
  <2>7. CASE Committed(u)
    <3>1. flush[u] = <<>> /\ upc[u] = "commit" /\ dp[ukey[u][1]] = "open" /\ owner'[ukey[u]] = u
      BY <2>6, <2>7 DEF Committed
    <3>2. DirsCertain(ukey[u]) /\ FilesCertain(ukey[u], owner'[ukey[u]])
      BY <3>1 DEF DiskInv, UploadIsCertain
    <3>3. QED
      BY <2>2, <2>5, <2>7, <3>2 DEF RowsGoOn, SameRow, Committed
  <2>8. CASE Dropped(u)
    <3>1. flush[u] = <<>> /\ upc[u] = "unrow" /\ status[ukey[u]] = "receiving"
      BY <2>6, <2>8 DEF Dropped
    <3>2. ukey[u] \notin made'
      BY <1>0, <2>1, <3>1 DEF DiskInv, GoneForGood
    <3>3. dp[ukey[u][1]] \in {"none", "open"} => TRUE \notin may[ukey[u]]
      BY <1>0, <3>1 DEF DiskInv, GoneForGood, IInv, RowsHaveParents, Exists, Ended
    <3>4. QED
      BY <2>2, <2>5, <2>8, <3>2, <3>3 DEF RowsGoOn, SameRow, Dropped
  <2>9. CASE SameRow(ukey[u]) \/ Begun(u)
    BY <2>2, <2>5, <2>9 DEF RowsGoOn, SameRow, Begun
  <2>10. QED
    BY <2>3, <2>7, <2>8, <2>9
<1>4. QED
  BY <1>1, <1>2, <1>3

\* An upload that could not flush keeps its key and its row for the undo.
LEMMA UnsyncedKeeps ==
  ASSUME IInv, NEW u \in Uploads, Unsynced(u),
         UNCHANGED <<baseVars, requestVars, cleanerVars>>
  PROVE  IInv'
<1>1. /\ UNCHANGED <<server, faults, storeVars, blobVars, requestVars, cleanerVars, ukey>>
      /\ upc' = [upc EXCEPT ![u] = "undo"] /\ upc[u] \in {"commit", "late"}
      /\ UNCHANGED <<dp, status, ptr, owner, stale, dropdir, payload, envelope>>
      /\ upc \in [Uploads -> {"idle", "begin"} \cup Working]
  BY DEF Unsynced, Goto, baseVars, storeVars, blobVars, IInv, TypeOK, UploadTypeOK
<1>2. /\ \A v \in Uploads \ {u} : upc'[v] = upc[v]
      /\ upc'[u] = "undo" /\ upc[u] \in Working /\ upc[u] \notin {"verify", "idle"}
      /\ \A v \in Uploads : upc'[v] \in Working <=> upc[v] \in Working
  BY <1>1 DEF Working
<1>3. TypeOK'
  BY <1>1
     DEF IInv, TypeOK, StoreTypeOK, BlobTypeOK, UploadTypeOK, ReceiverTypeOK, CleanupTypeOK,
         storeVars, blobVars, requestVars, cleanerVars, Working
<1>4. RowsHaveParents' /\ ReadyAvailable' /\ StaleIsInterrupted'
  BY <1>1, <1>2 DEF IInv, RowsHaveParents, ReadyAvailable, StaleIsInterrupted, Exists
<1>5. UploadOwnsKey' /\ UploadHasFiles'
  BY <1>1, <1>2 DEF IInv, UploadOwnsKey, UploadHasFiles, Gone
<1>6. RequestReadingsHold' /\ IdleUnlessServing'
  BY <1>1, <1>2 DEF IInv, RequestReadingsHold, IdleUnlessServing, requestVars, Gone, Over
<1>7. CleanerListsHold'
  BY <1>1, <1>2
     DEF IInv, CleanerListsHold, ListsHold, cleanerVars, Interrupted, Finished, Over, Gone, Exists
<1>8. QED
  BY <1>3, <1>4, <1>5, <1>6, <1>7 DEF IInv

\* A step of an upload, the failure of its flush included, keeps both invariants.
LEMMA UploadOnDiskKeeps ==
  ASSUME SweepIsolated, HandlersInTime, Cleaners = {Loop},
         PowerInv, NEW u \in Uploads, UploadOnDisk(u)
  PROVE  PowerInv'
<1>0. IInv /\ TypeOK /\ DiskInv /\ FilesHaveDirs
  BY DEF PowerInv, IInv, DiskInv
<1>1. \/ UploadNext(u) /\ UNCHANGED <<server, requestVars, cleanerVars>>
      \/ Unsynced(u) /\ UNCHANGED <<baseVars, requestVars, cleanerVars>>
  BY <1>0, UploadMoves
<1>2. IInv'
  <2>1. CASE UploadNext(u) /\ UNCHANGED <<server, requestVars, cleanerVars>>
    <3>1. [Next]_vars
      BY <2>1 DEF Next
    <3>2. QED
      BY <1>0, <3>1, StepIInv
  <2>2. CASE Unsynced(u) /\ UNCHANGED <<baseVars, requestVars, cleanerVars>>
    BY <1>0, <2>2, UnsyncedKeeps
  <2>3. QED
    BY <1>1, <2>1, <2>2
<1>3. FilesHaveDirs'
  <2>1. CASE UploadActs(u)
    BY <1>0, <2>1, UploadKeepsDirs
  <2>2. CASE Unsynced(u)
    BY <1>0, <2>2 DEF Unsynced, blobVars, FilesHaveDirs
  <2>3. QED
    BY <1>1, <2>1, <2>2 DEF UploadNext, UploadActs
<1>4. TypeOK'
  BY <1>2 DEF IInv
<1>5. /\ UploadsGoOn /\ CleanersGoOn /\ DirsGoOn /\ RowsGoOn
      /\ Uncertain /\ DOMAIN flush' = Actors
  BY <1>0, <1>4, UploadGoesOn, UploadOrderly
<1>6. DiskInv'
  BY <1>0, <1>2, <1>3, <1>5, OnDiskKeeps
<1>7. QED
  BY <1>2, <1>6 DEF PowerInv

-----------------------------------------------------------------------------
(* Receiver requests on the disk *)

\* A request removes what is acknowledged or over.
LEMMA RequestOrderly ==
  ASSUME IInv, NEW r \in Requests, RequestActs(r)
  PROVE  DirsGoOn /\ RowsGoOn
<1>0. /\ TypeOK /\ rkey[r] \in Keys
      /\ \A l \in Keys : l[1] \in DropPoints
      /\ \A v \in Uploads : ukey[v] \in Keys
  BY KeyFacts DEF IInv, TypeOK, UploadTypeOK, ReceiverTypeOK
<1>1. /\ \A l \in Keys : \/ l \in made' <=> l \in made
                         \/ rpc[r] = "ackDelete" /\ l = rkey[r] /\ l \notin made'
                         \/ rpc[r] = "closeDelete" /\ l[1] = rkey[r][1] /\ l \notin made'
      /\ \A d \in DropPoints : \/ d \in dropdir' <=> d \in dropdir
                               \/ rpc[r] = "closeDelete" /\ d = rkey[r][1]
  BY <1>0, RequestDirs
<1>2. /\ \A d \in DropPoints : dp'[d] = dp[d] \/ (dp[d] = "open" /\ dp'[d] \in Ended)
      /\ owner' = owner
      /\ \A l \in Keys :
           \/ status'[l] = status[l]
           \/ status[l] = "ready" /\ status'[l] = "acknowledged"
           \/ status[l] \in Pending /\ status'[l] = "failed"
  BY <1>0, RequestEffect
<1>3. /\ rpc[r] = "ackDelete" => Gone(rkey[r]) \/ status[rkey[r]] = "acknowledged"
      /\ rpc[r] = "closeDelete" => Over(rkey[r][1])
  BY DEF IInv, RequestReadingsHold
<1>4. \A d \in DropPoints : dp[d] \in {"none", "open"} /\ d \in dropdir => d \in dropdir'
  BY <1>1, <1>3 DEF Over, Ended
<1>5. ASSUME NEW v \in Uploads, upc[v] \in {"payload", "envelope", "commit", "late"},
             dp'[ukey[v][1]] = "open", ukey[v] \in made
      PROVE  ukey[v] \in made'
  <2>1. dp[ukey[v][1]] = "open"
    BY <1>0, <1>2, <1>5 DEF Ended
  <2>2. status[ukey[v]] = "receiving"
    BY <1>5, <2>1 DEF IInv, UploadOwnsKey, Working, Gone
  <2>3. QED
    BY <1>0, <1>1, <1>3, <1>5, <2>1, <2>2 DEF Gone, Over, Ended
<1>6. DirsGoOn
  BY <1>1, <1>4, <1>5 DEF DirsGoOn
<1>7. RowsGoOn
  BY <1>2 DEF RowsGoOn
<1>8. QED
  BY <1>6, <1>7

\* A step of a receiver's request keeps both invariants.
LEMMA RequestOnDiskKeeps ==
  ASSUME SweepIsolated, HandlersInTime, Cleaners = {Loop},
         PowerInv, NEW r \in Requests, RequestOnDisk(r)
  PROVE  PowerInv'
<1>0. IInv /\ TypeOK /\ DiskInv /\ FilesHaveDirs
  BY DEF PowerInv, IInv, DiskInv
<1>1. RequestNext(r) /\ UNCHANGED <<server, uploadVars, cleanerVars>> /\ Tracked(r)
  BY DEF RequestOnDisk, RequestNext, RequestStep
<1>2. RequestActs(r)
  BY <1>1 DEF RequestNext, RequestActs
<1>3. IInv'
  <2>1. [Next]_vars
    BY <1>1 DEF Next
  <2>2. QED
    BY <1>0, <2>1, StepIInv
<1>4. FilesHaveDirs'
  BY <1>0, <1>2, RequestKeepsDirs
<1>5. /\ Uncertain /\ DOMAIN flush' = Actors
      /\ \A b \in Actors \ {r} : flush'[b] = flush[b]
  BY <1>0, <1>1, TrackedFacts DEF Actors, DiskInv, FlushesDue
<1>6. UploadsGoOn /\ CleanersGoOn
  <2>1. /\ \A v \in Uploads : v \in Actors \ {r}
        /\ \A c \in Cleaners : c \in Actors \ {r}
    BY ActorsAssumption DEF Actors
  <2>2. QED
    BY <1>1, <1>5, <2>1 DEF UploadsGoOn, CleanersGoOn, uploadVars, cleanerVars
<1>7. DirsGoOn /\ RowsGoOn
  BY <1>0, <1>2, RequestOrderly
<1>8. DiskInv'
  BY <1>0, <1>3, <1>4, <1>5, <1>6, <1>7, OnDiskKeeps
<1>9. QED
  BY <1>3, <1>8 DEF PowerInv

-----------------------------------------------------------------------------
(* The cleaner on the disk *)

\* A pass removes what is interrupted, finished, over or purged.
LEMMA CleanerOrderly ==
  ASSUME IInv, DiskInv, NEW c \in Cleaners, CleanerActs(c),
         cpc[c] = "recoverRow" => flush[c] = <<>> \/ UNCHANGED storeVars
  PROVE  DirsGoOn /\ RowsGoOn
<1>0. /\ TypeOK /\ ckey[c] \in Keys /\ ckeys[c] \subseteq Keys
      /\ \A l \in Keys : l[1] \in DropPoints
      /\ \A v \in Uploads : ukey[v] \in Keys
  BY KeyFacts DEF IInv, TypeOK, UploadTypeOK, CleanupTypeOK
<1>1. /\ \A l \in Keys : \/ l \in made' <=> l \in made
                         \/ /\ l \notin made'
                            /\ \/ cpc[c] \in {"recover", "child"} /\ l \in ckeys[c]
                               \/ cpc[c] \in {"terminal", "orphans"} /\ l[1] \in cdrops[c]
      /\ \A d \in DropPoints : \/ d \in dropdir' <=> d \in dropdir
                               \/ cpc[c] \in {"terminal", "orphans"} /\ d \in cdrops[c]
  BY <1>0, CleanerDirs
<1>2. /\ \A d \in DropPoints : \/ dp'[d] = dp[d]
                               \/ dp[d] = "open" /\ dp'[d] \in Ended
                               \/ dp[d] \in Ended /\ dp'[d] = "purged"
      /\ \A l \in Keys :
           \/ ~(~Gone(l) /\ Gone(l)') /\ status'[l] = status[l] /\ owner'[l] = owner[l]
           \/ Gone(l)' /\ status'[l] = "none"
           \/ /\ cpc[c] = "recoverRow" /\ l = ckey[c]
              /\ status[l] = "receiving" /\ status'[l] = "none" /\ owner'[l] = owner[l]
  BY <1>0, CleanerEffect
<1>3. /\ cpc[c] = "recover" => \A k \in ckeys[c] : Interrupted(k)
      /\ cpc[c] = "child" => \A k \in ckeys[c] : Finished(k)
      /\ cpc[c] = "terminal" => \A d \in cdrops[c] : Over(d)
      /\ cpc[c] = "orphans" => \A d \in cdrops[c] : dp[d] = "purged"
  BY DEF IInv, CleanerListsHold, ListsHold
<1>4. \A d \in DropPoints : dp[d] \in {"none", "open"} /\ d \in dropdir => d \in dropdir'
  BY <1>1, <1>3 DEF Over, Ended
<1>5. ASSUME NEW v \in Uploads, upc[v] \in {"payload", "envelope", "commit", "late"},
             dp'[ukey[v][1]] = "open", ukey[v] \in made
      PROVE  ukey[v] \in made'
  <2>1. dp[ukey[v][1]] = "open"
    BY <1>0, <1>2, <1>5 DEF Ended
  <2>2. status[ukey[v]] = "receiving"
    BY <1>5, <2>1 DEF IInv, UploadOwnsKey, Working, Gone
  <2>3. QED
    BY <1>0, <1>1, <1>3, <1>5, <2>1, <2>2 DEF Interrupted, Finished, Gone, Over, Ended, Working
<1>6. DirsGoOn
  BY <1>1, <1>4, <1>5 DEF DirsGoOn
<1>7. ASSUME NEW k \in Keys, dp'[k[1]] \in {"none", "open"}, status'[k] = "none", status[k] # "none"
      PROVE  TRUE \notin may[k] /\ k \notin made'
  <2>1. cpc[c] = "recoverRow" /\ k = ckey[c] /\ status[k] = "receiving" /\ flush[c] = <<>>
    BY <1>2, <1>7 DEF Gone, storeVars
  <2>2. dp[k[1]] = "open"
    BY <1>0, <1>2, <1>7, <2>1 DEF IInv, RowsHaveParents, Exists, Ended
  <2>3. TRUE \notin may[k] /\ k \notin made
    BY <2>1, <2>2 DEF DiskInv, GoneForGood
  <2>4. QED
    BY <1>1, <2>3
<1>8. RowsGoOn
  BY <1>2, <1>7 DEF RowsGoOn, Gone
<1>9. QED
  BY <1>6, <1>8

\* A step of the cleanup, a flush of it that fails included, keeps both invariants.
LEMMA CleanerOnDiskKeeps ==
  ASSUME SweepIsolated, HandlersInTime, Cleaners = {Loop},
         PowerInv, NEW c \in Cleaners, CleanerOnDisk(c)
  PROVE  PowerInv'
<1>0. IInv /\ TypeOK /\ DiskInv /\ FilesHaveDirs
  BY DEF PowerInv, IInv, DiskInv
<1>1. /\ CleanerNext(c) /\ UNCHANGED <<uploadVars, requestVars>> /\ Tracked(c)
      /\ flush[c] = <<>> \/ UNCHANGED storeVars
  BY DEF CleanerOnDisk, CleanerNext, Flushed, Abort
<1>2. CleanerActs(c)
  BY <1>1 DEF CleanerNext, CleanerActs
<1>3. IInv'
  <2>1. [Next]_vars
    BY <1>1 DEF Next
  <2>2. QED
    BY <1>0, <2>1, StepIInv
<1>4. FilesHaveDirs'
  BY <1>0, <1>2, CleanerKeepsDirs
<1>5. /\ Uncertain /\ DOMAIN flush' = Actors
      /\ \A b \in Actors \ {c} : flush'[b] = flush[b]
      /\ flush'[c] = Due(<<Pc(c), Pc(c)'>>, KeyOf(c)')
  BY <1>0, <1>1, TrackedFacts DEF Actors, DiskInv, FlushesDue
<1>6. UploadsGoOn
  <2>1. \A v \in Uploads : v \in Actors \ {c}
    BY ActorsAssumption DEF Actors
  <2>2. QED
    BY <1>1, <1>5, <2>1 DEF UploadsGoOn, uploadVars
<1>7. CleanersGoOn
  <2>1. flush'[c] = Due(<<cpc[c], cpc'[c]>>, ckey'[c])
    <3>1. c \notin Uploads /\ c \notin Requests
      BY ActorsAssumption
    <3>2. Pc(c) = cpc[c] /\ Pc(c)' = cpc'[c] /\ KeyOf(c)' = ckey'[c]
      BY <3>1 DEF Pc, KeyOf
    <3>3. QED
      BY <1>5, <3>2
  <2>2. cpc'[c] = "recoverRow" => cpc[c] = "recover" /\ ckey'[c] \in Keys /\ ckey'[c] \notin made'
    BY <1>0, <1>2, CleanerDirs
  <2>3. cpc'[c] = "recoverRow" => flush'[c] = << <<ckey'[c][1]>> >>
    BY <2>1, <2>2, DueFacts
  <2>4. QED
    BY <2>2, <2>3 DEF CleanersGoOn
<1>8. DirsGoOn /\ RowsGoOn
  BY <1>0, <1>1, <1>2, CleanerOrderly
<1>9. DiskInv'
  BY <1>0, <1>3, <1>4, <1>5, <1>6, <1>7, <1>8, OnDiskKeeps
<1>10. QED
  BY <1>3, <1>9 DEF PowerInv

-----------------------------------------------------------------------------
(* Steps that leave the directory alone *)

\* While the directory stays as it is, what is there stays possible.
LEMMA QuietIsUncertain ==
  ASSUME DiskInv, UNCHANGED blobVars, UNCHANGED may
  PROVE  Uncertain /\ FilesHaveDirs'
<1>1. ASSUME NEW e \in Entries PROVE may'[e] = may[e] \cup {Now(e)'}
  <2>1. Now(e)' = Now(e)
    BY DEF Now, blobVars
  <2>2. Now(e) \in may[e]
    BY DEF DiskInv, NowIsPossible
  <2>3. QED
    BY <2>1, <2>2
<1>2. FilesHaveDirs'
  BY DEF DiskInv, FilesHaveDirs, blobVars
<1>3. QED
  BY <1>1, <1>2 DEF Uncertain

\* A drop point that is created or expires, or a row that goes stale, keeps both invariants.
LEMMA TimeOnDiskKeeps ==
  ASSUME SweepIsolated, HandlersInTime, Cleaners = {Loop}, PowerInv, TimeOnDisk
  PROVE  PowerInv'
<1>0. IInv /\ TypeOK /\ DiskInv
  BY DEF PowerInv, IInv
<1>1. IInv'
  <2>1. [Next]_vars
    BY DEF TimeOnDisk, Next
  <2>2. QED
    BY <1>0, <2>1, StepIInv
<1>2. /\ UNCHANGED <<may, flush, status, owner, blobVars, uploadVars, cleanerVars>>
      /\ \A d \in DropPoints : \/ dp'[d] = dp[d]
                               \/ dp[d] = "none" /\ dp'[d] = "open"
                               \/ dp[d] = "open" /\ dp'[d] \in Ended
  <2>1. CASE \E d \in DropPoints : Create(d)
    BY <1>0, <2>1
       DEF TimeOnDisk, Create, InsertDropPoint, TypeOK, StoreTypeOK, diskVars, rowVars, clockVars
  <2>2. CASE Tick /\ UNCHANGED <<baseVars, blobVars, uploadVars, requestVars, cleanerVars>>
    BY <2>2 DEF TimeOnDisk, Tick, Lapse, Age, GoStale, diskVars, rowVars, clockVars
  <2>3. CASE \E d \in DropPoints : ExpireLazily(d) /\ UNCHANGED <<baseVars, uploadVars, cleanerVars>>
    BY <1>0, <2>3
       DEF TimeOnDisk, ExpireLazily, MarkExpired, TypeOK, StoreTypeOK, diskVars, rowVars, clockVars,
           Ended
  <2>4. QED
    BY <2>1, <2>2, <2>3 DEF TimeOnDisk
<1>3. Uncertain /\ FilesHaveDirs' /\ DOMAIN flush' = Actors
  BY <1>0, <1>2, QuietIsUncertain DEF DiskInv, FlushesDue
<1>4. UploadsGoOn /\ CleanersGoOn
  BY <1>2 DEF UploadsGoOn, CleanersGoOn, uploadVars, cleanerVars
<1>5. DirsGoOn /\ RowsGoOn
  <2>1. \A k \in Keys : dp'[k[1]] = "open" /\ status'[k] = "ready" => status[k] = "ready" /\ owner'[k] = owner[k]
    BY <1>2
  <2>2. QED
    BY <1>2, <2>1 DEF DirsGoOn, RowsGoOn, blobVars
<1>6. DiskInv'
  BY <1>0, <1>1, <1>3, <1>4, <1>5, OnDiskKeeps
<1>7. QED
  BY <1>1, <1>6 DEF PowerInv

\* The process that ends keeps both: the kernel still holds what was not flushed.
LEMMA CrashOnDiskKeeps ==
  ASSUME SweepIsolated, HandlersInTime, Cleaners = {Loop}, PowerInv, CrashOnDisk
  PROVE  PowerInv'
<1>0. IInv /\ TypeOK /\ DiskInv
  BY DEF PowerInv, IInv
<1>1. IInv'
  <2>1. [Next]_vars
    BY DEF CrashOnDisk, Next
  <2>2. QED
    BY <1>0, <2>1, StepIInv
<1>2. /\ UNCHANGED <<may, dp, status, owner, made, dropdir>> /\ UNCHANGED blobVars
      /\ DOMAIN flush' = Actors
      /\ \A u \in Uploads : upc'[u] = "idle"
      /\ \A c \in Cleaners : cpc'[c] = "idle"
  BY <1>0 DEF CrashOnDisk, Crash, EndPass, At, storeVars, blobVars, TypeOK, CleanupTypeOK
<1>3. Uncertain /\ FilesHaveDirs'
  BY <1>0, <1>2, QuietIsUncertain
<1>4. UploadsGoOn /\ CleanersGoOn
  BY <1>2 DEF UploadsGoOn, CleanersGoOn
<1>5. DirsGoOn /\ RowsGoOn
  BY <1>2 DEF DirsGoOn, RowsGoOn
<1>6. DiskInv'
  BY <1>0, <1>1, <1>2, <1>3, <1>4, <1>5, OnDiskKeeps
<1>7. QED
  BY <1>1, <1>6 DEF PowerInv

-----------------------------------------------------------------------------
(* Flushes *)

\* A flush narrows what an entry may be down to what it is, or leaves it.
LEMMA Narrowed ==
  ASSUME NowIsPossible, NEW e \in Entries, may'[e] = may[e] \/ may'[e] = {Now(e)}
  PROVE  /\ \A x : may[e] = {x} => may'[e] = {x}
         /\ TRUE \notin may[e] => TRUE \notin may'[e]
         /\ Now(e) \in may'[e]
  BY DEF NowIsPossible

\* What the flush of a directory narrows.
LEMMA FlushFacts ==
  ASSUME NEW a \in Actors, FlushNext(a), DOMAIN flush = Actors
  PROVE  /\ UNCHANGED vars
         /\ \A e \in Entries : may'[e] = may[e] \/ may'[e] = {Now(e)}
         /\ \A b \in Actors \ {a} : flush'[b] = flush[b]
         /\ DOMAIN flush' = Actors
         /\ flush[a] # <<>> /\ flush'[a] = Tail(flush[a])
         /\ \/ \A e \in Certain(Head(flush[a])) : may'[e] = {Now(e)}
            \/ /\ ~Present(Head(flush[a])) /\ may' = may
               /\ Pc(a) \in {"unrow", "ackClear", "recoverRow", "childClear"}
<1>1. UNCHANGED vars /\ flush[a] # <<>> /\ flush' = [flush EXCEPT ![a] = Tail(@)]
  BY DEF FlushNext
<1>2. Certain(Head(flush[a])) \subseteq Entries
  BY DEF Certain
<1>3. \/ SyncDir(Head(flush[a]))
      \/ /\ ~Present(Head(flush[a])) /\ may' = may
         /\ Pc(a) \in {"unrow", "ackClear", "recoverRow", "childClear"}
  BY DEF FlushNext
<1>4. CASE SyncDir(Head(flush[a]))
  <2>1. \A e \in Entries : may'[e] = IF e \in Certain(Head(flush[a])) THEN {Now(e)} ELSE may[e]
    BY <1>4 DEF SyncDir
  <2>2. QED
    BY <1>1, <1>2, <2>1
<1>5. QED
  BY <1>1, <1>3, <1>4

\* The heads and tails of the flushes that are due.
LEMMA DueInOrder ==
  ASSUME NEW x
  PROVE  /\ Head(<< <<>>, x >>) = <<>> /\ Tail(<< <<>>, x >>) = << x >>
         /\ Head(<< x >>) = x /\ Tail(<< x >>) = <<>>
         /\ << <<>>, x >> # << x >> /\ << <<>>, x >> # <<>> /\ << x >> # <<>>
<1>1. Head(<< <<>>, x >>) = <<>>
  OBVIOUS
<1>2. Tail(<< <<>>, x >>) = << x >>
  OBVIOUS
<1>3. Head(<< x >>) = x
  OBVIOUS
<1>4. Tail(<< x >>) = <<>>
  OBVIOUS
<1>5. << <<>>, x >> # << x >> /\ << <<>>, x >> # <<>> /\ << x >> # <<>>
  OBVIOUS
<1>6. QED
  BY <1>1, <1>2, <1>3, <1>4, <1>5

\* A flush makes certain what its actor goes on to rely on, and keeps what is certain.
LEMMA FlushKeeps ==
  ASSUME IInv, DiskInv, NEW a \in Actors, FlushNext(a)
  PROVE  DiskInv'
<1>0. /\ \A l \in Keys : l[1] \in DropPoints
      /\ \A u \in Uploads : ukey[u] \in Keys
      /\ \A c \in Cleaners : ckey[c] \in Keys
      /\ \A u \in Uploads : u \in Actors /\ u \notin Requests /\ u \notin Cleaners
      /\ \A c \in Cleaners : c \in Actors /\ c \notin Uploads /\ c \notin Requests
  BY KeyFacts, ActorsAssumption DEF IInv, TypeOK, UploadTypeOK, CleanupTypeOK, Actors
<1>1. /\ UNCHANGED vars
      /\ \A e \in Entries : may'[e] = may[e] \/ may'[e] = {Now(e)}
      /\ \A b \in Actors \ {a} : flush'[b] = flush[b]
      /\ DOMAIN flush' = Actors
      /\ flush[a] # <<>> /\ flush'[a] = Tail(flush[a])
      /\ \/ \A e \in Certain(Head(flush[a])) : may'[e] = {Now(e)}
         \/ /\ ~Present(Head(flush[a])) /\ may' = may
            /\ Pc(a) \in {"unrow", "ackClear", "recoverRow", "childClear"}
  BY FlushFacts DEF DiskInv, FlushesDue
<1>2. /\ UNCHANGED <<dp, status, owner, upc, ukey, cpc, ckey, dropdir, made, tmp, payload, envelope>>
  BY <1>1 DEF vars, storeVars, uploadVars, cleanerVars, blobVars
<1>3. \A e \in Entries : /\ \A x : may[e] = {x} => may'[e] = {x}
                         /\ TRUE \notin may[e] => TRUE \notin may'[e]
                         /\ Now(e) \in may'[e]
  BY <1>1, Narrowed DEF DiskInv
<1>4. /\ \A d \in DropPoints : <<d>> \in Entries
      /\ \A k \in Keys : k \in Entries /\ Pay(k) \in Entries /\ Env(k) \in Entries
  BY EntryFacts
<1>5. FilesHaveDirs'
  BY <1>2 DEF DiskInv, FilesHaveDirs
<1>6. NowIsPossible'
  <2>1. \A e \in Entries : Now(e)' = Now(e)
    BY <1>2 DEF Now
  <2>2. QED
    BY <1>3, <2>1 DEF NowIsPossible
<1>7. \A x : /\ Head(<< <<>>, x >>) = <<>> /\ Tail(<< <<>>, x >>) = << x >>
             /\ Head(<< x >>) = x /\ Tail(<< x >>) = <<>>
             /\ << <<>>, x >> # << x >> /\ << <<>>, x >> # <<>> /\ << x >> # <<>>
  BY DueInOrder
<1>8. FlushesDue'
  <2>1. ASSUME NEW u \in Uploads
        PROVE  /\ upc[u] = "payload" => flush'[u] \in {<< <<>>, <<ukey[u][1]>> >>, << <<ukey[u][1]>> >>, <<>>}
               /\ upc[u] \in {"commit", "late"} => flush'[u] \in {<<ukey[u]>>, <<>>}
               /\ upc[u] = "unrow" => flush'[u] \in {<< <<ukey[u][1]>> >>, <<>>}
    <3>1. CASE u # a
      BY <1>0, <1>1, <3>1 DEF DiskInv, FlushesDue
    <3>2. CASE u = a
      <4>1. ASSUME upc[u] = "payload" PROVE flush'[u] \in {<< <<ukey[u][1]>> >>, <<>>}
        <5>1. flush[u] \in {<< <<>>, <<ukey[u][1]>> >>, << <<ukey[u][1]>> >>}
          BY <1>1, <3>2, <4>1 DEF DiskInv, FlushesDue
        <5>2. QED
          BY <1>1, <1>7, <3>2, <5>1
      <4>2. ASSUME upc[u] \in {"commit", "late"} PROVE flush'[u] = <<>>
        <5>1. flush[u] = <<ukey[u]>>
          BY <1>1, <3>2, <4>2 DEF DiskInv, FlushesDue
        <5>2. QED
          BY <1>1, <1>7, <3>2, <5>1
      <4>3. ASSUME upc[u] = "unrow" PROVE flush'[u] = <<>>
        <5>1. flush[u] = << <<ukey[u][1]>> >>
          BY <1>1, <3>2, <4>3 DEF DiskInv, FlushesDue
        <5>2. QED
          BY <1>1, <1>7, <3>2, <5>1
      <4>4. QED
        BY <4>1, <4>2, <4>3
    <3>3. QED
      BY <3>1, <3>2
  <2>2. ASSUME NEW c \in Cleaners, cpc[c] = "recoverRow"
        PROVE  flush'[c] \in {<< <<ckey[c][1]>> >>, <<>>}
    <3>1. CASE c # a
      BY <1>0, <1>1, <2>2, <3>1 DEF DiskInv, FlushesDue
    <3>2. CASE c = a
      BY <1>1, <1>7, <2>2, <3>2 DEF DiskInv, FlushesDue
    <3>3. QED
      BY <3>1, <3>2
  <2>3. QED
    BY <1>1, <1>2, <2>1, <2>2 DEF FlushesDue
<1>9. ReadyIsCertain'
  <2> SUFFICES ASSUME NEW k \in Keys, dp'[k[1]] = "open" /\ status'[k] = "ready"
               PROVE  /\ may'[<<k[1]>>] = {TRUE} /\ may'[k] = {TRUE}
                      /\ may'[Pay(k)] = {owner'[k]} /\ may'[Env(k)] = {owner'[k]}
    BY DEF ReadyIsCertain, DirsCertain, FilesCertain, Pay, Env
  <2>1. /\ may[<<k[1]>>] = {TRUE} /\ may[k] = {TRUE}
        /\ may[Pay(k)] = {owner[k]} /\ may[Env(k)] = {owner[k]}
    BY <1>2 DEF DiskInv, ReadyIsCertain, DirsCertain, FilesCertain
  <2>2. <<k[1]>> \in Entries /\ k \in Entries /\ Pay(k) \in Entries /\ Env(k) \in Entries
    BY <1>0, <1>4
  <2>3. QED
    BY <1>2, <1>3, <2>1, <2>2
<1>10. NoDirNoEntry' /\ NoRowNoEntry'
  <2>1. NoDirNoEntry'
    BY <1>2, <1>3, <1>4 DEF DiskInv, NoDirNoEntry, KeysOf
  <2>2. NoRowNoEntry'
    BY <1>2, <1>3, <1>4 DEF DiskInv, NoRowNoEntry
  <2>3. QED
    BY <2>1, <2>2
<1>11. /\ \A d \in DropPoints : Now(<<d>>) = (d \in dropdir)
       /\ \A k \in Keys : Now(k) = (k \in made) /\ Now(Pay(k)) = payload[k] /\ Now(Env(k)) = envelope[k]
  BY NowFacts
<1>12. UploadIsCertain'
  <2> SUFFICES ASSUME NEW u \in Uploads, dp[ukey[u][1]] = "open",
                      upc[u] \in {"payload", "envelope", "commit", "late"}
               PROVE  /\ ukey[u] \in made
                      /\ upc[u] = "payload" /\ flush'[u] # << <<>>, <<ukey[u][1]>> >>
                           => may'[<<ukey[u][1]>>] = {TRUE}
                      /\ upc[u] = "payload" /\ flush'[u] = <<>> => may'[ukey[u]] = {TRUE}
                      /\ upc[u] \in {"envelope", "commit", "late"}
                           => may'[<<ukey[u][1]>>] = {TRUE} /\ may'[ukey[u]] = {TRUE}
                      /\ upc[u] \in {"commit", "late"} /\ flush'[u] = <<>>
                           => may'[Pay(ukey[u])] = {u} /\ may'[Env(ukey[u])] = {u}
    BY <1>2 DEF UploadIsCertain, DirsCertain, FilesCertain
  <2>1. /\ ukey[u] \in made
        /\ upc[u] = "payload" /\ flush[u] # << <<>>, <<ukey[u][1]>> >> => may[<<ukey[u][1]>>] = {TRUE}
        /\ upc[u] = "payload" /\ flush[u] = <<>> => may[ukey[u]] = {TRUE}
        /\ upc[u] \in {"envelope", "commit", "late"} => may[<<ukey[u][1]>>] = {TRUE} /\ may[ukey[u]] = {TRUE}
        /\ upc[u] \in {"commit", "late"} /\ flush[u] = <<>>
             => may[Pay(ukey[u])] = {u} /\ may[Env(ukey[u])] = {u}
    BY DEF DiskInv, UploadIsCertain, DirsCertain, FilesCertain
  <2>2. CASE u # a
    <3>1. flush'[u] = flush[u]
      BY <1>0, <1>1, <2>2
    <3>2. /\ may[<<ukey[u][1]>>] = {TRUE} => may'[<<ukey[u][1]>>] = {TRUE}
          /\ may[ukey[u]] = {TRUE} => may'[ukey[u]] = {TRUE}
          /\ may[Pay(ukey[u])] = {u} => may'[Pay(ukey[u])] = {u}
          /\ may[Env(ukey[u])] = {u} => may'[Env(ukey[u])] = {u}
      BY <1>0, <1>3, <1>4
    <3>3. QED
      BY <2>1, <3>1, <3>2
  <2>3. CASE u = a
    <3>1. \A e \in Certain(Head(flush[u])) : may'[e] = {Now(e)}
      BY <1>1, <2>3 DEF Pc
    <3>2. CASE upc[u] = "payload" /\ flush[u] = << <<>>, <<ukey[u][1]>> >>
      <4>1. may'[<<ukey[u][1]>>] = {Now(<<ukey[u][1]>>)}
        BY <1>0, <1>7, <3>1, <3>2, FlushedRoot
      <4>2. Now(<<ukey[u][1]>>) = TRUE
        BY <1>0, <1>11, <2>1 DEF DiskInv, FilesHaveDirs
      <4>3. flush'[u] = << <<ukey[u][1]>> >>
        BY <1>1, <1>7, <2>3, <3>2
      <4>4. QED
        BY <1>7, <2>1, <3>2, <4>1, <4>2, <4>3
    <3>3. CASE upc[u] = "payload" /\ flush[u] = << <<ukey[u][1]>> >>
      <4>1. may'[ukey[u]] = {Now(ukey[u])}
        BY <1>0, <1>7, <3>1, <3>3, FlushedDropPoint
      <4>2. Now(ukey[u]) = TRUE
        BY <1>0, <1>11, <2>1
      <4>3. may'[<<ukey[u][1]>>] = {TRUE}
        BY <1>0, <1>3, <1>4, <1>7, <2>1, <3>3
      <4>4. QED
        BY <2>1, <3>3, <4>1, <4>2, <4>3
    <3>4. CASE upc[u] = "envelope"
      BY <1>0, <1>3, <1>4, <2>1, <3>4
    <3>5. CASE upc[u] \in {"commit", "late"}
      <4>1. flush[u] = <<ukey[u]>>
        BY <1>1, <2>3, <3>5 DEF DiskInv, FlushesDue
      <4>2. /\ may'[Pay(ukey[u])] = {Now(Pay(ukey[u]))}
            /\ may'[Env(ukey[u])] = {Now(Env(ukey[u]))}
        BY <1>0, <1>7, <3>1, <4>1, FlushedSubmission
      <4>3. payload[ukey[u]] = u /\ envelope[ukey[u]] = u
        BY <3>5 DEF IInv, UploadHasFiles
      <4>4. Now(Pay(ukey[u])) = u /\ Now(Env(ukey[u])) = u
        BY <1>0, <1>11, <4>3
      <4>5. may'[<<ukey[u][1]>>] = {TRUE} /\ may'[ukey[u]] = {TRUE}
        <5>1. may[<<ukey[u][1]>>] = {TRUE} /\ may[ukey[u]] = {TRUE}
          BY <2>1, <3>5
        <5>2. <<ukey[u][1]>> \in Entries /\ ukey[u] \in Entries
          BY <1>0, <1>4
        <5>3. QED
          BY <1>3, <5>1, <5>2
      <4>6. QED
        BY <2>1, <3>5, <4>2, <4>4, <4>5
    <3>6. upc[u] = "payload" => flush[u] \in {<< <<>>, <<ukey[u][1]>> >>, << <<ukey[u][1]>> >>}
      BY <1>1, <2>3 DEF DiskInv, FlushesDue
    <3>7. QED
      BY <3>2, <3>3, <3>4, <3>5, <3>6
  <2>4. QED
    BY <2>2, <2>3
<1>13. ASSUME NEW k \in Keys, k \notin made, dp[k[1]] = "open", flush[a] = << <<k[1]>> >>
       PROVE  TRUE \notin may'[k]
  <2>1. Head(flush[a]) = <<k[1]>>
    BY <1>7, <1>13
  <2>2. CASE \A e \in Certain(Head(flush[a])) : may'[e] = {Now(e)}
    <3>1. may'[k] = {Now(k)}
      BY <2>1, <2>2, FlushedDropPoint
    <3>2. Now(k) # TRUE
      BY <1>11, <1>13
    <3>3. QED
      BY <3>1, <3>2
  <2>3. CASE ~Present(Head(flush[a])) /\ may' = may
    <3>1. k[1] \notin dropdir
      BY <1>0, <1>11, <2>1, <2>3 DEF Present
    <3>2. QED
      BY <1>0, <1>13, <2>3, <3>1 DEF DiskInv, NoDirNoEntry, KeysOf
  <2>4. QED
    BY <1>1, <2>2, <2>3
<1>14. GoneForGood'
  <2>1. ASSUME NEW u \in Uploads, upc[u] = "unrow"
        PROVE  /\ ukey[u] \notin made
               /\ flush'[u] = <<>> /\ dp[ukey[u][1]] = "open" => TRUE \notin may'[ukey[u]]
    <3>1. /\ ukey[u] \notin made
          /\ flush[u] = <<>> /\ dp[ukey[u][1]] = "open" => TRUE \notin may[ukey[u]]
      BY <2>1 DEF DiskInv, GoneForGood
    <3>2. CASE u # a
      BY <1>0, <1>1, <1>3, <1>4, <3>1, <3>2
    <3>3. CASE u = a
      <4>1. flush[u] = << <<ukey[u][1]>> >>
        BY <1>1, <2>1, <3>3 DEF DiskInv, FlushesDue
      <4>2. QED
        BY <1>0, <1>13, <3>1, <3>3, <4>1
    <3>4. QED
      BY <3>2, <3>3
  <2>2. ASSUME NEW c \in Cleaners, cpc[c] = "recoverRow"
        PROVE  /\ ckey[c] \notin made
               /\ flush'[c] = <<>> /\ dp[ckey[c][1]] = "open" => TRUE \notin may'[ckey[c]]
    <3>1. /\ ckey[c] \notin made
          /\ flush[c] = <<>> /\ dp[ckey[c][1]] = "open" => TRUE \notin may[ckey[c]]
      BY <2>2 DEF DiskInv, GoneForGood
    <3>2. CASE c # a
      BY <1>0, <1>1, <1>3, <1>4, <3>1, <3>2
    <3>3. CASE c = a
      <4>1. flush[c] = << <<ckey[c][1]>> >>
        BY <1>1, <2>2, <3>3 DEF DiskInv, FlushesDue
      <4>2. QED
        BY <1>0, <1>13, <3>1, <3>3, <4>1
    <3>4. QED
      BY <3>2, <3>3
  <2>3. QED
    BY <1>2, <2>1, <2>2 DEF GoneForGood
<1>15. QED
  BY <1>5, <1>6, <1>8, <1>9, <1>10, <1>12, <1>14 DEF DiskInv

-----------------------------------------------------------------------------
(* The loss of power *)

\* What is left of the directory was possible, and what was certain is left.
LEMMA LostFacts ==
  ASSUME TypeOK, LosePower
  PROVE  /\ BlobTypeOK' /\ FilesHaveDirs'
         /\ \A d \in dropdir' : TRUE \in may[<<d>>]
         /\ \A k \in made' : TRUE \in may[k]
         /\ \A k \in Keys : DirsCertain(k) => k \in made'
         /\ \A k \in made' : payload'[k] \in may[Pay(k)] /\ envelope'[k] \in may[Env(k)]
<1>1. PICK dirs \in SUBSET {e \in Entries : TRUE \in may[e]},
           files \in [UNION {FilesOf(k) : k \in Keys} -> Owners] :
        /\ \A e \in Entries : Len(e) < 3 /\ e \notin dirs => FALSE \in may[e]
        /\ \A e \in DOMAIN files : files[e] \in may[e]
        /\ dropdir' = {d \in DropPoints : <<d>> \in dirs}
        /\ made' = {k \in Keys : {<<k[1]>>, k} \subseteq dirs}
        /\ payload' = [k \in Keys |-> IF k \in made' THEN files[Append(k, "payload.bin")] ELSE NoOne]
        /\ envelope' = [k \in Keys |-> IF k \in made' THEN files[Append(k, "envelope.json")] ELSE NoOne]
        /\ \E kept \in {tmp, [k \in Keys |-> {}]} :
             tmp' = [k \in Keys |-> IF k \in made' THEN kept[k] ELSE {}]
  BY DEF LosePower
<1>2. /\ \A l \in Keys : l[1] \in DropPoints
      /\ \A l \in Keys : l \in Entries /\ <<l[1]>> \in Entries
  BY KeyFacts, EntryFacts
<1>3. \A k \in Keys : Pay(k) \in DOMAIN files /\ Env(k) \in DOMAIN files
  BY DEF FilesOf, Pay, Env
<1>4. tmp' \in [Keys -> SUBSET Uploads] /\ \A k \in Keys : k \notin made' => tmp'[k] = {}
  <2>1. PICK kept \in {tmp, [k \in Keys |-> {}]} :
          tmp' = [k \in Keys |-> IF k \in made' THEN kept[k] ELSE {}]
    BY <1>1
  <2>2. kept \in [Keys -> SUBSET Uploads]
    BY <2>1 DEF TypeOK, BlobTypeOK
  <2>3. QED
    BY <2>1, <2>2
<1>5. \A k \in Keys :
        /\ payload'[k] = IF k \in made' THEN files[Pay(k)] ELSE NoOne
        /\ envelope'[k] = IF k \in made' THEN files[Env(k)] ELSE NoOne
  BY <1>1 DEF Pay, Env
<1>6. payload' \in [Keys -> Owners] /\ envelope' \in [Keys -> Owners]
  <2>1. \A k \in Keys : files[Pay(k)] \in Owners /\ files[Env(k)] \in Owners
    BY <1>1, <1>3
  <2>2. QED
    BY <1>1, <2>1 DEF Owners, Pay, Env
<1>7. BlobTypeOK'
  BY <1>1, <1>4, <1>6 DEF BlobTypeOK
<1>8. \A k \in made' : k \in Keys /\ k \in dirs /\ <<k[1]>> \in dirs
  BY <1>1
<1>9. FilesHaveDirs'
  BY <1>1, <1>2, <1>4, <1>5, <1>8 DEF FilesHaveDirs
<1>10. ASSUME NEW k \in Keys, DirsCertain(k) PROVE k \in made'
  <2>0. Len(k) = 2 /\ Len(<<k[1]>>) = 1
    BY KeyPaths
  <2>1. Len(k) < 3 /\ Len(<<k[1]>>) < 3
    BY <2>0
  <2>2. FALSE \notin may[k] /\ FALSE \notin may[<<k[1]>>]
    BY <1>10 DEF DirsCertain
  <2>3. k \in dirs /\ <<k[1]>> \in dirs
    BY <1>1, <1>2, <2>1, <2>2
  <2>4. QED
    BY <1>1, <2>3
<1>11. \A k \in made' : payload'[k] \in may[Pay(k)] /\ envelope'[k] \in may[Env(k)]
  <2>1. \A k \in Keys : files[Pay(k)] \in may[Pay(k)] /\ files[Env(k)] \in may[Env(k)]
    BY <1>1, <1>3
  <2>2. QED
    BY <1>5, <1>8, <2>1
<1>12. \A d \in dropdir' : TRUE \in may[<<d>>]
  BY <1>1
<1>13. \A k \in made' : TRUE \in may[k]
  BY <1>1, <1>8
<1>14. QED
  BY <1>7, <1>9, <1>10, <1>11, <1>12, <1>13

\* After the loss nobody runs, and what is there is there for certain.
LEMMA PowerFailsFacts ==
  ASSUME TypeOK, PowerFails
  PROVE  /\ LosePower /\ server' = "down" /\ UNCHANGED storeVars
         /\ \A u \in Uploads : upc'[u] = "idle"
         /\ \A r \in Requests : rpc'[r] = "idle"
         /\ \A c \in Cleaners : cpc'[c] = "idle"
         /\ DOMAIN flush' = Actors
         /\ may' = [e \in Entries |-> {Now(e)'}]
         /\ faults' \in 0 .. MaxFaults
         /\ UploadTypeOK' /\ ReceiverTypeOK' /\ CleanupTypeOK'
<1>1. faults' \in 0 .. MaxFaults
  BY SizesAssumption DEF PowerFails, Fault, TypeOK
<1>2. UploadTypeOK'
  BY KeyFacts DEF PowerFails, UploadTypeOK
<1>3. ReceiverTypeOK'
  BY KeyFacts DEF PowerFails, ReceiverTypeOK, Nothing, Owners
<1>4. CleanupTypeOK'
  BY KeyFacts DEF PowerFails, CleanupTypeOK
<1>5. QED
  BY <1>1, <1>2, <1>3, <1>4 DEF PowerFails

\* The power that goes out keeps both: what a committed row needs was certain, and where there
\* is no row no directory was possible.
LEMMA PowerFailsKeeps ==
  ASSUME PowerInv, PowerFails
  PROVE  PowerInv'
<1>0. /\ IInv /\ TypeOK /\ DiskInv
      /\ \A l \in Keys : l[1] \in DropPoints
  BY KeyFacts DEF PowerInv, IInv
<1>1. /\ LosePower /\ server' = "down" /\ UNCHANGED storeVars
      /\ \A u \in Uploads : upc'[u] = "idle"
      /\ \A r \in Requests : rpc'[r] = "idle"
      /\ \A c \in Cleaners : cpc'[c] = "idle"
      /\ DOMAIN flush' = Actors
      /\ may' = [e \in Entries |-> {Now(e)'}]
      /\ faults' \in 0 .. MaxFaults
      /\ UploadTypeOK' /\ ReceiverTypeOK' /\ CleanupTypeOK'
  BY <1>0, PowerFailsFacts
<1>2. /\ BlobTypeOK' /\ FilesHaveDirs'
      /\ \A d \in dropdir' : TRUE \in may[<<d>>]
      /\ \A k \in made' : TRUE \in may[k]
      /\ \A k \in Keys : DirsCertain(k) => k \in made'
      /\ \A k \in made' : payload'[k] \in may[Pay(k)] /\ envelope'[k] \in may[Env(k)]
  BY <1>0, <1>1, LostFacts
<1>3. /\ UNCHANGED <<dp, status, ptr, owner, stale>>
      /\ dropdir' \subseteq DropPoints /\ made' \subseteq Keys
  BY <1>1, <1>2 DEF storeVars, BlobTypeOK
<1>4. TypeOK'
  <2>1. StoreTypeOK'
    BY <1>0, <1>1 DEF TypeOK, StoreTypeOK, storeVars
  <2>2. QED
    BY <1>1, <1>2, <2>1 DEF TypeOK
<1>5. RowsHaveParents'
  <2>1. \A d \in dropdir' : dp[d] # "none"
    BY <1>0, <1>2, <1>3 DEF IInv, RowsHaveParents, DiskInv, NoDirNoEntry
  <2>2. QED
    BY <1>0, <1>3, <2>1 DEF IInv, RowsHaveParents, Exists
<1>6. ASSUME NEW k \in Keys, dp[k[1]] = "open", status[k] = "ready"
      PROVE  k \in ptr /\ owner[k] # NoOne /\ payload'[k] = owner[k] /\ envelope'[k] = owner[k]
  <2>1. DirsCertain(k) /\ may[Pay(k)] = {owner[k]} /\ may[Env(k)] = {owner[k]}
    BY <1>0, <1>6 DEF DiskInv, ReadyIsCertain, FilesCertain
  <2>2. k \in made'
    BY <1>2, <2>1
  <2>3. payload'[k] \in may[Pay(k)] /\ envelope'[k] \in may[Env(k)]
    BY <1>2, <2>2
  <2>4. k \in ptr /\ owner[k] # NoOne
    BY <1>0, <1>6 DEF IInv, ReadyAvailable
  <2>5. QED
    BY <2>1, <2>3, <2>4
<1>7. ReadyAvailable'
  BY <1>3, <1>6 DEF ReadyAvailable
<1>8. /\ IdleUnlessServing' /\ UploadOwnsKey' /\ UploadHasFiles' /\ StaleIsInterrupted'
      /\ RequestReadingsHold'
  BY <1>0, <1>1, <1>3
     DEF IInv, IdleUnlessServing, UploadOwnsKey, UploadHasFiles, StaleIsInterrupted,
         RequestReadingsHold, Working
<1>9. CleanerListsHold'
  BY <1>1 DEF CleanerListsHold, ListsHold
<1>10. IInv'
  BY <1>4, <1>5, <1>7, <1>8, <1>9 DEF IInv
<1>11. /\ \A d \in DropPoints : may'[<<d>>] = {(d \in dropdir')}
       /\ \A k \in Keys : /\ may'[k] = {(k \in made')}
                          /\ may'[Pay(k)] = {payload'[k]} /\ may'[Env(k)] = {envelope'[k]}
  <2>1. ASSUME NEW d \in DropPoints PROVE may'[<<d>>] = {(d \in dropdir')}
    <3>1. may'[<<d>>] = {Now(<<d>>)'}
      BY <1>1, EntryFacts
    <3>2. QED
      BY <3>1, NowFactsNext
  <2>2. ASSUME NEW k \in Keys
        PROVE  /\ may'[k] = {(k \in made')}
               /\ may'[Pay(k)] = {payload'[k]} /\ may'[Env(k)] = {envelope'[k]}
    <3>1. /\ may'[k] = {Now(k)'}
          /\ may'[Pay(k)] = {Now(Pay(k))'} /\ may'[Env(k)] = {Now(Env(k))'}
      BY <1>1, EntryFacts
    <3>2. QED
      BY <3>1, NowFactsNext
  <2>3. QED
    BY <2>1, <2>2
<1>12. NowIsPossible' /\ FlushesDue' /\ UploadIsCertain' /\ GoneForGood'
  <2>1. NowIsPossible'
    BY <1>1 DEF NowIsPossible
  <2>2. FlushesDue' /\ GoneForGood'
    BY <1>1 DEF FlushesDue, GoneForGood
  <2>3. UploadIsCertain'
    BY <1>1 DEF UploadIsCertain
  <2>4. QED
    BY <2>1, <2>2, <2>3
<1>13. ReadyIsCertain'
  <2> SUFFICES ASSUME NEW k \in Keys, dp[k[1]] = "open", status[k] = "ready"
               PROVE  /\ may'[<<k[1]>>] = {TRUE} /\ may'[k] = {TRUE}
                      /\ may'[Pay(k)] = {owner[k]} /\ may'[Env(k)] = {owner[k]}
    BY <1>3 DEF ReadyIsCertain, DirsCertain, FilesCertain
  <2>1. owner[k] # NoOne /\ payload'[k] = owner[k] /\ envelope'[k] = owner[k]
    BY <1>6
  <2>2. k \in made' /\ k[1] \in dropdir'
    BY <1>2, <2>1 DEF FilesHaveDirs
  <2>3. QED
    BY <1>0, <1>11, <2>1, <2>2
<1>14. /\ \A d \in DropPoints : d \notin dropdir' => TRUE \notin may'[<<d>>]
       /\ \A k \in Keys : k \notin made' => TRUE \notin may'[k]
  <2>1. ASSUME NEW d \in DropPoints, d \notin dropdir' PROVE TRUE \notin may'[<<d>>]
    <3>1. TRUE \notin {(d \in dropdir')}
      BY <2>1
    <3>2. QED
      BY <1>11, <3>1
  <2>2. ASSUME NEW k \in Keys, k \notin made' PROVE TRUE \notin may'[k]
    <3>1. TRUE \notin {(k \in made')}
      BY <2>2
    <3>2. QED
      BY <1>11, <3>1
  <2>3. QED
    BY <2>1, <2>2
<1>15. NoDirNoEntry'
  BY <1>2, <1>14 DEF NoDirNoEntry, FilesHaveDirs, KeysOf
<1>16. NoRowNoEntry'
  BY <1>0, <1>2, <1>3, <1>14 DEF DiskInv, NoRowNoEntry
<1>17. DiskInv'
  BY <1>2, <1>12, <1>13, <1>15, <1>16 DEF DiskInv
<1>18. QED
  BY <1>10, <1>17 DEF PowerInv

-----------------------------------------------------------------------------
(* The theorems *)

\* The empty relay on an empty disk has the invariant.
LEMMA InitPowerInv == PowerInit => PowerInv
<1> SUFFICES ASSUME PowerInit PROVE PowerInv
  OBVIOUS
<1>1. IInv
  BY InitIInv DEF PowerInit
<1>2. /\ \A k \in Keys : status[k] = "none" /\ payload[k] = NoOne /\ envelope[k] = NoOne /\ tmp[k] = {}
      /\ dropdir = {} /\ made = {}
      /\ \A u \in Uploads : upc[u] = "idle"
      /\ \A c \in Cleaners : cpc[c] = "idle"
      /\ DOMAIN flush = Actors
      /\ may = [e \in Entries |-> {Now(e)}]
  BY DEF PowerInit, Init, StoreInit, BlobInit, UploadInit, CleanupInit
<1>3. FilesHaveDirs /\ FlushesDue /\ ReadyIsCertain /\ GoneForGood /\ UploadIsCertain
  BY <1>2 DEF FilesHaveDirs, FlushesDue, ReadyIsCertain, GoneForGood, UploadIsCertain
<1>4. NowIsPossible
  BY <1>2 DEF NowIsPossible
<1>5. /\ \A d \in DropPoints : TRUE \notin may[<<d>>]
      /\ \A k \in Keys : TRUE \notin may[k]
  <2>1. ASSUME NEW d \in DropPoints PROVE TRUE \notin may[<<d>>]
    <3>1. may[<<d>>] = {Now(<<d>>)} /\ Now(<<d>>) # TRUE
      BY <1>2, EntryFacts, NowFacts
    <3>2. QED
      BY <3>1
  <2>2. ASSUME NEW k \in Keys PROVE TRUE \notin may[k]
    <3>1. may[k] = {Now(k)} /\ Now(k) # TRUE
      BY <1>2, EntryFacts, NowFacts
    <3>2. QED
      BY <3>1
  <2>3. QED
    BY <2>1, <2>2
<1>6. NoDirNoEntry /\ NoRowNoEntry
  BY <1>5 DEF NoDirNoEntry, NoRowNoEntry, KeysOf
<1>7. QED
  BY <1>1, <1>3, <1>4, <1>6 DEF PowerInv, DiskInv

\* Every step with the disk keeps it.
LEMMA StepPowerInv ==
  ASSUME SweepIsolated, HandlersInTime, Cleaners = {Loop}, PowerInv, [PowerNext]_powerVars
  PROVE  PowerInv'
<1>1. CASE UNCHANGED powerVars
  <2>1. UNCHANGED vars /\ UNCHANGED may /\ UNCHANGED flush
    BY <1>1 DEF powerVars, diskVars
  <2>2. [Next]_vars /\ IInv /\ DiskInv
    BY <2>1 DEF PowerInv
  <2>3. IInv'
    BY <2>2, StepIInv
  <2>4. /\ UNCHANGED <<dp, status, owner, upc, ukey, cpc, ckey, dropdir, made>> /\ UNCHANGED blobVars
    BY <2>1 DEF vars, storeVars, uploadVars, cleanerVars, blobVars
  <2>5. Uncertain /\ FilesHaveDirs' /\ DOMAIN flush' = Actors
    BY <2>1, <2>2, <2>4, QuietIsUncertain DEF DiskInv, FlushesDue
  <2>6. UploadsGoOn /\ CleanersGoOn /\ DirsGoOn /\ RowsGoOn
    BY <2>1, <2>4 DEF UploadsGoOn, CleanersGoOn, DirsGoOn, RowsGoOn
  <2>7. DiskInv'
    BY <2>2, <2>3, <2>5, <2>6, OnDiskKeeps
  <2>8. QED
    BY <2>3, <2>7 DEF PowerInv
<1>2. ASSUME NEW a \in Actors, FlushNext(a) PROVE PowerInv'
  <2>1. [Next]_vars /\ IInv /\ DiskInv
    BY <1>2 DEF FlushNext, PowerInv
  <2>2. IInv'
    BY <2>1, StepIInv
  <2>3. DiskInv'
    BY <1>2, <2>1, FlushKeeps
  <2>4. QED
    BY <2>2, <2>3 DEF PowerInv
<1>3. QED
  BY <1>1, <1>2, TimeOnDiskKeeps, UploadOnDiskKeeps, RequestOnDiskKeeps, CleanerOnDiskKeeps,
     CrashOnDiskKeeps, PowerFailsKeeps DEF PowerNext

\* The invariants of the rows, files and handlers and that of the disk hold in every state,
\* before and after any number of power losses: what the handlers flush, and in which order
\* (SyncDir before MarkSubmissionReady, RemoveAll and SyncDir before DeleteReceivingSubmission).
THEOREM DiskHolds ==
  ASSUME SweepIsolated, HandlersInTime, Cleaners = {Loop}
  PROVE  PowerSpec => []PowerInv
<1>1. PowerInit => PowerInv
  BY InitPowerInv
<1>2. PowerInv /\ [PowerNext]_powerVars => PowerInv'
  BY StepPowerInv
<1>3. QED
  BY <1>1, <1>2, PTL DEF PowerSpec

\* A committed submission of an open drop point keeps its payload.bin and envelope.json, on the
\* disk too: FinalizeEnvelope syncs what the commit relies on, so the power may go out at any
\* step of any handler and the row that says ready still has its files.
THEOREM SurvivesPowerLoss ==
  ASSUME SweepIsolated, HandlersInTime, Cleaners = {Loop}
  PROVE  PowerSpec => []ReadyAvailable
<1>1. PowerInv => ReadyAvailable
  BY DEF PowerInv, IInv
<1>2. QED
  BY <1>1, DiskHolds, PTL

\* No directory without a row in an open drop point, on the disk either: DeleteSubmission syncs
\* before the row goes, so no ciphertext comes back with the power that no row accounts for.
THEOREM NothingLeaksOnDisk ==
  ASSUME SweepIsolated, HandlersInTime, Cleaners = {Loop}
  PROVE  PowerSpec => []NoLeak
<1>1. PowerInv => NoLeak
  <2> SUFFICES ASSUME PowerInv, NEW k \in made, dp[k[1]] = "open", status[k] = "none" PROVE FALSE
    BY DEF NoLeak
  <2>1. k \in Keys
    BY DEF PowerInv, IInv, TypeOK, BlobTypeOK
  <2>2. TRUE \notin may[k]
    BY <2>1 DEF PowerInv, DiskInv, NoRowNoEntry
  <2>3. Now(k) \in may[k] /\ Now(k) = TRUE
    BY <2>1, EntryFacts, NowFacts DEF PowerInv, DiskInv, NowIsPossible
  <2>4. QED
    BY <2>2, <2>3
<1>2. QED
  BY <1>1, DiskHolds, PTL
=============================================================================
