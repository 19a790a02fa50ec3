------------------------------ MODULE PowerLoss ------------------------------
(***************************************************************************)
(* The relay on a disk that forgets: a name that was made, renamed or      *)
(* removed is certain to survive a power loss only once its directory was  *)
(* flushed (SyncDir of internal/blobstore/blobstore.go).  Each step of     *)
(* Relay that changes names is followed here by the flushes its function   *)
(* makes before it returns, each a step of its own, in between which the   *)
(* others run and the power may fail.                                      *)
(*                                                                         *)
(* File contents are synced before their names are installed, and SQLite's *)
(* commits are durable (write-ahead log, synchronous = FULL).              *)
(***************************************************************************)
EXTENDS Relay, SequencesExt

\* A directory is a path under drop-points/: <<>>, <<d>> or <<d, s>>.  Its entries are the
\* paths one longer.
FilesOf(k) == {Append(k, "payload.bin"), Append(k, "envelope.json")}
Entries == {<<d>> : d \in DropPoints} \cup Keys \cup UNION {FilesOf(k) : k \in Keys}

Actors == Uploads \cup Requests \cup Cleaners

ASSUME ActorsAssumption ==
  Uploads \cap Requests = {} /\ Uploads \cap Cleaners = {} /\ Requests \cap Cleaners = {}

VARIABLES may,  \* what each entry may be after a power loss
          flush \* directories an actor has yet to flush

diskVars == <<may, flush>>
powerVars == <<vars, diskVars>>

\* What an entry is now: whether a directory exists, or the content of a file.
Now(e) ==
  CASE Len(e) = 1 -> e[1] \in dropdir
    [] Len(e) = 2 -> e \in made
    [] OTHER -> IF e[3] = "payload.bin" THEN payload[Front(e)] ELSE envelope[Front(e)]

Present(dir) == dir # <<>> => Now(dir)

PowerInit ==
  /\ Init
  /\ may = [e \in Entries |-> {Now(e)}]
  /\ flush = [a \in Actors |-> <<>>]

-----------------------------------------------------------------------------
(* Flushes *)

Pc(a) == IF a \in Uploads THEN upc[a] ELSE IF a \in Requests THEN rpc[a] ELSE cpc[a]
KeyOf(a) == IF a \in Uploads THEN ukey[a] ELSE IF a \in Requests THEN rkey[a] ELSE ckey[a]

\* Steps that remove a submission's directory, and a drop point's.
Deletes == {<<"undo", "unrow">>, <<"ackDelete", "ackClear">>,
            <<"recover", "recoverRow">>, <<"child", "childClear">>}
DropDeletes == {<<"closeDelete", "closeClear">>, <<"terminal", "terminalClear">>,
                <<"orphans", "orphans">>}

\* Mutant of Due: the directory that holds the two files is not flushed.
DueWithoutFiles(step, k) ==
  CASE step = <<"stage", "payload">> -> << <<>>, <<k[1]>> >>
    [] step \in Deletes -> << <<k[1]>> >>
    [] step \in DropDeletes -> << <<>> >>
    [] OTHER -> <<>>

\* Mutant of Due: a removed submission is left to the next flush of its drop point.
DueWithoutDeletes(step, k) ==
  CASE step = <<"stage", "payload">> -> << <<>>, <<k[1]>> >>
    [] step \in {<<"envelope", "commit">>, <<"envelope", "late">>} -> <<k>>
    [] step \in DropDeletes -> << <<>> >>
    [] OTHER -> <<>>

\* What WriteSubmission, DeleteSubmission and DeleteDropPoint flush, in order, for the
\* submission k, before they go on.
Due(step, k) ==
  CASE step = <<"stage", "payload">> -> << <<>>, <<k[1]>> >>
    [] step \in {<<"envelope", "commit">>, <<"envelope", "late">>} -> <<k>>
    [] step \in Deletes -> << <<k[1]>> >>
    [] step \in DropDeletes -> << <<>> >>
    [] OTHER -> <<>>

Written == may' = [e \in Entries |-> may[e] \cup {Now(e)'}]

\* After a step of a: the names it changed are uncertain, and it has flushes to make.
Tracked(a) ==
  /\ Written
  /\ flush' = [flush EXCEPT ![a] = Due(<<Pc(a), Pc(a)'>>, KeyOf(a)')]

\* The entries that a flush of dir makes certain: its own, and what lies under one that
\* is gone for certain.
Certain(dir) ==
  {e \in Entries : /\ IsStrictPrefix(dir, e)
                   /\ Len(e) = Len(dir) + 1 \/ ~Now(SubSeq(e, 1, Len(dir) + 1))}

SyncDir(dir) == may' = [e \in Entries |-> IF e \in Certain(dir) THEN {Now(e)} ELSE may[e]]

\* A directory that is gone cannot be flushed: DeleteSubmission takes that for success.
FlushNext(a) ==
  /\ flush[a] # <<>>
  /\ \/ Present(Head(flush[a])) /\ SyncDir(Head(flush[a]))
     \/ /\ ~Present(Head(flush[a]))
        /\ Pc(a) \in {"unrow", "ackClear", "recoverRow", "childClear"}
        /\ UNCHANGED may
  /\ flush' = [flush EXCEPT ![a] = Tail(@)]
  /\ UNCHANGED vars

\* WriteSubmission returns the error of a flush, and so may the deletions.
UnsyncedUpload(u) ==
  \/ WriteFails(u)
  \/ upc[u] \in {"commit", "late"} /\ Goto(u, "undo") /\ UNCHANGED <<storeVars, blobVars>>

-----------------------------------------------------------------------------
(* The disk under the relay *)

Flushed(a) == flush[a] = <<>>

UploadOnDisk(u) ==
  /\ \/ Flushed(u) /\ UploadNext(u)
     \/ ~Flushed(u) /\ UnsyncedUpload(u) /\ UNCHANGED faults
     \/ ~Flushed(u) /\ GiveUp(u) /\ Fault
  /\ Tracked(u)
  /\ UNCHANGED <<server, requestVars, cleanerVars>>

RequestOnDisk(r) ==
  /\ \/ Flushed(r) /\ RequestNext(r)
     \/ ~Flushed(r) /\ Abandon(r) /\ UNCHANGED faults
  /\ Tracked(r)
  /\ UNCHANGED <<server, uploadVars, cleanerVars>>

CleanerOnDisk(c) ==
  /\ \/ Flushed(c) /\ CleanerNext(c)
     \/ ~Flushed(c) /\ Abort(c) /\ Fault
  /\ Tracked(c)
  /\ UNCHANGED <<uploadVars, requestVars>>

\* The server process stops; what it wrote is still in the operating system's hands.
CrashOnDisk ==
  /\ Crash /\ Fault
  /\ flush' = [a \in Actors |-> IF a \in Cleaners \ {Loop} THEN flush[a] ELSE <<>>]
  /\ UNCHANGED may

\* Every entry is one of the things it may be, as far as its directory is there.
\* Temporaries stay or go; one that comes back is of no account to anybody.
LosePower ==
  \E dirs \in SUBSET {e \in Entries : TRUE \in may[e]}, files \in [UNION {FilesOf(k) : k \in Keys} -> Owners] :
    /\ \A e \in Entries : Len(e) < 3 /\ e \notin dirs => FALSE \in may[e]
    /\ \A e \in DOMAIN files : files[e] \in may[e]
    /\ dropdir' = {d \in DropPoints : <<d>> \in dirs}
    /\ made' = {k \in Keys : {<<k[1]>>, k} \subseteq dirs}
    /\ payload' = [k \in Keys |-> IF k \in made' THEN files[Append(k, "payload.bin")] ELSE NoOne]
    /\ envelope' = [k \in Keys |-> IF k \in made' THEN files[Append(k, "envelope.json")] ELSE NoOne]
    /\ \E kept \in {tmp, [k \in Keys |-> {}]} :
         tmp' = [k \in Keys |-> IF k \in made' THEN kept[k] ELSE {}]

\* The machine stops and every process with it.
PowerFails ==
  /\ LosePower
  /\ server' = "down" /\ Fault
  /\ upc' = [u \in Uploads |-> "idle"] /\ ukey' = [u \in Uploads |-> AnyKey]
  /\ rpc' = [r \in Requests |-> "idle"] /\ rkey' = [r \in Requests |-> AnyKey]
  /\ rgot' = [r \in Requests |-> Nothing]
  /\ cpc' = [c \in Cleaners |-> "idle"]
  /\ ckeys' = [c \in Cleaners |-> {}] /\ cdrops' = [c \in Cleaners |-> {}]
  /\ ckey' = [c \in Cleaners |-> AnyKey] /\ cdrop' = [c \in Cleaners |-> AnyDropPoint]
  /\ clapsed' = [c \in Cleaners |-> {}] /\ caged' = [c \in Cleaners |-> {}]
  /\ may' = [e \in Entries |-> {Now(e)'}]
  /\ flush' = [a \in Actors |-> <<>>]
  /\ UNCHANGED storeVars

TimeOnDisk ==
  /\ \/ \E d \in DropPoints : Create(d)
     \/ Tick /\ UNCHANGED <<baseVars, blobVars, uploadVars, requestVars, cleanerVars>>
     \/ \E d \in DropPoints : ExpireLazily(d) /\ UNCHANGED <<baseVars, uploadVars, cleanerVars>>
  /\ UNCHANGED diskVars

PowerNext ==
  \/ TimeOnDisk
  \/ \E u \in Uploads : UploadOnDisk(u)
  \/ \E r \in Requests : RequestOnDisk(r)
  \/ \E c \in Cleaners : CleanerOnDisk(c)
  \/ \E a \in Actors : FlushNext(a)
  \/ CrashOnDisk
  \/ PowerFails

PowerSpec == PowerInit /\ [][PowerNext]_powerVars

\* As in Relay: an actor goes on, be it with its next step or with a flush.
PowerFairness ==
  /\ \A u \in Uploads :
       WF_powerVars(\/ FlushNext(u)
                    \/ /\ \/ Flushed(u) /\ UploadStep(u)
                          \/ ~Flushed(u) /\ ~Present(Head(flush[u])) /\ UnsyncedUpload(u)
                       /\ Tracked(u) /\ UNCHANGED <<baseVars, requestVars, cleanerVars>>)
  /\ \A r \in Requests :
       WF_powerVars(\/ FlushNext(r)
                    \/ /\ Flushed(r) /\ RequestStep(r)
                       /\ Tracked(r) /\ UNCHANGED <<baseVars, uploadVars, cleanerVars>>)
  /\ WF_powerVars(\/ FlushNext(Loop)
                  \/ /\ Flushed(Loop) /\ CleanerStep(Loop)
                     /\ Tracked(Loop) /\ UNCHANGED <<faults, uploadVars, requestVars>>)
  /\ \A k \in Keys :
       WF_powerVars(GoStale(k) /\ UNCHANGED <<baseVars, blobVars, uploadVars, requestVars, cleanerVars, diskVars>>)

PowerFairSpec == PowerSpec /\ PowerFairness

-----------------------------------------------------------------------------
(* Properties; ReadyAvailable, NoLeak and EndedIsErased of Relay are asked of   *)
(* this specification as well.                                                  *)

\* "Removing a submission or drop-point directory MUST likewise flush its parent before
\* file pointers are cleared" (SPEC.md:516): blobs that no pointer names cannot come back.
ClearedIsFlushed ==
  [][\A k \in Keys :
       k \in ptr /\ k \notin ptr' => TRUE \notin may[<<k[1]>>] \/ TRUE \notin may[k]]_powerVars
=============================================================================
