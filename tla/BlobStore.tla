----------------------------- MODULE BlobStore -----------------------------
(***************************************************************************)
(* The filesystem under data_dir/drop-points, as internal/blobstore/       *)
(* blobstore.go uses it: one directory per drop point, one per submission  *)
(* in it, in that payload.bin, envelope.json and the dot-temporaries of    *)
(* the uploads.  What a file holds is the upload it was written by.        *)
(***************************************************************************)
EXTENDS RelayBase

VARIABLES dropdir,  \* drop points whose directory exists
          made,     \* keys whose submission directory exists
          tmp,      \* per submission directory, the uploads with temporaries in it
          payload,  \* content of payload.bin, NoOne when it does not exist
          envelope  \* content of envelope.json, NoOne when it does not exist

blobVars == <<dropdir, made, tmp, payload, envelope>>

BlobTypeOK ==
  /\ dropdir \subseteq DropPoints
  /\ made \subseteq Keys
  /\ tmp \in [Keys -> SUBSET Uploads]
  /\ payload \in [Keys -> Owners]
  /\ envelope \in [Keys -> Owners]

BlobInit ==
  /\ dropdir = {} /\ made = {}
  /\ tmp = [k \in Keys |-> {}]
  /\ payload = [k \in Keys |-> NoOne]
  /\ envelope = [k \in Keys |-> NoOne]

\* MkdirAll of the submission directory, then both temporaries written and synced.
CreateTemps(u, k) ==
  /\ dropdir' = dropdir \cup {k[1]}
  /\ made' = made \cup {k}
  /\ tmp' = [tmp EXCEPT ![k] = @ \cup {u}]
  /\ UNCHANGED <<payload, envelope>>

RenamePayload(u, k) ==
  /\ u \in tmp[k]
  /\ payload' = [payload EXCEPT ![k] = u]
  /\ UNCHANGED <<dropdir, made, tmp, envelope>>

RenameEnvelope(u, k) ==
  /\ u \in tmp[k]
  /\ envelope' = [envelope EXCEPT ![k] = u]
  /\ tmp' = [tmp EXCEPT ![k] = @ \ {u}]
  /\ UNCHANGED <<dropdir, made, payload>>

\* The deferred removal of the temporaries when writing fails.
RemoveTemps(u, k) ==
  /\ tmp' = [tmp EXCEPT ![k] = @ \ {u}]
  /\ UNCHANGED <<dropdir, made, payload, envelope>>

\* The envelope could not be installed: the payload name is removed too,
\* whoever the file under that name belongs to by now.
RemovePayload(u, k) ==
  /\ payload' = [payload EXCEPT ![k] = NoOne]
  /\ tmp' = [tmp EXCEPT ![k] = @ \ {u}]
  /\ UNCHANGED <<dropdir, made, envelope>>

\* RemoveAll of the submission directories ks.
RemoveAll(ks) ==
  /\ made' = made \ ks
  /\ tmp' = [k \in Keys |-> IF k \in ks THEN {} ELSE tmp[k]]
  /\ payload' = [k \in Keys |-> IF k \in ks THEN NoOne ELSE payload[k]]
  /\ envelope' = [k \in Keys |-> IF k \in ks THEN NoOne ELSE envelope[k]]

DeleteSubmission(k) ==
  /\ RemoveAll({k})
  /\ UNCHANGED dropdir

\* Mutant of DeleteDropPoint: Remove instead of RemoveAll, its error ignored.
RemoveEmptyDropPoint(d) ==
  /\ dropdir' = IF made \cap KeysOf(d) = {} THEN dropdir \ {d} ELSE dropdir
  /\ UNCHANGED <<made, tmp, payload, envelope>>

DeleteDropPoint(d) ==
  /\ RemoveAll(KeysOf(d))
  /\ dropdir' = dropdir \ {d}
=============================================================================
