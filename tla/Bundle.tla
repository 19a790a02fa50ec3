------------------------------- MODULE Bundle -------------------------------
(***************************************************************************)
(* A bundle from its sender to its receiver: the names are made canonical, *)
(* the manifest and the payload built and encrypted (EncryptBundle of      *)
(* internal/cryptoenv/reference.go, buildEncryptedBundle of                *)
(* web/drop-page/app.js, encrypt_files of scripts/drop_point_protocol.py), *)
(* and on the other side decrypted, validated and split again              *)
(* (DecryptBundle, decrypt_bundle).                                        *)
(*                                                                         *)
(* Encryption is a record of what was encrypted and for whom; it opens     *)
(* with the recipient's key only.  Parsing is left out: what is parsed is  *)
(* what was written.                                                       *)
(***************************************************************************)
EXTENDS FileNames

CONSTANTS Apps,       \* subset of {"go", "python", "page"}: who may send
          Recipients, \* the key pairs of drop points
          Names,      \* names of the first file of a bundle
          FewNames,   \* bound: the names of bundles of several files
          Sizes,      \* sizes of files
          MaxFiles    \* bound: files in a bundle (1000 in the code)

ASSUME BundleAssumption ==
  /\ Apps \subseteq {"go", "python", "page"}
  /\ Names \cup FewNames \subseteq Seq(STRING)
  /\ Sizes \subseteq Nat
  /\ MaxFiles \in 1 .. 3
  /\ MaxFilenameBytes \in Nat /\ MaxExtensionBytes \in Nat
  /\ MaxFilenameBytes - MaxExtensionBytes >= 3

VARIABLES app,       \* the program that sends
          recipient, \* the drop point whose public key it was given
          selected,  \* the files chosen: name and size
          names,     \* canonical names so far, in the same order
          phase,     \* "choosing", "refused", "sent", "rejected" or "recovered"
          envelope,  \* what the receiver was handed: the encrypted manifest
          payload,   \* and the encrypted file contents
          recovered  \* what the receiver got out of it

vars == <<app, recipient, selected, names, phase, envelope, payload, recovered>>

\* The content of file i: bytes that no other file has.
Content(i, size) == [b \in 1 .. size |-> <<i, b>>]

Sealed(plain) == [to |-> recipient, plain |-> plain]

Init ==
  /\ app \in Apps
  /\ recipient \in Recipients
  /\ selected = <<>> /\ names = <<>> /\ recovered = <<>>
  /\ phase = "choosing"
  /\ envelope = Sealed(<<>>) /\ payload = Sealed(<<>>)

-----------------------------------------------------------------------------
(* Sender *)

UsedKeys == {CollisionKey(names[i]) : i \in DOMAIN names}

Choose(name, size) ==
  /\ phase = "choosing" /\ Len(selected) < MaxFiles
  /\ selected # <<>> => {name, selected[1].name} \subseteq FewNames
  /\ selected' = Append(selected, [name |-> name, size |-> size])

\* The sender looks at one more file.
AddFile(name, size) ==
  /\ Choose(name, size)
  /\ app = "page" \/ CanonicalName(Base(name))
  /\ names' = Append(names, Disambiguated(Base(name), UsedKeys))
  /\ UNCHANGED <<app, recipient, phase, envelope, payload, recovered>>

\* The senders in Go and Python check the name they made; the page does not.
RefuseFile(name, size) ==
  /\ Choose(name, size)
  /\ app # "page" /\ ~CanonicalName(Base(name))
  /\ phase' = "refused"
  /\ UNCHANGED <<app, recipient, names, envelope, payload, recovered>>

Manifest == [i \in DOMAIN names |-> [name |-> names[i], size |-> selected[i].size]]

Plaintext == FlattenSeq([i \in DOMAIN selected |-> Content(i, selected[i].size)])

\* EncryptBundle: one pair of keys seals both parts.
Send ==
  /\ phase = "choosing" /\ selected # <<>>
  /\ phase' = "sent"
  /\ envelope' = Sealed(Manifest)
  /\ payload' = Sealed(Plaintext)
  /\ UNCHANGED <<app, recipient, selected, names, recovered>>

-----------------------------------------------------------------------------
(* Receiver *)

\* Both parts open: the envelope names the sender's public key, and with the recipient's
\* private key it gives the two keys the parts were sealed under.
Opens(r) == envelope.to = r /\ payload.to = r

SizeBefore(manifest, i) == FoldLeft(LAMBDA n, f : n + f.size, 0, SubSeq(manifest, 1, i - 1))

\* ValidateManifest.  Its running remainder says that the sizes add up to the payload.
ValidManifest(manifest, plain) ==
  /\ manifest # <<>>
  /\ \A i \in DOMAIN manifest : CanonicalName(manifest[i].name)
  /\ \A i, j \in DOMAIN manifest :
       i # j => CollisionKey(manifest[i].name) # CollisionKey(manifest[j].name)
  /\ SizeBefore(manifest, Len(manifest) + 1) = Len(plain)

\* Mutant of SplitPayload: the offset stays at the start of the payload.
SplitAtStart(manifest, plain) ==
  [i \in DOMAIN manifest |->
     [name |-> manifest[i].name, data |-> SubSeq(plain, 1, manifest[i].size)]]

SplitPayload(manifest, plain) ==
  [i \in DOMAIN manifest |->
     LET from == SizeBefore(manifest, i)
     IN [name |-> manifest[i].name, data |-> SubSeq(plain, from + 1, from + manifest[i].size)]]

Accepts(r) == Opens(r) /\ ValidManifest(envelope.plain, payload.plain)

Recover(r) ==
  /\ phase = "sent"
  /\ Accepts(r)
  /\ phase' = "recovered"
  /\ recovered' = SplitPayload(envelope.plain, payload.plain)
  /\ UNCHANGED <<app, recipient, selected, names, envelope, payload>>

Reject(r) ==
  /\ phase = "sent"
  /\ ~Accepts(r)
  /\ phase' = "rejected"
  /\ UNCHANGED <<app, recipient, selected, names, envelope, payload, recovered>>

Next ==
  \/ \E name \in Names \cup FewNames, size \in Sizes : AddFile(name, size) \/ RefuseFile(name, size)
  \/ Send
  \/ \E r \in Recipients : Recover(r) \/ Reject(r)

Spec == Init /\ [][Next]_vars

-----------------------------------------------------------------------------
(* Properties *)

\* Two names are one file where case or the composition of letters is ignored: written
\* out symbol by symbol, not with the key that the programs compare.
Alike(c, d) == c = d \/ \E pair \in {{"a", "A"}, {"con", "CON"}, {"eacute", "e+acute"}} : {c, d} = pair
SameFile(n, m) == Len(n) = Len(m) /\ \A i \in DOMAIN n : Alike(n[i], m[i])

\* A name that fitFilename has to change: it is too long, or a space or dot ends its stem.
Squeezed(name) ==
  \/ Length(name) > MaxFilenameBytes
  \/ \E i \in 1 .. Len(name) - 1 : name[i] \in Trimmed /\ name[i + 1] = "."

\* The state has its type; no name is longer than the protocol allows, numbered or not
\* (fitFilename, manifest.go:273-291).
BundleTypeOK ==
  /\ app \in Apps /\ recipient \in Recipients
  /\ phase \in {"choosing", "refused", "sent", "rejected", "recovered"}
  /\ Len(selected) \in 0 .. MaxFiles
  /\ \A i \in DOMAIN selected : selected[i].size \in Sizes
  /\ Len(names) = IF phase = "refused" THEN Len(selected) - 1 ELSE Len(selected)
  /\ \A i \in DOMAIN names : Length(names[i]) \in 1 .. MaxFilenameBytes

\* The senders in Go and Python refuse a name (manifest.go:267) only when cutting it left
\* a reserved one: the rules before the check take care of everything else it asks.
RefusedOnlyIfReserved ==
  phase = "refused" => LET name == Last(selected).name IN Squeezed(name) /\ Reserved(Base(name))

\* What a sender sealed, its recipient accepts: only a name of the page
\* that was cut to a reserved one makes it fail (ValidateManifest, manifest.go:90-129).
RejectedOnlyIfReserved ==
  phase = "sent" /\ ~Accepts(recipient) =>
    /\ app = "page"
    /\ \E i \in DOMAIN selected : Squeezed(selected[i].name) /\ Reserved(names[i])

\* A receiver gets out exactly the files that were chosen, in their order and under the
\* names they were sent with (SplitPayload, manifest.go:131-163).
RecoveredIsSent ==
  phase = "recovered" =>
    recovered = [i \in DOMAIN selected |->
                   [name |-> names[i], data |-> Content(i, selected[i].size)]]

\* Recovered files can be written side by side: no two are one file, and none is a
\* device or the receipt (ValidateManifest, manifest.go:103-119).
RecoveredApart ==
  \A i \in DOMAIN recovered :
    /\ ~\E j \in DOMAIN recovered \ {i} : SameFile(recovered[i].name, recovered[j].name)
    /\ ~SameFile(recovered[i].name, ReservedReceiptName)
    /\ ~SameFile(recovered[i].name, <<"con">>)

\* Whatever was chosen, what the page sealed is accepted: a sender MUST
\* "prefix `_` to a Windows-reserved stem or receiver-reserved name" (SPEC.md:841), and
\* the result MUST "not be ... the receiver-reserved" name (SPEC.md:838).
SentIsAccepted == phase = "sent" => Accepts(recipient)
=============================================================================
