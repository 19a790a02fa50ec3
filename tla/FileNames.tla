----------------------------- MODULE FileNames -----------------------------
(***************************************************************************)
(* The rules for the file names of a bundle: what a sender makes of the    *)
(* names it is given (internal/cryptoenv/manifest.go, and the same rules   *)
(* in web/drop-page/app.js and scripts/drop_point_protocol.py) and what a  *)
(* receiver accepts.                                                       *)
(*                                                                         *)
(* A name is a sequence of symbols.  A symbol stands for a character, or   *)
(* for a run of characters that no rule takes apart:                       *)
(*   "con", "CON"  the letters of a Windows device name in either case     *)
(*   "receipt", "json", "file"  the words of the two built-in names        *)
(*   "(2)", "(3)"... the number that tells equal names apart               *)
(*   "eacute", "e+acute"  one letter, composed and decomposed              *)
(*   "nbsp"  white space that is not an ASCII space                        *)
(* The limits are scaled down with it: an extension, a number and one more *)
(* symbol fit in a name, as they do in the 240 bytes of the code.          *)
(***************************************************************************)
EXTENDS Naturals, Sequences, SequencesExt

CONSTANTS MaxFilenameBytes,  \* 240 in the code
          MaxExtensionBytes  \* 32 in the code

Bytes(c) == IF c \in {"eacute", "nbsp"} THEN 2 ELSE IF c = "e+acute" THEN 3 ELSE 1

Length(name) == FoldLeft(LAMBDA n, c : n + Bytes(c), 0, name)

Space == " "

\* What no name, and no stem before an extension, ends in.
Trimmed == {Space, "."}

NFC(name) == [i \in DOMAIN name |-> IF name[i] = "e+acute" THEN "eacute" ELSE name[i]]

Lower(c) == IF c = "A" THEN "a" ELSE IF c = "CON" THEN "con" ELSE c

\* Mutant of CollisionKey: names are compared as they are written.
WrittenKey(name) == NFC(name)

CollisionKey(name) == LET nfc == NFC(name) IN [i \in DOMAIN nfc |-> Lower(nfc[i])]

\* TrimRight(name, cut): the name up to its last symbol that is not in cut.
TrimRight(name, cut) == SubSeq(name, 1, SelectLastInSeq(name, LAMBDA c : c \notin cut))

Blank(name) == \A i \in DOMAIN name : name[i] \in {Space, "nbsp"}

Meaningless(name) == Blank(name) \/ name \in {<<".">>, <<".", ".">>}

ReservedWindowsName(name) ==
  LET dot == SelectInSeq(name, LAMBDA c : c = ".")
      stem == IF dot = 0 THEN name ELSE SubSeq(name, 1, dot - 1)
  IN CollisionKey(TrimRight(stem, {Space})) = <<"con">>

ReservedReceiptName == <<".", "receipt", ".", "json">>

Reserved(name) == ReservedWindowsName(name) \/ CollisionKey(name) = ReservedReceiptName

\* SanitizeFilename: what a receiver accepts, and the senders in Go and Python ask of
\* their own results.
CanonicalName(name) ==
  /\ Length(name) \in 1 .. MaxFilenameBytes
  /\ NFC(name) = name
  /\ TrimRight(name, Trimmed) = name
  /\ ~Meaningless(name)
  /\ "/" \notin ToSet(name)
  /\ ~Reserved(name)

\* The longest beginning of the name that fits, without splitting a symbol.
Truncate(name, bytes) ==
  SubSeq(name, 1, Max({n \in 0 .. Len(name) : Length(SubSeq(name, 1, n)) <= bytes}))

\* Mutant of Fit: the suffix is not counted.
FitUncounted(base, suffix) ==
  LET dot == SelectLastInSeq(base, LAMBDA c : c = ".")
      split == dot > 1 /\ Length(SubSeq(base, dot, Len(base))) <= MaxExtensionBytes
      extension == IF split THEN SubSeq(base, dot, Len(base)) ELSE <<>>
      stem == IF split THEN SubSeq(base, 1, dot - 1) ELSE base
      fitted == TrimRight(Truncate(stem, MaxFilenameBytes - Length(extension)), Trimmed)
  IN (IF Meaningless(fitted) THEN <<"file">> ELSE fitted) \o suffix \o extension

\* Mutant of Fit: the stem is cut and joined as it is.
FitUntrimmed(base, suffix) ==
  LET dot == SelectLastInSeq(base, LAMBDA c : c = ".")
      split == dot > 1 /\ Length(SubSeq(base, dot, Len(base))) <= MaxExtensionBytes
      extension == IF split THEN SubSeq(base, dot, Len(base)) ELSE <<>>
      stem == IF split THEN SubSeq(base, 1, dot - 1) ELSE base
  IN Truncate(stem, MaxFilenameBytes - Length(suffix) - Length(extension)) \o suffix \o extension

\* fitFilename: a short final extension is kept, and the suffix goes before it.  The
\* branch for a budget below one is dead: an extension and a suffix leave room.
Fit(base, suffix) ==
  LET dot == SelectLastInSeq(base, LAMBDA c : c = ".")
      split == dot > 1 /\ Length(SubSeq(base, dot, Len(base))) <= MaxExtensionBytes
      extension == IF split THEN SubSeq(base, dot, Len(base)) ELSE <<>>
      stem == IF split THEN SubSeq(base, 1, dot - 1) ELSE base
      budget == MaxFilenameBytes - Length(suffix) - Length(extension)
      fitted == TrimRight(Truncate(stem, budget), Trimmed)
  IN (IF Meaningless(fitted) THEN <<"file">> ELSE fitted) \o suffix \o extension

\* canonicalizeFilename and sanitizeManifestName, before the check that only the
\* senders in Go and Python make of the result.
Base(name) ==
  LET nfc == NFC(name)
      clean == [i \in DOMAIN nfc |-> IF nfc[i] = "/" THEN "_" ELSE nfc[i]]
      trimmed == TrimRight(clean, Trimmed)
      named == IF Meaningless(trimmed) THEN <<"file">> ELSE trimmed
  IN Fit(IF Reserved(named) THEN <<"_">> \o named ELSE named, <<>>)

\* The n-th candidate for a base name.
Candidate(base, n) ==
  IF n = 1 THEN base ELSE Fit(base, <<Space, <<"(2)", "(3)", "(4)">>[n - 1]>>)

\* Mutant of Disambiguated: only the first number is tried.
NumberedOnce(base, used) == Candidate(base, IF CollisionKey(base) \in used THEN 2 ELSE 1)

\* The loops of CanonicalizeFilenames and uniqueManifestName: the first candidate whose
\* key is free.  The numbered candidates differ, though the first of them may be the base
\* itself ("... (2)", cut and numbered again), so one of the first |used| + 2 is free.
Disambiguated(base, used) ==
  Candidate(base, Min({n \in 1 .. Cardinality(used) + 2 : CollisionKey(Candidate(base, n)) \notin used}))
=============================================================================
