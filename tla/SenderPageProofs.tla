-------------------------- MODULE SenderPageProofs --------------------------
(***************************************************************************)
(* The sender's page proved for every number of selections, ids,           *)
(* ciphertexts, requests in hand and faults: types, and what a retry can   *)
(* and cannot have left at the relay.                                      *)
(***************************************************************************)
EXTENDS SenderPage, TLAPS

-----------------------------------------------------------------------------
(* The inductive invariant *)

\* The ciphertext x goes under id: in a request, at the relay or at the page.
Used(id, x) ==
  \/ \E n \in Slots : put[n].pc # "free" /\ put[n].id = id /\ put[n].bundle = x
  \/ content[Row(id)] = x
  \/ page.id = id /\ page.bundle = x

\* Ids and ciphertexts in use were drawn for a selection that was made.
UsesAreDrawn ==
  \A id \in SubIds, x \in Contents : Used(id, x) => id \in drawn /\ plain[x] \in seen

\* One ciphertext per id, and one id per selection.
UsesAgree ==
  \A i, j \in SubIds, x, y \in Contents :
    Used(i, x) /\ Used(j, y) => /\ i = j <=> plain[x] = plain[y]
                                /\ i = j => x = y

\* A request in hand has an id and a ciphertext, a free slot has neither.
RequestsAreWhole ==
  \A n \in Slots : IF put[n].pc = "free" THEN put[n] = Free
                                         ELSE put[n].id \in SubIds /\ put[n].bundle \in Contents

\* What is in use for the page's selection is what the page would send again.
PageRepeats ==
  ~page.terminal =>
    /\ \A id \in SubIds, x \in Contents :
         Used(id, x) /\ plain[x] = page.files => page.id = id /\ page.bundle = x
    /\ page.id # NoId => page.bundle # NoContent

\* The page's state object.
PageInv ==
  /\ page.bundle # NoContent => plain[page.bundle] = page.files
  /\ page.files # NoBatch => page.files \in seen
  /\ page.pc = "encrypting" => page.files # NoBatch /\ page.bundle = NoContent
  /\ page.pc = "sending" => /\ put[page.slot].pc # "free" /\ put[page.slot].id = page.id
                            /\ plain[put[page.slot].bundle] = page.files

\* A submission has content exactly while the relay knows it, and a confirmed one is known.
RelayInv ==
  /\ \A id \in SubIds : sub[Row(id)] = "absent" <=> content[Row(id)] = NoContent
  /\ \A n \in Slots : put[n].pc = "ok" => drop[Here] = "purged" \/ sub[Row(put[n].id)] # "absent"

IInv ==
  /\ TypeOK
  /\ UsesAreDrawn /\ UsesAgree /\ RequestsAreWhole /\ PageRepeats /\ PageInv /\ RelayInv
  /\ SentIsStored

-----------------------------------------------------------------------------
(* Types *)

Pages ==
  [pc : {"loading", "idle", "encrypting", "sending"}, files : Batches \cup {NoBatch},
   id : SubIds \cup {NoId}, bundle : Contents \cup {NoContent}, terminal : BOOLEAN,
   slot : Slots \cup {0}]

\* A request the relay has in hand.
Puts ==
  [pc : {"free", "sent", "existing", "receiving"} \cup Answers,
   id : SubIds \cup {NoId}, bundle : Contents \cup {NoContent}]

\* The page's state objects: over for good they hold no ciphertext, and they have a slot
\* exactly while they wait for an answer.
PageTypeOK(p) ==
  /\ p \in Pages
  /\ p.terminal => p.bundle = NoContent
  /\ p.pc = "sending" <=> p.slot # 0

\* Giving up the session, failing for now and being done are page states.
LEMMA PageMoves ==
  ASSUME NEW p, PageTypeOK(p)
  PROVE  /\ PageTypeOK(Terminated(p))
         /\ PageTypeOK([p EXCEPT !.pc = "idle", !.slot = 0])
         /\ p.pc # "sending" => PageTypeOK([p EXCEPT !.pc = "idle"])
         /\ p.pc # "sending" => PageTypeOK([p EXCEPT !.pc = "encrypting"])
BY DEF PageTypeOK, Pages, Terminated

\* The relay's state keeps its types whatever its handlers do.
LEMMA HandoffTypeStep ==
  ASSUME HandoffTypeOK, [HandoffNext]_handoffVars
  PROVE  HandoffTypeOK'
BY DEF HandoffTypeOK, HandoffNext, handoffVars, Open, End, Offer, Take, Lose, Forget, Over, Keys

\* The rows of the link's drop point are all there are.
LEMMA Rows ==
  /\ \A id \in SubIds : Row(id) \in Keys /\ Row(id)[1] = Here /\ Row(id)[2] = id
  /\ \A k \in Keys : k[2] \in SubIds /\ k = Row(k[2])
  /\ \A i, j : Row(i) = Row(j) => i = j
BY PageAssumption DEF Row, Keys

\* A step that begins a request.
Sending(p) ==
  \E n \in Slots, id \in SubIds :
    /\ Request(p, id, n)
    /\ id = p.id \/ (p.id = NoId /\ id \notin drawn)

\* A page that can send sends under its id, or under one nobody drew before.
LEMMA SendIsSending ==
  ASSUME NEW p, p.id \in SubIds \cup {NoId}, Send(p)
  PROVE  Sending(p)
BY DEF Send, Sending

\* Sending keeps the types.
LEMMA SendingTypes ==
  ASSUME TypeOK, NEW p, PageTypeOK(p), ~p.terminal, Sending(p)
  PROVE  /\ PageTypeOK(page') /\ drawn' \subseteq SubIds
         /\ put' \in [Slots -> Puts]
<1>1. PICK n \in Slots, id \in SubIds : Request(p, id, n)
  BY DEF Sending
<1>2. PageTypeOK(page')
  <2>1. n # 0
    BY PageAssumption
  <2>2. QED
    BY <1>1, <2>1 DEF Request, PageTypeOK, Pages
<1>3. put \in [Slots -> Puts] /\ drawn \subseteq SubIds
  BY DEF TypeOK, Puts
<1>4. [pc |-> "sent", id |-> id, bundle |-> p.bundle] \in Puts
  BY DEF Puts, PageTypeOK, Pages
<1>5. QED
  BY <1>1, <1>2, <1>3, <1>4 DEF Request

-----------------------------------------------------------------------------
(* The relay *)

\* What the relay knows it keeps until it purges the drop point.
RelayKept ==
  /\ drop[Here] = "purged" => drop'[Here] = "purged"
  /\ \A id \in SubIds :
       /\ sub'[Row(id)] = "absent" <=> content'[Row(id)] = NoContent
       /\ sub[Row(id)] # "absent" =>
            \/ drop'[Here] = "purged"
            \/ sub'[Row(id)] # "absent" /\ content'[Row(id)] = content[Row(id)]

\* Every step uses the relay's own steps.
LEMMA StepIsHandoff ==
  ASSUME IInv, [Next]_vars
  PROVE  [HandoffNext]_handoffVars
<1>1. ASSUME NEW n \in Slots, CommitSubmission(n) \/ CommitAmbiguous(n)
      PROVE  HandoffNext
  <2>1. put[n].id \in SubIds /\ put[n].bundle \in Contents
    BY <1>1 DEF CommitSubmission, CommitAmbiguous, IInv, RequestsAreWhole
  <2>2. Row(put[n].id) \in Keys
    BY <2>1, Rows
  <2>3. Offer(Row(put[n].id), put[n].bundle)
    BY <1>1 DEF CommitSubmission, CommitAmbiguous
  <2>4. QED
    BY <2>1, <2>2, <2>3 DEF HandoffNext
<1>2. ASSUME Environment
      PROVE  [HandoffNext]_handoffVars
  <2>1. Here \in DropPoints /\ {Here} \in SUBSET DropPoints
    BY PageAssumption
  <2>2. QED
    BY <1>2, <2>1 DEF Environment, HandoffNext
<1>3. CASE Load \/ (\E b \in Batches \cup {NoBatch} : SetSelectedFiles(b)) \/ DropSelectedFiles
             \/ PageStep \/ EncryptionFails \/ NetworkError \/ Countdown
  BY <1>3
     DEF Load, SetSelectedFiles, DropSelectedFiles, PageStep, Encrypted, Answered, EncryptionFails,
         NetworkError, Countdown
<1>4. ASSUME NEW n \in Slots,
             BeginSubmission(n) \/ SubmitExisting(n) \/ Unavailable(n) \/ Undo(n) \/ Reject(n)
      PROVE  UNCHANGED handoffVars
  BY <1>4 DEF BeginSubmission, SubmitExisting, Unavailable, Undo, Reject
<1>5. QED
  BY <1>1, <1>2, <1>3, <1>4 DEF Next, HandlerStep, vars

\* The relay's steps keep what it knows.
LEMMA HandoffKeeps ==
  ASSUME IInv, [HandoffNext]_handoffVars
  PROVE  RelayKept
<1>1. /\ HandoffTypeOK /\ Here \in DropPoints
      /\ \A id \in SubIds : Row(id) \in Keys /\ Row(id)[1] = Here
      /\ \A k \in Keys : k[1] = Here
      /\ \A id \in SubIds : sub[Row(id)] = "absent" <=> content[Row(id)] = NoContent
  BY Rows, PageAssumption DEF IInv, TypeOK, RelayInv, Keys
<1> USE DEF HandoffTypeOK, RelayKept
<1>2. CASE UNCHANGED handoffVars
  BY <1>1, <1>2 DEF handoffVars
<1>3. CASE \E d \in DropPoints : Open(d)
  BY <1>1, <1>3 DEF Open
<1>4. CASE \E D \in SUBSET DropPoints, how \in Over : End(D, how)
  BY <1>1, <1>4 DEF End
<1>5. CASE \E D \in SUBSET DropPoints : Forget(D)
  BY <1>1, <1>5 DEF Forget
<1>6. CASE \E k \in Keys : Take(k) \/ Lose(k)
  BY <1>1, <1>6 DEF Take, Lose
<1>7. ASSUME NEW k \in Keys, NEW x \in Contents, Offer(k, x)
      PROVE  RelayKept
  <2>1. x # NoContent
    BY PageAssumption
  <2>2. QED
    BY <1>1, <1>7, <2>1 DEF Offer
<1>8. QED
  BY <1>2, <1>3, <1>4, <1>5, <1>6, <1>7 DEF HandoffNext

-----------------------------------------------------------------------------
(* Ids and ciphertexts in use *)

\* A step that puts nothing new in use.
LEMMA NothingNewInUse ==
  ASSUME IInv, \A id \in SubIds, x \in Contents : Used(id, x)' => Used(id, x),
         \A x \in Contents : plain[x] # NoBatch => plain'[x] = plain[x],
         seen \subseteq seen', drawn \subseteq drawn'
  PROVE  UsesAreDrawn' /\ UsesAgree'
<1>1. \A x \in Contents : plain[x] \in seen => plain'[x] = plain[x]
  BY PageAssumption DEF IInv, TypeOK
<1>2. \A id \in SubIds, x \in Contents : Used(id, x)' => Used(id, x) /\ plain'[x] = plain[x]
  BY <1>1 DEF IInv, UsesAreDrawn
<1>3. UsesAreDrawn'
  BY <1>2 DEF IInv, UsesAreDrawn
<1>4. UsesAgree'
  BY <1>2 DEF IInv, UsesAgree
<1>5. QED
  BY <1>3, <1>4

\* A request for the page's selection, with its ciphertext or the first one drawn for it.
LEMMA SendingUses ==
  ASSUME IInv, NEW p, PageTypeOK(p), Sending(p), ~page.terminal, ~p.terminal,
         p.id = page.id, p.files = page.files, page.files # NoBatch, p.bundle \in Contents,
         plain' \in [Contents -> Batches \cup {NoBatch}],
         plain'[p.bundle] = page.files,
         \A x \in Contents : plain[x] # NoBatch => plain'[x] = plain[x],
         p.bundle = page.bundle \/ page.bundle = NoContent,
         UNCHANGED <<content, seen>>
  PROVE  UsesAreDrawn' /\ UsesAgree' /\ PageRepeats'
<1>1. PICK n \in Slots, id \in SubIds :
             Request(p, id, n) /\ (id = p.id \/ (p.id = NoId /\ id \notin drawn))
  BY DEF Sending
<1>2. /\ page'.files = page.files /\ page'.id = id /\ page'.bundle = p.bundle /\ drawn' = drawn \cup {id}
      /\ put'[n] = [pc |-> "sent", id |-> id, bundle |-> p.bundle]
      /\ \A m \in Slots \ {n} : put'[m] = put[m]
  BY <1>1 DEF Request, PageTypeOK, Pages, IInv, TypeOK
<1>3. \A i \in SubIds, x \in Contents :
         Used(i, x)' => Used(i, x) \/ (i = id /\ x = p.bundle)
  BY <1>2 DEF Used, Row
<1>4. \A i \in SubIds, x \in Contents :
         Used(i, x) => i \in drawn /\ plain[x] \in seen /\ plain'[x] = plain[x]
  BY PageAssumption DEF IInv, UsesAreDrawn, TypeOK
<1>5. ASSUME NEW i \in SubIds, NEW x \in Contents, Used(i, x), plain[x] = page.files
      PROVE  i = id /\ x = p.bundle
  <2>1. page.id = i /\ page.bundle = x
    BY <1>5 DEF IInv, PageRepeats
  <2>2. i # NoId /\ x # NoContent
    BY PageAssumption
  <2>3. QED
    BY <1>1, <2>1, <2>2
<1>6. ASSUME NEW x \in Contents, Used(id, x)
      PROVE  x = p.bundle /\ plain[x] = page.files
  <2>1. id = page.id /\ id # NoId
    BY <1>1, <1>4, <1>6, PageAssumption
  <2>2. page.bundle # NoContent /\ page.bundle = p.bundle
    BY <2>1 DEF IInv, PageRepeats
  <2>3. Used(id, p.bundle)
    BY <2>1, <2>2 DEF Used
  <2>4. x = p.bundle
    BY <1>6, <2>3 DEF IInv, UsesAgree
  <2>5. plain[page.bundle] = page.files
    BY <2>2 DEF IInv, PageInv
  <2>6. QED
    BY <2>2, <2>4, <2>5
<1>7. UsesAreDrawn'
  BY <1>2, <1>3, <1>4 DEF UsesAreDrawn, IInv, PageInv
<1>8. ASSUME NEW i \in SubIds, NEW j \in SubIds, NEW x \in Contents, NEW y \in Contents,
             Used(i, x)', Used(j, y)'
      PROVE  (i = j <=> plain'[x] = plain'[y]) /\ (i = j => x = y)
  <2>1. CASE Used(i, x) /\ Used(j, y)
    BY <1>4, <2>1 DEF IInv, UsesAgree
  <2>2. CASE (i = id /\ x = p.bundle) /\ (j = id /\ y = p.bundle)
    BY <2>2
  <2>3. CASE (i = id /\ x = p.bundle) /\ Used(j, y)
    BY <1>4, <1>5, <1>6, <2>3
  <2>4. CASE Used(i, x) /\ (j = id /\ y = p.bundle)
    BY <1>4, <1>5, <1>6, <2>4
  <2>5. QED
    BY <1>3, <1>8, <2>1, <2>2, <2>3, <2>4
<1>9. UsesAgree'
  BY <1>8 DEF UsesAgree
<1>10. PageRepeats'
  <2>1. p.bundle # NoContent
    BY PageAssumption
  <2>2. QED
    BY <1>2, <1>3, <1>4, <1>5, <2>1 DEF PageRepeats
<1>11. QED
  BY <1>7, <1>9, <1>10

-----------------------------------------------------------------------------
(* Steps that begin no request *)

\* The requests in hand go on as they were, or are dropped.
PutsGoOn ==
  /\ put' \in [Slots -> Puts]
  /\ \A n \in Slots :
       \/ put'[n] = Free
       \/ /\ put[n].pc # "free" /\ put'[n].pc # "free"
          /\ put'[n].id = put[n].id /\ put'[n].bundle = put[n].bundle

\* The page still waits for the request it waited for.
PageWaits == page.pc = "sending" => put'[page.slot].pc # "free"

\* The relay stores nothing but ciphertexts of requests in hand.
StoresRequests ==
  \A id \in SubIds :
    \/ content'[Row(id)] \in {content[Row(id)], NoContent}
    \/ \E n \in Slots : put[n].pc # "free" /\ put[n].id = id /\ put[n].bundle = content'[Row(id)]

\* An answer, or its loss, concerns its request alone.
LEMMA AnswerGoesOn ==
  ASSUME IInv, NEW n \in Slots, put[n].pc # "free",
         \/ \E a \in Answers : Answer(n, a)
         \/ \E pc \in {"existing", "receiving"} : Advance(n, pc)
         \/ page.slot # n /\ put' = [put EXCEPT ![n] = Free]
  PROVE  PutsGoOn /\ PageWaits
<1>1. /\ put \in [Slots -> Puts] /\ page.slot \in Slots \cup {0}
      /\ page.pc = "sending" => page.slot # 0 /\ put[page.slot].pc # "free"
      /\ \A m \in Slots : put[m].pc = "free" => put[m] = Free
  BY DEF IInv, TypeOK, Puts, PageInv, RequestsAreWhole
<1>2. Free \in Puts
  BY DEF Free, Puts
<1>3. ASSUME NEW pc \in Answers \cup {"existing", "receiving"}, NEW q, q = [put[n] EXCEPT !.pc = pc]
      PROVE  q \in Puts /\ q.pc = pc /\ q.id = put[n].id /\ q.bundle = put[n].bundle
  BY <1>1, <1>3 DEF Puts
<1>4. \A pc \in Answers \cup {"existing", "receiving"} : pc # "free"
  BY DEF Answers
<1>5. CASE \E pc \in Answers \cup {"existing", "receiving"} : put' = [put EXCEPT ![n] = [@ EXCEPT !.pc = pc]]
  <2>1. PICK pc \in Answers \cup {"existing", "receiving"} : put' = [put EXCEPT ![n] = [put[n] EXCEPT !.pc = pc]]
    BY <1>5
  <2>2. PICK q : q = [put[n] EXCEPT !.pc = pc]
    OBVIOUS
  <2>3. put' = [put EXCEPT ![n] = q]
    BY <2>1, <2>2
  <2>4. q \in Puts /\ q.pc # "free" /\ q.id = put[n].id /\ q.bundle = put[n].bundle
    BY <2>2, <1>3, <1>4
  <2>5. put' \in [Slots -> Puts]
    BY <1>1, <2>3, <2>4
  <2>6. \A m \in Slots : put'[m] = IF m = n THEN q ELSE put[m]
    BY <1>1, <2>3
  <2>7. QED
    BY <1>1, <2>4, <2>5, <2>6 DEF PutsGoOn, PageWaits
<1>6. CASE page.slot # n /\ put' = [put EXCEPT ![n] = Free]
  <2>1. put' \in [Slots -> Puts]
    BY <1>1, <1>2, <1>6
  <2>2. QED
    BY <1>1, <1>6, <2>1 DEF PutsGoOn, PageWaits
<1>7. QED
  BY <1>5, <1>6 DEF Answer, Advance

\* Steps that begin no request put nothing new in use, and leave requests whole.
LEMMA NothingBegun ==
  ASSUME IInv, PutsGoOn, StoresRequests,
         page'.bundle # NoContent => page'.id = page.id /\ page'.bundle = page.bundle,
         \A x \in Contents : plain[x] # NoBatch => plain'[x] = plain[x],
         seen \subseteq seen', UNCHANGED drawn
  PROVE  /\ UsesAreDrawn' /\ UsesAgree' /\ RequestsAreWhole'
         /\ \A id \in SubIds, x \in Contents :
              Used(id, x)' => Used(id, x) /\ plain[x] \in seen /\ plain'[x] = plain[x]
<1>1. NoContent \notin Contents
  BY PageAssumption
<1>2. ASSUME NEW id \in SubIds, NEW x \in Contents, Used(id, x)'
      PROVE  Used(id, x)
  <2>1. CASE \E n \in Slots : put'[n].pc # "free" /\ put'[n].id = id /\ put'[n].bundle = x
    BY <2>1 DEF PutsGoOn, Free, Used
  <2>2. CASE content'[Row(id)] = x
    BY <1>1, <2>2 DEF StoresRequests, Used
  <2>3. CASE page'.id = id /\ page'.bundle = x
    BY <1>1, <2>3 DEF Used
  <2>4. Row(id)' = Row(id)
    BY DEF Row
  <2>5. QED
    BY <1>2, <2>1, <2>2, <2>3, <2>4 DEF Used
<1>3. UsesAreDrawn' /\ UsesAgree'
  BY <1>2, NothingNewInUse
<1>4. RequestsAreWhole'
  BY DEF PutsGoOn, RequestsAreWhole, IInv, Free
<1>5. \A id \in SubIds, x \in Contents : Used(id, x) => plain[x] \in seen /\ plain[x] # NoBatch
  BY PageAssumption DEF IInv, UsesAreDrawn, TypeOK
<1>6. QED
  BY <1>2, <1>3, <1>4, <1>5

\* The relay's steps and the receiver's leave the page as it is.
LEMMA OthersStep ==
  ASSUME IInv, PutsGoOn, PageWaits, StoresRequests, UNCHANGED <<page, seen, drawn, plain>>
  PROVE  UsesAreDrawn' /\ UsesAgree' /\ RequestsAreWhole' /\ PageRepeats' /\ PageInv'
<1>1. /\ UsesAreDrawn' /\ UsesAgree' /\ RequestsAreWhole'
      /\ \A id \in SubIds, x \in Contents : Used(id, x)' => Used(id, x)
  BY NothingBegun
<1>2. PageRepeats'
  BY <1>1 DEF PageRepeats, IInv
<1>3. PageInv'
  <2>1. page.pc = "sending" => page.slot \in Slots
    BY DEF IInv, TypeOK
  <2>2. page.pc = "sending" => /\ put'[page.slot].id = put[page.slot].id
                               /\ put'[page.slot].bundle = put[page.slot].bundle
    BY <2>1 DEF PutsGoOn, PageWaits, Free
  <2>3. QED
    BY <2>2 DEF IInv, PageInv, PageWaits
<1>4. QED
  BY <1>1, <1>2, <1>3

\* What the page does without beginning a request: it ends, goes on with its selection
\* or makes another one.
PageGoesOn ==
  /\ \/ page'.terminal /\ page'.bundle = NoContent
     \/ /\ page'.files = page.files /\ page'.id = page.id /\ page'.bundle = page.bundle
        /\ page'.terminal = page.terminal /\ plain' = plain
     \/ page'.files \notin seen /\ page'.id = NoId /\ page'.bundle = NoContent
  /\ page'.files # NoBatch => page'.files \in seen'
  /\ page'.pc = "encrypting" => page'.files # NoBatch /\ page'.bundle = NoContent
  /\ page'.pc = "sending" =>
       /\ page.pc = "sending" /\ page'.slot = page.slot /\ page'.id = page.id
       /\ page'.files = page.files /\ put' = put /\ plain' = plain

\* A step that begins no request keeps the invariants about ids and ciphertexts in use.
LEMMA PageStepKeeps ==
  ASSUME IInv, PutsGoOn, PageGoesOn,
         \A x \in Contents : plain[x] # NoBatch => plain'[x] = plain[x],
         seen \subseteq seen', UNCHANGED <<content, drawn>>
  PROVE  UsesAreDrawn' /\ UsesAgree' /\ RequestsAreWhole' /\ PageRepeats' /\ PageInv'
<1>1. page'.bundle # NoContent => page'.id = page.id /\ page'.bundle = page.bundle
  BY DEF PageGoesOn
<1>2. StoresRequests
  BY DEF StoresRequests, Row
<1>3. /\ UsesAreDrawn' /\ UsesAgree' /\ RequestsAreWhole'
      /\ \A id \in SubIds, x \in Contents :
           Used(id, x)' => Used(id, x) /\ plain[x] \in seen /\ plain'[x] = plain[x]
  BY <1>1, <1>2, NothingBegun
<1>4. PageRepeats'
  <2>1. CASE page'.terminal
    BY <2>1 DEF PageRepeats
  <2>2. CASE /\ page'.files = page.files /\ page'.id = page.id /\ page'.bundle = page.bundle
             /\ page'.terminal = page.terminal /\ plain' = plain
    BY <1>3, <2>2 DEF PageRepeats, IInv
  <2>3. CASE page'.files \notin seen /\ page'.id = NoId /\ page'.bundle = NoContent
    BY <1>3, <2>3 DEF PageRepeats
  <2>4. QED
    BY <2>1, <2>2, <2>3 DEF PageGoesOn
<1>5. PageInv'
  <2>1. page'.bundle # NoContent => plain'[page'.bundle] = page'.files
    BY DEF PageGoesOn, IInv, PageInv
  <2>2. QED
    BY <2>1 DEF PageGoesOn, IInv, PageInv
<1>6. QED
  BY <1>3, <1>4, <1>5

-----------------------------------------------------------------------------
(* The steps, one by one *)

\* The types of everything but the relay.
PageTypes ==
  /\ PageTypeOK(page)
  /\ over \in BOOLEAN /\ seen \subseteq Batches /\ drawn \subseteq SubIds
  /\ plain \in [Contents -> Batches \cup {NoBatch}]
  /\ sent \subseteq Batches \X SubIds
  /\ put \in [Slots -> Puts]
  /\ faults \in 0 .. MaxFaults

\* The types are the relay's and the page's.
LEMMA TypeParts ==
  TypeOK <=> HandoffTypeOK /\ PageTypes
BY DEF TypeOK, PageTypes, PageTypeOK, Pages, Puts

PageKeeps == PageTypes /\ UsesAreDrawn /\ UsesAgree /\ RequestsAreWhole /\ PageRepeats /\ PageInv

\* Each fault is counted, up to the bound.
LEMMA FaultTypes ==
  ASSUME PageTypes, Fault
  PROVE  faults' \in 0 .. MaxFaults
BY PageAssumption DEF PageTypes, Fault

\* Nothing in hand changes when the requests do not.
LEMMA PutsStay ==
  ASSUME IInv, UNCHANGED put
  PROVE  PutsGoOn
BY TypeParts DEF PutsGoOn, IInv, RequestsAreWhole, PageTypes

\* Loading the page keeps the invariant: it begins no request.
LEMMA LoadKeeps ==
  ASSUME IInv, Load
  PROVE  PageKeeps'
<1>1. PageTypes /\ PageTypeOK(page) /\ page.pc # "sending"
  BY TypeParts DEF Load, IInv, PageTypes
<1>2. PageTypeOK(page')
  BY <1>1, PageMoves DEF Load
<1>3. PageTypes'
  BY <1>1, <1>2 DEF Load, PageTypes
<1>4. PageGoesOn
  BY <1>1 DEF Load, Terminated, PageGoesOn, PageTypeOK, Pages, IInv, PageInv
<1>5. PutsGoOn
  BY PutsStay DEF Load
<1>6. QED
  BY <1>3, <1>4, <1>5, PageStepKeeps DEF Load, handoffVars, PageKeeps

\* So does choosing files: a new selection is in use nowhere yet.
LEMMA SetSelectedFilesKeeps ==
  ASSUME IInv, NEW b \in Batches \cup {NoBatch}, SetSelectedFiles(b)
  PROVE  PageKeeps'
<1>1. PageTypes /\ PageTypeOK(page) /\ page.pc = "idle" /\ ~page.terminal
  BY TypeParts DEF SetSelectedFiles, Ready, IInv, PageTypes
<1>2. PageTypeOK(page')
  BY <1>1 DEF SetSelectedFiles, PageTypeOK, Pages
<1>3. PageTypes'
  BY <1>1, <1>2 DEF SetSelectedFiles, PageTypes
<1>4. PageGoesOn
  BY <1>1 DEF SetSelectedFiles, PageGoesOn, PageTypeOK, Pages
<1>5. PutsGoOn
  BY PutsStay DEF SetSelectedFiles
<1>6. QED
  BY <1>3, <1>4, <1>5, PageStepKeeps DEF SetSelectedFiles, handoffVars, PageKeeps

\* So does the countdown: it ends the session.
LEMMA CountdownKeeps ==
  ASSUME IInv, Countdown
  PROVE  PageKeeps'
<1>1. PageTypes /\ PageTypeOK(page) /\ ~page.terminal
  BY TypeParts DEF Countdown, IInv, PageTypes
<1>2. PageTypeOK(page')
  BY <1>1 DEF Countdown, PageTypeOK, Pages
<1>3. PageTypes'
  BY <1>1, <1>2 DEF Countdown, PageTypes
<1>4. PageGoesOn
  BY <1>1 DEF Countdown, PageGoesOn, PageTypeOK, Pages, IInv, PageInv
<1>5. PutsGoOn
  BY PutsStay DEF Countdown
<1>6. QED
  BY <1>3, <1>4, <1>5, PageStepKeeps DEF Countdown, handoffVars, PageKeeps

\* So does an encryption that fails: nothing was drawn.
LEMMA EncryptionFailsKeeps ==
  ASSUME IInv, EncryptionFails
  PROVE  PageKeeps'
<1>1. PageTypes /\ PageTypeOK(page) /\ page.pc = "encrypting"
  BY TypeParts DEF EncryptionFails, IInv, PageTypes
<1>2. PageTypeOK(page')
  BY <1>1, PageMoves DEF EncryptionFails, Failed
<1>3. PageTypes'
  BY <1>1, <1>2, FaultTypes DEF EncryptionFails, PageTypes
<1>4. PageGoesOn
  BY <1>1 DEF EncryptionFails, Failed, Terminated, PageGoesOn, PageTypeOK, Pages, IInv, PageInv
<1>5. PutsGoOn
  BY PutsStay DEF EncryptionFails
<1>6. QED
  BY <1>3, <1>4, <1>5, PageStepKeeps DEF EncryptionFails, handoffVars, PageKeeps

\* Reading or losing an answer frees its slot at most.
LEMMA SlotFreed ==
  ASSUME IInv, page.pc = "sending",
         put' = put \/ put' = [put EXCEPT ![page.slot] = Free]
  PROVE  PutsGoOn
<1>1. Free \in Puts /\ put \in [Slots -> Puts] /\ page.slot \in Slots
  BY TypeParts DEF Free, Puts, IInv, PageTypes, PageTypeOK, Pages
<1>2. \A n \in Slots : put[n].pc = "free" => put[n] = Free
  BY DEF IInv, RequestsAreWhole
<1>3. put' \in [Slots -> Puts] /\ \A n \in Slots : put'[n] \in {Free, put[n]}
  BY <1>1
<1>4. QED
  BY <1>2, <1>3 DEF PutsGoOn

\* So does a lost answer: the page keeps the id and ciphertext it has for the retry.
LEMMA NetworkErrorKeeps ==
  ASSUME IInv, NetworkError
  PROVE  PageKeeps'
<1>1. PageTypes /\ PageTypeOK(page) /\ page.pc = "sending"
  BY TypeParts DEF NetworkError, IInv, PageTypes
<1>2. PageTypeOK(page')
  BY <1>1, PageMoves DEF NetworkError, Failed
<1>3. PutsGoOn
  BY <1>1, SlotFreed DEF NetworkError
<1>4. PageTypes'
  BY <1>1, <1>2, <1>3, FaultTypes DEF NetworkError, PageTypes, PutsGoOn
<1>5. PageGoesOn
  BY <1>1 DEF NetworkError, Failed, Terminated, PageGoesOn, PageTypeOK, Pages, IInv, PageInv
<1>6. QED
  BY <1>3, <1>4, <1>5, PageStepKeeps DEF NetworkError, handoffVars, PageKeeps

\* A page that waits for an answer has a selection, its id and a slot.
LEMMA SendingPage ==
  ASSUME IInv, page.pc = "sending"
  PROVE  /\ page.files \in Batches /\ page.id \in SubIds /\ page.slot \in Slots
         /\ put[page.slot].pc # "free" /\ put[page.slot].id = page.id
         /\ put[page.slot].bundle \in Contents /\ plain[put[page.slot].bundle] = page.files
         /\ Used(page.id, put[page.slot].bundle)
<1>1. PageTypes /\ page.slot \in Slots
  BY TypeParts DEF IInv, PageTypes, PageTypeOK, Pages
<1>2. /\ put[page.slot].pc # "free" /\ put[page.slot].id = page.id
      /\ plain[put[page.slot].bundle] = page.files
  BY DEF IInv, PageInv
<1>3. page.id \in SubIds /\ put[page.slot].bundle \in Contents
  BY <1>1, <1>2 DEF IInv, RequestsAreWhole
<1>4. Used(page.id, put[page.slot].bundle)
  BY <1>1, <1>2 DEF Used
<1>5. plain[put[page.slot].bundle] \in seen
  BY <1>3, <1>4 DEF IInv, UsesAreDrawn
<1>6. QED
  BY <1>1, <1>2, <1>3, <1>4, <1>5 DEF PageTypes

\* So does an answer of the relay, whichever it is.
LEMMA AnsweredKeeps ==
  ASSUME IInv, Answered
  PROVE  PageKeeps'
<1>1. PageTypes /\ PageTypeOK(page) /\ page.pc = "sending"
  BY TypeParts DEF Answered, IInv, PageTypes
<1>2. PICK done : done = [page EXCEPT !.pc = "idle", !.files = NoBatch, !.id = NoId,
                                      !.bundle = NoContent, !.slot = 0]
  OBVIOUS
<1>3. /\ PageTypeOK(done) /\ done.pc = "idle" /\ done.files = NoBatch /\ done.id = NoId
      /\ done.bundle = NoContent
  BY <1>1, <1>2 DEF PageTypeOK, Pages
<1>4. \/ put[page.slot].pc = "ok" /\ page' \in {Terminated(done), done}
         /\ sent' = sent \cup {<<page.files, page.id>>}
      \/ (page' = Terminated(page) \/ Failed) /\ UNCHANGED sent
  BY <1>2 DEF Answered
<1>5. PageTypeOK(page')
  BY <1>1, <1>3, <1>4, PageMoves DEF Failed
<1>6. PutsGoOn
  BY <1>1, SlotFreed DEF Answered
<1>7. sent' \subseteq Batches \X SubIds
  BY <1>1, <1>4, SendingPage DEF PageTypes
<1>8. PageTypes'
  BY <1>1, <1>5, <1>6, <1>7 DEF Answered, PageTypes, PutsGoOn
<1>9. PageGoesOn
  <2>1. plain' = plain /\ seen' = seen /\ NoBatch \notin seen
    BY <1>1, PageAssumption DEF Answered, PageTypes
  <2>2. CASE page' = done
    BY <1>3, <2>1, <2>2 DEF PageGoesOn
  <2>3. CASE page' = Terminated(done)
    BY <1>3, <2>1, <2>3 DEF PageGoesOn, Terminated, PageTypeOK, Pages
  <2>4. CASE page' = Terminated(page) \/ Failed
    BY <1>1, <2>1, <2>4 DEF PageGoesOn, Terminated, Failed, PageTypeOK, Pages, IInv, PageInv
  <2>5. QED
    BY <1>4, <2>2, <2>3, <2>4
<1>10. QED
  BY <1>6, <1>8, <1>9, PageStepKeeps DEF Answered, handoffVars, PageKeeps

\* What a request's beginning leaves of the invariant's parts about requests and page.
LEMMA SendingWhole ==
  ASSUME IInv, NEW p, PageTypeOK(p), Sending(p), p.bundle \in Contents, ~p.terminal,
         p.files = page.files, page.files \in seen, plain'[p.bundle] = page.files,
         UNCHANGED seen
  PROVE  RequestsAreWhole' /\ PageInv'
<1>1. PICK n \in Slots, id \in SubIds : Request(p, id, n)
  BY DEF Sending
<1>2. /\ page'.files = page.files /\ page'.id = id /\ page'.bundle = p.bundle
      /\ page'.pc = "sending" /\ page'.slot = n
  BY <1>1 DEF Request, PageTypeOK, Pages
<1>3. /\ put'[n] = [pc |-> "sent", id |-> id, bundle |-> p.bundle]
      /\ \A m \in Slots \ {n} : put'[m] = put[m]
  BY <1>1 DEF Request, IInv, TypeOK
<1>4. RequestsAreWhole'
  BY <1>3 DEF RequestsAreWhole, IInv, Free
<1>5. PageInv'
  BY <1>2, <1>3 DEF PageInv
<1>6. QED
  BY <1>4, <1>5

\* Sending or retrying keeps it: what was encrypted goes out again under the same id.
LEMMA DropSelectedFilesKeeps ==
  ASSUME IInv, DropSelectedFiles
  PROVE  PageKeeps'
<1>1. /\ PageTypes /\ PageTypeOK(page) /\ page.pc = "idle" /\ ~page.terminal
      /\ page.files # NoBatch /\ page.files \in seen /\ page.id \in SubIds \cup {NoId}
  BY TypeParts DEF DropSelectedFiles, Ready, IInv, PageTypes, PageTypeOK, Pages, PageInv
<1>2. CASE over /\ page' = Terminated(page) /\ UNCHANGED <<put, drawn>>
  <2>1. PageTypes'
    BY <1>1, <1>2, PageMoves DEF DropSelectedFiles, PageTypes
  <2>2. PageGoesOn
    BY <1>1, <1>2 DEF DropSelectedFiles, Terminated, PageGoesOn, PageTypeOK, Pages
  <2>3. QED
    BY <1>2, <2>1, <2>2, PutsStay, PageStepKeeps DEF DropSelectedFiles, handoffVars, PageKeeps
<1>3. CASE page.bundle = NoContent /\ page' = [page EXCEPT !.pc = "encrypting"] /\ UNCHANGED <<put, drawn>>
  <2>1. PageTypes'
    BY <1>1, <1>3, PageMoves DEF DropSelectedFiles, PageTypes
  <2>2. PageGoesOn
    BY <1>1, <1>3 DEF DropSelectedFiles, PageGoesOn, PageTypeOK, Pages
  <2>3. QED
    BY <1>3, <2>1, <2>2, PutsStay, PageStepKeeps DEF DropSelectedFiles, handoffVars, PageKeeps
<1>4. CASE page.bundle # NoContent /\ Send(page)
  <2>1. Sending(page)
    BY <1>1, <1>4, SendIsSending
  <2>2. page.bundle \in Contents /\ plain[page.bundle] = page.files /\ UNCHANGED <<plain, seen, content>>
    BY <1>1, <1>4 DEF IInv, PageInv, PageTypeOK, Pages, DropSelectedFiles, handoffVars
  <2>3. PageTypeOK(page') /\ drawn' \subseteq SubIds /\ put' \in [Slots -> Puts]
    BY <1>1, <2>1, SendingTypes DEF IInv
  <2>4. PageTypes'
    BY <1>1, <2>3 DEF DropSelectedFiles, PageTypes
  <2>5. UsesAreDrawn' /\ UsesAgree' /\ PageRepeats'
    BY <1>1, <2>1, <2>2, SendingUses DEF PageTypes
  <2>6. RequestsAreWhole' /\ PageInv'
    BY <1>1, <2>1, <2>2, SendingWhole
  <2>7. QED
    BY <2>4, <2>5, <2>6 DEF PageKeeps
<1>5. QED
  BY <1>2, <1>3, <1>4 DEF DropSelectedFiles

\* An encryption that ends keeps it: no request, row or page had its ciphertext before.
LEMMA EncryptedKeeps ==
  ASSUME IInv, Encrypted
  PROVE  PageKeeps'
<1>1. PICK x \in Contents :
        /\ plain[x] = NoBatch
        /\ plain' = [plain EXCEPT ![x] = page.files]
        /\ \/ (page.terminal \/ over) /\ page' = Terminated(page) /\ UNCHANGED <<put, drawn>>
           \/ ~page.terminal /\ Send([page EXCEPT !.bundle = x])
  BY DEF Encrypted
<1>2. /\ PageTypes /\ PageTypeOK(page) /\ page.pc = "encrypting" /\ page.bundle = NoContent
      /\ page.files # NoBatch /\ page.files \in seen /\ page.files \in Batches
      /\ page.id \in SubIds \cup {NoId}
  BY TypeParts DEF Encrypted, IInv, PageTypes, PageTypeOK, Pages, PageInv
<1>3. /\ plain' \in [Contents -> Batches \cup {NoBatch}] /\ plain'[x] = page.files
      /\ \A y \in Contents : plain[y] # NoBatch => plain'[y] = plain[y]
  BY <1>1, <1>2 DEF PageTypes
<1>4. CASE page' = Terminated(page) /\ UNCHANGED <<put, drawn>>
  <2>1. PageTypes'
    BY <1>2, <1>3, <1>4, PageMoves DEF Encrypted, PageTypes
  <2>2. PageGoesOn
    BY <1>2, <1>4 DEF Encrypted, Terminated, PageGoesOn, PageTypeOK, Pages
  <2>3. UNCHANGED <<content, seen>>
    BY DEF Encrypted, handoffVars
  <2>4. QED
    BY <1>3, <1>4, <2>1, <2>2, <2>3, PutsStay, PageStepKeeps DEF PageKeeps
<1>5. CASE ~page.terminal /\ Send([page EXCEPT !.bundle = x])
  <2>1. PICK p : p = [page EXCEPT !.bundle = x]
    OBVIOUS
  <2>2. /\ PageTypeOK(p) /\ p.id = page.id /\ p.files = page.files /\ p.bundle = x /\ ~p.terminal
        /\ UNCHANGED <<seen, content>>
    BY <1>2, <1>5, <2>1 DEF PageTypeOK, Pages, Encrypted, handoffVars
  <2>3. Send(p)
    BY <1>5, <2>1
  <2>4. Sending(p)
    BY <1>2, <2>2, <2>3, SendIsSending
  <2>5. PageTypeOK(page') /\ drawn' \subseteq SubIds /\ put' \in [Slots -> Puts]
    BY <2>2, <2>4, SendingTypes DEF IInv
  <2>6. PageTypes'
    BY <1>2, <1>3, <2>5 DEF Encrypted, PageTypes
  <2>7. UsesAreDrawn' /\ UsesAgree' /\ PageRepeats'
    BY <1>2, <1>3, <1>5, <2>2, <2>4, SendingUses
  <2>8. RequestsAreWhole' /\ PageInv'
    BY <1>2, <1>3, <2>2, <2>4, SendingWhole
  <2>9. QED
    BY <2>6, <2>7, <2>8 DEF PageKeeps
<1>6. QED
  BY <1>1, <1>4, <1>5

\* The relay's handlers go on with requests in hand, and begin none.
LEMMA HandlersGoOn ==
  ASSUME IInv, NEW n \in Slots, HandlerStep(n) \/ CommitAmbiguous(n) \/ Reject(n)
  PROVE  put[n].pc # "free" /\ PutsGoOn /\ PageWaits
<1>1. /\ put[n].pc # "free"
      /\ \/ \E a \in Answers : Answer(n, a)
         \/ \E pc \in {"existing", "receiving"} : Advance(n, pc)
         \/ page.slot # n /\ put' = [put EXCEPT ![n] = Free]
  <2>1. CASE BeginSubmission(n)
    BY <2>1 DEF BeginSubmission
  <2>2. CASE SubmitExisting(n)
    BY <2>2 DEF SubmitExisting, Answers
  <2>3. CASE Unavailable(n)
    BY <2>3 DEF Unavailable, Answers
  <2>4. CASE CommitSubmission(n) \/ CommitAmbiguous(n)
    BY <2>4 DEF CommitSubmission, CommitAmbiguous, Answers
  <2>5. CASE Reject(n)
    BY <2>5 DEF Reject, Answers
  <2>6. CASE Undo(n)
    BY <2>6 DEF Undo
  <2>7. QED
    BY <2>1, <2>2, <2>3, <2>4, <2>5, <2>6 DEF HandlerStep
<1>2. QED
  BY <1>1, AnswerGoesOn

\* The relay's handlers.
LEMMA HandlersKeep ==
  ASSUME IInv, NEW n \in Slots, HandlerStep(n) \/ CommitAmbiguous(n) \/ Reject(n)
  PROVE  PageKeeps'
<1>1. /\ PageTypes /\ UNCHANGED <<page, over, seen, drawn, plain, sent>>
      /\ faults' \in 0 .. MaxFaults
  BY TypeParts, FaultTypes
     DEF IInv, PageTypes, pageVars, HandlerStep, BeginSubmission, SubmitExisting, Unavailable,
         CommitSubmission, Undo, CommitAmbiguous, Reject
<1>2. put[n].pc # "free"
  BY HandlersGoOn
<1>3. PutsGoOn /\ PageWaits
  BY HandlersGoOn
<1>4. StoresRequests
  <2>1. CASE CommitSubmission(n) \/ CommitAmbiguous(n)
    <3>1. put[n].id \in SubIds /\ put[n].bundle \in Contents
      BY <1>2 DEF IInv, RequestsAreWhole
    <3>2. content' = [content EXCEPT ![Row(put[n].id)] = put[n].bundle] /\ content \in [Keys -> Contents \cup {NoContent}]
      BY <2>1 DEF CommitSubmission, CommitAmbiguous, Offer, IInv, TypeOK, HandoffTypeOK
    <3>3. QED
      BY <1>2, <3>1, <3>2, Rows DEF StoresRequests
  <2>2. CASE UNCHANGED content
    BY <2>2 DEF StoresRequests, Row
  <2>3. QED
    BY <2>1, <2>2
       DEF HandlerStep, BeginSubmission, SubmitExisting, Unavailable, Undo, Reject, handoffVars
<1>5. PageTypes'
  BY <1>1, <1>3 DEF PageTypes, PutsGoOn
<1>6. QED
  BY <1>1, <1>3, <1>4, <1>5, OthersStep DEF PageKeeps

\* The receiver, the cleanup and the clock.
LEMMA EnvironmentKeeps ==
  ASSUME IInv, Environment
  PROVE  PageKeeps'
<1>1. /\ PageTypes /\ UNCHANGED <<page, seen, drawn, plain, sent, put, faults>>
      /\ over' \in BOOLEAN
  BY TypeParts DEF IInv, PageTypes, pageVars, Environment
<1>2. PageTypes'
  BY <1>1 DEF PageTypes
<1>3. PutsGoOn /\ PageWaits
  BY <1>1, PutsStay DEF PageWaits, IInv, PageInv
<1>4. StoresRequests
  BY Rows DEF Environment, StoresRequests, handoffVars, Open, End, Forget, Take, Lose
<1>5. QED
  BY <1>1, <1>2, <1>3, <1>4, OthersStep DEF PageKeeps

\* Every step keeps the page's part of the invariant.
LEMMA StepKeeps ==
  ASSUME IInv, [Next]_vars
  PROVE  PageKeeps'
<1>1. CASE UNCHANGED vars
  <2>1. PageTypes' /\ PutsGoOn /\ PageWaits /\ StoresRequests
    BY <1>1, TypeParts, PutsStay
       DEF vars, pageVars, handoffVars, IInv, PageTypes, PageWaits, PageInv, StoresRequests, Row
  <2>2. QED
    BY <1>1, <2>1, OthersStep DEF vars, pageVars, PageKeeps
<1>2. QED
  BY <1>1, LoadKeeps, SetSelectedFilesKeeps, DropSelectedFilesKeeps, EncryptedKeeps, AnsweredKeeps,
     EncryptionFailsKeeps, NetworkErrorKeeps, CountdownKeeps, HandlersKeep, EnvironmentKeeps
     DEF Next, PageStep

-----------------------------------------------------------------------------
(* What was confirmed *)

\* Answered "ok" is a request whose submission the relay knows.
OkIsKnown(n) == put[n].pc = "ok" => drop[Here] = "purged" \/ sub[Row(put[n].id)] # "absent"

\* A request answered "ok" before stays known to the relay.
LEMMA OkStaysKnown ==
  ASSUME IInv, RelayKept, NEW n \in Slots, put'[n] = put[n]
  PROVE  OkIsKnown(n)'
<1>1. CASE put[n].pc = "ok"
  <2>1. put[n].id \in SubIds
    BY <1>1 DEF IInv, RequestsAreWhole
  <2>2. OkIsKnown(n)
    BY DEF IInv, RelayInv, OkIsKnown
  <2>3. drop[Here] = "purged" \/ sub[Row(put[n].id)] # "absent"
    BY <1>1, <2>2 DEF OkIsKnown
  <2>4. drop'[Here] = "purged" \/ sub'[Row(put[n].id)] # "absent"
    BY <2>1, <2>3 DEF RelayKept
  <2>5. QED
    BY <2>4 DEF OkIsKnown, Row
<1>2. CASE put[n].pc # "ok"
  BY <1>2 DEF OkIsKnown
<1>3. QED
  BY <1>1, <1>2

\* A handler answers "ok" for what is stored.
LEMMA AnswerIsKnown ==
  ASSUME IInv, RelayKept, NEW n \in Slots, NEW a, Answer(n, a), put[n].pc # "free",
         a = "ok" => sub'[Row(put[n].id)] # "absent"
  PROVE  \A m \in Slots : OkIsKnown(m)'
<1>1. put \in [Slots -> Puts]
  BY TypeParts DEF IInv, PageTypes
<1>2. PICK q : q = [put[n] EXCEPT !.pc = a]
  OBVIOUS
<1>3. q.pc = a /\ q.id = put[n].id
  BY <1>1, <1>2 DEF Puts
<1>4. put'[n] \in {q, Free} /\ \A m \in Slots \ {n} : put'[m] = put[m]
  BY <1>1, <1>2 DEF Answer
<1>5. OkIsKnown(n)'
  BY <1>3, <1>4 DEF OkIsKnown, Free, Row
<1>6. \A m \in Slots \ {n} : OkIsKnown(m)'
  BY <1>4, OkStaysKnown
<1>7. QED
  BY <1>5, <1>6

\* Every request answered "ok" is known after every step.
LEMMA OkStep ==
  ASSUME IInv, [Next]_vars, RelayKept
  PROVE  \A n \in Slots : OkIsKnown(n)'
<1>1. put \in [Slots -> Puts]
  BY TypeParts DEF IInv, PageTypes
<1>2. CASE \A n \in Slots : put'[n] = put[n] \/ put'[n].pc # "ok"
  BY <1>2, OkStaysKnown DEF OkIsKnown
<1>3. CASE Load \/ (\E b \in Batches \cup {NoBatch} : SetSelectedFiles(b)) \/ EncryptionFails
             \/ Countdown \/ Environment \/ UNCHANGED vars
  BY <1>2, <1>3 DEF Load, SetSelectedFiles, EncryptionFails, Countdown, Environment, vars
<1>4. CASE Answered \/ NetworkError
  <2>1. put' = put \/ put' = [put EXCEPT ![page.slot] = Free]
    BY <1>4 DEF Answered, NetworkError
  <2>2. QED
    BY <1>1, <1>2, <2>1 DEF Free
<1>5. CASE DropSelectedFiles \/ Encrypted
  <2>1. ASSUME NEW n \in Slots, NEW id, NEW p, Request(p, id, n)
        PROVE  \A m \in Slots : put'[m] = put[m] \/ put'[m].pc # "ok"
    <3>1. PICK q : q = [pc |-> "sent", id |-> id, bundle |-> p.bundle]
      OBVIOUS
    <3>2. put' = [put EXCEPT ![n] = q] /\ q.pc = "sent"
      BY <2>1, <3>1 DEF Request
    <3>3. QED
      BY <1>1, <3>2
  <2>2. put' = put \/ \E n \in Slots : \E id, p : Request(p, id, n)
    BY <1>5 DEF DropSelectedFiles, Encrypted, Send
  <2>3. QED
    BY <1>2, <2>1, <2>2
<1>6. ASSUME NEW n \in Slots, HandlerStep(n) \/ CommitAmbiguous(n) \/ Reject(n)
      PROVE  \A m \in Slots : OkIsKnown(m)'
  <2>1. CASE BeginSubmission(n)
    <3>1. PICK pc \in {"existing", "receiving"} : put' = [put EXCEPT ![n] = [put[n] EXCEPT !.pc = pc]]
      BY <2>1 DEF BeginSubmission, Advance
    <3>2. PICK q : q = [put[n] EXCEPT !.pc = pc]
      OBVIOUS
    <3>3. q.pc # "ok" /\ put' = [put EXCEPT ![n] = q]
      BY <1>1, <3>1, <3>2 DEF Puts
    <3>4. QED
      BY <1>1, <1>2, <3>3
  <2>2. CASE SubmitExisting(n)
    <3>1. PICK a : Answer(n, a) /\ (a = "ok" => sub[Row(put[n].id)] \in {"ready", "taken"})
      BY <2>2 DEF SubmitExisting
    <3>2. put[n].pc # "free" /\ UNCHANGED sub
      BY <2>2 DEF SubmitExisting, handoffVars
    <3>3. QED
      BY <3>1, <3>2, AnswerIsKnown
  <2>3. CASE Unavailable(n) \/ Reject(n)
    <3>1. PICK a : Answer(n, a) /\ a # "ok" /\ put[n].pc # "free"
      BY <2>3 DEF Unavailable, Reject
    <3>2. QED
      BY <3>1, AnswerIsKnown
  <2>4. CASE CommitSubmission(n) \/ CommitAmbiguous(n)
    <3>1. PICK a : Answer(n, a)
      BY <2>4 DEF CommitSubmission, CommitAmbiguous
    <3>2. put[n].pc # "free" /\ Offer(Row(put[n].id), put[n].bundle)
      BY <2>4 DEF CommitSubmission, CommitAmbiguous
    <3>3. Row(put[n].id) \in Keys /\ sub \in [Keys -> {"absent", "ready", "taken", "lost"}]
      BY <3>2, Rows DEF IInv, RequestsAreWhole, TypeOK, HandoffTypeOK
    <3>4. sub'[Row(put[n].id)] = "ready"
      BY <3>2, <3>3 DEF Offer
    <3>5. QED
      BY <3>1, <3>2, <3>4, AnswerIsKnown
  <2>5. CASE Undo(n)
    BY <1>1, <1>2, <2>5 DEF Undo, Free
  <2>6. QED
    BY <1>6, <2>1, <2>2, <2>3, <2>4, <2>5 DEF HandlerStep
<1>7. QED
  BY <1>3, <1>4, <1>5, <1>6 DEF Next, PageStep

\* A ciphertext stays the ciphertext of its selection.
LEMMA PlainIsKept ==
  ASSUME IInv, [Next]_vars
  PROVE  \A x \in Contents : plain[x] # NoBatch => plain'[x] = plain[x]
<1>1. CASE Encrypted
  BY <1>1, TypeParts DEF Encrypted, IInv, PageTypes
<1>2. CASE UNCHANGED vars \/ Load \/ (\E b \in Batches \cup {NoBatch} : SetSelectedFiles(b))
             \/ DropSelectedFiles \/ Answered \/ EncryptionFails \/ NetworkError \/ Countdown
             \/ Environment
  BY <1>2
     DEF vars, pageVars, Load, SetSelectedFiles, DropSelectedFiles, Answered, EncryptionFails,
         NetworkError, Countdown, Environment
<1>3. ASSUME NEW n \in Slots, HandlerStep(n) \/ CommitAmbiguous(n) \/ Reject(n)
      PROVE  plain' = plain
  BY <1>3
     DEF pageVars, HandlerStep, BeginSubmission, SubmitExisting, Unavailable, CommitSubmission, Undo,
         CommitAmbiguous, Reject
<1>4. QED
  BY <1>1, <1>2, <1>3 DEF Next, PageStep

\* What the page lists as sent stays stored, and what a 200 adds to it is stored.
LEMMA SentStep ==
  ASSUME IInv, [Next]_vars, RelayKept
  PROVE  SentIsStored'
<1>1. SUFFICES ASSUME drop'[Here] # "purged", NEW e \in sent'
               PROVE  sub'[Row(e[2])] # "absent" /\ plain'[content'[Row(e[2])]] = e[1]
  BY DEF SentIsStored, Row
<1>2. drop[Here] # "purged"
  BY <1>1 DEF RelayKept
<1>3. PageTypes /\ content \in [Keys -> Contents \cup {NoContent}]
  BY TypeParts DEF IInv, HandoffTypeOK
<1>4. ASSUME e[1] \in Batches, e[2] \in SubIds, sub[Row(e[2])] # "absent",
             plain[content[Row(e[2])]] = e[1]
      PROVE  sub'[Row(e[2])] # "absent" /\ plain'[content'[Row(e[2])]] = e[1]
  <2>1. sub'[Row(e[2])] # "absent" /\ content'[Row(e[2])] = content[Row(e[2])]
    BY <1>1, <1>4 DEF RelayKept
  <2>2. content[Row(e[2])] # NoContent
    BY <1>4 DEF IInv, RelayInv
  <2>3. content[Row(e[2])] \in Contents
    BY <1>3, <1>4, <2>2, Rows
  <2>4. plain[content[Row(e[2])]] # NoBatch
    BY <1>4, PageAssumption
  <2>5. plain'[content[Row(e[2])]] = plain[content[Row(e[2])]]
    BY <2>3, <2>4, PlainIsKept
  <2>6. QED
    BY <1>4, <2>1, <2>5
<1>5. CASE e \in sent
  <2>1. e[1] \in Batches /\ e[2] \in SubIds
    BY <1>3, <1>5 DEF PageTypes
  <2>2. sub[Row(e[2])] # "absent" /\ plain[content[Row(e[2])]] = e[1]
    BY <1>2, <1>5 DEF IInv, SentIsStored
  <2>3. QED
    BY <1>4, <2>1, <2>2
<1>6. CASE e \notin sent
  <2>1. page.pc = "sending" /\ put[page.slot].pc = "ok" /\ sent' = sent \cup {<<page.files, page.id>>}
    <3>1. CASE Answered
      BY <1>1, <1>6, <3>1 DEF Answered
    <3>2. CASE UNCHANGED vars \/ Load \/ (\E b \in Batches \cup {NoBatch} : SetSelectedFiles(b))
                 \/ DropSelectedFiles \/ Encrypted \/ EncryptionFails \/ NetworkError \/ Countdown
                 \/ Environment
      BY <1>1, <1>6, <3>2
         DEF vars, pageVars, Load, SetSelectedFiles, DropSelectedFiles, Encrypted, EncryptionFails,
             NetworkError, Countdown, Environment
    <3>3. ASSUME NEW n \in Slots, HandlerStep(n) \/ CommitAmbiguous(n) \/ Reject(n)
          PROVE  sent' = sent
      BY <3>3
         DEF pageVars, HandlerStep, BeginSubmission, SubmitExisting, Unavailable, CommitSubmission,
             Undo, CommitAmbiguous, Reject
    <3>4. QED
      BY <1>1, <1>6, <3>1, <3>2, <3>3 DEF Next, PageStep
  <2>2. e[1] = page.files /\ e[2] = page.id
    BY <1>1, <1>6, <2>1
  <2>3. PICK x : x = put[page.slot].bundle
    OBVIOUS
  <2>4. /\ page.files \in Batches /\ page.id \in SubIds /\ page.slot \in Slots
        /\ put[page.slot].id = page.id /\ x \in Contents /\ plain[x] = page.files /\ Used(page.id, x)
    BY <2>1, <2>3, SendingPage
  <2>5. sub[Row(page.id)] # "absent"
    BY <1>2, <2>1, <2>4 DEF IInv, RelayInv
  <2>6. content[Row(page.id)] \in Contents
    BY <1>3, <2>4, <2>5, Rows DEF IInv, RelayInv
  <2>7. Used(page.id, content[Row(page.id)])
    BY DEF Used
  <2>8. content[Row(page.id)] = x
    BY <2>4, <2>6, <2>7 DEF IInv, UsesAgree
  <2>9. QED
    BY <1>4, <2>2, <2>4, <2>5, <2>8
<1>7. QED
  BY <1>5, <1>6

-----------------------------------------------------------------------------
(* The theorems *)

\* At first nothing is in use.
LEMMA InvInit ==
  ASSUME Init
  PROVE  IInv
<1>1. HandoffTypeOK /\ Here \in DropPoints
  BY PageAssumption DEF Init, HandoffInit, HandoffTypeOK
<1>2. PageTypes
  <2>1. PageTypeOK(page)
    BY DEF Init, PageTypeOK, Pages
  <2>2. Free \in Puts
    BY DEF Free, Puts
  <2>3. put \in [Slots -> Puts] /\ faults \in 0 .. MaxFaults
    BY <2>2, PageAssumption DEF Init
  <2>4. QED
    BY <2>1, <2>3 DEF Init, PageTypes
<1>3. \A id \in SubIds : Row(id) \in Keys /\ content[Row(id)] = NoContent /\ sub[Row(id)] = "absent"
  BY Rows DEF Init, HandoffInit
<1>4. \A n \in Slots : put[n] = Free /\ put[n].pc = "free"
  BY DEF Init, Free
<1>5. NoContent \notin Contents
  BY PageAssumption
<1>6. \A id \in SubIds, x \in Contents : ~Used(id, x)
  BY <1>3, <1>4, <1>5 DEF Used, Init
<1>7. UsesAreDrawn /\ UsesAgree /\ PageRepeats
  BY <1>6 DEF UsesAreDrawn, UsesAgree, PageRepeats, Init
<1>8. RequestsAreWhole /\ PageInv /\ RelayInv /\ SentIsStored
  BY <1>3, <1>4 DEF RequestsAreWhole, PageInv, RelayInv, SentIsStored, Init, Free
<1>9. QED
  BY <1>1, <1>2, <1>7, <1>8, TypeParts DEF IInv

\* Every step keeps the invariant.
LEMMA InvStep ==
  ASSUME IInv, [Next]_vars
  PROVE  IInv'
<1>1. [HandoffNext]_handoffVars
  BY StepIsHandoff
<1>2. RelayKept
  BY <1>1, HandoffKeeps
<1>3. HandoffTypeOK'
  BY <1>1, HandoffTypeStep DEF IInv, TypeOK
<1>4. PageKeeps'
  BY StepKeeps
<1>5. TypeOK'
  BY <1>3, <1>4 DEF TypeOK, PageKeeps, PageTypes, PageTypeOK, Pages, Puts
<1>6. RelayInv'
  BY <1>2, OkStep DEF RelayInv, RelayKept, OkIsKnown, Row
<1>7. SentIsStored'
  BY <1>2, SentStep
<1>8. QED
  BY <1>4, <1>5, <1>6, <1>7 DEF IInv, PageKeeps

\* The invariant holds in every state (dropSelectedFiles, submitSubmission).
THEOREM PageHolds == Spec => []IInv
<1>1. Init => IInv
  BY InvInit
<1>2. IInv /\ [Next]_vars => IInv'
  BY InvStep
<1>3. QED
  BY <1>1, <1>2, PTL DEF Spec

\* The page's state object, its requests and the relay's rows keep their types.
THEOREM PageTyped == Spec => []TypeOK
<1>1. IInv => TypeOK
  BY DEF IInv
<1>2. QED
  BY <1>1, PageHolds, PTL

\* However often a send is retried, one selection is stored at most once.
THEOREM StoredOnce == Spec => []OnePerSelection
<1>1. ASSUME IInv
      PROVE  OnePerSelection
  <2>1. SUFFICES ASSUME NEW j \in Keys, NEW k \in Keys, j # k,
                        content[j] # NoContent, content[k] # NoContent
                 PROVE  plain[content[j]] # plain[content[k]]
    BY DEF OnePerSelection
  <2>2. j[2] \in SubIds /\ k[2] \in SubIds /\ j = Row(j[2]) /\ k = Row(k[2]) /\ j[2] # k[2]
    BY <2>1, Rows
  <2>3. content[j] \in Contents /\ content[k] \in Contents
    BY <1>1, <2>1 DEF IInv, TypeOK, HandoffTypeOK
  <2>4. Used(j[2], content[j]) /\ Used(k[2], content[k])
    BY <2>2 DEF Used
  <2>5. QED
    BY <1>1, <2>2, <2>3, <2>4 DEF IInv, UsesAgree
<1>2. QED
  BY <1>1, PageHolds, PTL

\* What the page lists as sent is stored under that id with a ciphertext of that selection.
THEOREM ConfirmedIsStored == Spec => []SentIsStored
<1>1. IInv => SentIsStored
  BY DEF IInv
<1>2. QED
  BY <1>1, PageHolds, PTL

\* All requests under one id carry one ciphertext, and it is the one stored.
THEOREM RetriesRepeat == Spec => []RetryRepeats
<1>1. ASSUME IInv
      PROVE  RetryRepeats
  <2>1. SUFFICES ASSUME NEW n \in Slots, put[n].pc # "free"
                 PROVE  /\ \A m \in Slots : put[m].id = put[n].id => put[m].bundle = put[n].bundle
                        /\ content[Row(put[n].id)] \in {NoContent, put[n].bundle}
    BY DEF RetryRepeats
  <2>2. put[n].id \in SubIds /\ put[n].bundle \in Contents
    BY <1>1, <2>1 DEF IInv, RequestsAreWhole
  <2>3. Used(put[n].id, put[n].bundle)
    BY <2>1 DEF Used
  <2>4. ASSUME NEW m \in Slots, put[m].id = put[n].id
        PROVE  put[m].bundle = put[n].bundle
    <3>1. put[m].pc # "free"
      BY <1>1, <2>2, <2>4, PageAssumption DEF IInv, RequestsAreWhole, Free
    <3>2. put[m].bundle \in Contents /\ Used(put[n].id, put[m].bundle)
      BY <1>1, <2>4, <3>1 DEF IInv, RequestsAreWhole, Used
    <3>3. QED
      BY <1>1, <2>2, <2>3, <3>2 DEF IInv, UsesAgree
  <2>5. content[Row(put[n].id)] \in Contents \cup {NoContent}
    BY <1>1, <2>2, Rows DEF IInv, TypeOK, HandoffTypeOK
  <2>6. Used(put[n].id, content[Row(put[n].id)])
    BY DEF Used
  <2>7. content[Row(put[n].id)] \in {NoContent, put[n].bundle}
    BY <1>1, <2>2, <2>3, <2>5, <2>6 DEF IInv, UsesAgree
  <2>8. QED
    BY <2>4, <2>7
<1>2. QED
  BY <1>1, PageHolds, PTL

\* No request is started once the session is over for the page.
THEOREM NoSendWhenOver == Spec => TerminalSendsNothing
<1>1. ASSUME IInv, [Next]_vars
      PROVE  [\A n \in Slots : put[n].pc = "free" /\ put'[n].pc = "sent" => ~page.terminal /\ ~over]_vars
  <2>1. SUFFICES ASSUME NEW n \in Slots, put[n].pc = "free", put'[n].pc = "sent"
                 PROVE  ~page.terminal /\ ~over
    OBVIOUS
  <2>2. CASE put' = put \/ PutsGoOn
    BY <2>1, <2>2 DEF PutsGoOn, Free
  <2>3. CASE Load \/ (\E b \in Batches \cup {NoBatch} : SetSelectedFiles(b)) \/ EncryptionFails
               \/ Countdown \/ Environment \/ UNCHANGED vars
    BY <2>2, <2>3 DEF Load, SetSelectedFiles, EncryptionFails, Countdown, Environment, vars
  <2>4. CASE Answered \/ NetworkError
    BY <1>1, <2>2, <2>4, SlotFreed DEF Answered, NetworkError
  <2>5. CASE DropSelectedFiles
    BY <2>2, <2>5 DEF DropSelectedFiles, Ready
  <2>6. CASE Encrypted
    BY <2>2, <2>6 DEF Encrypted
  <2>7. ASSUME NEW m \in Slots, HandlerStep(m) \/ CommitAmbiguous(m) \/ Reject(m)
        PROVE  PutsGoOn
    BY <1>1, <2>7, HandlersGoOn
  <2>8. QED
    BY <1>1, <2>2, <2>3, <2>4, <2>5, <2>6, <2>7 DEF Next, PageStep
<1>2. QED
  BY <1>1, PageHolds, PTL DEF Spec, TerminalSendsNothing
=============================================================================
