----------------------------- MODULE SenderPage -----------------------------
(***************************************************************************)
(* The sender's page (web/drop-page/app.js) and the upload handler's       *)
(* answers (internal/httpapi/drop.go), over a relay that keeps Handoff's   *)
(* promise.  The page sends one request at a time, but a request whose     *)
(* answer was lost may still be worked on by the relay beside its retry.   *)
(*                                                                         *)
(* Every change of the selection makes a new batch.  Encrypting a batch    *)
(* draws a fresh key, so it yields a ciphertext (Contents) of its own.     *)
(***************************************************************************)
EXTENDS Handoff, Naturals, FiniteSets

CONSTANTS Here,      \* the drop point of the link
          Batches, NoBatch, NoId,
          Slots,     \* bound: requests the relay has in hand at once
          MaxFaults  \* bound: failed encryptions, error answers and lost answers

ASSUME PageAssumption ==
  /\ DropPoints = {Here}
  /\ NoBatch \notin Batches /\ NoId \notin SubIds /\ NoContent \notin Contents
  /\ Slots \subseteq Nat /\ 0 \notin Slots
  /\ MaxFaults \in Nat

VARIABLES page,   \* what the page is doing, and its state object
          over,   \* the page's clock has reached expiresAt
          seen,   \* batches chosen so far
          drawn,  \* submission ids generated so far
          plain,  \* the batch each ciphertext encrypts
          sent,   \* the page's history: batch and id of every confirmed submission
          put,    \* the requests the relay has in hand
          faults

pageVars == <<page, over, seen, drawn, plain, sent>>
vars == <<handoffVars, pageVars, put, faults>>

Row(id) == <<Here, id>>
Free == [pc |-> "free", id |-> NoId, bundle |-> NoContent]
Answers == {"ok", "ended", "retry"}

TypeOK ==
  /\ HandoffTypeOK
  /\ page \in [pc : {"loading", "idle", "encrypting", "sending"},
               files : Batches \cup {NoBatch}, id : SubIds \cup {NoId},
               bundle : Contents \cup {NoContent}, terminal : BOOLEAN,
               slot : Slots \cup {0}]
  /\ page.terminal => page.bundle = NoContent
  /\ page.pc = "sending" <=> page.slot # 0
  /\ over \in BOOLEAN
  /\ seen \subseteq Batches /\ drawn \subseteq SubIds
  /\ plain \in [Contents -> Batches \cup {NoBatch}]
  /\ sent \subseteq Batches \X SubIds
  /\ put \in [Slots -> [pc : {"free", "sent", "existing", "receiving"} \cup Answers,
                        id : SubIds \cup {NoId}, bundle : Contents \cup {NoContent}]]
  /\ faults \in 0 .. MaxFaults

Init ==
  /\ HandoffInit
  /\ page = [pc |-> "loading", files |-> NoBatch, id |-> NoId, bundle |-> NoContent,
             terminal |-> FALSE, slot |-> 0]
  /\ over = FALSE
  /\ seen = {} /\ drawn = {} /\ sent = {}
  /\ plain = [x \in Contents |-> NoBatch]
  /\ put = [n \in Slots |-> Free]
  /\ faults = 0

Fault == faults < MaxFaults /\ faults' = faults + 1

-----------------------------------------------------------------------------
(* The page *)

Ready == page.pc = "idle" /\ ~page.terminal

\* Mutant of Terminated: the ciphertext is kept.
TerminatedKeeping(p) == [p EXCEPT !.pc = "idle", !.terminal = TRUE, !.slot = 0]

\* showError: the page is over for good, and drops its ciphertext.
Terminated(p) == [p EXCEPT !.pc = "idle", !.terminal = TRUE, !.bundle = NoContent, !.slot = 0]

\* init: the metadata are asked for once; an error of any kind ends the page.
Load ==
  /\ page.pc = "loading"
  /\ \/ page' = Terminated(page)
     \/ drop[Here] = "open" /\ ~over /\ page' = [page EXCEPT !.pc = "idle"]
  /\ UNCHANGED <<handoffVars, over, seen, drawn, plain, sent, put, faults>>

\* setSelectedFiles: files or a photo are added, or a file is removed.
SetSelectedFiles(b) ==
  /\ Ready
  /\ b \notin seen
  /\ seen' = seen \cup ({b} \ {NoBatch})
  /\ page' = [page EXCEPT !.files = b, !.id = NoId, !.bundle = NoContent]
  /\ UNCHANGED <<handoffVars, over, drawn, plain, sent, put, faults>>

\* The PUT request, with the id of the selection or a fresh one.
Request(p, id, n) ==
  /\ put[n].pc = "free"
  /\ put' = [put EXCEPT ![n] = [pc |-> "sent", id |-> id, bundle |-> p.bundle]]
  /\ page' = [p EXCEPT !.pc = "sending", !.id = id, !.slot = n]
  /\ drawn' = drawn \cup {id}

Send(p) ==
  \E n \in Slots :
    \/ p.id # NoId /\ Request(p, p.id, n)
    \/ p.id = NoId /\ \E id \in SubIds \ drawn : Request(p, id, n)

\* Mutant of DropSelectedFiles: every send draws a new id.
DropUnderNewId ==
  /\ Ready /\ page.files # NoBatch
  /\ \/ over /\ page' = Terminated(page) /\ UNCHANGED <<put, drawn>>
     \/ ~over /\ page.bundle = NoContent /\ page' = [page EXCEPT !.pc = "encrypting"] /\ UNCHANGED <<put, drawn>>
     \/ ~over /\ page.bundle # NoContent /\ Send([page EXCEPT !.id = NoId])
  /\ UNCHANGED <<handoffVars, over, seen, plain, sent, faults>>

\* Mutant of DropSelectedFiles: the files are encrypted again for every attempt.
DropReencrypted ==
  /\ Ready /\ page.files # NoBatch
  /\ page' = IF over THEN Terminated(page) ELSE [page EXCEPT !.pc = "encrypting"]
  /\ UNCHANGED <<handoffVars, over, seen, drawn, plain, sent, put, faults>>

\* dropSelectedFiles: by the button, or by taking a photo.
DropSelectedFiles ==
  /\ Ready /\ page.files # NoBatch
  /\ \/ over /\ page' = Terminated(page) /\ UNCHANGED <<put, drawn>>
     \/ ~over /\ page.bundle = NoContent /\ page' = [page EXCEPT !.pc = "encrypting"] /\ UNCHANGED <<put, drawn>>
     \/ ~over /\ page.bundle # NoContent /\ Send(page)
  /\ UNCHANGED <<handoffVars, over, seen, plain, sent, faults>>

\* Mutant of Encrypted: the page does not look at the clock again.
EncryptedUnchecked ==
  /\ page.pc = "encrypting"
  /\ \E x \in Contents :
       /\ plain[x] = NoBatch
       /\ plain' = [plain EXCEPT ![x] = page.files]
       /\ Send([page EXCEPT !.bundle = x])
  /\ UNCHANGED <<handoffVars, over, seen, sent, faults>>

\* buildEncryptedBundle returned; the session may have ended meanwhile.
Encrypted ==
  /\ page.pc = "encrypting"
  /\ \E x \in Contents :
       /\ plain[x] = NoBatch
       /\ plain' = [plain EXCEPT ![x] = page.files]
       /\ IF page.terminal \/ over
            THEN page' = Terminated(page) /\ UNCHANGED <<put, drawn>>
            ELSE Send([page EXCEPT !.bundle = x])
  /\ UNCHANGED <<handoffVars, over, seen, sent, faults>>

\* The catch clause for every error that is not terminal.
Failed == page' = IF over THEN Terminated(page) ELSE [page EXCEPT !.pc = "idle", !.slot = 0]

EncryptionFails ==
  /\ page.pc = "encrypting"
  /\ Failed
  /\ Fault
  /\ UNCHANGED <<handoffVars, over, seen, drawn, plain, sent, put>>

\* The answer arrives.  200 confirms the batch; 404 and 410 end the page; 409, 413,
\* 429 and the others keep id and ciphertext for a retry.
Answered ==
  LET a == put[page.slot].pc
      done == [page EXCEPT !.pc = "idle", !.files = NoBatch, !.id = NoId, !.bundle = NoContent,
                           !.slot = 0]
  IN /\ page.pc = "sending" /\ a \in Answers
     /\ \/ /\ a = "ok"
           /\ sent' = sent \cup {<<page.files, page.id>>}
           /\ page' = IF page.terminal \/ over THEN Terminated(done) ELSE done
        \/ a = "ended" /\ page' = Terminated(page) /\ UNCHANGED sent
        \/ a = "retry" /\ Failed /\ UNCHANGED sent
     /\ put' = [put EXCEPT ![page.slot] = Free]
     /\ UNCHANGED <<handoffVars, over, seen, drawn, plain, faults>>

\* fetch rejects: the answer is lost, whatever the relay does or did with the request.
NetworkError ==
  /\ page.pc = "sending"
  /\ Failed
  /\ put' = IF put[page.slot].pc \in Answers THEN [put EXCEPT ![page.slot] = Free] ELSE put
  /\ Fault
  /\ UNCHANGED <<handoffVars, over, seen, drawn, plain, sent>>

\* renderExpiryCountdown runs every second, also while a request is in flight.
Countdown ==
  /\ page.pc # "loading" /\ over /\ ~page.terminal
  /\ page' = [page EXCEPT !.terminal = TRUE, !.bundle = NoContent]
  /\ UNCHANGED <<handoffVars, over, seen, drawn, plain, sent, put, faults>>
-----------------------------------------------------------------------------
(* The upload handler *)

\* The handler is done; nobody reads the answer of a request the page gave up.
Answer(n, a) ==
  put' = [put EXCEPT ![n] = IF page.slot = n THEN [@ EXCEPT !.pc = a] ELSE Free]

Advance(n, pc) == put' = [put EXCEPT ![n] = [@ EXCEPT !.pc = pc]]

BeingReceived(id) == \E n \in Slots : put[n].pc = "receiving" /\ put[n].id = id

Known(id) == sub[Row(id)] # "absent" \/ BeingReceived(id)

\* BeginSubmission inserts the row, or finds that the id has one.
BeginSubmission(n) ==
  /\ put[n].pc = "sent"
  /\ drop[Here] = "open"
  /\ Advance(n, IF Known(put[n].id) THEN "existing" ELSE "receiving")
  /\ UNCHANGED <<handoffVars, pageVars, faults>>

\* Mutant of SubmitExisting: a stored submission is a conflict too.
SubmitExistingConflict(n) ==
  /\ put[n].pc = "existing"
  /\ Answer(n, IF sub[Row(put[n].id)] = "lost" THEN "ended" ELSE "retry")
  /\ UNCHANGED <<handoffVars, pageVars, faults>>

\* Mutant of SubmitExisting: any row counts as delivered.
SubmitExistingAccepted(n) ==
  /\ put[n].pc = "existing"
  /\ Answer(n, "ok")
  /\ UNCHANGED <<handoffVars, pageVars, faults>>

\* submitExistingSubmission looks the row up again: stored, being received (409),
\* failed (410), or gone by now (404).
SubmitExisting(n) ==
  LET id == put[n].id IN
  /\ put[n].pc = "existing"
  /\ Answer(n, CASE sub[Row(id)] \in {"ready", "taken"} -> "ok"
                 [] sub[Row(id)] = "absent" /\ BeingReceived(id) -> "retry"
                 [] OTHER -> "ended")
  /\ UNCHANGED <<handoffVars, pageVars, faults>>

\* The drop point is over: at the start, or when the commit is refused and undone.
Unavailable(n) ==
  /\ put[n].pc \in {"sent", "receiving"}
  /\ drop[Here] # "open"
  /\ Answer(n, "ended")
  /\ UNCHANGED <<handoffVars, pageVars, faults>>

CommitSubmission(n) ==
  /\ put[n].pc = "receiving"
  /\ Offer(Row(put[n].id), put[n].bundle)
  /\ Answer(n, "ok")
  /\ UNCHANGED <<pageVars, faults>>

\* The commit took effect, but neither it nor its verification could be read.
CommitAmbiguous(n) ==
  /\ put[n].pc = "receiving"
  /\ Offer(Row(put[n].id), put[n].bundle)
  /\ Answer(n, "retry")
  /\ Fault
  /\ UNCHANGED pageVars

\* A full queue, a storage error, a bad body: what was begun is undone.
Reject(n) ==
  /\ put[n].pc \in {"sent", "receiving"}
  /\ Answer(n, "retry")
  /\ Fault
  /\ UNCHANGED <<handoffVars, pageVars>>

\* The handler notices that its client is gone.
Undo(n) ==
  /\ put[n].pc # "free" /\ page.slot # n
  /\ put' = [put EXCEPT ![n] = Free]
  /\ UNCHANGED <<handoffVars, pageVars, faults>>

HandlerStep(n) ==
  \/ BeginSubmission(n) \/ SubmitExisting(n) \/ Unavailable(n)
  \/ CommitSubmission(n) \/ Undo(n)

-----------------------------------------------------------------------------
\* The receiver, the relay's cleanup and the sender's clock.
Environment ==
  \/ /\ \/ Open(Here) \/ Forget({Here})
        \/ \E how \in Over : End({Here}, how)
        \/ \E k \in Keys : Take(k) \/ Lose(k)
     /\ UNCHANGED <<pageVars, put, faults>>
  \/ /\ over' = TRUE
     /\ UNCHANGED <<handoffVars, page, seen, drawn, plain, sent, put, faults>>

PageStep == Encrypted \/ Answered

Next ==
  \/ Load
  \/ \E b \in Batches \cup {NoBatch} : SetSelectedFiles(b)
  \/ DropSelectedFiles \/ PageStep \/ EncryptionFails \/ NetworkError \/ Countdown
  \/ \E n \in Slots : HandlerStep(n) \/ CommitAmbiguous(n) \/ Reject(n)
  \/ Environment

Spec == Init /\ [][Next]_vars

\* The page and the handlers go on (the server bounds every request), and the sender
\* keeps pressing "Retry send".
FairSpec ==
  /\ Spec
  /\ WF_vars(PageStep)
  /\ \A n \in Slots : WF_vars(HandlerStep(n))
  /\ SF_vars(DropSelectedFiles)

-----------------------------------------------------------------------------
(* Properties *)

\* However often a send is retried, and whatever became of the attempts whose answer
\* was lost, one selection is stored at most once (SPEC.md:952: a retry of an
\* unchanged selection retains the submission ID).
OnePerSelection ==
  \A j, k \in Keys :
    j # k /\ content[j] # NoContent /\ content[k] # NoContent
      => plain[content[j]] # plain[content[k]]

\* What the page lists as sent was stored under the id it used, with a ciphertext of
\* that selection: a 200 for a retried id never confirms anything else.  (Until the
\* relay has purged the drop point.)
SentIsStored ==
  drop[Here] # "purged" =>
    \A e \in sent : sub[Row(e[2])] # "absent" /\ plain[content[Row(e[2])]] = e[1]

\* All requests under one id carry one ciphertext, and it is the one stored: retries
\* use "the same submission ID and ciphertext" (SPEC.md:966).
RetryRepeats ==
  \A n \in Slots : put[n].pc # "free" =>
    /\ \A m \in Slots : put[m].id = put[n].id => put[m].bundle = put[n].bundle
    /\ content[Row(put[n].id)] \in {NoContent, put[n].bundle}

\* No request is started once the session is over for the page, although encrypting
\* and waiting for answers span its end.
TerminalSendsNothing ==
  [][\A n \in Slots : put[n].pc = "free" /\ put'[n].pc = "sent" => ~page.terminal /\ ~over]_vars

\* A sender who keeps retrying learns what became of the selection: it is confirmed or
\* the session ends; a stored, interrupted or still running attempt is no dead end.
SelectionSettles ==
  \A b \in Batches : page.files = b ~> page.files # b \/ page.terminal

\* SPEC.md:951: the page remains usable for additional submissions while the parent
\* drop point is open: no answer ends it before.
UsableWhileOpen ==
  [][page.pc = "sending" /\ ~page.terminal /\ page'.terminal => drop[Here] # "open" \/ over]_vars
=============================================================================
