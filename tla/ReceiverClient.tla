--------------------------- MODULE ReceiverClient ---------------------------
(***************************************************************************)
(* The receiver's command line client (scripts/droppoint-receiver.py with  *)
(* drop_point_storage.py) against a relay that keeps Handoff's promise.    *)
(*                                                                         *)
(* Each command is a process that loads the state file, talks to the relay *)
(* and replaces the state file as a whole (os.replace), always with its    *)
(* own copy of the state.  It ends at the first request the relay refuses  *)
(* or the client gives up, at the first bundle it cannot install, or when  *)
(* it is killed.                                                           *)
(***************************************************************************)
EXTENDS Handoff, SequencesExt

CONSTANTS Commands,   \* commands that may run at the same time
          Readable,   \* contents encrypted to the receiver's key and well formed
          NoPoint,    \* no drop point: the state file does not exist
          MaxFaults   \* bound: commands killed or requests lost in one behaviour

ASSUME ClientAssumption ==
  /\ NoPoint \notin DropPoints /\ NoContent \notin Contents
  /\ Readable \subseteq Contents
  /\ IsFiniteSet(SubIds)
  /\ MaxFaults \in Nat

VARIABLES queue,   \* submissions of each drop point in the order of dropped_at
          file,    \* the state file
          bundle,  \* content installed in the bundle directory of each submission
          cmd,     \* the commands: what each does next and its copy of the state
          late,    \* acknowledgements whose client is gone but the relay still executes
          faults

relayVars == <<handoffVars, queue>>
diskVars == <<file, bundle>>
vars == <<relayVars, diskVars, cmd, late, faults>>

States == [point : DropPoints \cup {NoPoint}, key : BOOLEAN,
           installed : [SubIds -> {"no", "unacked", "acked"}]]

NoState == [point |-> NoPoint, key |-> FALSE, installed |-> [s \in SubIds |-> "no"]]

Idle == [pc |-> "idle", mem |-> NoState, todo |-> <<>>, only |-> {}, close |-> FALSE,
         got |-> NoContent]

Steps == {"idle", "save", "resume", "resumed", "list", "fetch", "install", "record",
          "ack", "acked", "close", "discard", "status"}

TypeOK ==
  /\ HandoffTypeOK
  /\ \A d \in DropPoints : ToSet(queue[d]) \subseteq SubIds /\ IsInjective(queue[d])
  /\ file \in States
  /\ bundle \in [Keys -> Contents \cup {NoContent}]
  /\ \A c \in Commands :
       /\ cmd[c].pc \in Steps /\ cmd[c].mem \in States
       /\ ToSet(cmd[c].todo) \subseteq SubIds /\ cmd[c].only \subseteq SubIds
       /\ cmd[c].close \in BOOLEAN /\ cmd[c].got \in Contents \cup {NoContent}
  /\ late \subseteq Keys
  /\ faults \in 0 .. MaxFaults

Init ==
  /\ HandoffInit
  /\ queue = [d \in DropPoints |-> <<>>]
  /\ file = NoState
  /\ bundle = [k \in Keys |-> NoContent]
  /\ cmd = [c \in Commands |-> Idle]
  /\ late = {}
  /\ faults = 0

-----------------------------------------------------------------------------
(* Parts of a command *)

Point(c) == cmd[c].mem.point
Key(c) == <<Point(c), Head(cmd[c].todo)>>
At(c, pc) == cmd[c].pc = pc
Goto(c, pc) == cmd' = [cmd EXCEPT ![c].pc = pc]
Finish(c) == cmd' = [cmd EXCEPT ![c] = Idle]

\* load_state, and the options of the command.
Start(c, pc, todo, only, close) ==
  /\ At(c, "idle") /\ file.point # NoPoint
  /\ cmd' = [cmd EXCEPT ![c] = [Idle EXCEPT !.pc = pc, !.mem = file, !.todo = todo,
                                            !.only = only, !.close = close]]
  /\ UNCHANGED <<relayVars, diskVars, late, faults>>

\* atomic_write_private_json: the file, then the copy, become the new state.
Write(c, state, pc, todo) ==
  /\ file' = state
  /\ cmd' = [cmd EXCEPT ![c].mem = state, ![c].pc = pc, ![c].todo = todo, ![c].got = NoContent]
  /\ UNCHANGED <<relayVars, bundle, late, faults>>

Recorded(c, how) ==
  [cmd[c].mem EXCEPT !.installed = [@ EXCEPT ![Head(cmd[c].todo)] = how]]

\* verify_installed_bundle: a bundle is only ever renamed into place complete.
Verified(k) == bundle[k] # NoContent

-----------------------------------------------------------------------------
(* create *)

CreateDropPoint(c, d) ==
  /\ At(c, "idle")
  /\ Open(d)
  /\ cmd' = [cmd EXCEPT ![c] = [Idle EXCEPT !.pc = "save",
                                            !.mem = [NoState EXCEPT !.point = d, !.key = TRUE]]]
  /\ UNCHANGED <<queue, diskVars, late, faults>>

SaveState(c) ==
  /\ At(c, "save")
  /\ file' = cmd[c].mem
  /\ Finish(c)
  /\ UNCHANGED <<relayVars, bundle, late, faults>>
-----------------------------------------------------------------------------
(* pickup *)

\* resume_pending_acknowledgements works through the recorded, unacknowledged bundles.
StartPickup(c, only, close) ==
  \E todo \in SetToSeqs({s \in SubIds : file.installed[s] = "unacked"}) :
    Start(c, "resume", todo, only, close)

\* The relay accepts the acknowledgement of a ready or an acknowledged submission.
Acknowledgeable(k) == drop[k[1]] = "open" /\ sub[k] \in {"ready", "taken"}

Acknowledge(k) ==
  /\ Acknowledgeable(k)
  /\ Take(k) \/ (sub[k] = "taken" /\ UNCHANGED handoffVars)
  /\ UNCHANGED <<queue, diskVars, late, faults>>

Resume(c) ==
  /\ At(c, "resume") /\ cmd[c].todo # <<>>
  /\ Verified(Key(c))
  /\ Acknowledge(Key(c))
  /\ Goto(c, "resumed")

RecordResumed(c) ==
  /\ At(c, "resumed")
  /\ Write(c, Recorded(c, "acked"), "resume", Tail(cmd[c].todo))

ResumeDone(c) ==
  /\ At(c, "resume") /\ cmd[c].todo = <<>>
  /\ Goto(c, "list")
  /\ UNCHANGED <<relayVars, diskVars, late, faults>>

Ready(c) == {s \in ToSet(queue[Point(c)]) \cap cmd[c].only : sub[<<Point(c), s>>] = "ready"}

\* The relay lists submissions in the order of dropped_at.
InOrder(todo, q) ==
  \A i, j \in DOMAIN todo :
    i < j => \E a, b \in DOMAIN q : a < b /\ q[a] = todo[i] /\ q[b] = todo[j]

\* list_submissions; with --wait an empty list is asked for again until the time is up.
List(c) ==
  /\ At(c, "list") /\ drop[Point(c)] = "open"
  /\ \E todo \in SetToSeqs(Ready(c)) :
       /\ InOrder(todo, queue[Point(c)])
       /\ cmd' = [cmd EXCEPT ![c].pc = "fetch", ![c].todo = todo]
  /\ UNCHANGED <<relayVars, diskVars, late, faults>>

TimeOut(c) ==
  /\ At(c, "list") /\ drop[Point(c)] = "open" /\ Ready(c) = {}
  /\ Finish(c)
  /\ UNCHANGED <<relayVars, diskVars, late, faults>>

Fetchable(c) == drop[Point(c)] = "open" /\ sub[Key(c)] = "ready"

\* The other branch of pickup_submission, for a submission that has a receipt, is never
\* taken: such a submission is not listed as ready (ReceiptsAreTrue).
Fetch(c) ==
  /\ At(c, "fetch") /\ cmd[c].todo # <<>>
  /\ cmd[c].mem.installed[Key(c)[2]] = "no"
  /\ Fetchable(c)
  /\ cmd' = [cmd EXCEPT ![c].pc = "install", ![c].got = content[Key(c)]]
  /\ UNCHANGED <<relayVars, diskVars, late, faults>>

\* decrypt_bundle needs the private key; an existing bundle must be the same.
Installable(c) ==
  /\ cmd[c].mem.key /\ cmd[c].got \in Readable
  /\ bundle[Key(c)] \in {NoContent, cmd[c].got}

\* Mutant of Install: a bundle that cannot be decrypted is passed over.
InstallOrSkip(c) ==
  /\ At(c, "install")
  /\ bundle' = IF Installable(c) THEN [bundle EXCEPT ![Key(c)] = cmd[c].got] ELSE bundle
  /\ Goto(c, "record")
  /\ UNCHANGED <<relayVars, file, late, faults>>

\* Mutant of Install: the receipt is written after the acknowledgement only.
InstallUnrecorded(c) ==
  /\ At(c, "install")
  /\ Installable(c)
  /\ bundle' = [bundle EXCEPT ![Key(c)] = cmd[c].got]
  /\ Goto(c, "ack")
  /\ UNCHANGED <<relayVars, file, late, faults>>

\* Mutant of Install: an existing directory is always refused.
InstallFresh(c) ==
  /\ At(c, "install")
  /\ Installable(c) /\ bundle[Key(c)] = NoContent
  /\ bundle' = [bundle EXCEPT ![Key(c)] = cmd[c].got]
  /\ Goto(c, "record")
  /\ UNCHANGED <<relayVars, file, late, faults>>

\* install_bundle: files and receipt are staged aside and renamed into place.
Install(c) ==
  /\ At(c, "install")
  /\ Installable(c)
  /\ bundle' = [bundle EXCEPT ![Key(c)] = cmd[c].got]
  /\ Goto(c, "record")
  /\ UNCHANGED <<relayVars, file, late, faults>>

\* Mutant of Record: the receipt claims the acknowledgement that is still to come.
RecordAsAcked(c) ==
  /\ At(c, "record")
  /\ Write(c, Recorded(c, "acked"), "ack", cmd[c].todo)

Record(c) ==
  /\ At(c, "record")
  /\ Write(c, Recorded(c, "unacked"), "ack", cmd[c].todo)

AcknowledgeInstalled(c) ==
  /\ At(c, "ack")
  /\ Acknowledge(Key(c))
  /\ Goto(c, "acked")

RecordAcknowledged(c) ==
  /\ At(c, "acked")
  /\ Write(c, Recorded(c, "acked"), "fetch", Tail(cmd[c].todo))

PickupDone(c) ==
  /\ At(c, "fetch") /\ cmd[c].todo = <<>>
  /\ IF cmd[c].close THEN Goto(c, "close") ELSE Finish(c)
  /\ UNCHANGED <<relayVars, diskVars, late, faults>>

-----------------------------------------------------------------------------
(* close and status *)

\* A close is answered with success by an open or a closed drop point only.
Close(c) ==
  /\ At(c, "close")
  /\ \/ End({Point(c)}, "closed")
     \/ drop[Point(c)] = "closed" /\ UNCHANGED handoffVars
  /\ Goto(c, "discard")
  /\ UNCHANGED <<queue, diskVars, late, faults>>

\* Mutant of GetStatus: the key is discarded whatever the status is.
GetStatusAndDiscard(c) ==
  /\ At(c, "status") /\ drop[Point(c)] \in {"open"} \cup Over
  /\ Goto(c, "discard")
  /\ UNCHANGED <<relayVars, diskVars, late, faults>>

\* Mutant of GetStatus: an expired drop point is not taken for ended.
GetStatusClosedOnly(c) ==
  /\ At(c, "status") /\ drop[Point(c)] \in {"open"} \cup Over
  /\ IF drop[Point(c)] = "closed" THEN Goto(c, "discard") ELSE Finish(c)
  /\ UNCHANGED <<relayVars, diskVars, late, faults>>

GetStatus(c) ==
  /\ At(c, "status") /\ drop[Point(c)] \in {"open"} \cup Over
  /\ IF drop[Point(c)] \in Over THEN Goto(c, "discard") ELSE Finish(c)
  /\ UNCHANGED <<relayVars, diskVars, late, faults>>

DiscardPrivateKey(c) ==
  /\ At(c, "discard")
  /\ file' = IF cmd[c].mem.key THEN [cmd[c].mem EXCEPT !.key = FALSE] ELSE file
  /\ Finish(c)
  /\ UNCHANGED <<relayVars, bundle, late, faults>>

-----------------------------------------------------------------------------
(* How a command fails *)

\* The relay answers with an error, or the bundle cannot be installed.
Refused(c) ==
  \/ At(c, "resume") /\ cmd[c].todo # <<>> /\ ~(Verified(Key(c)) /\ Acknowledgeable(Key(c)))
  \/ At(c, "list") /\ drop[Point(c)] # "open"
  \/ At(c, "fetch") /\ cmd[c].todo # <<>> /\ ~Fetchable(c)
  \/ At(c, "install") /\ ~Installable(c)
  \/ At(c, "ack") /\ ~Acknowledgeable(Key(c))
  \/ At(c, "close") /\ drop[Point(c)] \notin {"open", "closed"}
  \/ At(c, "status") /\ drop[Point(c)] \notin {"open"} \cup Over

Refuse(c) ==
  /\ Refused(c)
  /\ Finish(c)
  /\ UNCHANGED <<relayVars, diskVars, late, faults>>

\* The command is killed, or a request or its answer is lost.
Die(c) ==
  /\ ~At(c, "idle")
  /\ Finish(c)
  /\ faults < MaxFaults /\ faults' = faults + 1
  /\ UNCHANGED <<relayVars, diskVars, late>>

\* The client gives up an acknowledgement the relay has authorised.
DieAcknowledging(c) ==
  /\ At(c, "resume") \/ At(c, "ack")
  /\ cmd[c].todo # <<>> /\ Acknowledgeable(Key(c))
  /\ At(c, "resume") => Verified(Key(c))
  /\ late' = late \cup {Key(c)}
  /\ Finish(c)
  /\ faults < MaxFaults /\ faults' = faults + 1
  /\ UNCHANGED <<relayVars, diskVars>>

LateAcknowledge(k) ==
  /\ k \in late
  /\ late' = late \ {k}
  /\ Take(k) \/ (sub[k] # "ready" /\ UNCHANGED handoffVars)
  /\ UNCHANGED <<queue, diskVars, cmd, faults>>

-----------------------------------------------------------------------------
(* Senders, the clock and the relay's cleanup *)

Arrive(k, x) ==
  /\ Offer(k, x)
  /\ queue' = [queue EXCEPT ![k[1]] = Append(@, k[2])]
  /\ UNCHANGED <<diskVars, cmd, late, faults>>

Expire(d) ==
  /\ End({d}, "expired")
  /\ UNCHANGED <<queue, diskVars, cmd, late, faults>>

Fail(k) ==
  /\ Lose(k)
  /\ UNCHANGED <<queue, diskVars, cmd, late, faults>>

Purge(d) ==
  /\ Forget({d})
  /\ queue' = [queue EXCEPT ![d] = <<>>]
  /\ UNCHANGED <<diskVars, cmd, late, faults>>

-----------------------------------------------------------------------------
CommandStep(c) ==
  \/ SaveState(c)
  \/ Resume(c) \/ RecordResumed(c) \/ ResumeDone(c)
  \/ List(c) \/ TimeOut(c)
  \/ Fetch(c) \/ Install(c) \/ Record(c)
  \/ AcknowledgeInstalled(c) \/ RecordAcknowledged(c) \/ PickupDone(c)
  \/ Close(c) \/ GetStatus(c) \/ DiscardPrivateKey(c)
  \/ Refuse(c)

StartStatus(c) == Start(c, "status", <<>>, {}, FALSE)

Begin(c) ==
  \/ \E d \in DropPoints : CreateDropPoint(c, d)
  \/ \E only \in {{s} : s \in SubIds} \cup {SubIds}, close \in BOOLEAN : StartPickup(c, only, close)
  \/ Start(c, "close", <<>>, {}, FALSE)
  \/ StartStatus(c)

Next ==
  \/ \E c \in Commands : Begin(c) \/ CommandStep(c) \/ Die(c) \/ DieAcknowledging(c)
  \/ \E k \in Keys : LateAcknowledge(k) \/ Fail(k) \/ \E x \in Contents : Arrive(k, x)
  \/ \E d \in DropPoints : Expire(d) \/ Purge(d)

Spec == Init /\ [][Next]_vars

\* A command runs to its end (requests time out after 30 seconds, --wait after its
\* timeout), and the receiver keeps asking for the status and picking up.
FairSpec ==
  /\ Spec
  /\ \A c \in Commands : WF_vars(CommandStep(c)) /\ SF_vars(StartPickup(c, SubIds, FALSE))
                                                /\ SF_vars(StartStatus(c))

-----------------------------------------------------------------------------
(* Properties *)

\* "Do not acknowledge a submission before the client has durably stored its complete
\* decrypted bundle" (docs/client-integration.md:45), across kills, lost answers,
\* resumed and concurrent commands: what is taken at the relay is on the receiver's
\* disk, and it is what the sender offered under that id.
TakenIsInstalled ==
  \A k \in Keys : sub[k] = "taken" => bundle[k] = content[k]

\* The state file can be relied on by a later run: an entry has its bundle, and an
\* entry marked acknowledged is no longer ready at the relay, so skipping it in
\* resume_pending_acknowledgements loses nothing.  After that step no listed submission
\* has a receipt in the command's copy, however long ago it was read.
ReceiptsAreTrue ==
  /\ \A s \in SubIds :
       LET k == <<file.point, s>> IN
       /\ file.installed[s] # "no" => bundle[k] # NoContent
       /\ file.installed[s] = "acked" => sub[k] # "ready"
  /\ \A c \in Commands :
       At(c, "fetch") => \A s \in ToSet(cmd[c].todo) : cmd[c].mem.installed[s] = "no"

\* SPEC.md:1009: before it acknowledges, the client has recorded what it installed in
\* the state file, unless the file is by now about another drop point.  (One command
\* at a time: two write their copies over each other.)
TakenIsRecorded ==
  \A k \in Keys : sub[k] = "taken" /\ file.point = k[1] => file.installed[k[2]] # "no"

\* The private key is never given up while submissions can still arrive for it: no
\* command, however late it acts on what it read, discards it before the drop point
\* has ended (SPEC.md:1011).
KeyKeptWhileOpen ==
  [][file.key /\ drop'[file.point] = "open" /\ file'.point = file.point => file'.key]_vars

\* A receiver that keeps picking up takes every ready submission it can read, after
\* whatever died in between: a bundle installed by a run that was killed, or a receipt
\* whose acknowledgement was lost, never stops the next run.  Excepted are the end of
\* the drop point, another one's state file, and an unreadable submission in the list.
ReadyIsProcessedUnlessBlocked ==
  \A k \in Keys :
    sub[k] = "ready" /\ content[k] \in Readable /\ file.point = k[1]
      ~> \/ sub[k] # "ready" \/ drop[k[1]] # "open" \/ file.point # k[1]
         \/ \E s \in SubIds : sub[<<k[1], s>>] = "ready" /\ content[<<k[1], s>>] \notin Readable

\* "Pickup processes every ready child" (docs/local-testing.md:144): the same without
\* the last exception.
ReadyIsProcessed ==
  \A k \in Keys :
    sub[k] = "ready" /\ content[k] \in Readable /\ file.point = k[1]
      ~> sub[k] # "ready" \/ drop[k[1]] # "open" \/ file.point # k[1]

\* The key of an ended drop point is deleted by a receiver that keeps asking for the
\* status, however its commands die, unless the relay has purged the drop point.
EndedKeyIsDeleted ==
  \A d \in DropPoints :
    drop[d] \in Over /\ file.point = d ~> ~(file.point = d /\ file.key) \/ drop[d] = "purged"

\* SPEC.md:1011: the private key and the recovery state must not be removed until the
\* parent has closed or expired.
StateKeptWhileOpen ==
  [][file.key /\ drop'[file.point] = "open" => file'.point = file.point]_vars

\* SPEC.md:606: the receiver must delete the private key when the drop point has
\* ended.  Once deleted it stays deleted.
KeyStaysDeleted ==
  [][file.point # NoPoint /\ ~file.key /\ file'.point = file.point => ~file'.key]_vars

\* SPEC.md:606 again: a receiver that keeps asking for the status gets rid of the key
\* of an ended drop point.
KeyIsDeleted ==
  \A d \in DropPoints :
    drop[d] \in Over /\ file.point = d /\ file.key ~> ~(file.point = d /\ file.key)
=============================================================================
