------------------------ MODULE ReceiverClientProofs ------------------------
(***************************************************************************)
(* The receiver's client proved for every number of commands, drop points, *)
(* submissions and faults: types, and what its state file, its bundles and *)
(* its acknowledgements may rely on.                                       *)
(***************************************************************************)
EXTENDS ReceiverClient, FiniteSetTheorems, SequenceTheorems, TLAPS

-----------------------------------------------------------------------------
(* The inductive invariant *)

Processes ==
  [pc : Steps, mem : States, todo : Seq(SubIds), only : SUBSET SubIds, close : BOOLEAN,
   got : Contents \cup {NoContent}]

\* The types, with the shapes that TypeOK only states element by element.
ShapeOK ==
  /\ HandoffTypeOK
  /\ queue \in [DropPoints -> Seq(SubIds)]
  /\ file \in States
  /\ bundle \in [Keys -> Contents \cup {NoContent}]
  /\ cmd \in [Commands -> Processes]
  /\ late \subseteq Keys
  /\ faults \in 0 .. MaxFaults

\* Nothing brings the submission back to the list of ready ones.
Settled(k) == sub[k] \in {"taken", "lost"} \/ drop[k[1]] = "purged"

\* Nothing opens the drop point again.
Ended(d) == drop[d] \in Over \cup {"purged"}

\* A submission has content exactly while the relay knows it, and that is never before
\* the drop point was opened nor after it was purged.
RelayInv ==
  \A k \in Keys : /\ sub[k] = "absent" <=> content[k] = NoContent
                  /\ drop[k[1]] \in {"none", "purged"} => sub[k] = "absent"

\* Only what the relay knows is queued, and once.
QueueInv ==
  \A d \in DropPoints :
    /\ IsInjective(queue[d])
    /\ \A s \in ToSet(queue[d]) : sub[<<d, s>>] # "absent"

\* What is installed is what the relay has under that id, while it has anything.
BundlesAreGenuine ==
  \A k \in Keys : bundle[k] # NoContent => bundle[k] = content[k] \/ drop[k[1]] = "purged"

\* The relay executes no acknowledgement of what is not installed.
LateIsInstalled == \A k \in late : bundle[k] # NoContent

\* A copy of the state, in the file or in a command, however old it is.
CopyInv(m) ==
  /\ m.point # NoPoint => drop[m.point] # "none" /\ (Ended(m.point) \/ m.key)
  /\ \A s \in SubIds : m.installed[s] # "no" => m.point # NoPoint /\ bundle[<<m.point, s>>] # NoContent
  /\ \A s \in SubIds : m.installed[s] = "acked" => Settled(<<m.point, s>>)

\* The list a command works through, against its copy of the state.
TodoInv(p) ==
  /\ IsInjective(p.todo)
  /\ p.pc \in {"resumed", "install", "record", "ack", "acked"} => p.todo # <<>>
  /\ p.pc \in {"resume", "resumed"} =>
       ToSet(p.todo) = {s \in SubIds : p.mem.installed[s] = "unacked"}
  /\ p.pc = "list" => \A s \in SubIds : p.mem.installed[s] # "unacked"
  /\ p.pc \in {"fetch", "install", "record"} =>
       \A s \in ToSet(p.todo) : p.mem.installed[s] = "no"
  /\ p.pc \in {"ack", "acked"} =>
       \A s \in ToSet(Tail(p.todo)) : p.mem.installed[s] = "no"

\* The submission a command is at, k.
HeadInv(p, k) ==
  /\ p.pc = "install" => p.got # NoContent /\ (p.got = content[k] \/ drop[k[1]] = "purged")
  /\ p.pc \in {"record", "ack", "acked"} => bundle[k] # NoContent
  /\ p.pc \in {"resumed", "acked"} => Settled(k)

CommandInv(p) ==
  /\ CopyInv(p.mem)
  /\ p.pc # "idle" => p.mem.point # NoPoint
  /\ p.pc = "discard" => Ended(p.mem.point)
  /\ TodoInv(p)
  /\ HeadInv(p, <<p.mem.point, Head(p.todo)>>)

IInv ==
  /\ ShapeOK
  /\ RelayInv /\ QueueInv /\ BundlesAreGenuine /\ TakenIsInstalled /\ LateIsInstalled
  /\ CopyInv(file)
  /\ \A c \in Commands : CommandInv(cmd[c])

-----------------------------------------------------------------------------
(* Lists of submissions *)

\* The first element of a list without repetitions is not in the rest.
LEMMA RestOfList ==
  ASSUME NEW S, NEW q \in Seq(S), q # <<>>, IsInjective(q)
  PROVE  /\ Head(q) \in S /\ Head(q) \in ToSet(q)
         /\ Tail(q) \in Seq(S) /\ IsInjective(Tail(q))
         /\ ToSet(Tail(q)) = ToSet(q) \ {Head(q)}
<1>1. /\ Tail(q) \in Seq(S) /\ Len(Tail(q)) = Len(q) - 1 /\ Head(q) = q[1]
      /\ \A i \in 1 .. Len(Tail(q)) : Tail(q)[i] = q[i + 1]
  BY HeadTailProperties
<1>2. /\ DOMAIN q = 1 .. Len(q) /\ Len(q) \in Nat /\ Len(q) >= 1
      /\ DOMAIN Tail(q) = 1 .. Len(Tail(q)) /\ \A i \in 1 .. Len(q) : q[i] \in S
  BY <1>1
<1>3. \A i \in DOMAIN Tail(q) : i + 1 \in DOMAIN q /\ i + 1 # 1 /\ Tail(q)[i] = q[i + 1]
  BY <1>1, <1>2
<1>4. \A i \in DOMAIN q : i # 1 => i - 1 \in DOMAIN Tail(q) /\ Tail(q)[i - 1] = q[i]
  BY <1>1, <1>2
<1>5. Head(q) \in S /\ Head(q) \in ToSet(q) /\ 1 \in DOMAIN q
  BY <1>1, <1>2 DEF ToSet
<1>6. IsInjective(Tail(q))
  BY <1>2, <1>3 DEF IsInjective
<1>7. ASSUME NEW x \in ToSet(Tail(q))
      PROVE  x \in ToSet(q) /\ x # Head(q)
  <2>1. PICK i \in DOMAIN Tail(q) : x = Tail(q)[i]
    BY DEF ToSet
  <2>2. i + 1 \in DOMAIN q /\ i + 1 # 1 /\ x = q[i + 1]
    BY <1>3, <2>1
  <2>3. QED
    BY <1>1, <1>5, <2>2 DEF ToSet, IsInjective
<1>8. ASSUME NEW x \in ToSet(q), x # Head(q)
      PROVE  x \in ToSet(Tail(q))
  <2>1. PICK i \in DOMAIN q : x = q[i]
    BY DEF ToSet
  <2>2. i - 1 \in DOMAIN Tail(q) /\ x = Tail(q)[i - 1]
    BY <1>1, <1>4, <1>8, <2>1
  <2>3. QED
    BY <2>2 DEF ToSet
<1>9. QED
  BY <1>1, <1>5, <1>6, <1>7, <1>8

\* A list of submissions holds submissions.
LEMMA ListedAreIds ==
  ASSUME NEW q \in Seq(SubIds)
  PROVE  ToSet(q) \subseteq SubIds
<1>1. DOMAIN q = 1 .. Len(q) /\ \A i \in 1 .. Len(q) : q[i] \in SubIds
  OBVIOUS
<1>2. QED
  BY <1>1 DEF ToSet

\* Appending what a list does not have yet.
LEMMA LongerList ==
  ASSUME NEW S, NEW q \in Seq(S), NEW x \in S, x \notin ToSet(q), IsInjective(q)
  PROVE  /\ Append(q, x) \in Seq(S) /\ IsInjective(Append(q, x))
         /\ ToSet(Append(q, x)) = ToSet(q) \cup {x}
<1> DEFINE r == Append(q, x)
<1>1. /\ r \in Seq(S) /\ Len(r) = Len(q) + 1 /\ r[Len(q) + 1] = x
      /\ \A i \in 1 .. Len(q) : r[i] = q[i]
  BY AppendProperties
<1>2. DOMAIN q = 1 .. Len(q) /\ Len(q) \in Nat /\ DOMAIN r = 1 .. Len(q) + 1
  BY <1>1
<1> HIDE DEF r
<1>3. /\ \A i \in DOMAIN q : i \in DOMAIN r /\ r[i] = q[i]
      /\ \A i \in DOMAIN r : i \in DOMAIN q \/ i = Len(q) + 1
      /\ Len(q) + 1 \in DOMAIN r
  BY <1>1, <1>2
<1>4. IsInjective(r)
  BY <1>1, <1>3 DEF IsInjective, ToSet
<1>5. \A y : y \in ToSet(r) <=> y \in ToSet(q) \/ y = x
  BY <1>1, <1>3 DEF ToSet
<1>6. QED
  BY <1>1, <1>4, <1>5 DEF r

\* A listing of a finite set has each element once.
LEMMA ListingOfSet ==
  ASSUME NEW S, IsFiniteSet(S), NEW q \in SetToSeqs(S)
  PROVE  q \in Seq(S) /\ IsInjective(q) /\ ToSet(q) = S
<1> DEFINE D == 1 .. Cardinality(S)
<1>1. Cardinality(S) \in Nat
  BY FS_CardinalityType
<1>2. q \in [D -> S] /\ \A i, j \in D : i # j => q[i] # q[j]
  BY DEF SetToSeqs
<1>3. q \in Injection(D, S)
  BY <1>2 DEF Injection, IsInjective
<1>4. Cardinality(D) = Cardinality(S)
  BY <1>1, FS_Interval
<1>5. q \in Surjection(D, S)
  BY <1>3, <1>4, FS_Injection
<1>6. q \in Seq(S)
  BY <1>1, <1>2
<1>7. QED
  BY <1>3, <1>5, <1>6 DEF Injection, Surjection, ToSet

\* Submission ids are finite in number, so every set of them can be listed.
LEMMA ListingOfIds ==
  ASSUME NEW S \in SUBSET SubIds, NEW q \in SetToSeqs(S)
  PROVE  q \in Seq(SubIds) /\ IsInjective(q) /\ ToSet(q) = S
<1>1. q \in Seq(S) /\ IsInjective(q) /\ ToSet(q) = S
  BY ClientAssumption, FS_Subset, ListingOfSet
<1>2. QED
  BY <1>1, SeqMonotonic
-----------------------------------------------------------------------------
(* Types *)

\* Changing the step, ending, saving the state and starting keep the types.
LEMMA ProcessMoves ==
  ASSUME ShapeOK, NEW c \in Commands
  PROVE  /\ \A pc \in Steps : Goto(c, pc) => cmd' \in [Commands -> Processes]
         /\ Finish(c) => cmd' \in [Commands -> Processes]
         /\ \A state \in States, pc \in Steps, todo \in Seq(SubIds) :
              Write(c, state, pc, todo) => cmd' \in [Commands -> Processes] /\ file' \in States
         /\ \A pc \in Steps, todo \in Seq(SubIds), only \in SUBSET SubIds, close \in BOOLEAN :
              Start(c, pc, todo, only, close) => cmd' \in [Commands -> Processes]
<1>1. cmd \in [Commands -> Processes] /\ file \in States
  BY DEF ShapeOK
<1>2. NoState \in States
  BY DEF NoState, States
<1>3. Idle \in Processes
  BY <1>2, EmptySeq DEF Idle, Processes, Steps
<1>4. ASSUME NEW pc \in Steps, Goto(c, pc)
      PROVE  cmd' \in [Commands -> Processes]
  BY <1>1, <1>4 DEF Goto, Processes
<1>5. Finish(c) => cmd' \in [Commands -> Processes]
  BY <1>1, <1>3 DEF Finish
<1>6. ASSUME NEW state \in States, NEW pc \in Steps, NEW todo \in Seq(SubIds),
             Write(c, state, pc, todo)
      PROVE  cmd' \in [Commands -> Processes] /\ file' \in States
  <2> DEFINE p == [cmd[c] EXCEPT !.mem = state, !.pc = pc, !.todo = todo, !.got = NoContent]
  <2>1. p \in Processes
    BY <1>1 DEF Processes
  <2>2. cmd' = [cmd EXCEPT ![c] = p] /\ file' = state
    BY <1>1, <1>6 DEF Write, Processes
  <2>3. QED
    BY <1>1, <2>1, <2>2
<1>7. ASSUME NEW pc \in Steps, NEW todo \in Seq(SubIds), NEW only \in SUBSET SubIds,
             NEW close \in BOOLEAN, Start(c, pc, todo, only, close)
      PROVE  cmd' \in [Commands -> Processes]
  <2>1. [Idle EXCEPT !.pc = pc, !.mem = file, !.todo = todo, !.only = only, !.close = close]
          \in Processes
    BY <1>1, <1>3 DEF Processes
  <2>2. QED
    BY <1>1, <1>7, <2>1 DEF Start
<1>8. QED
  BY <1>4, <1>5, <1>6, <1>7

\* What a command keeps is a state.
LEMMA RecordedType ==
  ASSUME ShapeOK, NEW c \in Commands, NEW how \in {"unacked", "acked"}
  PROVE  Recorded(c, how) \in States
BY DEF ShapeOK, Recorded, Processes, States

\* The relay's state keeps its types whatever its handlers do.
LEMMA HandoffTypeStep ==
  ASSUME HandoffTypeOK, [HandoffNext]_handoffVars
  PROVE  HandoffTypeOK'
BY DEF HandoffTypeOK, HandoffNext, handoffVars, Open, End, Offer, Take, Lose, Forget, Over, Keys
-----------------------------------------------------------------------------
(* What a step does at the relay and to the bundles *)

RelayStays == UNCHANGED relayVars /\ (UNCHANGED bundle \/ \E c \in Commands : Install(c))

RelayMoves ==
  \/ \E d \in DropPoints : Open(d) /\ UNCHANGED queue
  \/ \E d \in DropPoints, how \in Over : End({d}, how) /\ UNCHANGED queue
  \/ \E k \in Keys : (Lose(k) \/ (Take(k) /\ bundle[k] # NoContent)) /\ UNCHANGED queue
  \/ \E k \in Keys, x \in Contents :
       Offer(k, x) /\ queue' = [queue EXCEPT ![k[1]] = Append(@, k[2])]
  \/ \E d \in DropPoints : Forget({d}) /\ queue' = [queue EXCEPT ![d] = <<>>]

\* A command that is not idle is about a drop point.
LEMMA PointOfCommand ==
  ASSUME IInv, NEW c \in Commands, cmd[c].pc # "idle"
  PROVE  Point(c) \in DropPoints
BY DEF IInv, ShapeOK, CommandInv, Point, Processes, States

\* The submission at the head of a command's list is one.
LEMMA KeyOfCommand ==
  ASSUME IInv, NEW c \in Commands, cmd[c].pc # "idle", cmd[c].todo # <<>>
  PROVE  /\ Key(c) \in Keys /\ Key(c)[1] = Point(c) /\ Key(c)[2] = Head(cmd[c].todo)
         /\ Head(cmd[c].todo) \in SubIds /\ Head(cmd[c].todo) \in ToSet(cmd[c].todo)
         /\ Tail(cmd[c].todo) \in Seq(SubIds)
<1>1. cmd[c].todo \in Seq(SubIds) /\ IsInjective(cmd[c].todo)
  BY DEF IInv, ShapeOK, CommandInv, TodoInv, Processes
<1>2. Point(c) \in DropPoints
  BY PointOfCommand
<1>3. /\ Head(cmd[c].todo) \in SubIds /\ Head(cmd[c].todo) \in ToSet(cmd[c].todo)
      /\ Tail(cmd[c].todo) \in Seq(SubIds)
  BY <1>1, RestOfList
<1>4. QED
  BY <1>2, <1>3 DEF Key, Keys

\* An acknowledgement, by a running command or a late one, is of an installed bundle.
LEMMA AcknowledgementIsInstalled ==
  ASSUME IInv, NEW c \in Commands, Resume(c) \/ AcknowledgeInstalled(c)
  PROVE  /\ Key(c) \in Keys /\ bundle[Key(c)] # NoContent
         /\ UNCHANGED <<queue, bundle>>
         /\ Take(Key(c)) \/ (sub[Key(c)] = "taken" /\ UNCHANGED handoffVars)
<1>1. cmd[c].pc \in {"resume", "ack"} /\ cmd[c].todo # <<>>
  BY DEF Resume, AcknowledgeInstalled, At, IInv, CommandInv, TodoInv
<1>2. Key(c) \in Keys
  BY <1>1, KeyOfCommand
<1>3. bundle[Key(c)] # NoContent
  BY <1>1 DEF Resume, AcknowledgeInstalled, Verified, At, Key, Point, IInv, CommandInv, HeadInv
<1>4. QED
  BY <1>2, <1>3 DEF Resume, AcknowledgeInstalled, Acknowledge, diskVars

\* The relay is moved by the steps of its own interface only, and a command adds to the
\* bundles only while it leaves the relay alone.
LEMMA RelayKinds ==
  ASSUME IInv, [Next]_vars
  PROVE  RelayStays \/ (RelayMoves /\ UNCHANGED bundle)
<1>1. CASE UNCHANGED vars
  BY <1>1 DEF vars, diskVars, RelayStays
<1>2. ASSUME NEW c \in Commands, Begin(c)
      PROVE  RelayStays \/ (RelayMoves /\ UNCHANGED bundle)
  <2>1. CASE \E d \in DropPoints : CreateDropPoint(c, d)
    BY <2>1 DEF CreateDropPoint, RelayMoves, diskVars
  <2>2. CASE ~\E d \in DropPoints : CreateDropPoint(c, d)
    BY <1>2, <2>2 DEF Begin, StartPickup, StartStatus, Start, RelayStays, diskVars
  <2>3. QED
    BY <2>1, <2>2
<1>3. ASSUME NEW c \in Commands, CommandStep(c)
      PROVE  RelayStays \/ (RelayMoves /\ UNCHANGED bundle)
  <2>1. CASE Resume(c) \/ AcknowledgeInstalled(c)
    <3>1. /\ Key(c) \in Keys /\ bundle[Key(c)] # NoContent /\ UNCHANGED <<queue, bundle>>
          /\ Take(Key(c)) \/ UNCHANGED handoffVars
      BY <2>1, AcknowledgementIsInstalled
    <3>2. QED
      BY <3>1 DEF RelayStays, RelayMoves, relayVars
  <2>2. CASE Close(c)
    <3>1. Point(c) \in DropPoints
      BY <2>2, PointOfCommand DEF Close, At
    <3>2. QED
      BY <2>2, <3>1 DEF Close, RelayStays, RelayMoves, relayVars, diskVars, Over
  <2>3. CASE Install(c)
    BY <2>3 DEF Install, RelayStays
  <2>4. CASE ~(Resume(c) \/ AcknowledgeInstalled(c) \/ Close(c) \/ Install(c))
    BY <1>3, <2>4
       DEF CommandStep, SaveState, RecordResumed, ResumeDone, List, TimeOut, Fetch, Record,
           RecordAcknowledged, PickupDone, GetStatus, DiscardPrivateKey, Refuse, Write,
           RelayStays, diskVars
  <2>5. QED
    BY <2>1, <2>2, <2>3, <2>4
<1>4. ASSUME NEW c \in Commands, Die(c) \/ DieAcknowledging(c)
      PROVE  RelayStays
  BY <1>4 DEF Die, DieAcknowledging, RelayStays, diskVars
<1>5. ASSUME NEW k \in Keys, LateAcknowledge(k) \/ Fail(k) \/ \E x \in Contents : Arrive(k, x)
      PROVE  RelayStays \/ (RelayMoves /\ UNCHANGED bundle)
  <2>1. CASE LateAcknowledge(k)
    <3>1. bundle[k] # NoContent
      BY <2>1 DEF LateAcknowledge, IInv, LateIsInstalled
    <3>2. QED
      BY <2>1, <3>1 DEF LateAcknowledge, RelayStays, RelayMoves, relayVars, diskVars
  <2>2. CASE Fail(k)
    BY <2>2 DEF Fail, RelayMoves, diskVars
  <2>3. CASE \E x \in Contents : Arrive(k, x)
    BY <2>3 DEF Arrive, RelayMoves, diskVars
  <2>4. QED
    BY <1>5, <2>1, <2>2, <2>3
<1>6. ASSUME NEW d \in DropPoints, Expire(d) \/ Purge(d)
      PROVE  RelayMoves /\ UNCHANGED bundle
  BY <1>6 DEF Expire, Purge, RelayMoves, Over, diskVars
<1>7. QED
  BY <1>1, <1>2, <1>3, <1>4, <1>5, <1>6 DEF Next
-----------------------------------------------------------------------------
(* The relay and the bundles *)

\* The facts a command may keep relying on, whatever happens around it.
Onward ==
  /\ \A d \in DropPoints : /\ drop[d] # "none" => drop'[d] # "none"
                           /\ Ended(d) => Ended(d)'
                           /\ drop[d] = "purged" => drop'[d] = "purged"
  /\ \A k \in Keys : /\ Settled(k) => Settled(k)'
                     /\ bundle[k] # NoContent => bundle'[k] # NoContent
                     /\ content[k] # NoContent => content'[k] = content[k] \/ drop'[k[1]] = "purged"

\* Installing puts the submission's own content in place, and over nothing else.
LEMMA InstallIsGenuine ==
  ASSUME IInv, NEW c \in Commands, Install(c)
  PROVE  /\ Key(c) \in Keys /\ cmd[c].got \in Contents
         /\ cmd[c].got = content[Key(c)] \/ drop[Key(c)[1]] = "purged"
         /\ bundle' = [bundle EXCEPT ![Key(c)] = cmd[c].got]
         /\ UNCHANGED relayVars
<1>1. cmd[c].pc = "install" /\ cmd[c].todo # <<>>
  BY DEF Install, At, IInv, CommandInv, TodoInv
<1>2. Key(c) \in Keys
  BY <1>1, KeyOfCommand
<1>3. cmd[c].got = content[Key(c)] \/ drop[Key(c)[1]] = "purged"
  BY <1>1 DEF IInv, CommandInv, HeadInv, Key, Point
<1>4. QED
  BY <1>2, <1>3, ClientAssumption DEF Install, Installable

\* The relay's types.
LEMMA RelayTypeStep ==
  ASSUME IInv, RelayStays \/ RelayMoves
  PROVE  HandoffTypeOK'
<1>1. [HandoffNext]_handoffVars
  BY DEF RelayStays, RelayMoves, relayVars, HandoffNext
<1>2. QED
  BY <1>1, HandoffTypeStep DEF IInv, ShapeOK

\* Submissions keep their content until they are purged, and nothing installed is removed.
LEMMA OnwardStep ==
  ASSUME IInv, RelayStays \/ (RelayMoves /\ UNCHANGED bundle)
  PROVE  Onward
<1> USE DEF Ended, Settled, Over
<1>0. /\ HandoffTypeOK /\ RelayInv /\ bundle \in [Keys -> Contents \cup {NoContent}]
      /\ \A k \in Keys : k[1] \in DropPoints
  BY DEF IInv, ShapeOK, Keys
<1> USE DEF HandoffTypeOK, RelayInv
<1>1. CASE RelayStays
  <2>1. UNCHANGED handoffVars
    BY <1>1 DEF RelayStays, relayVars
  <2>2. \A k \in Keys : bundle[k] # NoContent => bundle'[k] # NoContent
    BY <1>0, <1>1, InstallIsGenuine, ClientAssumption DEF RelayStays
  <2>3. QED
    BY <2>1, <2>2 DEF Onward, handoffVars
<1>2. CASE RelayMoves /\ UNCHANGED bundle
  <2>1. CASE \E d \in DropPoints : Open(d)
    BY <1>0, <1>2, <2>1 DEF Onward, Open
  <2>2. CASE \E d \in DropPoints, how \in Over : End({d}, how)
    BY <1>0, <1>2, <2>2 DEF Onward, End
  <2>3. CASE \E k \in Keys : Lose(k) \/ Take(k)
    BY <1>0, <1>2, <2>3 DEF Onward, Lose, Take
  <2>4. CASE \E k \in Keys, x \in Contents : Offer(k, x)
    BY <1>0, <1>2, <2>4 DEF Onward, Offer
  <2>5. CASE \E d \in DropPoints : Forget({d})
    BY <1>0, <1>2, <2>5 DEF Onward, Forget
  <2>6. QED
    BY <1>2, <2>1, <2>2, <2>3, <2>4, <2>5 DEF RelayMoves
<1>3. QED
  BY <1>1, <1>2

\* The relay keeps what it knows apart from what it never had or has forgotten.
LEMMA RelayInvStep ==
  ASSUME IInv, RelayStays \/ RelayMoves
  PROVE  RelayInv'
<1>0. HandoffTypeOK /\ RelayInv /\ \A k \in Keys : k[1] \in DropPoints
  BY DEF IInv, ShapeOK, Keys
<1> USE DEF HandoffTypeOK, RelayInv, Over
<1>1. CASE RelayStays
  BY <1>0, <1>1 DEF RelayStays, relayVars, handoffVars
<1>2. CASE \E d \in DropPoints : Open(d)
  BY <1>0, <1>2 DEF Open
<1>3. CASE \E d \in DropPoints, how \in Over : End({d}, how)
  BY <1>0, <1>3 DEF End
<1>4. CASE \E k \in Keys : Lose(k) \/ Take(k)
  BY <1>0, <1>4 DEF Lose, Take
<1>5. CASE \E k \in Keys, x \in Contents : Offer(k, x)
  BY <1>0, <1>5, ClientAssumption DEF Offer
<1>6. CASE \E d \in DropPoints : Forget({d})
  BY <1>0, <1>6 DEF Forget
<1>7. QED
  BY <1>1, <1>2, <1>3, <1>4, <1>5, <1>6 DEF RelayMoves

\* A submission is queued when it is committed, and its id is not used again.
LEMMA QueueStep ==
  ASSUME IInv, RelayStays \/ RelayMoves
  PROVE  QueueInv' /\ queue' \in [DropPoints -> Seq(SubIds)]
<1>0. /\ HandoffTypeOK /\ QueueInv /\ queue \in [DropPoints -> Seq(SubIds)]
      /\ \A d \in DropPoints, s \in SubIds : <<d, s>> \in Keys
      /\ \A d \in DropPoints : ToSet(queue[d]) \subseteq SubIds
  <2>1. \A d \in DropPoints : ToSet(queue[d]) \subseteq SubIds
    BY DEF IInv, ShapeOK, ToSet
  <2>2. QED
    BY <2>1 DEF IInv, ShapeOK, Keys
<1> USE DEF HandoffTypeOK, QueueInv
<1>1. ASSUME UNCHANGED queue,
             \A k \in Keys : sub[k] # "absent" => sub'[k] # "absent"
      PROVE  QueueInv' /\ queue' \in [DropPoints -> Seq(SubIds)]
  BY <1>0, <1>1
<1>2. ASSUME NEW k \in Keys, NEW x \in Contents, Offer(k, x),
             queue' = [queue EXCEPT ![k[1]] = Append(@, k[2])]
      PROVE  QueueInv' /\ queue' \in [DropPoints -> Seq(SubIds)]
  <2>1. k[1] \in DropPoints /\ k[2] \in SubIds /\ k = <<k[1], k[2]>>
    BY DEF Keys
  <2>2. k[2] \notin ToSet(queue[k[1]])
    BY <1>0, <1>2, <2>1 DEF Offer
  <2>3. /\ Append(queue[k[1]], k[2]) \in Seq(SubIds) /\ IsInjective(Append(queue[k[1]], k[2]))
        /\ ToSet(Append(queue[k[1]], k[2])) = ToSet(queue[k[1]]) \cup {k[2]}
    BY <1>0, <2>1, <2>2, LongerList
  <2>4. queue' \in [DropPoints -> Seq(SubIds)]
    BY <1>0, <1>2, <2>1, <2>3
  <2>5. \A l \in Keys : sub[l] # "absent" \/ l = k => sub'[l] # "absent"
    BY <1>0, <1>2 DEF Offer
  <2>6. ASSUME NEW d \in DropPoints
        PROVE  IsInjective(queue'[d]) /\ \A s \in ToSet(queue'[d]) : sub'[<<d, s>>] # "absent"
    <3>1. CASE d = k[1]
      <4>1. queue'[d] = Append(queue[d], k[2])
        BY <1>0, <1>2, <3>1
      <4>2. QED
        BY <1>0, <2>1, <2>3, <2>5, <3>1, <4>1
    <3>2. CASE d # k[1]
      <4>1. queue'[d] = queue[d]
        BY <1>0, <1>2, <3>2
      <4>2. QED
        BY <1>0, <2>5, <4>1
    <3>3. QED
      BY <3>1, <3>2
  <2>7. QED
    BY <2>4, <2>6
<1>3. ASSUME NEW d \in DropPoints, Forget({d}), queue' = [queue EXCEPT ![d] = <<>>]
      PROVE  QueueInv' /\ queue' \in [DropPoints -> Seq(SubIds)]
  <2>1. queue' \in [DropPoints -> Seq(SubIds)]
    BY <1>0, <1>3, EmptySeq
  <2>2. IsInjective(<<>>) /\ ToSet(<<>>) = {}
    BY DEF IsInjective, ToSet
  <2>3. \A k \in Keys : k[1] # d => sub'[k] = sub[k]
    BY <1>0, <1>3 DEF Forget
  <2>4. \A e \in DropPoints, s \in SubIds : e # d => sub'[<<e, s>>] = sub[<<e, s>>]
    BY <1>0, <2>3
  <2>5. QED
    BY <1>0, <1>3, <2>1, <2>2, <2>4
<1>4. CASE RelayStays
  BY <1>1, <1>4 DEF RelayStays, relayVars, handoffVars
<1>5. CASE RelayMoves
  <2>1. CASE (\E d \in DropPoints : Open(d) /\ UNCHANGED queue)
               \/ \E d \in DropPoints, how \in Over : End({d}, how) /\ UNCHANGED queue
    BY <1>1, <2>1 DEF Open, End
  <2>2. CASE \E k \in Keys : (Lose(k) \/ Take(k)) /\ UNCHANGED queue
    <3>1. \A k \in Keys : sub[k] # "absent" => sub'[k] # "absent"
      BY <1>0, <2>2 DEF Lose, Take
    <3>2. QED
      BY <1>1, <2>2, <3>1
  <2>3. QED
    BY <1>2, <1>3, <1>5, <2>1, <2>2 DEF RelayMoves
<1>6. QED
  BY <1>4, <1>5

\* A bundle, and what is taken, stay what the sender offered.
LEMMA BundlesStep ==
  ASSUME IInv, RelayStays \/ (RelayMoves /\ UNCHANGED bundle)
  PROVE  BundlesAreGenuine' /\ TakenIsInstalled' /\ bundle' \in [Keys -> Contents \cup {NoContent}]
<1>0. /\ HandoffTypeOK /\ RelayInv /\ BundlesAreGenuine /\ TakenIsInstalled
      /\ bundle \in [Keys -> Contents \cup {NoContent}]
      /\ \A k \in Keys : k[1] \in DropPoints
  BY DEF IInv, ShapeOK, Keys
<1> USE DEF HandoffTypeOK, RelayInv, BundlesAreGenuine, TakenIsInstalled, Over
<1>1. CASE UNCHANGED <<relayVars, bundle>>
  BY <1>0, <1>1 DEF relayVars, handoffVars
<1>2. ASSUME NEW c \in Commands, Install(c)
      PROVE  /\ BundlesAreGenuine' /\ TakenIsInstalled'
             /\ bundle' \in [Keys -> Contents \cup {NoContent}]
  <2>1. /\ Key(c) \in Keys /\ cmd[c].got \in Contents
        /\ cmd[c].got = content[Key(c)] \/ drop[Key(c)[1]] = "purged"
        /\ bundle' = [bundle EXCEPT ![Key(c)] = cmd[c].got]
        /\ UNCHANGED handoffVars
    BY <1>2, InstallIsGenuine DEF relayVars
  <2>2. PICK k \in Keys : k = Key(c)
    BY <2>1
  <2>3. bundle'[k] = cmd[c].got /\ \A l \in Keys \ {k} : bundle'[l] = bundle[l]
    BY <1>0, <2>1, <2>2
  <2>4. QED
    BY <1>0, <2>1, <2>2, <2>3 DEF handoffVars
<1>3. CASE UNCHANGED bundle /\ \E d \in DropPoints : Open(d)
  BY <1>0, <1>3 DEF Open
<1>4. CASE UNCHANGED bundle /\ \E d \in DropPoints, how \in Over : End({d}, how)
  BY <1>0, <1>4 DEF End
<1>5. CASE UNCHANGED bundle /\ \E k \in Keys : Lose(k) \/ (Take(k) /\ bundle[k] # NoContent)
  BY <1>0, <1>5 DEF Lose, Take
<1>6. CASE UNCHANGED bundle /\ \E k \in Keys, x \in Contents : Offer(k, x)
  BY <1>0, <1>6 DEF Offer
<1>7. CASE UNCHANGED bundle /\ \E d \in DropPoints : Forget({d})
  BY <1>0, <1>7 DEF Forget
<1>8. QED
  BY <1>1, <1>2, <1>3, <1>4, <1>5, <1>6, <1>7 DEF RelayStays, RelayMoves
-----------------------------------------------------------------------------
(* What a command relies on stays true around it *)

\* A copy of the state stays as true as it was, however long it is kept.
LEMMA CopyStays ==
  ASSUME Onward, NEW m \in States, CopyInv(m)
  PROVE  CopyInv(m)'
<1>1. m.point \in DropPoints \cup {NoPoint} /\ m.installed \in [SubIds -> {"no", "unacked", "acked"}]
  BY DEF States
<1>2. m.point # NoPoint => m.point \in DropPoints /\ \A s \in SubIds : <<m.point, s>> \in Keys
  BY <1>1 DEF Keys
<1>3. m.point # NoPoint => drop'[m.point] # "none" /\ (Ended(m.point)' \/ m.key)
  BY <1>2 DEF CopyInv, Onward
<1>4. ASSUME NEW s \in SubIds, m.installed[s] # "no"
      PROVE  /\ m.point # NoPoint /\ bundle'[<<m.point, s>>] # NoContent
             /\ m.installed[s] = "acked" => Settled(<<m.point, s>>)'
  <2>1. m.point # NoPoint /\ bundle[<<m.point, s>>] # NoContent
    BY <1>4 DEF CopyInv
  <2>2. PICK k \in Keys : k = <<m.point, s>>
    BY <1>2, <2>1
  <2>3. m.installed[s] = "acked" => Settled(k)
    BY <2>2 DEF CopyInv
  <2>4. bundle'[k] # NoContent /\ (m.installed[s] = "acked" => Settled(k)')
    BY <2>1, <2>2, <2>3 DEF Onward
  <2>5. QED
    BY <2>1, <2>2, <2>4
<1>5. QED
  BY <1>3, <1>4 DEF CopyInv

\* So does everything a command knows about the submission it is at.
LEMMA CommandStays ==
  ASSUME Onward, NEW p \in Processes, CommandInv(p)
  PROVE  CommandInv(p)'
<1> DEFINE k == <<p.mem.point, Head(p.todo)>>
<1>1. CopyInv(p.mem)'
  <2>1. PICK m \in States : m = p.mem
    BY DEF Processes
  <2>2. CopyInv(m)'
    BY <2>1, CopyStays DEF CommandInv
  <2>3. QED
    BY <2>1, <2>2
<1>2. p.pc # "idle" => p.mem.point \in DropPoints
  BY DEF CommandInv, Processes, States
<1>3. p.pc = "discard" => Ended(p.mem.point)'
  BY <1>2 DEF CommandInv, Onward
<1>4. HeadInv(p, k)'
  <2>1. CASE p.pc \in {"resumed", "install", "record", "ack", "acked"}
    <3>1. p.todo \in Seq(SubIds) /\ IsInjective(p.todo) /\ p.todo # <<>>
      BY <2>1 DEF Processes, CommandInv, TodoInv
    <3>2. PICK l \in Keys : l = k
      BY <1>2, <2>1, <3>1, RestOfList DEF Keys
    <3>3. HeadInv(p, l)
      BY <3>2 DEF CommandInv
    <3>4. HeadInv(p, l)'
      <4>1. l[1] \in DropPoints
        BY DEF Keys
      <4>2. QED
        BY <3>3, <4>1 DEF HeadInv, Onward
    <3>5. QED
      BY <3>2, <3>4
  <2>2. CASE p.pc \notin {"resumed", "install", "record", "ack", "acked"}
    BY <2>2 DEF HeadInv
  <2>3. QED
    BY <2>1, <2>2
<1>5. QED
  BY <1>1, <1>3, <1>4 DEF CommandInv, TodoInv
-----------------------------------------------------------------------------
(* What a command relies on after a step of its own *)

\* The command before a step, as a value the step does not change.
LEMMA CommandBefore ==
  ASSUME IInv, Onward, NEW c \in Commands
  PROVE  \E p \in Processes : p = cmd[c] /\ CommandInv(p) /\ CommandInv(p)'
<1>1. PICK p \in Processes : p = cmd[c]
  BY DEF IInv, ShapeOK
<1>2. CommandInv(p)
  BY <1>1 DEF IInv
<1>3. QED
  BY <1>1, <1>2, CommandStays

\* An idle command relies on nothing.
LEMMA IdleRelies == CommandInv(Idle)'
BY DEF CommandInv, CopyInv, TodoInv, HeadInv, Idle, NoState, IsInjective

\* A command that keeps its copy of the state.
LEMMA KeepsCopy ==
  ASSUME NEW p \in Processes, CommandInv(p)', p.pc # "idle",
         NEW q \in Processes, q.mem = p.mem, q.pc # "discard", TodoInv(q),
         HeadInv(q, <<q.mem.point, Head(q.todo)>>)'
  PROVE  CommandInv(q)'
BY DEF CommandInv

\* Going to another step with the same list.
LEMMA GotoEffect ==
  ASSUME IInv, NEW c \in Commands, NEW pc \in Steps, Goto(c, pc)
  PROVE  /\ cmd'[c] = [cmd[c] EXCEPT !.pc = pc] /\ cmd'[c] \in Processes
         /\ \A b \in Commands \ {c} : cmd'[b] = cmd[b]
<1>1. cmd \in [Commands -> Processes] /\ cmd[c] \in Processes
  BY DEF IInv, ShapeOK
<1>2. [cmd[c] EXCEPT !.pc = pc] \in Processes
  BY <1>1 DEF Processes
<1>3. QED
  BY <1>1, <1>2 DEF Goto

\* What is acknowledged is no longer ready.
LEMMA AcknowledgedIsSettled ==
  ASSUME IInv, NEW c \in Commands, Resume(c) \/ AcknowledgeInstalled(c)
  PROVE  Settled(Key(c))'  /\ Key(c)' = Key(c)
<1>1. /\ Key(c) \in Keys
      /\ Take(Key(c)) \/ (sub[Key(c)] = "taken" /\ UNCHANGED handoffVars)
  BY AcknowledgementIsInstalled
<1>2. PICK k \in Keys : k = Key(c)
  BY <1>1
<1>3. sub'[k] = "taken"
  BY <1>1, <1>2 DEF Take, handoffVars, IInv, ShapeOK, HandoffTypeOK
<1>4. \E pc \in Steps : Goto(c, pc)
  BY DEF Resume, AcknowledgeInstalled, Steps
<1>5. cmd'[c].mem = cmd[c].mem /\ cmd'[c].todo = cmd[c].todo
  BY <1>4, GotoEffect DEF IInv, ShapeOK, Processes
<1>6. Key(c)' = k
  BY <1>2, <1>5 DEF Key, Point
<1>7. QED
  BY <1>2, <1>3, <1>6 DEF Settled

\* Acknowledging: the list is the same, and its head is settled.
LEMMA AcknowledgeRelies ==
  ASSUME IInv, Onward, NEW c \in Commands, Resume(c) \/ AcknowledgeInstalled(c)
  PROVE  CommandInv(cmd[c])'
<1>1. PICK p \in Processes : p = cmd[c] /\ CommandInv(p) /\ CommandInv(p)'
  BY CommandBefore
<1>2. PICK pc \in Steps : /\ Goto(c, pc)
                         /\ \/ p.pc = "resume" /\ p.todo # <<>> /\ pc = "resumed"
                            \/ p.pc = "ack" /\ pc = "acked"
  BY <1>1 DEF Resume, AcknowledgeInstalled, At, Steps
<1>3. PICK q \in Processes : q = cmd'[c] /\ q = [p EXCEPT !.pc = pc]
  BY <1>1, <1>2, GotoEffect
<1>4. /\ q.mem = p.mem /\ q.todo = p.todo /\ q.pc = pc
  BY <1>3 DEF Processes
<1>5. Settled(<<q.mem.point, Head(q.todo)>>)'
  BY <1>3, AcknowledgedIsSettled DEF Key, Point
<1>6. TodoInv(q)
  BY <1>1, <1>2, <1>4 DEF CommandInv, TodoInv
<1>7. HeadInv(q, <<q.mem.point, Head(q.todo)>>)'
  BY <1>1, <1>2, <1>4, <1>5 DEF CommandInv, HeadInv
<1>8. CommandInv(q)'
  BY <1>1, <1>2, <1>4, <1>6, <1>7, KeepsCopy
<1>9. QED
  BY <1>3, <1>8

\* Beginning: the copy is the file, or a new drop point's state.
LEMMA BeginRelies ==
  ASSUME IInv, Onward, NEW c \in Commands, Begin(c)
  PROVE  /\ CommandInv(cmd[c])' /\ file' = file /\ late' = late /\ faults' = faults
         /\ \A b \in Commands \ {c} : cmd'[b] = cmd[b]
         /\ cmd' \in [Commands -> Processes]
<1>0. cmd \in [Commands -> Processes] /\ file \in States /\ IsFiniteSet(SubIds)
  BY ClientAssumption DEF IInv, ShapeOK
<1>1. ASSUME NEW pc \in {"resume", "close", "status"}, NEW todo \in Seq(SubIds),
             NEW only \in SUBSET SubIds, NEW close \in BOOLEAN, Start(c, pc, todo, only, close),
             IsInjective(todo),
             pc = "resume" => ToSet(todo) = {s \in SubIds : file.installed[s] = "unacked"}
      PROVE  /\ CommandInv(cmd[c])' /\ file' = file /\ late' = late /\ faults' = faults
             /\ \A b \in Commands \ {c} : cmd'[b] = cmd[b]
             /\ cmd' \in [Commands -> Processes]
  <2>1. cmd' \in [Commands -> Processes]
    BY <1>1, ProcessMoves DEF IInv, Steps
  <2>2. PICK m \in States : m = file
    BY <1>0
  <2>3. CopyInv(m)'
    BY <2>2, CopyStays DEF IInv
  <2>4. cmd'[c] = [Idle EXCEPT !.pc = pc, !.mem = m, !.todo = todo, !.only = only, !.close = close]
    BY <1>0, <1>1, <2>2 DEF Start
  <2>5. PICK q \in Processes : q = cmd'[c]
    BY <2>1
  <2>6. q.pc = pc /\ q.mem = m /\ q.todo = todo
    BY <2>4, <2>5 DEF Idle
  <2>7. TodoInv(q) /\ HeadInv(q, <<q.mem.point, Head(q.todo)>>)'
    BY <1>1, <2>2, <2>6 DEF TodoInv, HeadInv
  <2>8. m.point # NoPoint
    BY <1>1, <2>2 DEF Start
  <2>9. CommandInv(q)'
    BY <2>3, <2>6, <2>7, <2>8 DEF CommandInv
  <2>10. QED
    BY <1>0, <1>1, <2>1, <2>5, <2>9 DEF Start, diskVars
<1>2. ASSUME NEW only \in SUBSET SubIds, NEW close \in BOOLEAN, StartPickup(c, only, close)
      PROVE  /\ CommandInv(cmd[c])' /\ file' = file /\ late' = late /\ faults' = faults
             /\ \A b \in Commands \ {c} : cmd'[b] = cmd[b]
             /\ cmd' \in [Commands -> Processes]
  <2>1. PICK S \in SUBSET SubIds : S = {s \in SubIds : file.installed[s] = "unacked"}
    OBVIOUS
  <2>2. PICK todo \in SetToSeqs(S) : Start(c, "resume", todo, only, close)
    BY <1>2, <2>1 DEF StartPickup
  <2>3. todo \in Seq(SubIds) /\ IsInjective(todo) /\ ToSet(todo) = S
    BY ListingOfIds
  <2>4. QED
    BY <1>1, <2>1, <2>2, <2>3
<1>3. ASSUME NEW pc \in {"close", "status"}, Start(c, pc, <<>>, {}, FALSE)
      PROVE  /\ CommandInv(cmd[c])' /\ file' = file /\ late' = late /\ faults' = faults
             /\ \A b \in Commands \ {c} : cmd'[b] = cmd[b]
             /\ cmd' \in [Commands -> Processes]
  <2>1. <<>> \in Seq(SubIds) /\ IsInjective(<<>>) /\ {} \in SUBSET SubIds
    BY EmptySeq DEF IsInjective
  <2>2. QED
    BY <1>1, <1>3, <2>1
<1>4. ASSUME NEW d \in DropPoints, CreateDropPoint(c, d)
      PROVE  /\ CommandInv(cmd[c])' /\ file' = file /\ late' = late /\ faults' = faults
             /\ \A b \in Commands \ {c} : cmd'[b] = cmd[b]
             /\ cmd' \in [Commands -> Processes]
  <2> DEFINE new == [NoState EXCEPT !.point = d, !.key = TRUE]
  <2>1. /\ new \in States /\ new.point = d /\ new.key
        /\ \A s \in SubIds : new.installed[s] = "no"
    BY DEF NoState, States
  <2>2. PICK m \in States : m = new
    BY <2>1
  <2>3. drop'[d] = "open" /\ d # NoPoint
    BY <1>4, ClientAssumption DEF CreateDropPoint, Open, IInv, ShapeOK, HandoffTypeOK
  <2>4. CopyInv(m)'
    BY <2>1, <2>2, <2>3 DEF CopyInv
  <2> HIDE DEF new
  <2> DEFINE q == [Idle EXCEPT !.pc = "save", !.mem = m]
  <2>5. q \in Processes /\ q.pc = "save" /\ q.mem = m /\ q.todo = <<>>
    BY EmptySeq DEF Idle, Processes, Steps
  <2>6. cmd' = [cmd EXCEPT ![c] = q]
    BY <1>4, <2>2 DEF CreateDropPoint, new
  <2>7. PICK r \in Processes : r = q
    BY <2>5
  <2>8. CommandInv(r)'
    <3>1. TodoInv(r) /\ HeadInv(r, <<r.mem.point, Head(r.todo)>>)'
      BY <2>5, <2>7 DEF TodoInv, HeadInv, IsInjective
    <3>2. QED
      BY <2>1, <2>2, <2>3, <2>4, <2>5, <2>7, <3>1 DEF CommandInv
  <2> HIDE DEF q
  <2>9. cmd'[c] = r
    BY <1>0, <2>6, <2>7
  <2>10. QED
    BY <1>0, <1>4, <2>5, <2>6, <2>8, <2>9 DEF CreateDropPoint, diskVars
<1>5. QED
  <2>1. \A only \in {{s} : s \in SubIds} \cup {SubIds} : only \in SUBSET SubIds
    OBVIOUS
  <2>2. QED
    BY <1>2, <1>3, <1>4, <2>1 DEF Begin, StartStatus

\* The steps of a command that neither read the relay's answer into the list nor save
\* the state.
LEMMA GoesOn ==
  ASSUME IInv, Onward, NEW c \in Commands, ResumeDone(c) \/ Install(c) \/ Close(c)
  PROVE  CommandInv(cmd[c])'
<1>1. PICK p \in Processes : p = cmd[c] /\ CommandInv(p) /\ CommandInv(p)'
  BY CommandBefore
<1>2. CASE ResumeDone(c)
  <2>1. PICK q \in Processes : q = cmd'[c] /\ q = [p EXCEPT !.pc = "list"]
    BY <1>1, <1>2, GotoEffect DEF ResumeDone, Steps
  <2>2. q.mem = p.mem /\ q.todo = p.todo /\ q.pc = "list" /\ p.pc = "resume" /\ p.todo = <<>>
    BY <1>1, <1>2, <2>1 DEF ResumeDone, At, Processes
  <2>3. ToSet(<<>>) = {}
    BY DEF ToSet
  <2>4. TodoInv(q) /\ HeadInv(q, <<q.mem.point, Head(q.todo)>>)'
    BY <1>1, <2>2, <2>3 DEF CommandInv, TodoInv, HeadInv
  <2>5. CommandInv(q)'
    BY <1>1, <2>2, <2>4, KeepsCopy
  <2>6. QED
    BY <2>1, <2>5
<1>3. CASE Install(c)
  <2>1. PICK q \in Processes : q = cmd'[c] /\ q = [p EXCEPT !.pc = "record"]
    BY <1>1, <1>3, GotoEffect DEF Install, Steps
  <2>2. q.mem = p.mem /\ q.todo = p.todo /\ q.pc = "record" /\ p.pc = "install"
    BY <1>1, <1>3, <2>1 DEF Install, At, Processes
  <2>3. PICK k \in Keys : /\ k = Key(c) /\ p.got \in Contents
                         /\ bundle' = [bundle EXCEPT ![k] = p.got]
    BY <1>1, <1>3, InstallIsGenuine
  <2>4. k = <<q.mem.point, Head(q.todo)>> /\ bundle'[k] # NoContent
    BY <1>1, <2>2, <2>3, ClientAssumption DEF Key, Point, IInv, ShapeOK
  <2>5. TodoInv(q) /\ HeadInv(q, k)'
    BY <1>1, <2>2, <2>4 DEF CommandInv, TodoInv, HeadInv
  <2>6. CommandInv(q)'
    BY <1>1, <2>2, <2>4, <2>5, KeepsCopy
  <2>7. QED
    BY <2>1, <2>6
<1>4. CASE Close(c)
  <2>1. PICK q \in Processes : q = cmd'[c] /\ q = [p EXCEPT !.pc = "discard"]
    BY <1>1, <1>4, GotoEffect DEF Close, Steps
  <2>2. q.mem = p.mem /\ q.todo = p.todo /\ q.pc = "discard" /\ p.pc = "close"
    BY <1>1, <1>4, <2>1 DEF Close, At, Processes
  <2>3. PICK d \in DropPoints : d = Point(c) /\ d = q.mem.point
    BY <1>1, <2>2, PointOfCommand DEF Point
  <2>4. drop'[d] = "closed"
    BY <1>4, <2>3 DEF Close, End, handoffVars, IInv, ShapeOK, HandoffTypeOK
  <2>5. Ended(q.mem.point)'
    BY <2>3, <2>4 DEF Ended, Over
  <2>6. TodoInv(q) /\ HeadInv(q, <<q.mem.point, Head(q.todo)>>)'
    BY <1>1, <2>2 DEF CommandInv, TodoInv, HeadInv
  <2>7. CommandInv(q)'
    BY <1>1, <2>2, <2>5, <2>6 DEF CommandInv
  <2>8. QED
    BY <2>1, <2>7
<1>5. QED
  BY <1>2, <1>3, <1>4

\* Reading the relay: the list, the payload and the status.
LEMMA ReadsRelay ==
  ASSUME IInv, Onward, NEW c \in Commands,
         List(c) \/ Fetch(c) \/ (GetStatus(c) /\ Goto(c, "discard") /\ drop[Point(c)] \in Over)
  PROVE  CommandInv(cmd[c])' /\ cmd' \in [Commands -> Processes]
<1>1. PICK p \in Processes : p = cmd[c] /\ CommandInv(p) /\ CommandInv(p)'
  BY CommandBefore
<1>2. cmd \in [Commands -> Processes]
  BY DEF IInv, ShapeOK
<1>3. CASE List(c)
  <2>1. Ready(c) \in SUBSET SubIds
    BY <1>1 DEF Ready, Processes
  <2>2. PICK todo \in SetToSeqs(Ready(c)) :
               cmd' = [cmd EXCEPT ![c].pc = "fetch", ![c].todo = todo]
    BY <1>3 DEF List
  <2>3. todo \in Seq(SubIds) /\ IsInjective(todo) /\ ToSet(todo) = Ready(c)
    BY <2>1, <2>2, ListingOfIds
  <2> DEFINE q == [p EXCEPT !.pc = "fetch", !.todo = todo]
  <2>4. q \in Processes /\ q.mem = p.mem /\ q.todo = todo /\ q.pc = "fetch"
    BY <2>3 DEF Processes, Steps
  <2>5. cmd' = [cmd EXCEPT ![c] = q]
    BY <1>1, <1>2, <2>2
  <2>6. p.pc = "list" /\ \A s \in SubIds : p.mem.installed[s] # "unacked"
    BY <1>1, <1>3 DEF List, At, CommandInv, TodoInv
  <2>7. ASSUME NEW s \in ToSet(todo)
        PROVE  p.mem.installed[s] = "no"
    <3>1. s \in SubIds /\ sub[<<p.mem.point, s>>] = "ready"
      BY <1>1, <2>1, <2>3 DEF Ready, Point
    <3>2. p.mem.installed[s] \in {"no", "unacked", "acked"}
      BY <3>1 DEF Processes, States
    <3>3. p.mem.point \in DropPoints
      BY <1>1, <2>6, PointOfCommand DEF Point
    <3>4. <<p.mem.point, s>> \in Keys
      BY <3>1, <3>3 DEF Keys
    <3>5. drop[p.mem.point] # "purged"
      BY <1>3, <1>1 DEF List, Point
    <3>6. ~Settled(<<p.mem.point, s>>)
      BY <3>1, <3>5 DEF Settled
    <3>7. QED
      BY <1>1, <2>6, <3>1, <3>2, <3>6 DEF CommandInv, CopyInv
  <2>8. TodoInv(q) /\ HeadInv(q, <<q.mem.point, Head(q.todo)>>)'
    BY <2>3, <2>4, <2>7 DEF TodoInv, HeadInv
  <2> HIDE DEF q
  <2>9. CommandInv(q)'
    BY <1>1, <2>4, <2>6, <2>8, KeepsCopy
  <2>10. QED
    BY <1>2, <2>4, <2>5, <2>9
<1>4. CASE Fetch(c)
  <2>1. p.pc = "fetch" /\ p.todo # <<>>
    BY <1>1, <1>4 DEF Fetch, At
  <2>2. PICK k \in Keys : k = Key(c) /\ k = <<p.mem.point, Head(p.todo)>>
    BY <1>1, <2>1, KeyOfCommand DEF Key, Point
  <2>3. content[k] \in Contents /\ content[k] # NoContent /\ content' = content
    <3>1. sub[k] = "ready" /\ UNCHANGED relayVars
      BY <1>4, <2>2 DEF Fetch, Fetchable
    <3>2. QED
      BY <3>1 DEF IInv, RelayInv, ShapeOK, HandoffTypeOK, relayVars, handoffVars
  <2> DEFINE q == [p EXCEPT !.pc = "install", !.got = content[k]]
  <2>4. /\ q \in Processes /\ q.mem = p.mem /\ q.todo = p.todo /\ q.pc = "install"
        /\ q.got = content[k]
    BY <2>3 DEF Processes, Steps
  <2>5. cmd' = [cmd EXCEPT ![c] = q]
    BY <1>1, <1>2, <1>4, <2>2 DEF Fetch
  <2>6. PICK r \in Processes : r = q
    BY <2>4
  <2>7. TodoInv(r) /\ HeadInv(r, <<r.mem.point, Head(r.todo)>>)'
    BY <1>1, <2>1, <2>2, <2>3, <2>4, <2>6 DEF CommandInv, TodoInv, HeadInv
  <2>8. CommandInv(r)'
    BY <1>1, <2>1, <2>4, <2>6, <2>7, KeepsCopy
  <2> HIDE DEF q
  <2>9. cmd'[c] = r
    BY <1>2, <2>5, <2>6
  <2>10. QED
    BY <1>2, <2>4, <2>5, <2>8, <2>9
<1>5. CASE GetStatus(c) /\ Goto(c, "discard") /\ drop[Point(c)] \in Over
  <2>1. PICK q \in Processes : q = cmd'[c] /\ q = [p EXCEPT !.pc = "discard"]
    BY <1>1, <1>5, GotoEffect DEF Steps
  <2>2. q.mem = p.mem /\ q.todo = p.todo /\ q.pc = "discard" /\ p.pc = "status"
    BY <1>1, <1>5, <2>1 DEF GetStatus, At, Processes
  <2>3. PICK d \in DropPoints : d = Point(c) /\ d = q.mem.point
    BY <1>1, <2>2, PointOfCommand DEF Point
  <2>4. Ended(d)'
    BY <1>5, <2>3 DEF Onward, Ended
  <2>5. TodoInv(q) /\ HeadInv(q, <<q.mem.point, Head(q.todo)>>)'
    BY <1>1, <2>2 DEF CommandInv, TodoInv, HeadInv
  <2>6. CommandInv(q)'
    BY <1>1, <2>2, <2>3, <2>4, <2>5 DEF CommandInv
  <2>7. QED
    BY <1>5, <2>1, <2>6, ProcessMoves DEF IInv, Steps
<1>6. QED
  BY <1>3, <1>4, <1>5
-----------------------------------------------------------------------------
(* Saving the state *)

\* An entry that is written is true when it is written.
LEMMA EntryIsTrue ==
  ASSUME NEW m \in States, CopyInv(m)', m.point # NoPoint,
         NEW s \in SubIds, NEW how \in {"unacked", "acked"},
         bundle'[<<m.point, s>>] # NoContent,
         how = "acked" => Settled(<<m.point, s>>)',
         NEW n \in States, n.point = m.point, n.key = m.key, n.installed[s] = how,
         \A t \in SubIds \ {s} : n.installed[t] = m.installed[t]
  PROVE  CopyInv(n)'
BY DEF CopyInv

\* Receipts: installed, then acknowledged, in this run or a resumed one.
LEMMA ReceiptRelies ==
  ASSUME IInv, Onward, NEW c \in Commands,
         Record(c) \/ RecordAcknowledged(c) \/ RecordResumed(c)
  PROVE  /\ CommandInv(cmd[c])' /\ CopyInv(file)' /\ file' \in States
         /\ cmd' \in [Commands -> Processes]
         /\ \A b \in Commands \ {c} : cmd'[b] = cmd[b]
<1>0. cmd \in [Commands -> Processes]
  BY DEF IInv, ShapeOK
<1>1. PICK p \in Processes : p = cmd[c] /\ CommandInv(p) /\ CommandInv(p)'
  BY CommandBefore
<1>2. p.pc \in {"record", "acked", "resumed"} /\ p.todo # <<>>
  BY <1>1 DEF Record, RecordAcknowledged, RecordResumed, At, CommandInv, TodoInv
<1>3. PICK s \in SubIds : s = Head(p.todo)
  BY <1>1, <1>2, KeyOfCommand
<1>4. PICK k \in Keys : k = <<p.mem.point, s>>
  BY <1>1, <1>2, <1>3, KeyOfCommand DEF Key, Point
<1>5. /\ p.todo \in Seq(SubIds) /\ IsInjective(p.todo) /\ s \in ToSet(p.todo)
      /\ Tail(p.todo) \in Seq(SubIds) /\ IsInjective(Tail(p.todo))
      /\ ToSet(Tail(p.todo)) = ToSet(p.todo) \ {s}
  <2>1. p.todo \in Seq(SubIds) /\ IsInjective(p.todo)
    BY <1>1 DEF Processes, CommandInv, TodoInv
  <2>2. QED
    BY <1>2, <1>3, <2>1, RestOfList
<1>6. PICK how \in {"unacked", "acked"}, pc \in {"ack", "fetch", "resume"}, todo \in Seq(SubIds) :
        /\ Write(c, Recorded(c, how), pc, todo)
        /\ \/ p.pc = "record" /\ how = "unacked" /\ pc = "ack" /\ todo = p.todo
           \/ p.pc = "acked" /\ how = "acked" /\ pc = "fetch" /\ todo = Tail(p.todo)
           \/ p.pc = "resumed" /\ how = "acked" /\ pc = "resume" /\ todo = Tail(p.todo)
  BY <1>1, <1>5 DEF Record, RecordAcknowledged, RecordResumed, At
<1>7. PICK n \in States : n = Recorded(c, how)
  BY RecordedType DEF IInv
<1>8. n = [p.mem EXCEPT !.installed = [p.mem.installed EXCEPT ![s] = how]]
  BY <1>1, <1>3, <1>7 DEF Recorded
<1>9. PICK m \in States : m = p.mem
  BY DEF Processes
<1>10. CopyInv(m)' /\ m.point # NoPoint
  BY <1>1, <1>2, <1>9 DEF CommandInv
<1>11. bundle'[k] # NoContent /\ (how = "acked" => Settled(k)')
  <2>1. p.pc = "resumed" => p.mem.installed[s] = "unacked"
    BY <1>1, <1>5 DEF CommandInv, TodoInv
  <2>2. p.pc = "resumed" => bundle'[k] # NoContent
    BY <1>4, <1>9, <1>10, <2>1 DEF CopyInv
  <2>3. HeadInv(p, k)'
    BY <1>1, <1>3, <1>4 DEF CommandInv
  <2>4. QED
    BY <1>2, <1>6, <2>2, <2>3 DEF HeadInv
<1>12. /\ CopyInv(n)' /\ n.point = m.point /\ n.installed[s] = how
       /\ \A t \in SubIds \ {s} : n.installed[t] = m.installed[t]
  <2>1. k = <<m.point, s>> /\ n = [m EXCEPT !.installed = [m.installed EXCEPT ![s] = how]]
    BY <1>4, <1>8, <1>9
  <2>2. bundle'[<<m.point, s>>] # NoContent /\ (how = "acked" => Settled(<<m.point, s>>)')
    BY <1>11, <2>1
  <2>3. /\ n.point = m.point /\ n.key = m.key /\ n.installed[s] = how
        /\ \A t \in SubIds \ {s} : n.installed[t] = m.installed[t]
    BY <2>1 DEF States
  <2>4. CopyInv(n)'
    BY <1>10, <2>2, <2>3, EntryIsTrue
  <2>5. QED
    BY <2>3, <2>4
<1>13. /\ cmd' \in [Commands -> Processes] /\ file' \in States /\ file' = n
  <2>1. pc \in Steps
    BY DEF Steps
  <2>2. Write(c, n, pc, todo)
    BY <1>6, <1>7
  <2>3. QED
    BY <2>1, <2>2, ProcessMoves DEF IInv, Write
<1>14. PICK q \in Processes : q = cmd'[c]
  BY <1>13
<1>15. /\ q.pc = pc /\ q.mem = n /\ q.todo = todo
       /\ \A b \in Commands \ {c} : cmd'[b] = cmd[b]
  BY <1>0, <1>6, <1>7, <1>14 DEF Write, Processes
<1>16. TodoInv(q)
  <2>1. CASE p.pc = "record"
    <3>1. \A t \in ToSet(Tail(p.todo)) : n.installed[t] = "no"
      <4>1. ToSet(Tail(p.todo)) \subseteq SubIds \ {s}
        BY <1>5, ListedAreIds
      <4>2. \A t \in ToSet(p.todo) : m.installed[t] = "no"
        BY <1>1, <1>9, <2>1 DEF CommandInv, TodoInv
      <4>3. QED
        BY <1>5, <1>12, <4>1, <4>2
    <3>2. q.pc = "ack" /\ q.todo = p.todo /\ q.mem = n
      BY <1>6, <1>15, <2>1
    <3>3. QED
      BY <1>2, <1>5, <3>1, <3>2 DEF TodoInv
  <2>2. CASE p.pc = "acked"
    <3>1. \A t \in ToSet(todo) : n.installed[t] = "no"
      <4>1. ToSet(Tail(p.todo)) \subseteq SubIds \ {s}
        BY <1>5, ListedAreIds
      <4>2. \A t \in ToSet(Tail(p.todo)) : m.installed[t] = "no"
        BY <1>1, <1>9, <2>2 DEF CommandInv, TodoInv
      <4>3. QED
        BY <1>6, <1>12, <2>2, <4>1, <4>2
    <3>2. QED
      BY <1>5, <1>6, <1>15, <2>2, <3>1 DEF TodoInv
  <2>3. CASE p.pc = "resumed"
    <3>1. ToSet(todo) = {t \in SubIds : n.installed[t] = "unacked"}
      <4>1. ToSet(p.todo) = {t \in SubIds : m.installed[t] = "unacked"}
        BY <1>1, <1>9, <2>3 DEF CommandInv, TodoInv
      <4>2. ToSet(todo) = ToSet(p.todo) \ {s} /\ how = "acked"
        BY <1>5, <1>6, <2>3
      <4>3. QED
        BY <1>12, <4>1, <4>2
    <3>2. QED
      BY <1>5, <1>6, <1>15, <2>3, <3>1 DEF TodoInv
  <2>4. QED
    BY <1>2, <2>1, <2>2, <2>3
<1>17. HeadInv(q, <<q.mem.point, Head(q.todo)>>)'
  <2>1. q.pc = "ack" => <<q.mem.point, Head(q.todo)>> = k
    BY <1>3, <1>4, <1>6, <1>9, <1>12, <1>15
  <2>2. QED
    BY <1>11, <1>15, <2>1 DEF HeadInv
<1>18. CommandInv(q)'
  BY <1>9, <1>10, <1>12, <1>15, <1>16, <1>17 DEF CommandInv
<1>19. CopyInv(file)'
  BY <1>12, <1>13
<1>20. QED
  BY <1>13, <1>14, <1>15, <1>18, <1>19

\* A new drop point's state, or the state without the key of an ended one.
LEMMA SavedRelies ==
  ASSUME IInv, Onward, NEW c \in Commands, SaveState(c) \/ DiscardPrivateKey(c)
  PROVE  CopyInv(file)' /\ file' \in States
<1>1. PICK p \in Processes : p = cmd[c] /\ CommandInv(p) /\ CommandInv(p)'
  BY CommandBefore
<1>2. PICK m \in States : m = p.mem
  BY DEF Processes
<1>3. CopyInv(m)'
  BY <1>1, <1>2 DEF CommandInv
<1>4. CASE file' = m
  BY <1>3, <1>4
<1>5. CASE DiscardPrivateKey(c) /\ p.mem.key
  <2>1. PICK n \in States : n = [m EXCEPT !.key = FALSE]
    BY DEF States
  <2>2. n.point = m.point /\ n.installed = m.installed
    BY <2>1 DEF States
  <2>3. Ended(m.point)'
    BY <1>1, <1>2, <1>5 DEF DiscardPrivateKey, At, CommandInv
  <2>4. CopyInv(n)'
    BY <1>3, <2>2, <2>3 DEF CopyInv
  <2>5. file' = n
    BY <1>1, <1>2, <1>5, <2>1 DEF DiscardPrivateKey
  <2>6. QED
    BY <2>4, <2>5
<1>6. CASE file' = file
  <2>1. PICK n \in States : n = file
    BY DEF IInv, ShapeOK
  <2>2. CopyInv(n)'
    BY <2>1, CopyStays DEF IInv
  <2>3. QED
    BY <1>6, <2>1, <2>2
<1>7. QED
  BY <1>1, <1>2, <1>4, <1>5, <1>6 DEF SaveState, DiscardPrivateKey
-----------------------------------------------------------------------------
(* The invariant *)

\* The commands and the file after a step.
ProcessesHold ==
  /\ cmd \in [Commands -> Processes] /\ file \in States
  /\ CopyInv(file)
  /\ \A c \in Commands : CommandInv(cmd[c])

\* Commands that do nothing keep what they rely on, and so does the file.
LEMMA OthersRely ==
  ASSUME IInv, Onward, NEW c \in Commands, CommandInv(cmd[c])',
         cmd' \in [Commands -> Processes], CopyInv(file)', file' \in States,
         \A b \in Commands \ {c} : cmd'[b] = cmd[b]
  PROVE  ProcessesHold'
<1>1. ASSUME NEW b \in Commands
      PROVE  CommandInv(cmd[b])'
  <2>1. CASE b = c
    BY <2>1
  <2>2. CASE b # c
    <3>1. PICK p \in Processes : p = cmd[b] /\ CommandInv(p)'
      BY CommandBefore
    <3>2. p = cmd'[b]
      BY <2>2, <3>1
    <3>3. QED
      BY <3>1, <3>2
  <2>3. QED
    BY <2>1, <2>2
<1>2. QED
  BY <1>1 DEF ProcessesHold

\* A file that is not written keeps what can be relied on.
LEMMA FileStays ==
  ASSUME IInv, Onward, file' = file
  PROVE  CopyInv(file)' /\ file' \in States
<1>1. PICK m \in States : m = file
  BY DEF IInv, ShapeOK
<1>2. CopyInv(m)'
  BY <1>1, CopyStays DEF IInv
<1>3. QED
  BY <1>1, <1>2

\* A command that ends relies on nothing.
LEMMA FinishRelies ==
  ASSUME IInv, NEW c \in Commands, Finish(c)
  PROVE  /\ CommandInv(cmd[c])' /\ cmd' \in [Commands -> Processes]
         /\ \A b \in Commands \ {c} : cmd'[b] = cmd[b]
<1>1. cmd' \in [Commands -> Processes] /\ cmd \in [Commands -> Processes]
  BY ProcessMoves DEF IInv, ShapeOK
<1>2. cmd'[c] = Idle /\ \A b \in Commands \ {c} : cmd'[b] = cmd[b]
  BY <1>1 DEF Finish
<1>3. CommandInv(cmd[c])'
  BY <1>2, IdleRelies
<1>4. QED
  BY <1>1, <1>2, <1>3

\* Each step of a command leaves it, and all others, with what they rely on.
LEMMA CommandStepRelies ==
  ASSUME IInv, Onward, NEW c \in Commands, CommandStep(c)
  PROVE  ProcessesHold'
<1> DEFINE Rest == \A b \in Commands \ {c} : cmd'[b] = cmd[b]
<1>1. ASSUME NEW pc \in Steps, Goto(c, pc)
      PROVE  cmd' \in [Commands -> Processes] /\ Rest
  BY <1>1, GotoEffect, ProcessMoves DEF IInv
<1>2. CASE Finish(c)
  <2>1. CopyInv(file)' /\ file' \in States
    <3>1. CASE SaveState(c) \/ DiscardPrivateKey(c)
      BY <3>1, SavedRelies
    <3>2. CASE file' = file
      BY <3>2, FileStays
    <3>3. CASE Record(c) \/ RecordAcknowledged(c) \/ RecordResumed(c)
      BY <3>3, ReceiptRelies
    <3>4. QED
      BY <3>1, <3>2, <3>3
         DEF CommandStep, Resume, ResumeDone, List, TimeOut, Fetch, Install, AcknowledgeInstalled,
             Acknowledge, PickupDone, Close, GetStatus, Refuse, diskVars
  <2>2. QED
    BY <1>2, <2>1, FinishRelies, OthersRely
<1>3. CASE Record(c) \/ RecordAcknowledged(c) \/ RecordResumed(c)
  BY <1>3, ReceiptRelies, OthersRely
<1>4. CASE Resume(c) \/ AcknowledgeInstalled(c)
  <2>1. CommandInv(cmd[c])'
    BY <1>4, AcknowledgeRelies
  <2>2. cmd' \in [Commands -> Processes] /\ Rest /\ file' = file
    BY <1>1, <1>4 DEF Resume, AcknowledgeInstalled, Acknowledge, diskVars, Steps
  <2>3. QED
    BY <2>1, <2>2, FileStays, OthersRely
<1>5. CASE ResumeDone(c) \/ Install(c) \/ Close(c)
  <2>1. CommandInv(cmd[c])'
    BY <1>5, GoesOn
  <2>2. cmd' \in [Commands -> Processes] /\ Rest /\ file' = file
    BY <1>1, <1>5 DEF ResumeDone, Install, Close, diskVars, Steps
  <2>3. QED
    BY <2>1, <2>2, FileStays, OthersRely
<1>6. CASE List(c) \/ Fetch(c) \/ (GetStatus(c) /\ Goto(c, "discard") /\ drop[Point(c)] \in Over)
  <2>1. CommandInv(cmd[c])' /\ cmd' \in [Commands -> Processes]
    BY <1>6, ReadsRelay
  <2>2. Rest /\ file' = file
    BY <1>1, <1>6 DEF List, Fetch, GetStatus, diskVars, Steps, IInv, ShapeOK
  <2>3. QED
    BY <2>1, <2>2, FileStays, OthersRely
<1>7. CASE PickupDone(c) /\ Goto(c, "close")
  <2>1. PICK p \in Processes : p = cmd[c] /\ CommandInv(p)'
    BY CommandBefore
  <2>2. PICK q \in Processes : q = cmd'[c] /\ q = [p EXCEPT !.pc = "close"]
    BY <1>7, <2>1, GotoEffect DEF Steps
  <2>3. q.mem = p.mem /\ q.todo = p.todo /\ q.pc = "close" /\ p.pc = "fetch"
    BY <1>7, <2>1, <2>2 DEF PickupDone, At, Processes
  <2>4. TodoInv(q) /\ HeadInv(q, <<q.mem.point, Head(q.todo)>>)'
    BY <2>1, <2>3 DEF CommandInv, TodoInv, HeadInv
  <2>5. CommandInv(q)'
    BY <2>1, <2>3, <2>4, KeepsCopy
  <2>6. CommandInv(cmd[c])'
    BY <2>2, <2>5
  <2>7. cmd' \in [Commands -> Processes] /\ Rest /\ file' = file
    BY <1>1, <1>7 DEF PickupDone, diskVars, Steps
  <2>8. QED
    BY <2>6, <2>7, FileStays, OthersRely
<1>8. QED
  BY <1>2, <1>3, <1>4, <1>5, <1>6, <1>7
     DEF CommandStep, SaveState, TimeOut, PickupDone, GetStatus, DiscardPrivateKey, Refuse

\* An acknowledgement whose client is gone is one of an installed bundle.
LEMMA LateStep ==
  ASSUME IInv, Onward, [Next]_vars
  PROVE  late' \subseteq Keys /\ LateIsInstalled' /\ faults' \in 0 .. MaxFaults
<1>0. late \subseteq Keys /\ LateIsInstalled /\ faults \in 0 .. MaxFaults /\ MaxFaults \in Nat
  BY ClientAssumption DEF IInv, ShapeOK
<1>1. ASSUME NEW c \in Commands, DieAcknowledging(c)
      PROVE  /\ Key(c) \in Keys /\ bundle[Key(c)] # NoContent /\ late' = late \cup {Key(c)}
  <2>1. cmd[c].pc \in {"resume", "ack"} /\ cmd[c].todo # <<>>
    BY <1>1 DEF DieAcknowledging, At
  <2>2. bundle[Key(c)] # NoContent
    BY <1>1, <2>1
       DEF DieAcknowledging, At, Verified, IInv, CommandInv, HeadInv, Key, Point
  <2>3. QED
    BY <1>1, <2>1, <2>2, KeyOfCommand DEF DieAcknowledging
<1>2. ASSUME NEW c \in Commands, Begin(c) \/ CommandStep(c)
      PROVE  UNCHANGED <<late, faults>>
  <2>1. CASE Begin(c)
    BY <2>1 DEF Begin, StartPickup, StartStatus, Start, CreateDropPoint
  <2>2. CASE SaveState(c) \/ Record(c) \/ RecordAcknowledged(c) \/ RecordResumed(c) \/ DiscardPrivateKey(c)
    BY <2>2 DEF SaveState, Record, RecordAcknowledged, RecordResumed, DiscardPrivateKey, Write
  <2>3. CASE Resume(c) \/ AcknowledgeInstalled(c)
    BY <2>3 DEF Resume, AcknowledgeInstalled, Acknowledge
  <2>4. CASE ResumeDone(c) \/ List(c) \/ TimeOut(c) \/ Fetch(c) \/ Install(c) \/ PickupDone(c)
    BY <2>4 DEF ResumeDone, List, TimeOut, Fetch, Install, PickupDone
  <2>5. CASE Close(c) \/ GetStatus(c) \/ Refuse(c)
    BY <2>5 DEF Close, GetStatus, Refuse
  <2>6. QED
    BY <1>2, <2>1, <2>2, <2>3, <2>4, <2>5 DEF CommandStep
<1>3. /\ late' \subseteq late \/ \E c \in Commands : DieAcknowledging(c)
      /\ faults' = faults \/ (faults < MaxFaults /\ faults' = faults + 1)
  <2>1. CASE \E c \in Commands : Begin(c) \/ CommandStep(c)
    BY <1>2, <2>1
  <2>2. CASE \E c \in Commands : Die(c) \/ DieAcknowledging(c)
    BY <2>2 DEF Die, DieAcknowledging
  <2>3. CASE \/ \E k \in Keys : LateAcknowledge(k) \/ Fail(k) \/ \E x \in Contents : Arrive(k, x)
             \/ \E d \in DropPoints : Expire(d) \/ Purge(d)
             \/ UNCHANGED vars
    BY <2>3 DEF LateAcknowledge, Fail, Arrive, Expire, Purge, vars
  <2>4. QED
    BY <2>1, <2>2, <2>3 DEF Next
<1>4. \A k \in late' : k \in Keys /\ bundle[k] # NoContent
  BY <1>0, <1>1, <1>3 DEF LateIsInstalled
<1>5. late' \subseteq Keys /\ LateIsInstalled'
  BY <1>4 DEF Onward, LateIsInstalled
<1>6. faults' \in 0 .. MaxFaults
  BY <1>0, <1>3
<1>7. QED
  BY <1>5, <1>6

\* The invariant is inductive.
LEMMA IInvStep == IInv /\ [Next]_vars => IInv'
<1> SUFFICES ASSUME IInv, [Next]_vars
             PROVE  IInv'
  OBVIOUS
<1>1. RelayStays \/ (RelayMoves /\ UNCHANGED bundle)
  BY RelayKinds
<1>2. Onward
  BY <1>1, OnwardStep
<1>3. /\ HandoffTypeOK' /\ RelayInv' /\ QueueInv' /\ queue' \in [DropPoints -> Seq(SubIds)]
      /\ BundlesAreGenuine' /\ TakenIsInstalled' /\ bundle' \in [Keys -> Contents \cup {NoContent}]
  BY <1>1, RelayTypeStep, RelayInvStep, QueueStep, BundlesStep
<1>4. late' \subseteq Keys /\ LateIsInstalled' /\ faults' \in 0 .. MaxFaults
  BY <1>2, LateStep
<1>5. ProcessesHold'
  <2>1. CASE UNCHANGED <<file, cmd>>
    <3>1. ASSUME NEW b \in Commands
          PROVE  CommandInv(cmd[b])'
      <4>1. PICK p \in Processes : p = cmd[b] /\ CommandInv(p)'
        BY <1>2, CommandBefore
      <4>2. p = cmd'[b]
        BY <2>1, <4>1
      <4>3. QED
        BY <4>1, <4>2
    <3>2. cmd' \in [Commands -> Processes]
      BY <2>1 DEF IInv, ShapeOK
    <3>3. QED
      BY <1>2, <2>1, <3>1, <3>2, FileStays DEF ProcessesHold
  <2>2. ASSUME NEW c \in Commands, Begin(c)
        PROVE  ProcessesHold'
    BY <1>2, <2>2, BeginRelies, FileStays, OthersRely
  <2>3. ASSUME NEW c \in Commands, CommandStep(c)
        PROVE  ProcessesHold'
    BY <1>2, <2>3, CommandStepRelies
  <2>4. ASSUME NEW c \in Commands, Die(c) \/ DieAcknowledging(c)
        PROVE  ProcessesHold'
    BY <1>2, <2>4, FinishRelies, FileStays, OthersRely DEF Die, DieAcknowledging, diskVars
  <2>5. QED
    BY <2>1, <2>2, <2>3, <2>4
       DEF Next, vars, LateAcknowledge, Fail, Arrive, Expire, Purge, diskVars
<1>6. QED
  BY <1>3, <1>4, <1>5 DEF IInv, ShapeOK, ProcessesHold

\* It holds at the start: nothing exists, and nothing is recorded.
LEMMA IInvInit == Init => IInv
<1> SUFFICES ASSUME Init
             PROVE  IInv
  OBVIOUS
<1> USE DEF Init, HandoffInit
<1>1. NoState \in States
  BY DEF NoState, States
<1>2. Idle \in Processes
  BY <1>1, EmptySeq DEF Idle, Processes, Steps
<1>3. ShapeOK
  BY <1>1, <1>2, EmptySeq, ClientAssumption DEF ShapeOK, HandoffTypeOK
<1>4. RelayInv /\ BundlesAreGenuine /\ TakenIsInstalled /\ LateIsInstalled
  BY DEF RelayInv, BundlesAreGenuine, TakenIsInstalled, LateIsInstalled
<1>5. QueueInv
  <2>1. IsInjective(<<>>) /\ ToSet(<<>>) = {}
    BY DEF IsInjective, ToSet
  <2>2. QED
    BY <2>1 DEF QueueInv
<1>6. CopyInv(NoState)
  BY DEF CopyInv, NoState
<1>7. CommandInv(Idle)
  BY <1>6 DEF CommandInv, TodoInv, HeadInv, Idle, IsInjective
<1>8. QED
  BY <1>3, <1>4, <1>5, <1>6, <1>7 DEF IInv

\* Everything the proofs rely on holds throughout.
THEOREM ClientHolds == Spec => []IInv
BY IInvInit, IInvStep, PTL DEF Spec

-----------------------------------------------------------------------------
(* What the client guarantees *)

\* The relay, the files and the commands keep their types.
THEOREM ClientTyped == Spec => []TypeOK
<1>1. ASSUME IInv
      PROVE  TypeOK
  <2>1. \A q \in Seq(SubIds) : ToSet(q) \subseteq SubIds
    BY ListedAreIds
  <2>2. \A c \in Commands : cmd[c] \in Processes
    BY <1>1 DEF IInv, ShapeOK
  <2>3. \A c \in Commands :
          /\ cmd[c].pc \in Steps /\ cmd[c].mem \in States
          /\ ToSet(cmd[c].todo) \subseteq SubIds /\ cmd[c].only \subseteq SubIds
          /\ cmd[c].close \in BOOLEAN /\ cmd[c].got \in Contents \cup {NoContent}
    BY <2>1, <2>2 DEF Processes
  <2>4. QED
    BY <1>1, <2>1, <2>3 DEF IInv, ShapeOK, QueueInv, TypeOK
<1>2. QED
  BY <1>1, ClientHolds, PTL

\* Whatever is acknowledged at the relay is on the receiver's disk as it was sent.
THEOREM InstalledBeforeTaken == Spec => []TakenIsInstalled
<1>1. IInv => TakenIsInstalled
  BY DEF IInv
<1>2. QED
  BY <1>1, ClientHolds, PTL

\* The entries of the state file are true, and no listed submission has one.
THEOREM ReceiptsCanBeTrusted == Spec => []ReceiptsAreTrue
<1>1. ASSUME IInv
      PROVE  ReceiptsAreTrue
  <2>1. ASSUME NEW s \in SubIds, file.installed[s] # "no"
        PROVE  /\ bundle[<<file.point, s>>] # NoContent
               /\ file.installed[s] = "acked" => sub[<<file.point, s>>] # "ready"
    <3>1. /\ file.point # NoPoint /\ bundle[<<file.point, s>>] # NoContent
          /\ file.installed[s] = "acked" => Settled(<<file.point, s>>)
      BY <1>1, <2>1 DEF IInv, CopyInv
    <3>2. PICK k \in Keys : k = <<file.point, s>>
      BY <1>1, <3>1 DEF IInv, ShapeOK, States, Keys
    <3>3. Settled(k) => sub[k] # "ready"
      BY <1>1 DEF IInv, RelayInv, Settled
    <3>4. QED
      BY <3>1, <3>2, <3>3
  <2>2. ASSUME NEW c \in Commands, At(c, "fetch"), NEW s \in ToSet(cmd[c].todo)
        PROVE  cmd[c].mem.installed[s] = "no"
    BY <1>1, <2>2 DEF At, IInv, CommandInv, TodoInv
  <2>3. QED
    BY <2>1, <2>2 DEF ReceiptsAreTrue
<1>2. QED
  BY <1>1, ClientHolds, PTL

\* No command, however late it acts, gives up the key of a drop point that is open.
THEOREM KeyIsKept == Spec => KeyKeptWhileOpen
<1> DEFINE Kept == file.key /\ drop'[file.point] = "open" /\ file'.point = file.point => file'.key
<1>1. ASSUME IInv, IInv', [Next]_vars
      PROVE  [Kept]_vars
  <2>1. CASE file'.point \in DropPoints
    <3>1. CopyInv(file)'
      BY <1>1 DEF IInv
    <3>2. file'.point # NoPoint => Ended(file.point)' \/ file'.key
      BY <3>1 DEF CopyInv
    <3>3. drop'[file'.point] = "open" => ~Ended(file.point)'
      BY DEF Ended, Over
    <3>4. QED
      BY <2>1, <3>2, <3>3, ClientAssumption
  <2>2. CASE file'.point = NoPoint
    <3>1. ASSUME NEW c \in Commands, SaveState(c) \/ Record(c) \/ RecordAcknowledged(c)
                                     \/ RecordResumed(c) \/ DiscardPrivateKey(c)
          PROVE  file' = file \/ file'.point \in DropPoints
      <4>1. cmd[c].pc # "idle"
        BY <3>1 DEF SaveState, Record, RecordAcknowledged, RecordResumed, DiscardPrivateKey, At
      <4>2. Point(c) \in DropPoints
        BY <1>1, <4>1, PointOfCommand
      <4>3. file' = file \/ file'.point = Point(c)
        BY <1>1, <3>1
           DEF SaveState, Record, RecordAcknowledged, RecordResumed, DiscardPrivateKey, Write, Recorded,
               Point, IInv, ShapeOK, Processes, States
      <4>4. QED
        BY <4>2, <4>3
    <3>2. file' = file
      BY <1>1, <2>2, <3>1, ClientAssumption
         DEF Next, vars, Begin, StartPickup, StartStatus, Start, CreateDropPoint, CommandStep, Resume,
             ResumeDone, List, TimeOut, Fetch, Install, AcknowledgeInstalled, Acknowledge, PickupDone,
             Close, GetStatus, Refuse, Die, DieAcknowledging, LateAcknowledge, Fail, Arrive, Expire,
             Purge, diskVars
    <3>3. QED
      BY <3>2
  <2>3. QED
    BY <1>1, <2>1, <2>2 DEF IInv, ShapeOK, States
<1>2. QED
  BY <1>1, ClientHolds, PTL DEF Spec, KeyKeptWhileOpen

-----------------------------------------------------------------------------
(* One command at a time *)

OneCommand == \A a, b \in Commands : a = b

\* The command's copy is the file, and what is or will be taken has an entry in it.
RecordInv ==
  /\ \A k \in Keys : (sub[k] = "taken" \/ k \in late) /\ file.point = k[1]
                       => file.installed[k[2]] # "no"
  /\ \A c \in Commands :
       /\ cmd[c].pc \notin {"idle", "save"} => cmd[c].mem = file
       /\ cmd[c].pc \in {"ack", "acked"} => file.installed[Head(cmd[c].todo)] # "no"
       /\ cmd[c].pc = "save" =>
            \A k \in Keys : k[1] = Point(c) => sub[k] # "taken" /\ k \notin late

\* An acknowledgement under way has its entry in the file.
LEMMA AcknowledgementHasEntry ==
  ASSUME IInv, RecordInv, NEW c \in Commands,
         Resume(c) \/ AcknowledgeInstalled(c) \/ DieAcknowledging(c)
  PROVE  /\ cmd[c].pc \in {"resume", "ack"} /\ Key(c) \in Keys
         /\ file.point = Key(c)[1] /\ file.installed[Key(c)[2]] # "no"
<1>1. cmd[c].pc \in {"resume", "ack"} /\ cmd[c].todo # <<>>
  BY DEF Resume, AcknowledgeInstalled, DieAcknowledging, At, IInv, CommandInv, TodoInv
<1>2. /\ Key(c) \in Keys /\ Key(c)[1] = Point(c) /\ Key(c)[2] = Head(cmd[c].todo)
      /\ Head(cmd[c].todo) \in SubIds /\ Head(cmd[c].todo) \in ToSet(cmd[c].todo)
  BY <1>1, KeyOfCommand
<1>3. cmd[c].mem = file
  BY <1>1 DEF RecordInv
<1>4. cmd[c].pc = "resume" => file.installed[Head(cmd[c].todo)] = "unacked"
  BY <1>2, <1>3 DEF IInv, CommandInv, TodoInv
<1>5. cmd[c].pc = "ack" => file.installed[Head(cmd[c].todo)] # "no"
  BY DEF RecordInv
<1>6. QED
  BY <1>1, <1>2, <1>3, <1>4, <1>5 DEF Point

\* A submission becomes taken, or its acknowledgement late, by a command that is at it.
LEMMA TakenKinds ==
  ASSUME IInv, [Next]_vars, NEW k \in Keys, sub'[k] = "taken" \/ k \in late'
  PROVE  \/ sub[k] = "taken" \/ k \in late
         \/ \E c \in Commands : /\ Resume(c) \/ AcknowledgeInstalled(c) \/ DieAcknowledging(c)
                               /\ k = Key(c)
<1> DEFINE Goal == \/ sub[k] = "taken" \/ k \in late
                   \/ \E c \in Commands :
                        /\ Resume(c) \/ AcknowledgeInstalled(c) \/ DieAcknowledging(c)
                        /\ k = Key(c)
<1>0. sub \in [Keys -> {"absent", "ready", "taken", "lost"}]
  BY DEF IInv, ShapeOK, HandoffTypeOK
<1>1. CASE UNCHANGED <<sub, late>>
  BY <1>1
<1>2. ASSUME NEW c \in Commands, Begin(c)
      PROVE  UNCHANGED <<sub, late>>
  BY <1>2 DEF Begin, StartPickup, StartStatus, Start, CreateDropPoint, Open, relayVars, handoffVars
<1>3. ASSUME NEW c \in Commands, CommandStep(c)
      PROVE  Goal
  <2>1. CASE Resume(c) \/ AcknowledgeInstalled(c)
    <3>1. Take(Key(c)) \/ UNCHANGED handoffVars
      BY <2>1, AcknowledgementIsInstalled
    <3>2. late' = late
      BY <2>1 DEF Resume, AcknowledgeInstalled, Acknowledge
    <3>3. QED
      BY <1>0, <2>1, <3>1, <3>2 DEF Take, handoffVars
  <2>2. CASE Close(c)
    BY <1>1, <2>2 DEF Close, End, handoffVars
  <2>3. CASE ~(Resume(c) \/ AcknowledgeInstalled(c) \/ Close(c))
    BY <1>1, <1>3, <2>3
       DEF CommandStep, SaveState, RecordResumed, ResumeDone, List, TimeOut, Fetch, Install, Record,
           RecordAcknowledged, PickupDone, GetStatus, DiscardPrivateKey, Refuse, Write, relayVars,
           handoffVars
  <2>4. QED
    BY <2>1, <2>2, <2>3
<1>4. ASSUME NEW c \in Commands, Die(c) \/ DieAcknowledging(c)
      PROVE  Goal
  BY <1>4 DEF Die, DieAcknowledging, relayVars, handoffVars
<1>5. ASSUME NEW l \in Keys, LateAcknowledge(l) \/ Fail(l) \/ \E x \in Contents : Arrive(l, x)
      PROVE  Goal
  <2>1. CASE LateAcknowledge(l)
    BY <1>0, <2>1 DEF LateAcknowledge, Take, handoffVars
  <2>2. CASE Fail(l) \/ \E x \in Contents : Arrive(l, x)
    BY <1>0, <2>2 DEF Fail, Arrive, Lose, Offer
  <2>3. QED
    BY <1>5, <2>1, <2>2
<1>6. ASSUME NEW d \in DropPoints, Expire(d) \/ Purge(d)
      PROVE  Goal
  BY <1>0, <1>6 DEF Expire, Purge, End, Forget
<1>7. QED
  BY <1>1, <1>2, <1>3, <1>4, <1>5, <1>6 DEF Next, vars, relayVars, handoffVars

\* A command that writes puts its own copy in place of the file, with one more entry.
LEMMA WritesEntry ==
  ASSUME IInv, NEW c \in Commands, Record(c) \/ RecordAcknowledged(c) \/ RecordResumed(c)
  PROVE  /\ cmd[c].pc \notin {"idle", "save"}
         /\ file'.point = Point(c) /\ cmd'[c].mem = file'
         /\ \A s \in SubIds : cmd[c].mem.installed[s] # "no" => file'.installed[s] # "no"
         /\ cmd'[c].pc \in {"ack", "acked"} => file'.installed[Head(cmd'[c].todo)] # "no"
         /\ cmd'[c].pc # "save" /\ UNCHANGED <<sub, late>>
<1>1. PICK p \in Processes : p = cmd[c]
  BY DEF IInv, ShapeOK
<1>2. p.pc \in {"record", "acked", "resumed"} /\ p.todo # <<>>
  BY <1>1 DEF Record, RecordAcknowledged, RecordResumed, At, IInv, CommandInv, TodoInv
<1>3. Head(p.todo) \in SubIds /\ Tail(p.todo) \in Seq(SubIds)
  BY <1>1, <1>2, KeyOfCommand
<1>4. PICK how \in {"unacked", "acked"}, pc \in {"ack", "fetch", "resume"}, todo \in Seq(SubIds) :
        /\ Write(c, Recorded(c, how), pc, todo)
        /\ pc = "ack" => todo = p.todo
  BY <1>1, <1>3 DEF Record, RecordAcknowledged, RecordResumed, Processes
<1>5. PICK n \in States : n = Recorded(c, how)
  BY RecordedType DEF IInv
<1>6. /\ n.point = p.mem.point /\ n.installed[Head(p.todo)] = how
      /\ \A s \in SubIds \ {Head(p.todo)} : n.installed[s] = p.mem.installed[s]
  BY <1>1, <1>3, <1>5 DEF Recorded, Processes, States
<1>7. file' = n /\ cmd'[c].mem = n /\ cmd'[c].pc = pc /\ cmd'[c].todo = todo
  BY <1>4, <1>5 DEF Write, IInv, ShapeOK, Processes
<1>8. UNCHANGED <<sub, late>>
  BY <1>4 DEF Write, relayVars, handoffVars
<1>9. QED
  BY <1>1, <1>2, <1>4, <1>6, <1>7, <1>8 DEF Point

\* What is taken, or will be, keeps its entry.
LEMMA EntriesStep ==
  ASSUME IInv, RecordInv, [Next]_vars,
         NEW k \in Keys, sub'[k] = "taken" \/ k \in late', file'.point = k[1]
  PROVE  file'.installed[k[2]] # "no"
<1>0. k[2] \in SubIds
  BY DEF Keys
<1>1. CASE file' = file
  <2>1. CASE sub[k] = "taken" \/ k \in late
    BY <1>1, <2>1 DEF RecordInv
  <2>2. CASE ~(sub[k] = "taken" \/ k \in late)
    BY <1>1, <2>2, TakenKinds, AcknowledgementHasEntry
  <2>3. QED
    BY <2>1, <2>2
<1>2. ASSUME NEW c \in Commands, Record(c) \/ RecordAcknowledged(c) \/ RecordResumed(c)
      PROVE  file'.installed[k[2]] # "no"
  <2>1. /\ cmd[c].mem = file /\ file'.point = Point(c) /\ UNCHANGED <<sub, late>>
        /\ \A s \in SubIds : file.installed[s] # "no" => file'.installed[s] # "no"
    BY <1>2, WritesEntry DEF RecordInv
  <2>2. QED
    BY <1>0, <2>1 DEF RecordInv, Point
<1>3. ASSUME NEW c \in Commands, SaveState(c)
      PROVE  file'.installed[k[2]] # "no"
  BY <1>3 DEF SaveState, At, RecordInv, Point, relayVars, handoffVars
<1>4. ASSUME NEW c \in Commands, DiscardPrivateKey(c)
      PROVE  file'.installed[k[2]] # "no"
  <2>1. cmd[c].mem = file /\ UNCHANGED <<sub, late>>
    BY <1>4 DEF DiscardPrivateKey, At, RecordInv, relayVars, handoffVars
  <2>2. file'.point = file.point /\ file'.installed = file.installed
    BY <1>4, <2>1 DEF DiscardPrivateKey, IInv, ShapeOK, States
  <2>3. QED
    BY <2>1, <2>2 DEF RecordInv
<1>5. QED
  BY <1>1, <1>2, <1>3, <1>4
     DEF Next, vars, Begin, StartPickup, StartStatus, Start, CreateDropPoint, CommandStep, Resume,
         ResumeDone, List, TimeOut, Fetch, Install, AcknowledgeInstalled, Acknowledge, PickupDone,
         Close, GetStatus, Refuse, Die, DieAcknowledging, LateAcknowledge, Fail, Arrive, Expire,
         Purge, diskVars

\* What RecordInv says of a command.
CommandRecords(c) ==
  /\ cmd[c].pc \notin {"idle", "save"} => cmd[c].mem = file
  /\ cmd[c].pc \in {"ack", "acked"} => file.installed[Head(cmd[c].todo)] # "no"
  /\ cmd[c].pc = "save" => \A k \in Keys : k[1] = Point(c) => sub[k] # "taken" /\ k \notin late

\* The only command's copy stays the file.
LEMMA CommandRecordsStep ==
  ASSUME OneCommand, IInv, RecordInv, [Next]_vars, NEW c \in Commands
  PROVE  CommandRecords(c)'
<1>0. cmd \in [Commands -> Processes] /\ \A b \in Commands : b = c
  BY DEF IInv, ShapeOK, OneCommand
<1>1. CASE cmd'[c].pc = "idle"
  BY <1>1 DEF CommandRecords
<1>2. ASSUME cmd'[c] = cmd[c], file' = file,
             ~(Resume(c) \/ AcknowledgeInstalled(c) \/ DieAcknowledging(c))
      PROVE  CommandRecords(c)'
  <2>1. ASSUME NEW k \in Keys, sub'[k] = "taken" \/ k \in late'
        PROVE  sub[k] = "taken" \/ k \in late
    BY <1>0, <1>2, <2>1, TakenKinds
  <2>2. Point(c)' = Point(c)
    BY <1>2 DEF Point
  <2>3. QED
    BY <1>2, <2>1, <2>2 DEF CommandRecords, RecordInv
<1>3. ASSUME NEW pc \in Steps \ {"idle", "save", "ack"}, Goto(c, pc), file' = file,
             cmd[c].pc \notin {"idle", "save"},
             pc = "acked" => cmd[c].pc = "ack"
      PROVE  CommandRecords(c)'
  <2>1. cmd'[c].pc = pc /\ cmd'[c].mem = cmd[c].mem /\ cmd'[c].todo = cmd[c].todo
    <3>1. cmd[c] \in Processes /\ cmd'[c] = [cmd[c] EXCEPT !.pc = pc]
      BY <1>0, <1>3, GotoEffect
    <3>2. QED
      BY <3>1 DEF Processes
  <2>2. QED
    BY <1>3, <2>1 DEF CommandRecords, RecordInv
<1>4. CASE Begin(c)
  <2>1. CASE \E d \in DropPoints : CreateDropPoint(c, d)
    <3>1. PICK d \in DropPoints : CreateDropPoint(c, d)
      BY <2>1
    <3>2. cmd'[c].pc = "save" /\ Point(c)' = d
      BY <1>0, <3>1 DEF CreateDropPoint, Idle, NoState, Point
    <3>3. drop[d] = "none" /\ sub' = sub /\ late' = late
      BY <3>1 DEF CreateDropPoint, Open
    <3>4. ASSUME NEW k \in Keys, k[1] = d
          PROVE  sub[k] # "taken" /\ k \notin late
      <4>1. sub[k] = "absent" /\ content[k] = NoContent
        BY <3>3, <3>4 DEF IInv, RelayInv
      <4>2. bundle[k] = NoContent
        BY <3>3, <3>4, <4>1 DEF IInv, BundlesAreGenuine
      <4>3. QED
        BY <4>1, <4>2 DEF IInv, LateIsInstalled
    <3>5. QED
      BY <3>2, <3>3, <3>4 DEF CommandRecords
  <2>2. CASE ~\E d \in DropPoints : CreateDropPoint(c, d)
    <3>1. \E pc \in {"resume", "close", "status"} : \E todo, only, close : Start(c, pc, todo, only, close)
      BY <1>4, <2>2 DEF Begin, StartPickup, StartStatus
    <3>2. PICK pc \in {"resume", "close", "status"} : \E todo, only, close : Start(c, pc, todo, only, close)
      BY <3>1
    <3>3. PICK todo, only, close : Start(c, pc, todo, only, close)
      BY <3>2
    <3>4. cmd'[c].mem = file /\ cmd'[c].pc = pc
      BY <1>0, <3>3 DEF Start, Idle
    <3>5. file' = file
      BY <3>3 DEF Start, diskVars
    <3>6. QED
      BY <3>4, <3>5 DEF CommandRecords
  <2>3. QED
    BY <2>1, <2>2
<1>5. CASE CommandStep(c)
  <2>1. CASE Finish(c)
    <3>1. cmd'[c] = Idle
      BY <1>0, <2>1 DEF Finish
    <3>2. QED
      BY <1>1, <3>1 DEF Idle
  <2>2. CASE Record(c) \/ RecordAcknowledged(c) \/ RecordResumed(c)
    BY <2>2, WritesEntry DEF CommandRecords
  <2>3. CASE \E pc \in {"list", "resumed", "acked", "record", "discard", "close"} :
               /\ Goto(c, pc) /\ file' = file /\ cmd[c].pc \notin {"idle", "save"}
               /\ pc = "acked" => cmd[c].pc = "ack"
    BY <1>3, <2>3 DEF Steps
  <2>4. CASE List(c) \/ Fetch(c)
    <3>1. /\ cmd'[c].mem = cmd[c].mem /\ file' = file /\ cmd'[c].pc \in {"fetch", "install"}
          /\ cmd[c].pc \in {"list", "fetch"}
      BY <1>0, <2>4 DEF List, Fetch, At, Processes, diskVars
    <3>2. QED
      BY <3>1 DEF CommandRecords, RecordInv
  <2>5. QED
    BY <1>5, <2>1, <2>2, <2>3, <2>4
       DEF CommandStep, SaveState, Resume, ResumeDone, TimeOut, Install, AcknowledgeInstalled,
           Acknowledge, PickupDone, Close, GetStatus, DiscardPrivateKey, Refuse, At, diskVars
<1>6. CASE Die(c) \/ DieAcknowledging(c)
  <2>1. cmd'[c] = Idle
    BY <1>0, <1>6 DEF Die, DieAcknowledging, Finish
  <2>2. QED
    BY <1>1, <2>1 DEF Idle
<1>7. CASE cmd' = cmd /\ file' = file /\ ~CommandStep(c) /\ ~DieAcknowledging(c)
  BY <1>2, <1>7 DEF CommandStep
<1>8. CASE ~Begin(c) /\ ~CommandStep(c) /\ ~Die(c) /\ ~DieAcknowledging(c)
  <2>1. cmd' = cmd /\ file' = file
    BY <1>0, <1>8
       DEF Next, vars, LateAcknowledge, Fail, Arrive, Expire, Purge, diskVars
  <2>2. QED
    BY <1>7, <1>8, <2>1
<1>9. QED
  BY <1>4, <1>5, <1>6, <1>8

\* With one command at a time, whatever is taken has its entry in the state file.
THEOREM TakenHasEntry == OneCommand /\ Spec => []TakenIsRecorded
<1> SUFFICES ASSUME OneCommand
             PROVE  Spec => []TakenIsRecorded
  OBVIOUS
<1>1. Init => RecordInv
  BY DEF Init, HandoffInit, RecordInv, Idle
<1>2. ASSUME IInv, RecordInv, [Next]_vars
      PROVE  RecordInv'
  <2>1. \A k \in Keys : (sub'[k] = "taken" \/ k \in late') /\ file'.point = k[1]
                        => file'.installed[k[2]] # "no"
    BY <1>2, EntriesStep
  <2>2. \A c \in Commands : CommandRecords(c)'
    BY <1>2, CommandRecordsStep
  <2>3. QED
    BY <2>1, <2>2 DEF RecordInv, CommandRecords
<1>3. RecordInv => TakenIsRecorded
  BY DEF RecordInv, TakenIsRecorded
<1>4. QED
  BY <1>1, <1>2, <1>3, ClientHolds, PTL DEF Spec
=============================================================================
