--------------------------- MODULE LifecycleProofs ---------------------------
(***************************************************************************)
(* The safety of start and stop, for any number of processes and kills.    *)
(* Every part of the invariant but one is about one process and the        *)
(* database; a step of one process leaves what the parts say of the others *)
(* alone, because tables are only added and the version only becomes 3.    *)
(***************************************************************************)
EXTENDS Lifecycle, TLAPS

\* Before the schema is complete, and as long as no goroutine but the main one runs.
Opening == {"version", "inspect", "create"}
Alone == {"off", "work", "recover"} \cup Opening
Returning == {"join", "close", "exit"}

LifecycleTypes ==
  /\ version \in {0, 3} /\ tables \in SUBSET AllTables
  /\ pc \in [Procs -> Alone \cup {"select", "drain", "result"} \cup Returning]
  /\ done \in [Procs -> 0 .. 3]
  /\ outcome \in [Procs -> {"none", "ok", "error", "refused"}]
  /\ sig \in [Procs -> BOOLEAN]
  /\ listener \in [Procs -> {"none", "starting", "accepting", "stopping", "closed"}]
  /\ errCh \in [Procs -> {"empty", "nil", "error"}]
  /\ loop \in [Procs -> {"none", "pass", "waiting", "done"}]
  /\ stopped \in [Procs -> BOOLEAN]
  /\ handler \in [Procs -> BOOLEAN]

RowTypes == rows \in SUBSET (Servers \X Fates)

\* The version is set by a process that has executed every statement before.
SchemaHolds ==
  /\ version = 3 => tables = AllTables
  /\ \A p \in Procs : \A i \in 1 .. 3 : i <= done[p] => Schema[i] \in tables
  /\ \A p \in Procs : pc[p] \notin {"off"} \cup Opening => version = 3

\* The listener reports once, when it is closed, and "nil" only after Shutdown; uploads
\* come in while it accepts, which is before anything has begun to return.
GoroutinesHold ==
  \A p \in Procs :
    /\ pc[p] \in Alone =>
         listener[p] = "none" /\ errCh[p] = "empty" /\ loop[p] = "none" /\ ~handler[p]
    /\ p \in Commands => pc[p] \in Alone \ {"recover"}
    /\ errCh[p] # "empty" => listener[p] = "closed"
    /\ listener[p] = "accepting" => pc[p] = "select"
    /\ pc[p] = "select" => listener[p] # "stopping" /\ errCh[p] # "nil"
    /\ pc[p] = "result" => ~handler[p]
    /\ pc[p] \in Returning /\ handler[p] => outcome[p] = "error"
    /\ pc[p] \in {"close", "exit"} => loop[p] = "done"

LInv == LifecycleTypes /\ RowTypes /\ SchemaHolds /\ GoroutinesHold

\* A server that has recovered finds no row of an earlier life as long as it lives; this
\* is said of all rows, and so of one server.
RowsRecovered ==
  \A p \in Servers : pc[p] \notin Alone => \A row \in rows : row[2] # "earlier"

\* The statements of schemaSQL are three tables, two of which a legacy database has too.
LEMMA SchemaFacts ==
  /\ Len(Schema) = 3 /\ AllTables = {Schema[1], Schema[2], Schema[3]}
  /\ {"drop_points", "api_tokens"} \subseteq AllTables
  /\ \A n \in 0 .. 3 : n # 3 => Schema[n + 1] \in AllTables
  BY DEF Schema, AllTables

\* What becomes of the rows keeps their type: of those of a process that ends, and of one
\* that a handler leaves.
LEMMA RowsKeepType ==
  ASSUME rows \in SUBSET (Servers \X Fates), NEW p, NEW R
  PROVE  /\ {IF row[1] = p THEN <<p, "earlier">> ELSE row : row \in rows \ R}
               \in SUBSET (Servers \X Fates)
         /\ {IF row = <<p, "handled">> THEN <<p, "abandoned">> ELSE row : row \in rows}
               \in SUBSET (Servers \X Fates)
<1>1. \A row \in rows : row[1] \in Servers
  OBVIOUS
<1>2. \A row \in rows : (IF row[1] = p THEN <<p, "earlier">> ELSE row) \in Servers \X Fates
  BY <1>1 DEF Fates
<1>3. \A row \in rows : row = <<p, "handled">> => p \in Servers
  BY <1>1
<1>4. \A row \in rows : (IF row = <<p, "handled">> THEN <<p, "abandoned">> ELSE row) \in Servers \X Fates
  BY <1>3 DEF Fates
<1>5. QED
  BY <1>2, <1>4

\* Every step keeps the type of the rows.
LEMMA StepRows ==
  ASSUME LInv, Next
  PROVE  RowTypes'
<1> SUFFICES rows' \in SUBSET (Servers \X Fates)
  BY DEF RowTypes
<1>0. rows \in SUBSET (Servers \X Fates)
  BY DEF LInv, RowTypes
<1> PICK p \in Procs :
      \/ Start(p) \/ MainStep(p) \/ Signal(p) \/ Kill(p)
      \/ Listen(p) \/ ListenerStops(p) \/ ListenerFails(p)
      \/ PassEnds(p) \/ TickerFires(p) \/ LoopStops(p)
      \/ AcceptUpload(p) \/ BeginLost(p) \/ UploadEnds(p)
  BY DEF Next
<1>1. ASSUME NEW how, NEW R, Ends(p, how, R) PROVE rows' \in SUBSET (Servers \X Fates)
  <2>1. rows' = {IF row[1] = p THEN <<p, "earlier">> ELSE row : row \in rows \ R}
    BY <1>1 DEF Ends
  <2>2. QED
    BY <1>0, <2>1, RowsKeepType
<1>2. CASE Refuse(p) \/ OpenFails(p) \/ Work(p) \/ RecoverFails(p) \/ Exit(p) \/ Kill(p)
  BY <1>1, <1>2 DEF Refuse, OpenFails, Work, RecoverFails, Exit, Kill
<1>3. CASE Recover(p) \/ PassEnds(p)
  BY <1>0, <1>3 DEF Recover, PassEnds
<1>4. CASE AcceptUpload(p) \/ BeginLost(p)
  <2>1. p \in Servers
    BY <1>4 DEF LInv, GoroutinesHold, Alone, AcceptUpload, BeginLost, Procs
  <2>2. QED
    BY <1>0, <1>4, <2>1 DEF AcceptUpload, BeginLost, Fates
<1>5. CASE UploadEnds(p)
  <2>1. CASE UploadSettles(p)
    BY <1>0, <2>1 DEF UploadSettles
  <2>2. CASE UploadGivesUp(p)
    <3>1. rows' = {IF row = <<p, "handled">> THEN <<p, "abandoned">> ELSE row : row \in rows}
      BY <2>2 DEF UploadGivesUp
    <3>2. QED
      BY <1>0, <3>1, RowsKeepType
  <2>3. QED
    BY <1>5, <2>1, <2>2 DEF UploadEnds
<1>6. CASE UNCHANGED rows
  BY <1>0, <1>6
<1>7. QED
  BY <1>2, <1>3, <1>4, <1>5, <1>6
     DEF MainStep, Start, Signal, Listen, ListenerStops, ListenerFails, TickerFires, LoopStops,
         ReadVersion, Inspect, CreateTable, SetVersion, ListenerFailed, Shutdown, Drained,
         DrainTimesOut, Result, Joined, Close, ToListener

\* One case per action: a process changes its own entries, and adds to the schema.
LEMMA StepLInv ==
  ASSUME LInv, Next
  PROVE  LInv'
<1> SUFFICES (LifecycleTypes /\ SchemaHolds /\ GoroutinesHold)'
  BY StepRows DEF LInv
<1> USE DEF LInv, LifecycleTypes, SchemaHolds, GoroutinesHold, Alone, Opening, Returning,
            Goto, dbVars, goVars
<1> PICK p \in Procs :
      \/ Start(p) \/ MainStep(p) \/ Signal(p) \/ Kill(p)
      \/ Listen(p) \/ ListenerStops(p) \/ ListenerFails(p)
      \/ PassEnds(p) \/ TickerFires(p) \/ LoopStops(p)
      \/ AcceptUpload(p) \/ BeginLost(p) \/ UploadEnds(p)
  BY DEF Next
<1>0. ASSUME NEW how \in {"ok", "error", "refused", outcome[p]}, NEW R, Ends(p, how, R), UNCHANGED dbVars
      PROVE  (LifecycleTypes /\ SchemaHolds /\ GoroutinesHold)'
  <2>1. /\ pc' = [pc EXCEPT ![p] = "off"] /\ outcome' = [outcome EXCEPT ![p] = how]
        /\ done' = [done EXCEPT ![p] = 0] /\ sig' = [sig EXCEPT ![p] = FALSE]
        /\ listener' = [listener EXCEPT ![p] = "none"] /\ errCh' = [errCh EXCEPT ![p] = "empty"]
        /\ loop' = [loop EXCEPT ![p] = "none"] /\ stopped' = [stopped EXCEPT ![p] = FALSE]
        /\ handler' = [handler EXCEPT ![p] = FALSE] /\ version' = version /\ tables' = tables
    BY <1>0 DEF Ends
  <2>2. QED
    BY <1>0, <2>1
<1>1. CASE Start(p)
  BY <1>1 DEF Start
<1>2. CASE ReadVersion(p)
  BY <1>2 DEF ReadVersion
<1>3. CASE Inspect(p)
  BY <1>3 DEF Inspect
<1>4. CASE Refuse(p)
  BY <1>0, <1>4 DEF Refuse
<1>5. CASE CreateTable(p)
  BY <1>5, SchemaFacts DEF CreateTable
<1>6. CASE SetVersion(p)
  BY <1>6, SchemaFacts, LifecycleAssumption DEF SetVersion
<1>7. CASE OpenFails(p)
  BY <1>0, <1>7 DEF OpenFails
<1>8. CASE Work(p)
  BY <1>0, <1>8 DEF Work
<1>9. CASE Recover(p)
  BY <1>9 DEF Recover, Launch
<1>10. CASE RecoverFails(p)
  BY <1>0, <1>10 DEF RecoverFails
<1>11. CASE ListenerFailed(p)
  BY <1>11 DEF ListenerFailed, Leave, Received
<1>12. CASE Shutdown(p)
  BY <1>12 DEF Shutdown
<1>13. CASE Drained(p)
  BY <1>13 DEF Drained
<1>14. CASE DrainTimesOut(p)
  BY <1>14 DEF DrainTimesOut, Leave
<1>15. CASE Result(p)
  BY <1>15 DEF Result, Leave, Received
<1>16. CASE Joined(p)
  BY <1>16 DEF Joined
<1>17. CASE Close(p)
  BY <1>17 DEF Close
<1>18. CASE Exit(p)
  BY <1>0, <1>18 DEF Exit
<1>19. CASE Listen(p)
  BY <1>19 DEF Listen, ToListener
<1>20. CASE ListenerStops(p)
  BY <1>20 DEF ListenerStops, ToListener
<1>21. CASE ListenerFails(p)
  BY <1>21 DEF ListenerFails, ToListener
<1>22. CASE PassEnds(p)
  BY <1>22 DEF PassEnds
<1>23. CASE TickerFires(p)
  BY <1>23 DEF TickerFires
<1>24. CASE LoopStops(p)
  BY <1>24 DEF LoopStops
<1>25. CASE AcceptUpload(p)
  BY <1>25 DEF AcceptUpload, Procs
<1>26. CASE BeginLost(p) \/ UploadEnds(p)
  <2>1. /\ handler' = handler \/ handler' = [handler EXCEPT ![p] = FALSE]
        /\ UNCHANGED <<dbVars, pc, done, outcome, sig, listener, errCh, loop, stopped>>
    <3>1. CASE BeginLost(p)
      BY <3>1 DEF BeginLost
    <3>2. CASE UploadSettles(p)
      BY <3>2 DEF UploadSettles
    <3>3. CASE UploadGivesUp(p)
      BY <3>3 DEF UploadGivesUp
    <3>4. QED
      BY <1>26, <3>1, <3>2, <3>3 DEF UploadEnds
  <2>2. handler' \in [Procs -> BOOLEAN] /\ \A q \in Procs : handler'[q] => handler[q]
    <3>1. handler \in [Procs -> BOOLEAN]
      BY DEF LifecycleTypes
    <3>2. CASE handler' = [handler EXCEPT ![p] = FALSE]
      BY <3>1, <3>2
    <3>3. QED
      BY <2>1, <3>1, <3>2
  <2>3. LifecycleTypes' /\ SchemaHolds'
    BY <2>1, <2>2
  <2>4. GoroutinesHold'
    BY <2>1, <2>2
  <2>5. QED
    BY <2>3, <2>4
<1>27. CASE Signal(p)
  BY <1>27 DEF Signal
<1>28. CASE Kill(p)
  BY <1>0, <1>28 DEF Kill
<1>29. QED
  BY <1>1, <1>2, <1>3, <1>4, <1>5, <1>6, <1>7, <1>8, <1>9, <1>10, <1>11, <1>12,
     <1>13, <1>14, <1>15, <1>16, <1>17, <1>18, <1>19, <1>20, <1>21, <1>22, <1>23, <1>24,
     <1>25, <1>26, <1>27, <1>28 DEF MainStep

\* Nothing runs, and no version is set, before the first start.
LEMMA InitLInv == Init => LInv
  BY SchemaFacts DEF Init, LInv, LifecycleTypes, RowTypes, SchemaHolds, GoroutinesHold, Alone, Opening,
     Returning

\* The invariant speaks of no variable but those of vars.
LEMMA StutterLInv ==
  ASSUME LInv, UNCHANGED vars
  PROVE  LInv'
  BY DEF LInv, LifecycleTypes, RowTypes, SchemaHolds, GoroutinesHold, Alone, Opening, Returning,
         vars, dbVars, goVars

\* It holds in every state.
LEMMA InvariantLInv == Spec => []LInv
<1>1. LInv /\ [Next]_vars => LInv'
  BY StepLInv, StutterLInv
<1>2. QED
  BY <1>1, InitLInv, PTL DEF Spec

\* Nobody works on an incomplete schema, for any number of servers and commands that open
\* the database at once and any number of kills between two statements (Migrate).
THEOREM SchemaSafety == Spec => []OpenSchemaIsComplete
<1>1. LInv => OpenSchemaIsComplete
  BY DEF LInv, SchemaHolds, Opening, OpenSchemaIsComplete
<1>2. QED
  BY <1>1, InvariantLInv, PTL

\* Whichever way ListenAndServe returns, the loop is done before the database is closed,
\* and a clean exit has no handler left (ListenAndServe, Close).
THEOREM ShutdownSafety == Spec => []ClosedAfterUse
<1>1. LInv => ClosedAfterUse
  BY DEF LInv, GoroutinesHold, Returning, ClosedAfterUse, Procs
<1>2. QED
  BY <1>1, InvariantLInv, PTL

-----------------------------------------------------------------------------
(* One server *)

\* There is no row before the first upload.
LEMMA InitRowsRecovered == Init => RowsRecovered
  BY DEF Init, RowsRecovered

\* Recover leaves no row, an upload only adds rows of the life it is in, and the end of
\* the one server, which turns them into rows of an earlier life, stops it.
LEMMA StepRowsRecovered ==
  ASSUME NEW s, Servers = {s}, LInv, RowsRecovered, Next
  PROVE  RowsRecovered'
<1> USE DEF RowsRecovered, LInv, LifecycleTypes, GoroutinesHold, Alone, Opening, Procs
<1> PICK p \in Procs :
      \/ Start(p) \/ MainStep(p) \/ Signal(p) \/ Kill(p)
      \/ Listen(p) \/ ListenerStops(p) \/ ListenerFails(p)
      \/ PassEnds(p) \/ TickerFires(p) \/ LoopStops(p)
      \/ AcceptUpload(p) \/ BeginLost(p) \/ UploadEnds(p)
  BY DEF Next
<1>1. CASE Recover(p)
  BY <1>1 DEF Recover
<1>2. ASSUME NEW how, NEW R, Ends(p, how, R) PROVE RowsRecovered'
  <2>1. pc'[p] = "off" /\ \A q \in Procs \ {p} : pc'[q] = pc[q]
    BY <1>2 DEF Ends, Goto
  <2>2. CASE p = s
    BY <2>1, <2>2
  <2>3. CASE p # s
    <3>1. rows' \subseteq rows
      <4>1. rows' = {IF row[1] = p THEN <<p, "earlier">> ELSE row : row \in rows \ R}
        BY <1>2 DEF Ends
      <4>2. \A row \in rows : row[1] # p
        <5>1. \A row \in rows : row[1] \in Servers
          BY DEF RowTypes
        <5>2. QED
          BY <2>3, <5>1
      <4>3. QED
        BY <4>1, <4>2
    <3>2. pc'[s] = pc[s]
      BY <2>1, <2>3
    <3>3. QED
      BY <3>1, <3>2
  <2>4. QED
    BY <2>2, <2>3
<1>3. CASE Refuse(p) \/ OpenFails(p) \/ Work(p) \/ RecoverFails(p) \/ Exit(p) \/ Kill(p)
  BY <1>2, <1>3 DEF Refuse, OpenFails, Work, RecoverFails, Exit, Kill
<1>4. ASSUME \A row \in rows' : row \in rows \/ row[2] # "earlier",
             \A q \in Procs : pc'[q] \in Alone \/ pc[q] \notin Alone
      PROVE  RowsRecovered'
  BY <1>4
<1>5. CASE PassEnds(p) \/ AcceptUpload(p) \/ BeginLost(p)
  <2>1. pc' = pc /\ \A row \in rows' : row \in rows \/ row \in {<<p, "handled">>, <<p, "abandoned">>}
    BY <1>5 DEF PassEnds, AcceptUpload, BeginLost
  <2>2. QED
    BY <1>4, <2>1
<1>6. CASE UploadEnds(p)
  <2>1. pc' = pc /\ \A row \in rows' : row \in rows \/ row = <<p, "abandoned">>
    BY <1>6 DEF UploadEnds, UploadSettles, UploadGivesUp
  <2>2. QED
    BY <1>4, <2>1
<1>7. CASE Start(p) \/ ReadVersion(p) \/ Inspect(p) \/ CreateTable(p) \/ SetVersion(p)
  <2>1. rows' = rows /\ \A q \in Procs : pc'[q] = pc[q] \/ pc'[q] \in Alone
    BY <1>7 DEF Start, ReadVersion, Inspect, CreateTable, SetVersion, Goto
  <2>2. QED
    BY <1>4, <2>1
<1>8. CASE \/ ListenerFailed(p) \/ Shutdown(p) \/ Drained(p) \/ DrainTimesOut(p) \/ Result(p)
           \/ Joined(p) \/ Close(p)
  <2>1. rows' = rows /\ pc[p] \notin Alone /\ \A q \in Procs \ {p} : pc'[q] = pc[q]
    BY <1>8
       DEF ListenerFailed, Shutdown, Drained, DrainTimesOut, Result, Joined, Close, Goto, Leave
  <2>2. QED
    BY <1>4, <2>1
<1>9. CASE \/ Signal(p) \/ Listen(p) \/ ListenerStops(p) \/ ListenerFails(p)
           \/ TickerFires(p) \/ LoopStops(p)
  <2>1. rows' = rows /\ pc' = pc
    BY <1>9
       DEF Signal, Listen, ListenerStops, ListenerFails, TickerFires, LoopStops, ToListener
  <2>2. QED
    BY <1>4, <2>1
<1>10. QED
  BY <1>1, <1>3, <1>5, <1>6, <1>7, <1>8, <1>9 DEF MainStep

\* The only server of a data directory accepts requests only when no receiving row of an
\* earlier life is left, whatever ended that life: a crash, a shutdown that gave up
\* waiting for a handler, or a failed start (New, HandleSubmitDrop).
THEOREM RecoverySafety ==
  ASSUME NEW s, Servers = {s}
  PROVE  Spec => []ServingHasRecovered
<1>1. LInv /\ RowsRecovered /\ [Next]_vars => RowsRecovered'
  <2>1. LInv /\ RowsRecovered /\ UNCHANGED vars => RowsRecovered'
    BY DEF RowsRecovered, vars
  <2>2. QED
    BY <2>1, StepRowsRecovered
<1>2. LInv /\ RowsRecovered => ServingHasRecovered
  BY DEF LInv, GoroutinesHold, RowsRecovered, ServingHasRecovered, Alone, Opening, Procs
<1>3. QED
  BY <1>1, <1>2, InitRowsRecovered, InvariantLInv, PTL DEF Spec
==============================================================================
