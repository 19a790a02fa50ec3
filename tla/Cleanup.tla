------------------------------ MODULE Cleanup ------------------------------
(***************************************************************************)
(* cleanup.Service (internal/cleanup/cleanup.go), one process per program  *)
(* that runs it: the server's own loop, and each `droppoint cleanup        *)
(* expired` started beside it (cmd/droppoint/main.go:349-394).  A pass     *)
(* works from lists it read earlier, one row or directory at a time.       *)
(***************************************************************************)
EXTENDS Store, BlobStore

VARIABLES cpc,     \* what the pass does next
          ckeys,   \* submissions left on the list at hand
          cdrops,  \* drop points left on the list at hand
          ckey,    \* submission whose blobs were deleted last
          cdrop,   \* drop point whose blobs were deleted last
          clapsed, \* the clock reading of the pass: what has lapsed by it
          caged    \* the clock reading of the pass: what is past retention by it

cleanerVars == <<cpc, ckeys, cdrops, ckey, cdrop, clapsed, caged>>
listVars == <<ckeys, cdrops, ckey, cdrop, clapsed, caged>>

CleanupTypeOK ==
  /\ cpc \in [Cleaners -> {"idle", "recover", "recoverRow", "children", "child", "childClear",
                           "terminal", "terminalClear", "dirs", "orphans"}]
  /\ ckeys \in [Cleaners -> SUBSET Keys]
  /\ cdrops \in [Cleaners -> SUBSET DropPoints]
  /\ ckey \in [Cleaners -> Keys]
  /\ cdrop \in [Cleaners -> DropPoints]
  /\ clapsed \in [Cleaners -> SUBSET DropPoints]
  /\ caged \in [Cleaners -> SUBSET DropPoints]

CleanupInit ==
  /\ cpc = [c \in Cleaners |-> "idle"]
  /\ ckeys = [c \in Cleaners |-> {}]
  /\ cdrops = [c \in Cleaners |-> {}]
  /\ ckey = [c \in Cleaners |-> AnyKey]
  /\ cdrop = [c \in Cleaners |-> AnyDropPoint]
  /\ clapsed = [c \in Cleaners |-> {}]
  /\ caged = [c \in Cleaners |-> {}]

At(c, pc) == cpc' = [cpc EXCEPT ![c] = pc]

\* The list of submissions a phase works through is read in one query.
ListKeys(c, pc, keys) ==
  /\ At(c, pc)
  /\ ckeys' = [ckeys EXCEPT ![c] = keys]
  /\ UNCHANGED <<cdrops, ckey, cdrop, clapsed, caged>>

ListDrops(c, pc, drops) ==
  /\ At(c, pc)
  /\ cdrops' = [cdrops EXCEPT ![c] = drops]
  /\ UNCHANGED <<ckeys, ckey, cdrop, clapsed, caged>>

\* The pass is over, by its end or by an error: everything it read is forgotten.
EndPass(c) ==
  /\ At(c, "idle")
  /\ ckeys' = [ckeys EXCEPT ![c] = {}]
  /\ cdrops' = [cdrops EXCEPT ![c] = {}]
  /\ ckey' = [ckey EXCEPT ![c] = AnyKey]
  /\ cdrop' = [cdrop EXCEPT ![c] = AnyDropPoint]
  /\ clapsed' = [clapsed EXCEPT ![c] = {}]
  /\ caged' = [caged EXCEPT ![c] = {}]

\* The pass takes one entry off its list and deletes the blobs it names.
TakeKey(c, k, pc) ==
  /\ k \in ckeys[c]
  /\ DeleteSubmission(k)
  /\ At(c, pc)
  /\ ckeys' = [ckeys EXCEPT ![c] = @ \ {k}]
  /\ ckey' = [ckey EXCEPT ![c] = k]
  /\ UNCHANGED <<cdrops, cdrop, clapsed, caged>>

TakeDrop(c, d, pc) ==
  /\ d \in cdrops[c]
  /\ DeleteDropPoint(d)
  /\ At(c, pc)
  /\ cdrops' = [cdrops EXCEPT ![c] = @ \ {d}]
  /\ cdrop' = [cdrop EXCEPT ![c] = d]
  /\ UNCHANGED <<ckeys, ckey, clapsed, caged>>

-----------------------------------------------------------------------------
(* The phases of a pass *)

\* The clock is read and the receiving rows `keys` are listed.
OpenPass(c, keys) ==
  /\ cpc[c] = "idle"
  /\ At(c, "recover")
  /\ ckeys' = [ckeys EXCEPT ![c] = keys]
  /\ clapsed' = [clapsed EXCEPT ![c] = lapsed]
  /\ caged' = [caged EXCEPT ![c] = aged]
  /\ UNCHANGED <<cdrops, ckey, cdrop>>

\* Mutant of StartPass: every receiving row is taken for interrupted.
StartPassTakingAll(c) ==
  /\ c = Loop => server = "serving"
  /\ OpenPass(c, {k \in Keys : status[k] = "receiving"})
  /\ UNCHANGED <<storeVars, blobVars, server>>

\* Mutant of StartPass: interrupted rows are left to the next startup.
StartPassTakingNone(c) ==
  /\ c = Loop => server = "serving"
  /\ OpenPass(c, {})
  /\ UNCHANGED <<storeVars, blobVars, server>>

\* Expire: only rows older than ReceivingStaleAfter are taken for interrupted.
StartPass(c) ==
  /\ c = Loop => server = "serving"
  /\ OpenPass(c, {k \in stale : status[k] = "receiving"})
  /\ UNCHANGED <<storeVars, blobVars, server>>

\* ReconcileStartup, run before the server listens: every receiving row is interrupted.
\* The Expire it calls finds no stale row left, so its own listing is not a step here.
Boot ==
  /\ server = "down"
  /\ OpenPass(Loop, {k \in Keys : status[k] = "receiving"})
  /\ server' = "starting"
  /\ UNCHANGED <<storeVars, blobVars>>

RecoverBlobs(c, k) ==
  /\ cpc[c] = "recover"
  /\ TakeKey(c, k, "recoverRow")
  /\ UNCHANGED <<storeVars, server>>

RecoverRow(c) ==
  /\ cpc[c] = "recoverRow"
  /\ DeleteReceivingSubmission(ckey[c])
  /\ At(c, "recover")
  /\ UNCHANGED <<listVars, blobVars, server>>

ExpireDropPoints(c) ==
  /\ cpc[c] = "recover"
  /\ ckeys[c] = {}
  /\ MarkExpired(clapsed[c])
  /\ At(c, "children")
  /\ UNCHANGED <<listVars, blobVars, server>>

\* Mutant of ListChildren: the acknowledging request is trusted to delete the blobs.
ListFailedChildren(c) ==
  /\ cpc[c] = "children"
  /\ ListKeys(c, "child", {k \in Keys : status[k] = "failed"})
  /\ UNCHANGED <<storeVars, blobVars, server>>

ListChildren(c) ==
  /\ cpc[c] = "children"
  /\ ListKeys(c, "child", {k \in Keys : status[k] \in {"acknowledged", "failed"}})
  /\ UNCHANGED <<storeVars, blobVars, server>>

ChildBlobs(c, k) ==
  /\ cpc[c] = "child"
  /\ TakeKey(c, k, "childClear")
  /\ UNCHANGED <<storeVars, server>>

ChildClear(c) ==
  /\ cpc[c] = "childClear"
  /\ ClearFiles({ckey[c]})
  /\ At(c, "child")
  /\ UNCHANGED <<listVars, blobVars, server>>

\* Mutant of ListTerminals: only drop points whose rows still point to files.
ListTerminalsWithFiles(c) ==
  /\ cpc[c] = "child"
  /\ ckeys[c] = {}
  /\ ListDrops(c, "terminal", {d \in DropPoints : dp[d] \in Ended /\ KeysOf(d) \cap ptr # {}})
  /\ UNCHANGED <<storeVars, blobVars, server>>

ListTerminals(c) ==
  /\ cpc[c] = "child"
  /\ ckeys[c] = {}
  /\ ListDrops(c, "terminal", {d \in DropPoints : dp[d] \in Ended})
  /\ UNCHANGED <<storeVars, blobVars, server>>

TerminalBlobs(c, d) ==
  /\ cpc[c] = "terminal"
  /\ TakeDrop(c, d, "terminalClear")
  /\ UNCHANGED <<storeVars, server>>

TerminalClear(c) ==
  /\ cpc[c] = "terminalClear"
  /\ ClearFiles(KeysOf(cdrop[c]))
  /\ At(c, "terminal")
  /\ UNCHANGED <<listVars, blobVars, server>>

\* The sweep for orphans reads the rows first and the directories second.
ListRows(c) ==
  /\ cpc[c] = "terminal"
  /\ cdrops[c] = {}
  /\ ListDrops(c, "dirs", {d \in DropPoints : Exists(d)})
  /\ UNCHANGED <<storeVars, blobVars, server>>

ListDirs(c) ==
  /\ cpc[c] = "dirs"
  /\ ListDrops(c, "orphans", dropdir \ cdrops[c])
  /\ UNCHANGED <<storeVars, blobVars, server>>

OrphanBlobs(c, d) ==
  /\ cpc[c] = "orphans"
  /\ TakeDrop(c, d, "orphans")
  /\ UNCHANGED <<storeVars, server>>

\* The last step of a pass; a startup pass lets the server listen.
Purge(c) ==
  /\ cpc[c] = "orphans"
  /\ cdrops[c] = {}
  /\ PurgeTerminalDropPoints(caged[c] \cap aged)
  /\ EndPass(c)
  /\ server' = IF c = Loop THEN "serving" ELSE server
  /\ UNCHANGED blobVars

\* An error ends the pass at any point; at startup it ends the server.
Abort(c) ==
  /\ cpc[c] # "idle"
  /\ EndPass(c)
  /\ server' = IF c = Loop /\ server = "starting" THEN "down" ELSE server
  /\ UNCHANGED <<storeVars, blobVars>>

CleanerStep(c) ==
  \/ StartPass(c)
  \/ c = Loop /\ Boot
  \/ RecoverRow(c) \/ ExpireDropPoints(c)
  \/ ListChildren(c) \/ ChildClear(c)
  \/ ListTerminals(c) \/ TerminalClear(c)
  \/ ListRows(c) \/ ListDirs(c) \/ Purge(c)
  \/ \E k \in Keys : RecoverBlobs(c, k) \/ ChildBlobs(c, k)
  \/ \E d \in DropPoints : TerminalBlobs(c, d) \/ OrphanBlobs(c, d)
=============================================================================
