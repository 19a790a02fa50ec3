------------------------------ MODULE ApiTokens ------------------------------
(***************************************************************************)
(* API tokens and the drop points they pay for: the rows of api_tokens     *)
(* (internal/store/api_tokens.go), the `droppoint token` commands          *)
(* (cmd/droppoint/main.go) that change them beside the running server, and *)
(* HandleCreateDropPoint (internal/httpapi/create.go), which reads a row   *)
(* once, when it authenticates, and inserts later.                         *)
(***************************************************************************)
EXTENDS Naturals, FiniteSets

CONSTANTS Labels,     \* token ids an operator chooses
          Secrets,    \* bound: token secrets that can be generated in one behaviour
          Operators,  \* concurrent `droppoint token` commands
          Creators,   \* concurrent HandleCreateDropPoint requests
          DropPoints, \* identifiers the server may draw
          Limits,     \* values of --max-active
          Default,    \* a row without its own limit
          DefaultMaxActive \* default_max_active_drop_points of the configuration

ASSUME LimitsAssumption ==
  /\ Limits \subseteq Nat \ {0}
  /\ DefaultMaxActive \in Nat \ {0}
  /\ Default \notin Limits \cup DropPoints

NoToken == [secret |-> Default, enabled |-> FALSE, max |-> Default]
NoCreator == [label |-> Default, max |-> 0]

\* createDropPoint draws identifiers three times at most.
MaxAttempts == 3

VARIABLES tokens,  \* the row of each label, NoToken when there is none
          unused,  \* secrets not generated yet
          opc,     \* what a token command does next
          printing,\* label and secret of the row a token add has inserted
          points,  \* drop points: "none", "open" (and not lapsed) or "ended"
          payer,   \* api_token_id of each drop point
          kpc,     \* what a create request does next
          creator, \* what it authenticated as
          attempt, \* identifiers drawn so far
          created  \* the drop point it answers with

tokenVars == <<tokens, unused, opc, printing>>
createVars == <<kpc, creator, attempt, created>>
vars == <<tokenVars, points, payer, createVars>>

TokensTypeOK ==
  /\ tokens \in [Labels -> [secret : Secrets \cup {Default}, enabled : BOOLEAN,
                            max : Limits \cup {Default}]]
  /\ unused \subseteq Secrets
  /\ opc \in [Operators -> {"idle", "print", "rollback"}]
  /\ printing \in [Operators -> [label : Labels \cup {Default}, secret : Secrets \cup {Default}]]
  /\ points \in [DropPoints -> {"none", "open", "ended"}]
  /\ payer \in [DropPoints -> Labels \cup {Default}]
  /\ kpc \in [Creators -> {"idle", "decode", "insert", "answer"}]
  /\ creator \in [Creators -> [label : Labels \cup {Default}, max : Nat]]
  /\ attempt \in [Creators -> 0 .. MaxAttempts]
  /\ created \in [Creators -> DropPoints \cup {Default}]

Init ==
  /\ tokens = [l \in Labels |-> NoToken]
  /\ unused = Secrets
  /\ opc = [o \in Operators |-> "idle"]
  /\ printing = [o \in Operators |-> [label |-> Default, secret |-> Default]]
  /\ points = [d \in DropPoints |-> "none"]
  /\ payer = [d \in DropPoints |-> Default]
  /\ kpc = [k \in Creators |-> "idle"]
  /\ creator = [k \in Creators |-> NoCreator]
  /\ attempt = [k \in Creators |-> 0]
  /\ created = [k \in Creators |-> Default]

-----------------------------------------------------------------------------
(* Token commands *)

\* token add: the row is inserted, the plaintext is still to be printed.
AddAPIToken(o, l, s, m) ==
  /\ opc[o] = "idle"
  /\ tokens[l] = NoToken
  /\ tokens' = [tokens EXCEPT ![l] = [secret |-> s, enabled |-> TRUE, max |-> m]]
  /\ unused' = unused \ {s}
  /\ opc' = [opc EXCEPT ![o] = "print"]
  /\ printing' = [printing EXCEPT ![o] = [label |-> l, secret |-> s]]
  /\ UNCHANGED <<points, payer, createVars>>

EndCommand(o) ==
  /\ opc' = [opc EXCEPT ![o] = "idle"]
  /\ printing' = [printing EXCEPT ![o] = [label |-> Default, secret |-> Default]]
  /\ UNCHANGED <<unused, points, payer, createVars>>

Printed(o) ==
  /\ opc[o] = "print"
  /\ EndCommand(o)
  /\ UNCHANGED tokens

PrintFails(o) ==
  /\ opc[o] = "print"
  /\ opc' = [opc EXCEPT ![o] = "rollback"]
  /\ UNCHANGED <<tokens, unused, printing, points, payer, createVars>>

RemoveAPIToken(l) == tokens' = [tokens EXCEPT ![l] = NoToken]

\* The compensation names the row by its label; it may fail and leave the row.
Rollback(o) ==
  /\ opc[o] = "rollback"
  /\ RemoveAPIToken(printing[o].label) \/ UNCHANGED tokens
  /\ EndCommand(o)

Disable(l) ==
  /\ tokens[l] # NoToken
  /\ tokens' = [tokens EXCEPT ![l].enabled = FALSE]
  /\ UNCHANGED <<unused, opc, printing, points, payer, createVars>>

Remove(l) ==
  /\ tokens[l] # NoToken
  /\ RemoveAPIToken(l)
  /\ UNCHANGED <<unused, opc, printing, points, payer, createVars>>

-----------------------------------------------------------------------------
(* Creating drop points *)

\* authenticateAPIToken: the limit is the row's own or the configured default.  Nobody
\* knows a secret its command has still to print; a print that failed may have shown it.
Authenticate(k, l) ==
  /\ kpc[k] = "idle"
  /\ tokens[l].enabled
  /\ \A o \in Operators : printing[o].secret # tokens[l].secret
  /\ kpc' = [kpc EXCEPT ![k] = "decode"]
  /\ creator' = [creator EXCEPT ![k] =
       [label |-> l, max |-> IF tokens[l].max = Default THEN DefaultMaxActive ELSE tokens[l].max]]
  /\ UNCHANGED <<tokenVars, points, payer, attempt, created>>

Leave(k) ==
  /\ kpc' = [kpc EXCEPT ![k] = "idle"]
  /\ creator' = [creator EXCEPT ![k] = NoCreator]
  /\ attempt' = [attempt EXCEPT ![k] = 0]
  /\ created' = [created EXCEPT ![k] = Default]

\* The body is read, decoded and validated; a bad one is answered with an error.
Decode(k) ==
  /\ kpc[k] = "decode"
  /\ \/ kpc' = [kpc EXCEPT ![k] = "insert"] /\ UNCHANGED <<creator, attempt, created>>
     \/ Leave(k)
  /\ UNCHANGED <<tokenVars, points, payer>>

ActiveOf(l) == {d \in DropPoints : points[d] = "open" /\ payer[d] = l}

\* Mutant of WithinQuota: the limit is off by one.
WithinQuotaAndOne(k) == Cardinality(ActiveOf(creator[k].label)) <= creator[k].max

WithinQuota(k) == Cardinality(ActiveOf(creator[k].label)) < creator[k].max

\* Mutant of CreateDropPointWithinQuota: INSERT OR REPLACE.
CreateOrReplace(k, d) ==
  /\ kpc[k] = "insert"
  /\ WithinQuota(k)
  /\ points' = [points EXCEPT ![d] = "open"]
  /\ payer' = [payer EXCEPT ![d] = creator[k].label]
  /\ kpc' = [kpc EXCEPT ![k] = "answer"]
  /\ created' = [created EXCEPT ![k] = d]
  /\ UNCHANGED <<tokenVars, creator, attempt>>

\* INSERT ... SELECT ... WHERE the active count is below the limit.
CreateDropPointWithinQuota(k, d) ==
  /\ kpc[k] = "insert"
  /\ WithinQuota(k)
  /\ points[d] = "none"
  /\ points' = [points EXCEPT ![d] = "open"]
  /\ payer' = [payer EXCEPT ![d] = creator[k].label]
  /\ kpc' = [kpc EXCEPT ![k] = "answer"]
  /\ created' = [created EXCEPT ![k] = d]
  /\ UNCHANGED <<tokenVars, creator, attempt>>

QuotaExceeded(k) ==
  /\ kpc[k] = "insert"
  /\ ~WithinQuota(k)
  /\ Leave(k)
  /\ UNCHANGED <<tokenVars, points, payer>>

\* Mutant of Conflict: draw again for ever.
ConflictForever(k, d) ==
  /\ kpc[k] = "insert"
  /\ WithinQuota(k)
  /\ points[d] # "none"
  /\ attempt' = [attempt EXCEPT ![k] = @ + 1]
  /\ UNCHANGED <<tokenVars, points, payer, kpc, creator, created>>

\* The drawn identifier is taken: draw again, and give up after the third.
Conflict(k, d) ==
  /\ kpc[k] = "insert"
  /\ WithinQuota(k)
  /\ points[d] # "none"
  /\ IF attempt[k] + 1 < MaxAttempts
       THEN attempt' = [attempt EXCEPT ![k] = @ + 1] /\ UNCHANGED <<kpc, creator, created>>
       ELSE Leave(k)
  /\ UNCHANGED <<tokenVars, points, payer>>

\* The response is written, or the client is gone and nobody learns the tokens.
AnswerCreate(k) ==
  /\ kpc[k] = "answer"
  /\ Leave(k)
  /\ UNCHANGED <<tokenVars, points, payer>>

\* The drop point is closed or lapses: it no longer counts.
End(d) ==
  /\ points[d] = "open"
  /\ points' = [points EXCEPT ![d] = "ended"]
  /\ UNCHANGED <<tokenVars, payer, createVars>>

Next ==
  \/ \E o \in Operators, l \in Labels, s \in unused, m \in Limits \cup {Default} :
       AddAPIToken(o, l, s, m)
  \/ \E o \in Operators : Printed(o) \/ PrintFails(o) \/ Rollback(o)
  \/ \E l \in Labels : Disable(l) \/ Remove(l)
  \/ \E k \in Creators : Decode(k) \/ QuotaExceeded(k) \/ AnswerCreate(k)
  \/ \E k \in Creators, l \in Labels : Authenticate(k, l)
  \/ \E k \in Creators, d \in DropPoints : CreateDropPointWithinQuota(k, d) \/ Conflict(k, d)
  \/ \E d \in DropPoints : End(d)

Spec == Init /\ [][Next]_vars

-----------------------------------------------------------------------------
(* Properties *)

\* However many creates of one token run at once, and whatever was removed, added
\* again or ended since they authenticated, the drop point one of them adds never
\* makes its label own more active drop points than the limit it authenticated with.
QuotaHolds ==
  [][\A d \in DropPoints :
       points[d] # "open" /\ points'[d] = "open"
         => \E k \in Creators :
              /\ created'[k] = d /\ creator[k].label = payer'[d]
              /\ Cardinality(ActiveOf(payer[d])') <= creator[k].max]_vars

\* Every create answers with a drop point of its own that its label pays for: a
\* conflicting identifier never hands out, or takes over, somebody else's row.
CreatedIsOwn ==
  \A k \in Creators : kpc[k] = "answer" =>
    /\ payer[created[k]] = creator[k].label
    /\ \A j \in Creators \ {k} : created[j] # created[k]

\* "DisableAPIToken immediately prevents an API token from creating new drop
\* points" (api_tokens.go): no drop point appears for a label whose row is disabled.
DisabledCreatesNothing ==
  [][\A d \in DropPoints :
       LET row == tokens[payer'[d]] IN
       points[d] = "none" /\ points'[d] = "open" => row = NoToken \/ row.enabled]_vars

\* SPEC.md: a token add that cannot print its secret must remove the newly inserted
\* row.  It removes no other.
RollbackRemovesOwnRow ==
  [][\A o \in Operators :
       opc[o] = "rollback" =>
         \A l \in Labels : tokens'[l] = NoToken /\ tokens[l] # NoToken /\ opc'[o] = "idle"
                             => tokens[l].secret = printing[o].secret]_vars
=============================================================================
