--------------------------- MODULE ApiTokensProofs ---------------------------
(***************************************************************************)
(* API tokens proved for every number of labels, secrets, token commands,  *)
(* create requests and identifiers: the types, the ownership of the drop   *)
(* point a create answers with, and the quota.                             *)
(***************************************************************************)
EXTENDS ApiTokens, TLAPS, FiniteSetTheorems

-----------------------------------------------------------------------------
(* Types *)

\* Every step keeps the types.
LEMMA TokensTypeStep == TokensTypeOK /\ [Next]_vars => TokensTypeOK'
<1> SUFFICES ASSUME TokensTypeOK, [Next]_vars
             PROVE  TokensTypeOK'
  OBVIOUS
<1> DEFINE Rows == [secret : Secrets \cup {Default}, enabled : BOOLEAN, max : Limits \cup {Default}]
           Printings == [label : Labels \cup {Default}, secret : Secrets \cup {Default}]
<1>0. tokens \in [Labels -> Rows] /\ printing \in [Operators -> Printings] /\ NoToken \in Rows
  BY DEF TokensTypeOK, NoToken
<1> USE DEF TokensTypeOK
<1>1. CASE UNCHANGED vars
  BY <1>1 DEF vars, tokenVars, createVars
<1>2. ASSUME NEW o \in Operators, NEW l \in Labels, NEW s \in unused,
             NEW m \in Limits \cup {Default}, AddAPIToken(o, l, s, m)
      PROVE  TokensTypeOK'
  BY <1>2 DEF AddAPIToken, createVars
<1>3. ASSUME NEW o \in Operators, Printed(o) \/ PrintFails(o) \/ Rollback(o)
      PROVE  TokensTypeOK'
  <2>1. tokens' = tokens \/ tokens' = [tokens EXCEPT ![printing[o].label] = NoToken]
    BY <1>3 DEF Printed, PrintFails, Rollback, RemoveAPIToken
  <2>2. tokens' \in [Labels -> Rows]
    <3> HIDE DEF Rows, TokensTypeOK
    <3> QED  BY <1>0, <2>1
  <2>3. opc' \in [Operators -> {"idle", "print", "rollback"}]
    BY <1>3 DEF Printed, PrintFails, Rollback, EndCommand
  <2>4. printing' = printing \/ \E e \in Printings : printing' = [printing EXCEPT ![o] = e]
    BY <1>3 DEF Printed, PrintFails, Rollback, EndCommand
  <2>5. printing' \in [Operators -> Printings]
    <3> HIDE DEF Printings, TokensTypeOK
    <3> QED  BY <1>0, <2>4
  <2>6. UNCHANGED <<unused, points, payer, createVars>>
    BY <1>3 DEF Printed, PrintFails, Rollback, EndCommand, createVars
  <2>7. QED
    BY <2>2, <2>3, <2>5, <2>6 DEF createVars
<1>4. ASSUME NEW l \in Labels, Disable(l) \/ Remove(l)
      PROVE  TokensTypeOK'
  <2>1. \E row \in Rows : tokens' = [tokens EXCEPT ![l] = row]
    <3>1. CASE Disable(l)
      <4>1. [tokens[l] EXCEPT !.enabled = FALSE] \in Rows
        BY <1>0
      <4>2. QED
        BY <3>1, <4>1 DEF Disable
    <3>2. CASE Remove(l)
      BY <1>0, <3>2 DEF Remove, RemoveAPIToken
    <3>3. QED
      BY <1>4, <3>1, <3>2
  <2>2. tokens' \in [Labels -> Rows]
    <3> HIDE DEF Rows, TokensTypeOK
    <3> QED  BY <1>0, <2>1
  <2>3. QED
    BY <1>4, <2>2 DEF Disable, Remove, createVars
<1>5. ASSUME NEW k \in Creators, Leave(k), UNCHANGED <<tokenVars, points, payer>>
      PROVE  TokensTypeOK'
  <2>1. kpc' \in [Creators -> {"idle", "decode", "insert", "answer"}]
    BY <1>5 DEF Leave
  <2>2. creator' \in [Creators -> [label : Labels \cup {Default}, max : Nat]]
    BY <1>5 DEF Leave, NoCreator
  <2>3. /\ attempt' \in [Creators -> 0 .. MaxAttempts]
        /\ created' \in [Creators -> DropPoints \cup {Default}]
    BY <1>5 DEF Leave, MaxAttempts
  <2>4. QED
    BY <1>5, <2>1, <2>2, <2>3 DEF tokenVars
<1>6. ASSUME NEW k \in Creators, NEW l \in Labels, Authenticate(k, l)
      PROVE  TokensTypeOK'
  BY <1>6, LimitsAssumption DEF Authenticate, tokenVars
<1>7. ASSUME NEW k \in Creators, NEW d \in DropPoints, CreateDropPointWithinQuota(k, d)
      PROVE  TokensTypeOK'
  BY <1>7 DEF CreateDropPointWithinQuota, tokenVars
<1>8. ASSUME NEW k \in Creators, NEW d \in DropPoints, Conflict(k, d)
      PROVE  TokensTypeOK'
  BY <1>5, <1>8 DEF Conflict, MaxAttempts, tokenVars
<1>9. ASSUME NEW d \in DropPoints, End(d)
      PROVE  TokensTypeOK'
  BY <1>9 DEF End, tokenVars, createVars
<1>10. ASSUME NEW k \in Creators, Decode(k) \/ QuotaExceeded(k) \/ AnswerCreate(k)
       PROVE  TokensTypeOK'
  BY <1>5, <1>10 DEF Decode, QuotaExceeded, AnswerCreate, tokenVars
<1>11. QED
  BY <1>1, <1>2, <1>3, <1>4, <1>6, <1>7, <1>8, <1>9, <1>10 DEF Next

\* The rows, the commands and the create requests keep their types.
THEOREM TokensTyped == Spec => []TokensTypeOK
<1>1. Init => TokensTypeOK
  BY DEF Init, TokensTypeOK, NoToken, NoCreator, MaxAttempts
<1>2. QED
  BY <1>1, TokensTypeStep, PTL DEF Spec

-----------------------------------------------------------------------------
(* Ownership *)

\* A create that answers holds a row of its own that its label pays for; any other
\* create holds none.
Answering(k) ==
  IF kpc[k] = "answer"
    THEN created[k] \in DropPoints /\ points[created[k]] # "none"
           /\ payer[created[k]] = creator[k].label
    ELSE created[k] = Default

Apart ==
  \A j, k \in Creators : kpc[k] = "answer" /\ j # k => created[j] # created[k]

OwnInv == (\A k \in Creators : Answering(k)) /\ Apart

\* Only the insert gives a create a drop point, and that one had no row before.
LEMMA OwnStep == TokensTypeOK /\ OwnInv /\ [Next]_vars => OwnInv'
<1> SUFFICES ASSUME TokensTypeOK, OwnInv, [Next]_vars
             PROVE  OwnInv'
  OBVIOUS
<1> USE DEF TokensTypeOK, OwnInv, Answering, Apart
<1>1. CASE UNCHANGED <<points, payer, createVars>>
  BY <1>1 DEF createVars
<1>2. ASSUME NEW k \in Creators, Leave(k), UNCHANGED <<points, payer>>
      PROVE  OwnInv'
  <2>1. \A j \in Creators : j # k => /\ kpc'[j] = kpc[j] /\ creator'[j] = creator[j]
                                     /\ created'[j] = created[j]
    BY <1>2 DEF Leave
  <2>2. kpc'[k] = "idle" /\ created'[k] = Default
    BY <1>2 DEF Leave
  <2>3. \A j \in Creators : Answering(j)'
    BY <1>2, <2>1, <2>2
  <2>4. Apart'
    BY <2>1, <2>2, LimitsAssumption
  <2>5. QED
    BY <2>3, <2>4
<1>3. ASSUME NEW k \in Creators, kpc[k] # "answer", kpc'[k] # "answer",
             \A j \in Creators \ {k} : kpc'[j] = kpc[j] /\ creator'[j] = creator[j],
             UNCHANGED <<points, payer, created>>
      PROVE  OwnInv'
  BY <1>3
<1>4. ASSUME NEW k \in Creators, NEW d \in DropPoints, CreateDropPointWithinQuota(k, d)
      PROVE  OwnInv'
  <2>1. /\ points[d] = "none" /\ points'[d] = "open" /\ payer'[d] = creator[k].label
        /\ \A e \in DropPoints \ {d} : points'[e] = points[e] /\ payer'[e] = payer[e]
        /\ kpc[k] = "insert" /\ kpc'[k] = "answer" /\ created'[k] = d
        /\ creator' = creator
        /\ \A j \in Creators \ {k} : kpc'[j] = kpc[j] /\ created'[j] = created[j]
    BY <1>4 DEF CreateDropPointWithinQuota
  <2>2. \A j \in Creators : created[j] # d
    BY <2>1, LimitsAssumption
  <2>3. \A j \in Creators : Answering(j)'
    BY <2>1, <2>2
  <2>4. Apart'
    BY <2>1, <2>2
  <2>5. QED
    BY <2>3, <2>4
<1>5. ASSUME NEW d \in DropPoints, End(d)
      PROVE  OwnInv'
  BY <1>5 DEF End, createVars
<1>6. ASSUME NEW k \in Creators, Decode(k) \/ \E d \in DropPoints : Conflict(k, d)
      PROVE  OwnInv'
  BY <1>2, <1>3, <1>6 DEF Decode, Conflict, tokenVars
<1>7. ASSUME NEW k \in Creators, NEW l \in Labels, Authenticate(k, l)
      PROVE  OwnInv'
  BY <1>3, <1>7 DEF Authenticate, tokenVars
<1>8. QED
  BY <1>1, <1>2, <1>4, <1>5, <1>6, <1>7
     DEF Next, vars, AddAPIToken, Printed, PrintFails, Rollback, EndCommand, Disable, Remove,
         QuotaExceeded, AnswerCreate, tokenVars

\* A conflicting identifier never hands out, or takes over, somebody else's row.
THEOREM CreatesOwn == Spec => []CreatedIsOwn
<1>1. Init => OwnInv
  BY DEF Init, OwnInv, Answering, Apart
<1>2. OwnInv => CreatedIsOwn
  BY DEF OwnInv, Answering, Apart, CreatedIsOwn
<1>3. QED
  BY <1>1, <1>2, TokensTyped, OwnStep, PTL DEF Spec

-----------------------------------------------------------------------------
(* The quota *)

\* Only finitely many drop points exist at any time.
Finite == IsFiniteSet({d \in DropPoints : points[d] # "none"})

\* A step adds at most one drop point.
LEMMA FiniteStep == TokensTypeOK /\ Finite /\ [Next]_vars => Finite'
<1> SUFFICES ASSUME TokensTypeOK, Finite, [Next]_vars
             PROVE  Finite'
  OBVIOUS
<1> USE DEF TokensTypeOK
<1> DEFINE Existing == {d \in DropPoints : points[d] # "none"}
<1>1. CASE points' = points
  <2>1. Existing' = Existing
    BY <1>1
  <2>2. QED
    BY <2>1 DEF Finite
<1>2. ASSUME NEW k \in Creators, NEW d \in DropPoints, CreateDropPointWithinQuota(k, d)
      PROVE  Finite'
  <2>1. Existing' = Existing \cup {d}
    BY <1>2 DEF CreateDropPointWithinQuota
  <2>2. QED
    <3> HIDE DEF Existing
    <3>1. IsFiniteSet(Existing)
      BY DEF Finite, Existing
    <3>2. IsFiniteSet(Existing \cup {d})
      BY <3>1, FS_AddElement
    <3>3. QED
      BY <2>1, <3>2 DEF Finite, Existing
<1>3. ASSUME NEW d \in DropPoints, End(d)
      PROVE  Finite'
  <2>1. Existing' = Existing
    BY <1>3 DEF End
  <2>2. QED
    BY <2>1 DEF Finite
<1>4. QED
  BY <1>1, <1>2, <1>3
     DEF Next, vars, AddAPIToken, Printed, PrintFails, Rollback, EndCommand, Disable, Remove,
         Decode, QuotaExceeded, AnswerCreate, Authenticate, Conflict, tokenVars

\* An insert finds its label below the limit it authenticated with and adds one.
LEMMA InsertWithinQuota ==
  ASSUME TokensTypeOK, Finite, NEW k \in Creators, NEW d \in DropPoints,
         CreateDropPointWithinQuota(k, d)
  PROVE  /\ created'[k] = d /\ creator[k].label = payer'[d]
         /\ Cardinality(ActiveOf(payer[d])') <= creator[k].max
<1> USE DEF TokensTypeOK
<1> DEFINE l == creator[k].label
           Before == ActiveOf(l)
<1>1. created'[k] = d /\ payer'[d] = l
  BY DEF CreateDropPointWithinQuota
<1>2. IsFiniteSet(Before)
  BY FS_Subset DEF Finite, ActiveOf
<1>3. ActiveOf(payer[d])' = Before \cup {d}
  BY <1>1 DEF CreateDropPointWithinQuota, ActiveOf
<1>4. d \notin Before
  BY DEF CreateDropPointWithinQuota, ActiveOf
<1>5. Cardinality(ActiveOf(payer[d])') = Cardinality(Before) + 1
  BY <1>2, <1>3, <1>4, FS_AddElement
<1>6. Cardinality(Before) \in Nat
  BY <1>2, FS_CardinalityType
<1>7. Cardinality(Before) < creator[k].max /\ creator[k].max \in Nat
  BY DEF CreateDropPointWithinQuota, WithinQuota
<1>8. Cardinality(Before) + 1 <= creator[k].max
  BY <1>6, <1>7
<1>9. QED
  BY <1>1, <1>5, <1>8

\* However many creates of one label run at once, and whatever happened to its row
\* since they authenticated, none of them takes the label above its limit.
THEOREM QuotaIsKept == Spec => QuotaHolds
<1> DEFINE Kept ==
       \A d \in DropPoints :
         points[d] # "open" /\ points'[d] = "open"
           => \E k \in Creators :
                /\ created'[k] = d /\ creator[k].label = payer'[d]
                /\ Cardinality(ActiveOf(payer[d])') <= creator[k].max
<1>1. ASSUME TokensTypeOK, Finite, [Next]_vars
      PROVE  [Kept]_vars
  <2> SUFFICES ASSUME NEW d \in DropPoints, points[d] # "open", points'[d] = "open"
               PROVE  \E k \in Creators :
                        /\ created'[k] = d /\ creator[k].label = payer'[d]
                        /\ Cardinality(ActiveOf(payer[d])') <= creator[k].max
    OBVIOUS
  <2>1. \E k \in Creators : CreateDropPointWithinQuota(k, d)
    BY <1>1
       DEF Next, vars, AddAPIToken, Printed, PrintFails, Rollback, EndCommand, Disable, Remove,
           Decode, QuotaExceeded, AnswerCreate, Authenticate, Conflict, End,
           CreateDropPointWithinQuota, tokenVars, TokensTypeOK
  <2>2. QED
    BY <1>1, <2>1, InsertWithinQuota
<1>2. Init => Finite
  <2>1. ASSUME Init
        PROVE  {d \in DropPoints : points[d] # "none"} = {}
    BY <2>1 DEF Init
  <2>2. QED
    BY <2>1, FS_EmptySet DEF Finite
<1>3. QED
  BY <1>1, <1>2, TokensTyped, FiniteStep, PTL DEF Spec, QuotaHolds
=============================================================================
