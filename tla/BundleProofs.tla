---------------------------- MODULE BundleProofs ----------------------------
(***************************************************************************)
(* What a bundle's sender and receiver promise each other, for every set   *)
(* of names, every size of file and every limit on names that leaves room  *)
(* for an extension, a number and a symbol.                                *)
(*                                                                         *)
(* The operators of FileNames are folds, searches and smallest or largest  *)
(* numbers; the first half of the module proves what they return, the      *)
(* second that BundleInv is preserved and what it says.  Sums and joined   *)
(* payloads are defined by folds over finite sets, which are turned into   *)
(* running totals; induction is over the smallest number that is not in a  *)
(* set (WFMin), because that needs no operator for a parameter.            *)
(***************************************************************************)
EXTENDS Bundle, SequenceTheorems, FiniteSetTheorems, TLAPS

-----------------------------------------------------------------------------
(* Numbers and sums *)

\* Induction over the numbers, from the smallest that is not in the set.
LEMMA Induction ==
  ASSUME NEW G, 0 \in G, \A n \in Nat : n \in G => n + 1 \in G
  PROVE  \A n \in Nat : n \in G
<1> DEFINE B == {n \in Nat : n \notin G}
<1> SUFFICES ASSUME B # {} PROVE FALSE
  OBVIOUS
<1>1. PICK n \in B : \A m \in B : <<m, n>> \notin OpToRel(<, Nat)
  <2> B \subseteq Nat
    OBVIOUS
  <2> HIDE DEF B
  <2> QED BY NatLessThanWellFounded, WFMin
<1>2. \A m \in Nat : m < n => m \in G
  BY <1>1 DEF OpToRel
<1>3. n - 1 \in G
  <2>1. n # 0 /\ n \in Nat
    OBVIOUS
  <2>2. n - 1 \in Nat /\ n - 1 < n
    BY <2>1
  <2>3. QED
    BY <1>2, <2>2
<1>4. (n - 1) + 1 = n /\ n - 1 \in Nat
  OBVIOUS
<1>5. QED
  BY <1>3, <1>4

\* The largest and the smallest of some numbers that are not more than n.
LEMMA MaxFacts ==
  ASSUME NEW n \in Nat, NEW S, S \subseteq 0 .. n, S # {}
  PROVE  Max(S) \in S /\ \A x \in S : x <= Max(S)
<1> DEFINE G == {m \in Nat : \A T \in SUBSET (0 .. m) : T # {} => \E x \in T : \A y \in T : x >= y}
<1>1. 0 \in G
  <2>1. 0 .. 0 = {0}
    OBVIOUS
  <2>2. ASSUME NEW T \in SUBSET (0 .. 0), T # {} PROVE \E x \in T : \A y \in T : x >= y
    <3>1. T = {0}
      BY <2>1, <2>2
    <3>2. QED
      BY <3>1
  <2>3. QED
    BY <2>2
<1>2. ASSUME NEW m \in Nat, m \in G PROVE m + 1 \in G
  <2> SUFFICES ASSUME NEW T \in SUBSET (0 .. m + 1), T # {} PROVE \E x \in T : \A y \in T : x >= y
    OBVIOUS
  <2>1. CASE m + 1 \in T
    BY <2>1
  <2>2. CASE m + 1 \notin T
    BY <1>2, <2>2
  <2>3. QED
    BY <2>1, <2>2
<1>3. n \in G
  <2> HIDE DEF G
  <2> QED BY <1>1, <1>2, Induction
<1>4. \E x \in S : \A y \in S : x >= y
  BY <1>3
<1>5. QED
  BY <1>4 DEF Max

\* The smallest of some numbers is one of them.
LEMMA MinFacts ==
  ASSUME NEW S, S \subseteq Nat, S # {}
  PROVE  Min(S) \in S /\ \A x \in S : Min(S) <= x
<1>1. PICK n \in S : \A m \in S : <<m, n>> \notin OpToRel(<, Nat)
  BY NatLessThanWellFounded, WFMin
<1>2. ASSUME NEW m \in S PROVE n =< m
  <2>1. ~ (m < n)
    <3> SUFFICES ASSUME m < n PROVE <<m, n>> \in OpToRel(<, Nat)
      BY <1>1
    <3> QED BY DEF OpToRel
  <2>2. QED
    BY <2>1
<1>3. QED
  BY <1>2 DEF Min

-----------------------------------------------------------------------------
(* Sums along a sequence *)

\* What FoldLeft computes when it adds up the numbers w[1], w[2]...: it takes out the last.
Adds(g, w, n) ==
  g = [s \in SUBSET (1 .. n) |-> IF s = {} THEN 0 ELSE g[s \ {Max(s)}] + w[Max(s)]]

Total(w, n) == (CHOOSE g : Adds(g, w, n))[1 .. n]

\* There is a function that adds: it is recursive over subsets, which lose their largest number.
LEMMA AddsExist ==
  ASSUME NEW w, NEW n \in Nat
  PROVE  \E g : Adds(g, w, n)
<1> DEFINE G == {m \in Nat : \E g : Adds(g, w, m)}
<1>1. 0 \in G
  <2>1. Adds([s \in SUBSET (1 .. 0) |-> 0], w, 0)
    BY DEF Adds
  <2>2. QED
    BY <2>1
<1>2. ASSUME NEW m \in Nat, m \in G PROVE m + 1 \in G
  <2>1. PICK g : Adds(g, w, m)
    BY <1>2
  <2> DEFINE h == [s \in SUBSET (1 .. m + 1) |-> IF m + 1 \in s THEN g[s \ {m + 1}] + w[m + 1] ELSE g[s]]
  <2>2. ASSUME NEW s \in SUBSET (1 .. m + 1)
        PROVE  h[s] = IF s = {} THEN 0 ELSE h[s \ {Max(s)}] + w[Max(s)]
    <3>1. CASE m + 1 \in s
      <4>1. Max(s) = m + 1
        <5>1. s \subseteq 0 .. m + 1 /\ s # {} /\ m + 1 \in Nat
          BY <3>1
        <5>2. Max(s) \in s /\ \A x \in s : x <= Max(s)
          BY <5>1, MaxFacts
        <5>3. Max(s) \in 0 .. m + 1 /\ m + 1 <= Max(s)
          BY <3>1, <5>1, <5>2
        <5>4. QED
          BY <5>3
      <4>2. s \ {m + 1} \in SUBSET (1 .. m + 1) /\ m + 1 \notin s \ {m + 1} /\ s # {}
        BY <3>1
      <4>3. h[s \ {m + 1}] = g[s \ {m + 1}] /\ h[s] = g[s \ {m + 1}] + w[m + 1]
        BY <3>1, <4>2
      <4>4. QED
        BY <4>1, <4>2, <4>3
    <3>2. CASE m + 1 \notin s
      <4>1. s \in SUBSET (1 .. m)
        BY <3>2
      <4>2. g[s] = IF s = {} THEN 0 ELSE g[s \ {Max(s)}] + w[Max(s)]
        BY <2>1, <4>1 DEF Adds
      <4>3. s \ {Max(s)} \in SUBSET (1 .. m + 1) /\ m + 1 \notin s \ {Max(s)}
        BY <3>2
      <4>4. h[s] = g[s] /\ h[s \ {Max(s)}] = g[s \ {Max(s)}]
        BY <3>2, <4>3
      <4>5. QED
        BY <4>2, <4>4
    <3>3. QED
      BY <3>1, <3>2
  <2>3. h = [s \in SUBSET (1 .. m + 1) |-> IF s = {} THEN 0 ELSE h[s \ {Max(s)}] + w[Max(s)]]
    BY <2>2
  <2>4. Adds(h, w, m + 1)
    BY <2>3 DEF Adds
  <2>5. QED
    <3> HIDE DEF h
    <3> QED BY <2>4
<1>3. QED
  <2>1. n \in G
    <3> HIDE DEF G
    <3> QED BY <1>1, <1>2, Induction
  <2>2. QED
    BY <2>1

\* On beginnings of the sequence its value is the running sum, so all agree on those.
LEMMA AddsRunning ==
  ASSUME NEW w, NEW n \in Nat, NEW g, Adds(g, w, n)
  PROVE  /\ g[1 .. 0] = 0
         /\ \A m \in 1 .. n : g[1 .. m] = g[1 .. m - 1] + w[m]
<1>1. ASSUME NEW m \in 0 .. n
      PROVE  g[1 .. m] = IF 1 .. m = {} THEN 0 ELSE g[(1 .. m) \ {Max(1 .. m)}] + w[Max(1 .. m)]
  <2>1. 1 .. m \in SUBSET (1 .. n)
    OBVIOUS
  <2>2. QED
    BY <2>1 DEF Adds
<1>2. 1 .. 0 = {}
  OBVIOUS
<1>3. ASSUME NEW m \in 1 .. n PROVE g[1 .. m] = g[1 .. m - 1] + w[m]
  <2>1. 1 .. m # {} /\ 1 .. m \subseteq 0 .. m /\ m \in 1 .. m /\ m \in Nat /\ m \in 0 .. n
    OBVIOUS
  <2>2. Max(1 .. m) \in 1 .. m /\ m <= Max(1 .. m)
    BY <2>1, MaxFacts
  <2>3. Max(1 .. m) = m /\ (1 .. m) \ {m} = 1 .. m - 1
    BY <2>1, <2>2
  <2>4. g[1 .. m] = g[(1 .. m) \ {Max(1 .. m)}] + w[Max(1 .. m)]
    BY <1>1, <2>1
  <2>5. QED
    BY <2>3, <2>4
<1>4. g[1 .. 0] = 0
  <2>1. 0 \in 0 .. n
    OBVIOUS
  <2>2. QED
    BY <1>1, <1>2, <2>1
<1>5. QED
  BY <1>3, <1>4

\* So any two of them agree on a beginning of the sequence, whatever comes after it.
LEMMA TotalIs ==
  ASSUME NEW n \in Nat, NEW w, NEW g, Adds(g, w, n),
         NEW m \in 0 .. n, NEW u, \A i \in 1 .. m : u[i] = w[i]
  PROVE  Total(u, m) = g[1 .. m]
<1>1. PICK h : h = CHOOSE f : Adds(f, u, m)
  OBVIOUS
<1>2. Adds(h, u, m)
  BY <1>1, AddsExist
<1>3. m \in Nat /\ m <= n /\ \A i \in 1 .. m : u[i] = w[i]
  OBVIOUS
<1> DEFINE G == {i \in Nat : i <= m => g[1 .. i] = h[1 .. i]}
<1>4. 0 \in G
  BY <1>2, <1>3, AddsRunning
<1>5. ASSUME NEW i \in Nat, i \in G PROVE i + 1 \in G
  <2> SUFFICES ASSUME i + 1 <= m PROVE g[1 .. i + 1] = h[1 .. i + 1]
    OBVIOUS
  <2>1. i + 1 \in 1 .. n /\ i + 1 \in 1 .. m /\ (i + 1) - 1 = i
    BY <1>3
  <2>2. g[1 .. i + 1] = g[1 .. i] + w[i + 1]
    BY <2>1, AddsRunning
  <2>3. h[1 .. i + 1] = h[1 .. i] + u[i + 1]
    BY <1>2, <1>3, <2>1, AddsRunning
  <2>4. QED
    BY <1>3, <1>5, <2>1, <2>2, <2>3
<1>6. m \in G
  <2> HIDE DEF G
  <2> QED BY <1>3, <1>4, <1>5, Induction
<1>7. QED
  BY <1>1, <1>3, <1>6 DEF Total

\* Numbers that agree have one sum.
LEMMA TotalsAgree ==
  ASSUME NEW n \in Nat, NEW v, NEW w, \A i \in 1 .. n : v[i] = w[i]
  PROVE  Total(v, n) = Total(w, n)
<1>1. PICK g : Adds(g, w, n)
  BY AddsExist
<1>2. n \in 0 .. n
  OBVIOUS
<1> HIDE DEF Adds
<1>3. Total(v, n) = g[1 .. n]
  BY <1>1, <1>2, TotalIs
<1>4. Total(w, n) = g[1 .. n]
  BY <1>1, <1>2, TotalIs
<1>5. QED
  BY <1>3, <1>4

\* The sum of the numbers, one by one.
LEMMA TotalUnfolds ==
  ASSUME NEW n \in Nat, NEW w, \A i \in 1 .. n : w[i] \in Nat
  PROVE  /\ Total(w, 0) = 0
         /\ \A m \in 1 .. n : Total(w, m) = Total(w, m - 1) + w[m]
         /\ \A m \in 0 .. n : Total(w, m) \in Nat
<1>1. PICK g : Adds(g, w, n)
  BY AddsExist
<1>2. ASSUME NEW m \in 0 .. n PROVE Total(w, m) = g[1 .. m]
  <2> HIDE DEF Adds
  <2>1. QED
    BY <1>1, TotalIs
<1>3. \A m \in 0 .. n : Total(w, m) = g[1 .. m]
  BY <1>2
<1>4. Total(w, 0) = 0
  <2>1. g[1 .. 0] = 0
    BY <1>1, AddsRunning
  <2>2. 0 \in 0 .. n
    OBVIOUS
  <2>3. QED
    BY <1>3, <2>1, <2>2
<1>5. ASSUME NEW m \in 1 .. n PROVE Total(w, m) = Total(w, m - 1) + w[m]
  <2>1. m \in 0 .. n /\ m - 1 \in 0 .. n
    OBVIOUS
  <2>2. g[1 .. m] = g[1 .. m - 1] + w[m]
    BY <1>1, AddsRunning
  <2>3. QED
    BY <1>3, <2>1, <2>2
<1> DEFINE G == {m \in Nat : m <= n => Total(w, m) \in Nat}
<1>6. 0 \in G
  BY <1>4
<1>7. ASSUME NEW m \in Nat, m \in G PROVE m + 1 \in G
  <2> SUFFICES ASSUME m + 1 <= n PROVE Total(w, m + 1) \in Nat
    OBVIOUS
  <2>1. m + 1 \in 1 .. n /\ (m + 1) - 1 = m /\ Total(w, m) \in Nat
    BY <1>7
  <2>2. Total(w, m + 1) = Total(w, m) + w[m + 1]
    BY <1>5, <2>1
  <2>3. QED
    BY <2>1, <2>2
<1>8. \A m \in Nat : m \in G
  <2> HIDE DEF G
  <2> QED BY <1>6, <1>7, Induction
<1>9. \A m \in 0 .. n : Total(w, m) \in Nat
  BY <1>8
<1>10. QED
  BY <1>3, <1>4, <1>5, <1>9

\* The length of a name, and the bytes before a file, are such sums.
LEMMA LengthIsTotal ==
  ASSUME NEW name, NEW n \in Nat, DOMAIN name = 1 .. n
  PROVE  Length(name) = Total([i \in 1 .. n |-> Bytes(name[i])], n)
<1> DEFINE w == [i \in 1 .. n |-> Bytes(name[i])]
           P(g) == g = [s \in SUBSET DOMAIN name |->
                          IF s = {} THEN 0 ELSE g[s \ {Max(s)}] + Bytes(name[Max(s)])]
<1>1. Length(name) = (CHOOSE g : P(g))[1 .. n]
  BY DEF Length, FoldLeft, MapThenFoldSet
<1>2. ASSUME NEW s \in SUBSET (1 .. n), s # {} PROVE w[Max(s)] = Bytes(name[Max(s)])
  <2>1. s \subseteq 0 .. n
    BY <1>2
  <2>2. Max(s) \in s
    BY <1>2, <2>1, MaxFacts
  <2>3. QED
    BY <2>2
<1>3. ASSUME NEW g PROVE P(g) <=> Adds(g, w, n)
  <2>1. [s \in SUBSET (1 .. n) |-> IF s = {} THEN 0 ELSE g[s \ {Max(s)}] + w[Max(s)]]
      = [s \in SUBSET DOMAIN name |-> IF s = {} THEN 0 ELSE g[s \ {Max(s)}] + Bytes(name[Max(s)])]
    <3> HIDE DEF w
    <3> QED BY <1>2
  <2>2. QED
    <3> HIDE DEF w
    <3> QED BY <2>1 DEF Adds
<1>4. PICK h : h = CHOOSE g : P(g)
  OBVIOUS
<1>5. Adds(h, w, n)
  <2>1. \E g : P(g)
    <3> HIDE DEF P, w
    <3> QED BY <1>3, AddsExist
  <2>2. P(h)
    <3> HIDE DEF P
    <3> QED BY <1>4, <2>1
  <2>3. QED
    <3> HIDE DEF P, w
    <3> QED BY <1>3, <2>2
<1>6. Total(w, n) = h[1 .. n]
  <2>1. n \in 0 .. n
    OBVIOUS
  <2> HIDE DEF w, Adds
  <2>2. QED
    BY <1>5, <2>1, TotalIs
<1>7. QED
  BY <1>1, <1>4, <1>6

\* The offset of a file (SplitPayload, manifest.go:131-163) is the total of the sizes before it.
LEMMA SizeBeforeIsTotal ==
  ASSUME NEW S, NEW manifest \in Seq(S), NEW i \in 1 .. Len(manifest) + 1
  PROVE  SizeBefore(manifest, i) = Total([j \in 1 .. i - 1 |-> manifest[j].size], i - 1)
<1> DEFINE n == i - 1
           part == SubSeq(manifest, 1, i - 1)
           w == [j \in 1 .. n |-> manifest[j].size]
           P(g) == g = [s \in SUBSET DOMAIN part |->
                          IF s = {} THEN 0 ELSE g[s \ {Max(s)}] + part[Max(s)].size]
<1>1. n \in Nat /\ DOMAIN part = 1 .. n /\ \A j \in 1 .. n : part[j] = manifest[j]
  OBVIOUS
<1>2. SizeBefore(manifest, i) = (CHOOSE g : P(g))[1 .. n]
  BY <1>1 DEF SizeBefore, FoldLeft, MapThenFoldSet
<1> HIDE DEF n, part
<1>3. ASSUME NEW s \in SUBSET (1 .. n), s # {} PROVE w[Max(s)] = part[Max(s)].size
  <2>1. s \subseteq 0 .. n
    BY <1>3
  <2>2. Max(s) \in s
    BY <1>1, <1>3, <2>1, MaxFacts
  <2>3. QED
    BY <1>1, <2>2
<1>4. ASSUME NEW g PROVE P(g) <=> Adds(g, w, n)
  <2>1. [s \in SUBSET (1 .. n) |-> IF s = {} THEN 0 ELSE g[s \ {Max(s)}] + w[Max(s)]]
      = [s \in SUBSET DOMAIN part |-> IF s = {} THEN 0 ELSE g[s \ {Max(s)}] + part[Max(s)].size]
    <3> HIDE DEF w
    <3> QED BY <1>1, <1>3
  <2>2. QED
    <3> HIDE DEF w
    <3> QED BY <2>1 DEF Adds
<1>5. PICK h : h = CHOOSE g : P(g)
  OBVIOUS
<1>6. Adds(h, w, n)
  <2>1. \E g : P(g)
    <3> HIDE DEF P, w
    <3> QED BY <1>1, <1>4, AddsExist
  <2>2. P(h)
    <3> HIDE DEF P
    <3> QED BY <1>5, <2>1
  <2>3. QED
    <3> HIDE DEF P, w
    <3> QED BY <1>4, <2>2
<1>7. Total(w, n) = h[1 .. n]
  <2>1. n \in 0 .. n
    BY <1>1
  <2> HIDE DEF w, Adds
  <2>2. QED
    BY <1>1, <1>6, <2>1, TotalIs
<1>8. QED
  BY <1>2, <1>5, <1>7 DEF n

\* The bytes before a file, from file to file.
LEMMA SizesAdd ==
  ASSUME NEW S, NEW manifest \in Seq(S), \A i \in 1 .. Len(manifest) : manifest[i].size \in Nat
  PROVE  /\ SizeBefore(manifest, 1) = 0
         /\ \A i \in 1 .. Len(manifest) + 1 : SizeBefore(manifest, i) \in Nat
         /\ \A i \in 1 .. Len(manifest) :
              SizeBefore(manifest, i + 1) = SizeBefore(manifest, i) + manifest[i].size
<1> DEFINE w == [j \in 1 .. Len(manifest) |-> manifest[j].size]
<1>1. Len(manifest) \in Nat /\ \A i \in 1 .. Len(manifest) : w[i] \in Nat
  OBVIOUS
<1>2. ASSUME NEW i \in 1 .. Len(manifest) + 1
      PROVE  SizeBefore(manifest, i) = Total(w, i - 1)
  <2> DEFINE v == [j \in 1 .. i - 1 |-> manifest[j].size]
  <2>1. SizeBefore(manifest, i) = Total(v, i - 1)
    BY SizeBeforeIsTotal
  <2>2. PICK n \in Nat : n = i - 1
    OBVIOUS
  <2>3. \A j \in 1 .. n : v[j] = w[j]
    BY <2>2
  <2>4. Total(v, n) = Total(w, n)
    <3> HIDE DEF v, w
    <3> QED BY <2>3, TotalsAgree
  <2>5. QED
    BY <2>1, <2>2, <2>4
<1> HIDE DEF w
<1>3. /\ Total(w, 0) = 0
      /\ \A m \in 1 .. Len(manifest) : Total(w, m) = Total(w, m - 1) + w[m]
      /\ \A m \in 0 .. Len(manifest) : Total(w, m) \in Nat
  BY <1>1, TotalUnfolds
<1>4. SizeBefore(manifest, 1) = 0
  BY <1>1, <1>2, <1>3
<1>5. ASSUME NEW i \in 1 .. Len(manifest) + 1 PROVE SizeBefore(manifest, i) \in Nat
  <2>1. i - 1 \in 0 .. Len(manifest)
    BY <1>1
  <2>2. QED
    BY <1>2, <1>3, <2>1
<1>6. ASSUME NEW i \in 1 .. Len(manifest)
      PROVE  SizeBefore(manifest, i + 1) = SizeBefore(manifest, i) + manifest[i].size
  <2>1. i + 1 \in 1 .. Len(manifest) + 1 /\ i \in 1 .. Len(manifest) + 1 /\ (i + 1) - 1 = i
    BY <1>1
  <2>2. w[i] = manifest[i].size
    BY DEF w
  <2>3. QED
    BY <1>2, <1>3, <2>1, <2>2
<1>7. QED
  BY <1>4, <1>5, <1>6

-----------------------------------------------------------------------------
(* Pieces of a sequence *)

\* FlattenSeq is defined by recursion along the sequence; this is what it unfolds to.
Joins(f, seqs, n) == f = [i \in 1 .. n |-> IF i = 1 THEN seqs[i] ELSE f[i - 1] \o seqs[i]]

\* There is a sequence of what has been joined so far, for any sequences to join.
LEMMA JoinsExist ==
  ASSUME NEW seqs, NEW n \in Nat
  PROVE  \E f : Joins(f, seqs, n)
<1> DEFINE G == {m \in Nat : \E f : Joins(f, seqs, m)}
<1>1. 0 \in G
  <2>1. Joins([i \in 1 .. 0 |-> 0], seqs, 0)
    BY DEF Joins
  <2>2. QED
    BY <2>1
<1>2. ASSUME NEW m \in Nat, m \in G PROVE m + 1 \in G
  <2>1. PICK f : Joins(f, seqs, m)
    BY <1>2
  <2> DEFINE h == [i \in 1 .. m + 1 |->
                     IF i = 1 THEN seqs[i] ELSE IF i = m + 1 THEN f[m] \o seqs[i] ELSE f[i]]
  <2>2. ASSUME NEW i \in 1 .. m + 1 PROVE h[i] = IF i = 1 THEN seqs[i] ELSE h[i - 1] \o seqs[i]
    <3>1. CASE i = 1
      BY <3>1
    <3>2. CASE i # 1
      <4>1. i - 1 \in 1 .. m /\ i - 1 \in 1 .. m + 1 /\ i - 1 # m + 1
        BY <3>2
      <4>2. h[i - 1] = f[i - 1]
        <5>1. CASE i - 1 = 1
          <6>1. 1 \in 1 .. m /\ 1 \in 1 .. m + 1
            BY <4>1, <5>1
          <6>2. f[1] = seqs[1]
            BY <2>1, <6>1 DEF Joins
          <6>3. QED
            BY <5>1, <6>1, <6>2
        <5>2. CASE i - 1 # 1
          BY <4>1, <5>2
        <5>3. QED
          BY <5>1, <5>2
      <4>3. CASE i = m + 1
        <5>1. i - 1 = m
          BY <4>3
        <5>2. h[i] = f[m] \o seqs[i]
          BY <3>2, <4>3
        <5>3. QED
          BY <3>2, <4>2, <5>1, <5>2
      <4>4. CASE i # m + 1
        <5>1. i \in 1 .. m
          BY <4>4
        <5>2. f[i] = f[i - 1] \o seqs[i]
          BY <2>1, <3>2, <5>1 DEF Joins
        <5>3. h[i] = f[i]
          BY <3>2, <4>4
        <5>4. QED
          BY <3>2, <4>2, <5>2, <5>3
      <4>5. QED
        BY <4>3, <4>4
    <3>3. QED
      BY <3>1, <3>2
  <2>3. h = [i \in 1 .. m + 1 |-> IF i = 1 THEN seqs[i] ELSE h[i - 1] \o seqs[i]]
    BY <2>2
  <2>4. Joins(h, seqs, m + 1)
    BY <2>3 DEF Joins
  <2>5. QED
    <3> HIDE DEF h
    <3> QED BY <2>4
<1>3. n \in G
  <2> HIDE DEF G
  <2> QED BY <1>1, <1>2, Induction
<1>4. QED
  BY <1>3

\* A part of a sequence that reads like t is t.
LEMMA SubSeqIs ==
  ASSUME NEW S, NEW s \in Seq(S), NEW t \in Seq(S), NEW a \in Nat, a + Len(t) <= Len(s),
         \A b \in 1 .. Len(t) : s[a + b] = t[b]
  PROVE  SubSeq(s, a + 1, a + Len(t)) = t
<1>1. PICK l \in Nat : l = Len(t)
  OBVIOUS
<1>2. \A b \in a + 1 .. a + l : s[b] \in S
  BY <1>1
<1>3. /\ SubSeq(s, a + 1, a + l) \in Seq(S)
      /\ Len(SubSeq(s, a + 1, a + l)) = IF a + 1 <= a + l THEN (a + l) - (a + 1) + 1 ELSE 0
      /\ \A b \in 1 .. (a + l) - (a + 1) + 1 : SubSeq(s, a + 1, a + l)[b] = s[(a + 1) + b - 1]
  <2>1. a + 1 \in Int /\ a + l \in Int
    OBVIOUS
  <2>2. QED
    BY <1>2, <2>1, SubSeqProperties
<1>4. PICK p \in Seq(S) : p = SubSeq(s, a + 1, a + l)
  BY <1>3
<1>5. Len(p) = Len(t)
  BY <1>1, <1>3, <1>4
<1>6. ASSUME NEW b \in 1 .. Len(p) PROVE p[b] = t[b]
  <2>1. b \in 1 .. (a + l) - (a + 1) + 1 /\ (a + 1) + b - 1 = a + b /\ b \in 1 .. Len(t)
    BY <1>1, <1>5
  <2>2. QED
    BY <1>3, <1>4, <2>1
<1>7. p = t
  BY <1>5, <1>6, SeqEqual
<1>8. QED
  BY <1>1, <1>4, <1>7

\* What is joined is found behind what was there.
LEMMA JoinedTail ==
  ASSUME NEW S, NEW s \in Seq(S), NEW t \in Seq(S)
  PROVE  \A b \in 1 .. Len(t) : (s \o t)[Len(s) + b] = t[b]
<1> SUFFICES ASSUME NEW b \in 1 .. Len(t) PROVE (s \o t)[Len(s) + b] = t[b]
  OBVIOUS
<1>1. Len(s) \in Nat /\ Len(t) \in Nat
  OBVIOUS
<1>2. Len(s) + b \in 1 .. Len(s) + Len(t) /\ ~(Len(s) + b <= Len(s)) /\ (Len(s) + b) - Len(s) = b
  BY <1>1
<1>3. QED
  BY <1>2, ConcatProperties

\* What was there stays where it was when more is joined.
LEMMA JoinedHead ==
  ASSUME NEW S, NEW s \in Seq(S), NEW t \in Seq(S), NEW u \in Seq(S), NEW a \in Nat,
         a + Len(u) <= Len(s), \A b \in 1 .. Len(u) : s[a + b] = u[b]
  PROVE  \A b \in 1 .. Len(u) : (s \o t)[a + b] = u[b]
<1> SUFFICES ASSUME NEW b \in 1 .. Len(u) PROVE (s \o t)[a + b] = u[b]
  OBVIOUS
<1>1. Len(s) \in Nat /\ Len(t) \in Nat /\ Len(u) \in Nat
  OBVIOUS
<1>2. a + b \in 1 .. Len(s) + Len(t) /\ a + b <= Len(s)
  BY <1>1
<1>3. QED
  BY <1>2, ConcatProperties

\* A part of sequences that are joined is where the ones before it end: At[i] is that place.
LEMMA FlattenedInPlace ==
  ASSUME NEW S, NEW seqs \in Seq(Seq(S)), seqs # <<>>,
         NEW At, At[1] = 0, \A i \in 1 .. Len(seqs) : At[i + 1] = At[i] + Len(seqs[i])
  PROVE  /\ FlattenSeq(seqs) \in Seq(S)
         /\ Len(FlattenSeq(seqs)) = At[Len(seqs) + 1]
         /\ \A i \in 1 .. Len(seqs) :
              SubSeq(FlattenSeq(seqs), At[i] + 1, At[i] + Len(seqs[i])) = seqs[i]
<1> DEFINE n == Len(seqs)
<1>1. n \in Nat /\ n # 0 /\ \A i \in 1 .. n : seqs[i] \in Seq(S)
  OBVIOUS
<1>2. PICK f : f = CHOOSE g : Joins(g, seqs, n)
  OBVIOUS
<1>3. Joins(f, seqs, n)
  BY <1>1, <1>2, JoinsExist
<1>4. FlattenSeq(seqs) = f[n]
  BY <1>1, <1>2 DEF FlattenSeq, Joins
<1> HIDE DEF n
<1> DEFINE Holds(i) ==
      /\ f[i] \in Seq(S)
      /\ At[i + 1] \in Nat /\ Len(f[i]) = At[i + 1]
      /\ \A j \in 1 .. i : /\ At[j] \in Nat /\ At[j] + Len(seqs[j]) <= At[i + 1]
                           /\ \A b \in 1 .. Len(seqs[j]) : f[i][At[j] + b] = seqs[j][b]
           G == {i \in Nat : i + 1 <= n => Holds(i + 1)}
<1>5. 0 \in G
  <2>1. 1 \in 1 .. n /\ 0 + 1 = 1 /\ 1 .. 1 = {1}
    BY <1>1
  <2>2. f[1] = seqs[1] /\ seqs[1] \in Seq(S)
    BY <1>1, <1>3, <2>1 DEF Joins
  <2>3. At[1] = 0 /\ At[1 + 1] = At[1] + Len(seqs[1]) /\ Len(seqs[1]) \in Nat
    BY <2>1, <2>2 DEF n
  <2>4. Holds(1)
    BY <2>1, <2>2, <2>3
  <2>5. QED
    <3> HIDE DEF Holds
    <3> QED BY <2>1, <2>4
<1>6. ASSUME NEW k \in Nat, k \in G PROVE k + 1 \in G
  <2> SUFFICES ASSUME (k + 1) + 1 <= n PROVE Holds((k + 1) + 1)
    OBVIOUS
  <2> DEFINE i == k + 1
  <2>1. i \in Nat /\ i + 1 <= n /\ i \in 1 .. n /\ i + 1 \in 1 .. n /\ i + 1 # 1 /\ (i + 1) - 1 = i
    BY <1>1
  <2>2. Holds(i)
    <3> HIDE DEF Holds
    <3> QED BY <1>6, <2>1
  <2> HIDE DEF i
  <2>3. f[i] \in Seq(S) /\ seqs[i + 1] \in Seq(S) /\ At[i + 1] \in Nat /\ Len(f[i]) = At[i + 1]
    BY <1>1, <2>1, <2>2
  <2>4. PICK x \in Seq(S), y \in Seq(S) : x = f[i] /\ y = seqs[i + 1]
    BY <2>3
  <2>5. PICK e \in Nat, l \in Nat : e = Len(x) /\ l = Len(y)
    OBVIOUS
  <2>6. f[i + 1] = x \o y
    BY <1>3, <2>1, <2>4 DEF Joins
  <2>7. At[i + 1] = e /\ At[(i + 1) + 1] = e + l
    BY <2>1, <2>3, <2>4, <2>5 DEF n
  <2>8. f[i + 1] \in Seq(S) /\ Len(f[i + 1]) = e + l
    <3>1. x \o y \in Seq(S) /\ Len(x \o y) = Len(x) + Len(y)
      BY ConcatProperties
    <3>2. QED
      BY <2>5, <2>6, <3>1
  <2>9. ASSUME NEW j \in 1 .. i + 1
        PROVE  /\ At[j] \in Nat /\ At[j] + Len(seqs[j]) <= e + l
               /\ \A b \in 1 .. Len(seqs[j]) : f[i + 1][At[j] + b] = seqs[j][b]
    <3>1. CASE j = i + 1
      <4>1. \A b \in 1 .. l : (x \o y)[e + b] = y[b]
        BY <2>5, JoinedTail
      <4>2. At[j] = e /\ Len(seqs[j]) = l /\ seqs[j] = y
        BY <2>4, <2>5, <2>7, <3>1
      <4> HIDE DEF Holds, G
      <4>3. e + l <= e + l
        OBVIOUS
      <4>4. QED
        BY <2>6, <4>1, <4>2, <4>3
    <3>2. CASE j # i + 1
      <4>1. j \in 1 .. i
        BY <2>1, <3>2
      <4>2. j \in 1 .. n
        <5> HIDE DEF Holds, G
        <5> QED BY <1>1, <2>1, <4>1
      <4>3. At[j] \in Nat /\ At[j] + Len(seqs[j]) <= e /\ seqs[j] \in Seq(S)
        BY <1>1, <2>2, <2>7, <4>1, <4>2
      <4>4. \A b \in 1 .. Len(seqs[j]) : x[At[j] + b] = seqs[j][b]
        BY <2>2, <2>4, <4>1
      <4>5. PICK u \in Seq(S), a \in Nat, m \in Nat : u = seqs[j] /\ a = At[j] /\ m = Len(u)
        BY <4>3
      <4>6. a + Len(u) <= Len(x) /\ \A b \in 1 .. Len(u) : x[a + b] = u[b]
        BY <2>5, <4>3, <4>4, <4>5
      <4>7. \A b \in 1 .. Len(u) : (x \o y)[a + b] = u[b]
        BY <4>6, JoinedHead
      <4>8. a + m <= e + l
        BY <2>5, <4>5, <4>6
      <4>9. At[j] \in Nat /\ At[j] + Len(seqs[j]) <= e + l
        BY <4>5, <4>8
      <4>10. \A b \in 1 .. Len(seqs[j]) : f[i + 1][At[j] + b] = seqs[j][b]
        BY <2>6, <4>5, <4>7
      <4>11. QED
        BY <4>9, <4>10
    <3>3. QED
      BY <3>1, <3>2
  <2>10. Holds(i + 1)
    BY <2>7, <2>8, <2>9
  <2>11. QED
    <3> HIDE DEF Holds
    <3> QED BY <2>10 DEF i
<1>7. Holds(n)
  <2>1. n - 1 \in Nat /\ (n - 1) + 1 = n
    BY <1>1
  <2>2. n - 1 \in G
    <3> HIDE DEF G
    <3> QED BY <1>5, <1>6, <2>1, Induction
  <2>3. QED
    <3> HIDE DEF Holds
    <3> QED BY <1>1, <2>1, <2>2
<1>8. ASSUME NEW i \in 1 .. n PROVE SubSeq(f[n], At[i] + 1, At[i] + Len(seqs[i])) = seqs[i]
  <2>1. f[n] \in Seq(S) /\ seqs[i] \in Seq(S) /\ Len(f[n]) = At[n + 1]
    BY <1>1, <1>7
  <2>2. At[i] \in Nat /\ At[i] + Len(seqs[i]) <= At[n + 1]
    BY <1>7
  <2>3. \A b \in 1 .. Len(seqs[i]) : f[n][At[i] + b] = seqs[i][b]
    BY <1>7
  <2>4. At[i] + Len(seqs[i]) <= Len(f[n])
    BY <2>1, <2>2
  <2> HIDE DEF Holds, G
  <2>5. QED
    BY <2>1, <2>2, <2>3, <2>4, SubSeqIs
<1>9. f[n] \in Seq(S) /\ Len(f[n]) = At[n + 1]
  BY <1>7
<1>10. QED
  BY <1>4, <1>8, <1>9 DEF n

-----------------------------------------------------------------------------
(* Names *)

\* The symbols of the names that are chosen, and those that a sender puts into a name.
Given == UNION {ToSet(name) : name \in Names \cup FewNames}

Symbol == Given \cup {"_", "file", Space, "(2)", "(3)", "(4)", "eacute", "a", "con", ".", "receipt", "json"}

Name == Seq(Symbol)

\* The names that are chosen are names.
LEMMA NamesAreNames == Names \cup FewNames \subseteq Name
<1> SUFFICES ASSUME NEW name \in Names \cup FewNames PROVE name \in Name
  OBVIOUS
<1>1. \E T : name \in Seq(T)
  BY BundleAssumption DEF BundleAssumption
<1>2. PICK T : name \in Seq(T)
  BY <1>1
<1>3. PICK len \in Nat : DOMAIN name = 1 .. len /\ name = [i \in 1 .. len |-> name[i]]
  <2>1. Len(name) \in Nat /\ DOMAIN name = 1 .. Len(name)
    BY <1>2
  <2>2. name \in [1 .. Len(name) -> T]
    BY <1>2, LenProperties
  <2>3. QED
    BY <2>1, <2>2
<1>4. \A i \in 1 .. len : name[i] \in Symbol
  <2>1. \A i \in 1 .. len : name[i] \in ToSet(name)
    BY <1>3 DEF ToSet
  <2>2. ToSet(name) \subseteq Given
    BY DEF Given
  <2>3. Given \subseteq Symbol
    BY DEF Symbol
  <2>4. QED
    BY <2>1, <2>2, <2>3
<1>5. [i \in 1 .. len |-> name[i]] \in Seq(Symbol)
  BY <1>4
<1>6. QED
  BY <1>3, <1>5 DEF Name

\* A space is none of the symbols that the rules mention.
LEMMA SpaceIsItself ==
  /\ Space \notin {".", "con", "CON", "(2)", "(3)", "(4)", "e+acute", "eacute", "/", "file", "_", "receipt", "json"}
  /\ Bytes(Space) = 1
BY DEF Space, Bytes

\* A name is a sequence of symbols.
LEMMA NameFacts ==
  ASSUME NEW s \in Name
  PROVE  /\ s \in Seq(Symbol) /\ Len(s) \in Nat /\ DOMAIN s = 1 .. Len(s)
         /\ s = <<>> <=> Len(s) = 0
         /\ \A i \in 1 .. Len(s) : s[i] \in Symbol
<1> USE DEF Name
<1>1. s \in Seq(Symbol)
  OBVIOUS
<1>2. Len(s) \in Nat /\ DOMAIN s = 1 .. Len(s)
  OBVIOUS
<1>3. s = <<>> <=> Len(s) = 0
  OBVIOUS
<1>4. \A i \in 1 .. Len(s) : s[i] \in Symbol
  OBVIOUS
<1>5. QED
  BY <1>1, <1>2, <1>3, <1>4

\* The length of a name, symbol by symbol.
LEMMA LengthRuns ==
  ASSUME NEW s \in Name
  PROVE  \A n \in 0 .. Len(s) :
           /\ Length(SubSeq(s, 1, n)) \in Nat
           /\ Length(SubSeq(s, 1, n)) = IF n = 0 THEN 0 ELSE Length(SubSeq(s, 1, n - 1)) + Bytes(s[n])
<1> USE DEF Name
<1> DEFINE w == [i \in 1 .. Len(s) |-> Bytes(s[i])]
<1>1. Len(s) \in Nat /\ \A i \in 1 .. Len(s) : w[i] \in Nat
  BY DEF Bytes
<1>2. ASSUME NEW n \in 0 .. Len(s) PROVE Length(SubSeq(s, 1, n)) = Total(w, n)
  <2>1. PICK p : p = SubSeq(s, 1, n)
    OBVIOUS
  <2> DEFINE v == [i \in 1 .. n |-> Bytes(p[i])]
  <2>2. DOMAIN p = 1 .. n /\ n \in Nat /\ \A i \in 1 .. n : p[i] = s[i]
    BY <2>1
  <2>3. Length(p) = Total(v, n)
    BY <2>2, LengthIsTotal
  <2>4. \A i \in 1 .. n : v[i] = w[i]
    BY <2>2
  <2>5. Total(v, n) = Total(w, n)
    <3> HIDE DEF v, w
    <3> QED BY <2>2, <2>4, TotalsAgree
  <2>6. QED
    BY <2>1, <2>3, <2>5
<1>3. /\ Total(w, 0) = 0
      /\ \A m \in 1 .. Len(s) : Total(w, m) = Total(w, m - 1) + w[m]
      /\ \A m \in 0 .. Len(s) : Total(w, m) \in Nat
  <2> HIDE DEF w
  <2> QED BY <1>1, TotalUnfolds
<1>4. ASSUME NEW n \in 0 .. Len(s)
      PROVE  Length(SubSeq(s, 1, n)) = IF n = 0 THEN 0 ELSE Length(SubSeq(s, 1, n - 1)) + Bytes(s[n])
  <2>1. CASE n = 0
    <3> HIDE DEF w
    <3> QED BY <1>2, <1>3, <2>1
  <2>2. CASE n # 0
    <3>1. n \in 1 .. Len(s) /\ n - 1 \in 0 .. Len(s) /\ w[n] = Bytes(s[n])
      BY <2>2
    <3> HIDE DEF w
    <3>2. Total(w, n) = Total(w, n - 1) + w[n]
      BY <1>3, <3>1
    <3>3. QED
      BY <1>2, <2>2, <3>1, <3>2
  <2>3. QED
    BY <2>1, <2>2
<1>5. QED
  <2> HIDE DEF w
  <2> QED BY <1>2, <1>3, <1>4

\* Only the empty name has no bytes.
LEMMA LengthFacts ==
  /\ Length(<<>>) = 0
  /\ \A s \in Name : Length(s) \in Nat /\ (s # <<>> => Length(s) >= 1)
  /\ \A c \in Symbol : Length(<<c>>) = Bytes(c)
<1> USE DEF Name
<1>1. ASSUME NEW s \in Seq(Symbol) PROVE Length(s) \in Nat /\ (s # <<>> => Length(s) >= 1)
  <2>1. SubSeq(s, 1, Len(s)) = s /\ Len(s) \in 0 .. Len(s)
    BY SubSeqFull
  <2>2. /\ Length(s) \in Nat
        /\ Length(s) = IF Len(s) = 0 THEN 0 ELSE Length(SubSeq(s, 1, Len(s) - 1)) + Bytes(s[Len(s)])
    BY <2>1, LengthRuns
  <2>3. ASSUME s # <<>> PROVE Length(s) >= 1
    <3>1. Len(s) # 0 /\ Len(s) - 1 \in 0 .. Len(s)
      BY <2>3
    <3>2. Length(SubSeq(s, 1, Len(s) - 1)) \in Nat
      BY <3>1, LengthRuns
    <3>3. Bytes(s[Len(s)]) \in 1 .. 3
      BY DEF Bytes
    <3>4. QED
      BY <2>2, <3>1, <3>2, <3>3
  <2>4. QED
    BY <2>2, <2>3
<1>2. Length(<<>>) = 0
  <2>1. PICK s \in Seq(Symbol) : s = <<>>
    BY EmptySeq
  <2>2. 0 \in 0 .. Len(s) /\ SubSeq(s, 1, 0) = s
    BY <2>1
  <2>3. Length(s) = 0
    BY <2>2, LengthRuns
  <2>4. QED
    BY <2>1, <2>3
<1>3. ASSUME NEW c \in Symbol PROVE Length(<<c>>) = Bytes(c)
  <2>1. <<c>> \in Seq(Symbol) /\ Len(<<c>>) = 1 /\ <<c>>[1] = c
    OBVIOUS
  <2>2. PICK s \in Seq(Symbol) : s = <<c>>
    BY <2>1
  <2>3. Len(s) = 1 /\ s[1] = c /\ 1 \in 0 .. Len(s)
    BY <2>1, <2>2
  <2>4. SubSeq(s, 1, 1) = s
    BY <2>3, SubSeqFull
  <2>5. SubSeq(s, 1, 1 - 1) = <<>>
    BY <2>3, SubSeqEmpty
  <2>6. Length(SubSeq(s, 1, 1)) = Length(SubSeq(s, 1, 1 - 1)) + Bytes(s[1])
    BY <2>3, LengthRuns
  <2>7. Length(s) = 0 + Bytes(c)
    BY <1>2, <2>3, <2>4, <2>5, <2>6
  <2>8. Bytes(c) \in Nat
    BY DEF Bytes
  <2>9. QED
    BY <2>2, <2>7, <2>8
<1>4. QED
  BY <1>1, <1>2, <1>3

\* The bytes of joined names add up, as the budget of fitFilename assumes (manifest.go:273-291).
LEMMA LengthJoined ==
  ASSUME NEW s \in Name, NEW t \in Name
  PROVE  s \o t \in Name /\ Length(s \o t) = Length(s) + Length(t)
<1> USE DEF Name
<1>1. s \o t \in Seq(Symbol) /\ Len(s \o t) = Len(s) + Len(t)
  BY ConcatProperties
<1>2. PICK u : u = s \o t
  OBVIOUS
<1> PICK k \in Nat, l \in Nat : k = Len(s) /\ l = Len(t)
  OBVIOUS
<1>3. Len(u) = k + l /\ u \in Seq(Symbol)
  BY <1>1, <1>2
<1>4. /\ \A n \in 1 .. l : u[k + n] = t[n]
      /\ \A n \in 1 .. k : u[n] = s[n]
  <2>1. \A n \in 1 .. k + l : u[n] = IF n <= k THEN s[n] ELSE t[n - k]
    BY <1>2, ConcatProperties
  <2>2. ASSUME NEW n \in 1 .. l PROVE u[k + n] = t[n]
    <3>1. k + n \in 1 .. k + l /\ ~(k + n <= k) /\ (k + n) - k = n
      OBVIOUS
    <3>2. QED
      BY <2>1, <3>1
  <2>3. QED
    BY <2>1, <2>2
<1>5. SubSeq(u, 1, k) = s
  <2>1. 0 + Len(s) <= Len(u) /\ \A b \in 1 .. Len(s) : u[0 + b] = s[b]
    BY <1>2, <1>3, <1>4
  <2>2. SubSeq(u, 0 + 1, 0 + Len(s)) = s
    BY <2>1, SubSeqIs
  <2>3. 0 + 1 = 1 /\ 0 + Len(s) = k
    BY <1>2
  <2>4. QED
    BY <2>2, <2>3
<1> DEFINE R(n) == Length(SubSeq(u, 1, n))
           L(n) == Length(SubSeq(t, 1, n))
           G == {n \in Nat : n <= l => R(k + n) = Length(s) + L(n)}
<1>6. /\ \A n \in 0 .. k + l : R(n) \in Nat
      /\ \A n \in 0 .. k + l : n # 0 => R(n) = R(n - 1) + Bytes(u[n])
  BY <1>3, LengthRuns
<1>7. /\ \A n \in 0 .. l : L(n) \in Nat
      /\ L(0) = 0
      /\ \A n \in 0 .. l : n # 0 => L(n) = L(n - 1) + Bytes(t[n])
  BY <1>2, LengthRuns
<1>8. R(k) = Length(s) /\ R(k + l) = Length(u) /\ L(l) = Length(t) /\ Length(s) \in Nat
  <2>1. SubSeq(u, 1, k + l) = u /\ SubSeq(t, 1, l) = t
    BY <1>2, <1>3, SubSeqFull
  <2>2. QED
    BY <1>5, <2>1, LengthFacts
<1> HIDE DEF R, L
<1>9. 0 \in G
  BY <1>7, <1>8
<1>10. ASSUME NEW n \in Nat, n \in G PROVE n + 1 \in G
  <2> SUFFICES ASSUME n + 1 <= l PROVE R(k + (n + 1)) = Length(s) + L(n + 1)
    OBVIOUS
  <2>1. /\ k + (n + 1) \in 0 .. k + l /\ k + (n + 1) # 0 /\ (k + (n + 1)) - 1 = k + n
        /\ n + 1 \in 0 .. l /\ n + 1 # 0 /\ (n + 1) - 1 = n /\ n + 1 \in 1 .. l /\ n \in 0 .. l
    OBVIOUS
  <2>2. R(k + (n + 1)) = R(k + n) + Bytes(t[n + 1])
    BY <1>4, <1>6, <2>1
  <2>3. L(n + 1) = L(n) + Bytes(t[n + 1]) /\ L(n) \in Nat
    BY <1>7, <2>1
  <2>4. R(k + n) = Length(s) + L(n)
    BY <1>10, <2>1
  <2>5. Bytes(t[n + 1]) \in Nat
    BY DEF Bytes
  <2>6. QED
    BY <1>8, <2>2, <2>3, <2>4, <2>5
<1>11. l \in G
  <2> HIDE DEF G
  <2> QED BY <1>9, <1>10, Induction
<1>12. R(k + l) = Length(s) + L(l)
  BY <1>11
<1>13. QED
  BY <1>2, <1>8, <1>12

\* A name cut in two.
LEMMA LengthSplits ==
  ASSUME NEW s \in Name, NEW n \in 0 .. Len(s)
  PROVE  /\ SubSeq(s, 1, n) \in Name /\ SubSeq(s, n + 1, Len(s)) \in Name
         /\ SubSeq(s, 1, n) \o SubSeq(s, n + 1, Len(s)) = s
         /\ Length(s) = Length(SubSeq(s, 1, n)) + Length(SubSeq(s, n + 1, Len(s)))
         /\ Length(SubSeq(s, 1, n)) <= Length(s)
<1> USE DEF Name
<1>1. SubSeq(s, 1, n) \in Name /\ SubSeq(s, n + 1, Len(s)) \in Name
  OBVIOUS
<1>2. SubSeq(s, 1, n) \o SubSeq(s, n + 1, Len(s)) = s
  <2>1. 1 \in 1 .. Len(s) + 1 /\ n \in 1 - 1 .. Len(s) /\ Len(s) \in n .. Len(s)
    OBVIOUS
  <2>2. SubSeq(s, 1, n) \o SubSeq(s, n + 1, Len(s)) = SubSeq(s, 1, Len(s))
    BY <2>1, ConcatAdjacentSubSeq
  <2>3. QED
    BY <2>2, SubSeqFull
<1>3. Length(s) = Length(SubSeq(s, 1, n)) + Length(SubSeq(s, n + 1, Len(s)))
  <2> HIDE DEF Name
  <2> QED BY <1>1, <1>2, LengthJoined
<1>4. Length(SubSeq(s, 1, n)) <= Length(s)
  <2>1. PICK k \in Nat, l \in Nat : k = Length(SubSeq(s, 1, n)) /\ l = Length(SubSeq(s, n + 1, Len(s)))
    BY <1>1, LengthFacts
  <2>2. k <= k + l
    OBVIOUS
  <2>3. QED
    BY <1>3, <2>1, <2>2
<1>5. QED
  BY <1>1, <1>2, <1>3, <1>4

\* What is left of a name when some symbols are trimmed off its end.
LEMMA TrimFacts ==
  ASSUME NEW s \in Name, NEW cut
  PROVE  \E n \in 0 .. Len(s) :
           /\ TrimRight(s, cut) = SubSeq(s, 1, n)
           /\ n # 0 => s[n] \notin cut
           /\ \A i \in n + 1 .. Len(s) : s[i] \in cut
<1> USE DEF Name
<1> DEFINE I == {i \in 1 .. Len(s) : s[i] \notin cut}
           n == IF I # {} THEN Max(I) ELSE 0
<1>1. TrimRight(s, cut) = SubSeq(s, 1, n)
  BY DEF TrimRight, SelectLastInSeq
<1>2. CASE I = {}
  <2>1. n = 0 /\ \A i \in 1 .. Len(s) : s[i] \in cut
    BY <1>2
  <2>2. QED
    BY <1>1, <2>1
<1>3. CASE I # {}
  <2>1. Len(s) \in Nat /\ I \subseteq 0 .. Len(s)
    OBVIOUS
  <2>2. Max(I) \in I /\ \A x \in I : x <= Max(I)
    BY <1>3, <2>1, MaxFacts
  <2>3. n \in I /\ \A x \in I : x <= n
    BY <1>3, <2>2
  <2>4. n \in 0 .. Len(s) /\ s[n] \notin cut
    BY <2>3
  <2>5. ASSUME NEW i \in n + 1 .. Len(s) PROVE s[i] \in cut
    <3>1. i \in 1 .. Len(s) /\ ~(i <= n)
      BY <2>4
    <3>2. QED
      BY <2>3, <3>1
  <2> HIDE DEF n
  <2>6. QED
    BY <1>1, <2>4, <2>5
<1>4. QED
  BY <1>2, <1>3

\* So nothing is trimmed off a name whose last symbol stays.
LEMMA TrimKeeps ==
  ASSUME NEW s \in Name, NEW cut
  PROVE  TrimRight(s, cut) = s <=> s = <<>> \/ s[Len(s)] \notin cut
<1> USE DEF Name
<1>1. PICK n \in 0 .. Len(s) : /\ TrimRight(s, cut) = SubSeq(s, 1, n)
                               /\ n # 0 => s[n] \notin cut
                               /\ \A i \in n + 1 .. Len(s) : s[i] \in cut
  <2> HIDE DEF Name
  <2> QED BY TrimFacts
<1>2. Len(SubSeq(s, 1, n)) = n
  OBVIOUS
<1>3. CASE n = Len(s)
  <2>1. SubSeq(s, 1, n) = s
    BY <1>3, SubSeqFull
  <2>2. s = <<>> <=> n = 0
    BY <1>3
  <2>3. QED
    BY <1>1, <1>3, <2>1, <2>2
<1>4. CASE n # Len(s)
  <2>1. Len(s) \in n + 1 .. Len(s) /\ s # <<>>
    BY <1>4
  <2>2. s[Len(s)] \in cut /\ SubSeq(s, 1, n) # s
    BY <1>1, <1>2, <1>4, <2>1
  <2>3. QED
    BY <1>1, <2>1, <2>2
<1>5. QED
  BY <1>3, <1>4

\* Truncate cuts a name to a beginning that fits, and leaves one that fits as it is.
LEMMA TruncateFacts ==
  ASSUME NEW s \in Name, NEW bytes \in Nat
  PROVE  /\ \E n \in 0 .. Len(s) : Truncate(s, bytes) = SubSeq(s, 1, n) /\ Length(SubSeq(s, 1, n)) <= bytes
         /\ Length(s) <= bytes => Truncate(s, bytes) = s
         /\ s # <<>> /\ Bytes(s[1]) <= bytes => Truncate(s, bytes) # <<>> /\ Truncate(s, bytes)[1] = s[1]
<1> USE DEF Name
<1> DEFINE T == {n \in 0 .. Len(s) : Length(SubSeq(s, 1, n)) <= bytes}
           m == Max(T)
<1>1. Len(s) \in Nat /\ T \subseteq 0 .. Len(s)
  OBVIOUS
<1>2. 0 \in T
  <2>1. 0 \in 0 .. Len(s)
    OBVIOUS
  <2>2. Length(SubSeq(s, 1, 0)) = 0
    BY <2>1, LengthRuns
  <2>3. QED
    BY <2>1, <2>2
<1>3. m \in T /\ \A x \in T : x <= m
  <2>1. T # {}
    BY <1>2
  <2> HIDE DEF T
  <2>2. QED
    BY <1>1, <2>1, MaxFacts
<1>4. Truncate(s, bytes) = SubSeq(s, 1, m)
  BY DEF Truncate
<1>5. m \in 0 .. Len(s) /\ Length(SubSeq(s, 1, m)) <= bytes
  BY <1>3
<1>6. ASSUME Length(s) <= bytes PROVE Truncate(s, bytes) = s
  <2>1. SubSeq(s, 1, Len(s)) = s
    BY SubSeqFull
  <2>2. Len(s) \in T
    <3>1. Length(SubSeq(s, 1, Len(s))) <= bytes
      <4> HIDE DEF T, m
      <4> QED BY <1>6, <2>1
    <3>2. Len(s) \in 0 .. Len(s)
      OBVIOUS
    <3>3. QED
      BY <3>1, <3>2
  <2> HIDE DEF T, m
  <2>3. Len(s) <= m
    BY <1>3, <2>2
  <2>4. m = Len(s)
    BY <1>5, <2>3
  <2>5. QED
    BY <1>4, <2>1, <2>4
<1>7. ASSUME s # <<>>, Bytes(s[1]) <= bytes
      PROVE  Truncate(s, bytes) # <<>> /\ Truncate(s, bytes)[1] = s[1]
  <2>1. 1 \in 0 .. Len(s) /\ 1 # 0 /\ 1 - 1 = 0 /\ 0 \in 0 .. Len(s)
    BY <1>1, <1>7
  <2>2. Length(SubSeq(s, 1, 1)) = Length(SubSeq(s, 1, 0)) + Bytes(s[1]) /\ Length(SubSeq(s, 1, 0)) = 0
    BY <2>1, LengthRuns
  <2>3. Bytes(s[1]) \in Nat
    BY DEF Bytes
  <2>4. Length(SubSeq(s, 1, 1)) <= bytes
    BY <1>7, <2>2, <2>3
  <2>5. 1 \in T
    BY <2>1, <2>4
  <2> HIDE DEF T, m
  <2>6. 1 <= m
    BY <1>3, <2>5
  <2>7. Len(SubSeq(s, 1, m)) = m /\ SubSeq(s, 1, m)[1] = s[1]
    BY <1>5, <2>6
  <2>8. QED
    BY <1>4, <1>5, <2>6, <2>7
<1>8. QED
  <2> HIDE DEF T, m
  <2> QED BY <1>4, <1>5, <1>6, <1>7

-----------------------------------------------------------------------------
(* Reserved names *)

\* A name of a device: its letters, then spaces up to the end or to the first dot.
Device(s) ==
  \E e \in 1 .. Len(s) :
    /\ s[1] \in {"con", "CON"}
    /\ \A i \in 2 .. e : s[i] = Space
    /\ e = Len(s) \/ (e < Len(s) /\ s[e + 1] = ".")

\* The first dot of a name, where reservedWindowsName cuts off its stem.
LEMMA DotFacts ==
  ASSUME NEW s \in Name
  PROVE  LET dot == SelectInSeq(s, LAMBDA c : c = ".")
         IN  /\ dot \in 0 .. Len(s)
             /\ dot = 0 => \A i \in 1 .. Len(s) : s[i] # "."
             /\ dot # 0 => s[dot] = "." /\ \A i \in 1 .. dot - 1 : s[i] # "."
<1> USE DEF Name
<1> DEFINE I == {i \in 1 .. Len(s) : s[i] = "."}
           dot == IF I # {} THEN Min(I) ELSE 0
<1>1. SelectInSeq(s, LAMBDA c : c = ".") = dot
  BY DEF SelectInSeq
<1>2. CASE I = {}
  <2>1. dot = 0 /\ \A i \in 1 .. Len(s) : s[i] # "."
    BY <1>2
  <2> HIDE DEF dot, I
  <2>2. QED
    BY <1>1, <2>1
<1>3. CASE I # {}
  <2>1. I \subseteq Nat
    OBVIOUS
  <2>2. Min(I) \in I /\ \A x \in I : Min(I) <= x
    BY <1>3, <2>1, MinFacts
  <2>3. dot \in I /\ \A x \in I : dot <= x
    BY <1>3, <2>2
  <2>4. dot \in 1 .. Len(s) /\ s[dot] = "."
    BY <2>3
  <2>5. ASSUME NEW i \in 1 .. dot - 1 PROVE s[i] # "."
    <3> SUFFICES ASSUME s[i] = "." PROVE FALSE
      OBVIOUS
    <3>1. i \in 1 .. Len(s)
      BY <2>4
    <3>2. i \in I
      BY <3>1
    <3> HIDE DEF dot, I
    <3>3. dot <= i
      BY <2>3, <3>2
    <3>4. QED
      BY <2>4, <3>3
  <2> HIDE DEF dot, I
  <2>6. QED
    BY <1>1, <2>4, <2>5
<1>4. QED
  BY <1>2, <1>3

\* The names that reservedWindowsName refuses are those of devices, read symbol by symbol.
LEMMA WindowsNames ==
  ASSUME NEW s \in Name
  PROVE  ReservedWindowsName(s) <=> Device(s)
<1> USE DEF Name
<1>1. PICK dot : dot = SelectInSeq(s, LAMBDA c : c = ".")
  OBVIOUS
<1>2. /\ dot \in 0 .. Len(s)
      /\ dot = 0 => \A i \in 1 .. Len(s) : s[i] # "."
      /\ dot # 0 => s[dot] = "." /\ \A i \in 1 .. dot - 1 : s[i] # "."
  BY <1>1, DotFacts
<1>3. PICK e \in Nat : e = IF dot = 0 THEN Len(s) ELSE dot - 1
  BY <1>2
<1>4. /\ e <= Len(s) /\ \A i \in 1 .. e : s[i] # "."
      /\ e = Len(s) \/ (e < Len(s) /\ s[e + 1] = ".")
  BY <1>2, <1>3
<1>5. PICK stem \in Seq(Symbol) : stem = SubSeq(s, 1, e) /\ Len(stem) = e /\ \A i \in 1 .. e : stem[i] = s[i]
  <2>1. \A i \in 1 .. e : s[i] \in Symbol
    BY <1>4
  <2>2. SubSeq(s, 1, e) \in Seq(Symbol)
    BY <2>1
  <2>3. Len(SubSeq(s, 1, e)) = e /\ \A i \in 1 .. e : SubSeq(s, 1, e)[i] = s[i]
    BY <1>4
  <2>4. QED
    BY <2>2, <2>3
<1>6. /\ Len(stem) = e /\ \A i \in 1 .. e : stem[i] = s[i]
      /\ e \in Nat /\ Len(s) \in Nat
  BY <1>4, <1>5
<1>7. PICK n \in 0 .. Len(stem) : /\ TrimRight(stem, {Space}) = SubSeq(stem, 1, n)
                                  /\ n # 0 => stem[n] \notin {Space}
                                  /\ \A i \in n + 1 .. Len(stem) : stem[i] \in {Space}
  BY TrimFacts
<1>8. PICK t \in Seq(Symbol) : t = SubSeq(stem, 1, n) /\ Len(t) = n /\ \A i \in 1 .. n : t[i] = stem[i]
  <2>1. SubSeq(stem, 1, n) \in Seq(Symbol)
    OBVIOUS
  <2>2. Len(SubSeq(stem, 1, n)) = n /\ \A i \in 1 .. n : SubSeq(stem, 1, n)[i] = stem[i]
    OBVIOUS
  <2>3. QED
    BY <2>1, <2>2
<1>9. /\ n \in Nat /\ n <= e
      /\ Len(t) = n /\ \A i \in 1 .. n : t[i] = s[i]
  <2>1. n \in Nat /\ n <= e
    BY <1>6
  <2>2. \A i \in 1 .. n : i \in 1 .. e
    BY <1>6, <2>1
  <2>3. QED
    BY <1>6, <1>8, <2>1, <2>2
<1>10. ReservedWindowsName(s) <=> CollisionKey(t) = <<"con">>
  <2>1. IF dot = 0 THEN s = stem ELSE SubSeq(s, 1, dot - 1) = stem
    BY <1>3, <1>5, SubSeqFull
  <2>2. ReservedWindowsName(s)
          <=> CollisionKey(TrimRight(IF dot = 0 THEN s ELSE SubSeq(s, 1, dot - 1), {Space})) = <<"con">>
    BY <1>1 DEF ReservedWindowsName
  <2>3. QED
    BY <1>7, <1>8, <2>1, <2>2
<1>11. CollisionKey(t) = <<"con">> <=> n = 1 /\ s[1] \in {"con", "CON"}
  <2>1. PICK k : k = CollisionKey(t)
    OBVIOUS
  <2>2. k = [i \in 1 .. n |-> Lower(IF t[i] = "e+acute" THEN "eacute" ELSE t[i])]
    BY <1>9, <2>1 DEF CollisionKey, NFC
  <2>3. ASSUME k = <<"con">> PROVE n = 1 /\ s[1] \in {"con", "CON"}
    <3>1. DOMAIN k = 1 .. n
      BY <2>2
    <3>2. n = 1
      <4>1. 1 \in 1 .. n
        BY <2>3, <3>1
      <4>2. ~(2 \in 1 .. n)
        BY <2>3, <3>1
      <4>3. QED
        BY <1>9, <4>1, <4>2
    <3>3. k[1] = "con"
      BY <2>3
    <3>4. k[1] = Lower(IF s[1] = "e+acute" THEN "eacute" ELSE s[1])
      BY <1>9, <2>2, <3>2
    <3>5. QED
      BY <3>2, <3>3, <3>4 DEF Lower
  <2>4. ASSUME n = 1, s[1] \in {"con", "CON"} PROVE k = <<"con">>
    <3>1. Lower(IF t[1] = "e+acute" THEN "eacute" ELSE t[1]) = "con"
      BY <1>9, <2>4 DEF Lower
    <3>2. k = [i \in 1 .. 1 |-> "con"]
      BY <2>2, <2>4, <3>1
    <3>3. QED
      BY <3>2
  <2>5. QED
    BY <2>1, <2>3, <2>4
<1>12. ASSUME n = 1, s[1] \in {"con", "CON"} PROVE Device(s)
  <2>1. e \in 1 .. Len(s)
    BY <1>4, <1>6, <1>9, <1>12
  <2>2. \A i \in 2 .. e : s[i] = Space
    <3>1. \A i \in 1 + 1 .. e : stem[i] = Space
      BY <1>6, <1>7, <1>12
    <3>2. \A i \in 2 .. e : i \in 1 + 1 .. e /\ i \in 1 .. e
      OBVIOUS
    <3>3. QED
      BY <1>6, <3>1, <3>2
  <2>3. QED
    BY <1>4, <1>12, <2>1, <2>2 DEF Device
<1>13. ASSUME Device(s) PROVE n = 1 /\ s[1] \in {"con", "CON"}
  <2>1. PICK d \in 1 .. Len(s) :
          /\ s[1] \in {"con", "CON"}
          /\ \A i \in 2 .. d : s[i] = Space
          /\ d = Len(s) \/ (d < Len(s) /\ s[d + 1] = ".")
    BY <1>13 DEF Device
  <2>2. \A i \in 1 .. d : s[i] # "."
    <3>1. \A i \in 1 .. d : i = 1 \/ i \in 2 .. d
      OBVIOUS
    <3>2. QED
      BY <2>1, <3>1, SpaceIsItself
  <2>3. ~(e < d)
    <3> SUFFICES ASSUME e < d PROVE FALSE
      OBVIOUS
    <3>1. e + 1 \in 1 .. d /\ e # Len(s)
      OBVIOUS
    <3>2. s[e + 1] = "."
      BY <1>4, <3>1
    <3>3. QED
      BY <2>2, <3>1, <3>2
  <2>4. ~(d < e)
    <3> SUFFICES ASSUME d < e PROVE FALSE
      OBVIOUS
    <3>1. d + 1 \in 1 .. e /\ d # Len(s)
      BY <1>4
    <3>2. QED
      BY <1>4, <2>1, <3>1
  <2>5. d = e
    BY <2>3, <2>4
  <2>6. n # 0
    <3> SUFFICES ASSUME n = 0 PROVE FALSE
      OBVIOUS
    <3>1. 1 \in n + 1 .. Len(stem) /\ 1 \in 1 .. e
      BY <1>6, <2>5
    <3>2. s[1] = Space
      BY <1>6, <1>7, <3>1
    <3>3. QED
      BY <2>1, <3>2, SpaceIsItself
  <2>7. ~(n >= 2)
    <3> SUFFICES ASSUME n >= 2 PROVE FALSE
      OBVIOUS
    <3>1. n \in 2 .. d /\ n \in 1 .. e
      BY <1>6, <2>5
    <3>2. s[n] = Space /\ stem[n] = s[n]
      BY <1>6, <2>1, <3>1
    <3>3. QED
      BY <1>7, <2>6, <3>2
  <2>8. n = 1
    BY <1>9, <2>6, <2>7
  <2>9. QED
    BY <2>1, <2>8
<1>14. QED
  BY <1>10, <1>11, <1>12, <1>13

\* What is compared of a name, symbol by symbol.
KeyOf(c) == Lower(IF c = "e+acute" THEN "eacute" ELSE c)

\* The key of a name, symbol by symbol; the receipt's own key is reached by its name alone.
LEMMA KeyFacts ==
  ASSUME NEW s \in Name
  PROVE  /\ CollisionKey(s) = [i \in 1 .. Len(s) |-> KeyOf(s[i])]
         /\ CollisionKey(s) = ReservedReceiptName <=> s = ReservedReceiptName
<1> USE DEF Name
<1>1. CollisionKey(s) = [i \in 1 .. Len(s) |-> KeyOf(s[i])]
  BY DEF CollisionKey, NFC, KeyOf
<1>2. PICK r \in Seq(Symbol) : r = ReservedReceiptName
  <2>1. "." \in Symbol /\ "receipt" \in Symbol /\ "json" \in Symbol
    BY DEF Symbol
  <2>2. <<".", "receipt", ".", "json">> \in Seq(Symbol)
    BY <2>1
  <2>3. QED
    BY <2>2 DEF ReservedReceiptName
<1>3. Len(r) = 4 /\ r[1] = "." /\ r[2] = "receipt" /\ r[3] = "." /\ r[4] = "json"
  BY <1>2 DEF ReservedReceiptName
<1>4. \A c : /\ KeyOf(c) = "." <=> c = "."
             /\ KeyOf(c) = "receipt" <=> c = "receipt"
             /\ KeyOf(c) = "json" <=> c = "json"
  BY DEF KeyOf, Lower
<1>5. ASSUME [i \in 1 .. Len(s) |-> KeyOf(s[i])] = r PROVE s = r
  <2>1. PICK k : k = [i \in 1 .. Len(s) |-> KeyOf(s[i])]
    OBVIOUS
  <2>2. DOMAIN k = 1 .. Len(s) /\ DOMAIN k = 1 .. 4
    BY <1>3, <1>5, <2>1
  <2>3. Len(s) = 4
    BY <2>2
  <2>4. \A i \in 1 .. 4 : KeyOf(s[i]) = r[i]
    BY <1>5, <2>3
  <2>5. s[1] = "." /\ s[2] = "receipt" /\ s[3] = "." /\ s[4] = "json"
    <3>1. 1 \in 1 .. 4 /\ 2 \in 1 .. 4 /\ 3 \in 1 .. 4 /\ 4 \in 1 .. 4
      OBVIOUS
    <3>2. QED
      BY <1>3, <1>4, <2>4, <3>1
  <2>6. \A i \in 1 .. Len(s) : s[i] = r[i]
    <3>1. \A i \in 1 .. Len(s) : i \in {1, 2, 3, 4}
      BY <2>3
    <3>2. QED
      BY <1>3, <2>5, <3>1
  <2>7. QED
    BY <1>3, <2>3, <2>6, SeqEqual
<1>6. ASSUME s = r PROVE [i \in 1 .. Len(s) |-> KeyOf(s[i])] = r
  <2>1. PICK k : k = [i \in 1 .. Len(s) |-> KeyOf(s[i])]
    OBVIOUS
  <2>2. \A i \in 1 .. Len(s) : KeyOf(s[i]) = s[i]
    <3>0. Len(s) = 4
      BY <1>3, <1>6
    <3>1. \A i \in 1 .. Len(s) : i \in {1, 2, 3, 4}
      BY <3>0
    <3>2. QED
      BY <1>3, <1>4, <1>6, <3>1
  <2>3. [i \in 1 .. Len(s) |-> KeyOf(s[i])] = [i \in 1 .. Len(s) |-> s[i]]
    BY <2>2
  <2>4. QED
    BY <1>6, <2>3
<1>7. QED
  BY <1>1, <1>2, <1>5, <1>6

\* Reserved names begin with a device or a dot, and have no number.
LEMMA ReservedFacts ==
  ASSUME NEW s \in Name
  PROVE  /\ Reserved(s) <=> Device(s) \/ s = ReservedReceiptName
         /\ Reserved(s) => s # <<>> /\ s[1] \in {"con", "CON", "."}
<1>1. Reserved(s) <=> Device(s) \/ s = ReservedReceiptName
  BY WindowsNames, KeyFacts DEF Reserved
<1>2. ASSUME Device(s) PROVE s # <<>> /\ s[1] \in {"con", "CON", "."}
  <2>1. PICK e \in 1 .. Len(s) : s[1] \in {"con", "CON"}
    BY <1>2 DEF Device
  <2>2. s # <<>>
    <3> SUFFICES ASSUME s = <<>> PROVE FALSE
      OBVIOUS
    <3>1. Len(s) = 0
      OBVIOUS
    <3>2. QED
      BY <2>1, <3>1
  <2>3. QED
    BY <2>1, <2>2
<1>3. ASSUME s = ReservedReceiptName PROVE s # <<>> /\ s[1] \in {"con", "CON", "."}
  BY <1>3 DEF ReservedReceiptName
<1>4. QED
  BY <1>1, <1>2, <1>3

-----------------------------------------------------------------------------
(* Fit *)

\* A name that is canonical except that it may be reserved, and may be too long.
Tidy(s) ==
  /\ s \in Name /\ s # <<>> /\ s[Len(s)] \notin Trimmed
  /\ \A i \in 1 .. Len(s) : s[i] \notin {"e+acute", "/"}

\* A tidy name that is refused is a reserved one.
LEMMA TidyIsCanonical ==
  ASSUME NEW s \in Name, Tidy(s), ~Blank(s), Length(s) <= MaxFilenameBytes, ~CanonicalName(s)
  PROVE  Reserved(s)
<1> USE DEF Name
<1>0. /\ s # <<>> /\ s[Len(s)] \notin Trimmed
      /\ \A i \in 1 .. Len(s) : s[i] \notin {"e+acute", "/"}
      /\ DOMAIN s = 1 .. Len(s) /\ Len(s) \in Nat
  <2>1. s # <<>> /\ s[Len(s)] \notin Trimmed
    BY DEF Tidy
  <2>2. \A i \in 1 .. Len(s) : s[i] \notin {"e+acute", "/"}
    BY DEF Tidy
  <2>3. DOMAIN s = 1 .. Len(s) /\ Len(s) \in Nat
    OBVIOUS
  <2>4. QED
    BY <2>1, <2>2, <2>3
<1>1. Length(s) \in 1 .. MaxFilenameBytes
  <2>1. PICK l \in Nat : l = Length(s) /\ l >= 1
    BY <1>0, LengthFacts
  <2>2. MaxFilenameBytes \in Nat /\ l <= MaxFilenameBytes
    BY <2>1, BundleAssumption DEF BundleAssumption
  <2>3. l \in 1 .. MaxFilenameBytes
    BY <2>1, <2>2
  <2>4. QED
    BY <2>1, <2>3
<1>2. NFC(s) = s
  <2>1. NFC(s) = [i \in 1 .. Len(s) |-> s[i]]
    BY <1>0 DEF NFC
  <2>2. s = [i \in 1 .. Len(s) |-> s[i]]
    <3>1. s \in [1 .. Len(s) -> Symbol]
      BY LenProperties
    <3>2. QED
      BY <3>1
  <2>3. QED
    BY <2>1, <2>2
<1>3. TrimRight(s, Trimmed) = s
  BY <1>0, TrimKeeps
<1>4. ~Meaningless(s)
  <2>1. ASSUME s = <<".">> PROVE FALSE
    <3>1. Len(s) = 1 /\ s[1] = "."
      BY <2>1
    <3>2. QED
      BY <1>0, <3>1 DEF Trimmed
  <2>2. ASSUME s = <<".", ".">> PROVE FALSE
    <3>1. Len(s) = 2 /\ s[2] = "."
      BY <2>2
    <3>2. QED
      BY <1>0, <3>1 DEF Trimmed
  <2>3. QED
    BY <2>1, <2>2 DEF Meaningless
<1>5. "/" \notin ToSet(s)
  BY <1>0 DEF ToSet
<1>6. QED
  BY <1>1, <1>2, <1>3, <1>4, <1>5 DEF CanonicalName

\* The parts that Fit takes a name apart into: a short final extension and the stem.
Keeps(base) ==
  LET dot == SelectLastInSeq(base, LAMBDA c : c = ".")
  IN IF dot > 1 /\ Length(SubSeq(base, dot, Len(base))) <= MaxExtensionBytes THEN dot - 1 ELSE Len(base)

Extension(base) == SubSeq(base, Keeps(base) + 1, Len(base))

Fitted(base, budget) ==
  LET fitted == TrimRight(Truncate(SubSeq(base, 1, Keeps(base)), budget), Trimmed)
  IN IF Meaningless(fitted) THEN <<"file">> ELSE fitted

\* The last dot of a name, where its extension begins.
LEMMA LastDot ==
  ASSUME NEW s \in Name
  PROVE  LET dot == SelectLastInSeq(s, LAMBDA c : c = ".")
         IN  dot \in 0 .. Len(s) /\ (dot # 0 => s[dot] = ".")
<1> USE DEF Name
<1> DEFINE I == {i \in 1 .. Len(s) : s[i] = "."}
           dot == IF I # {} THEN Max(I) ELSE 0
<1>1. SelectLastInSeq(s, LAMBDA c : c = ".") = dot
  BY DEF SelectLastInSeq
<1>2. CASE I = {}
  <2>1. dot = 0
    BY <1>2
  <2> HIDE DEF dot, I
  <2>2. QED
    BY <1>1, <2>1
<1>3. CASE I # {}
  <2>1. Len(s) \in Nat /\ I \subseteq 0 .. Len(s)
    OBVIOUS
  <2>2. Max(I) \in I
    BY <1>3, <2>1, MaxFacts
  <2>3. dot \in I
    BY <1>3, <2>2
  <2>4. dot \in 1 .. Len(s) /\ s[dot] = "."
    BY <2>3
  <2> HIDE DEF dot, I
  <2>5. QED
    BY <1>1, <2>4
<1>4. QED
  BY <1>2, <1>3

\* The stem of a name is not empty, and its extension is short and begins with a dot.
LEMMA KeepsFacts ==
  ASSUME NEW base \in Name, base # <<>>
  PROVE  /\ Keeps(base) \in 1 .. Len(base)
         /\ Length(Extension(base)) <= MaxExtensionBytes
         /\ Keeps(base) # Len(base) => base[Keeps(base) + 1] = "."
<1> USE DEF Name
<1>1. PICK dot : dot = SelectLastInSeq(base, LAMBDA c : c = ".")
  OBVIOUS
<1>2. dot \in 0 .. Len(base) /\ (dot # 0 => base[dot] = ".")
  BY <1>1, LastDot
<1>3. Len(base) \in Nat /\ Len(base) # 0
  OBVIOUS
<1>4. CASE dot > 1 /\ Length(SubSeq(base, dot, Len(base))) <= MaxExtensionBytes
  <2>1. Keeps(base) = dot - 1
    BY <1>1, <1>4 DEF Keeps
  <2>2. dot - 1 \in 1 .. Len(base) /\ (dot - 1) + 1 = dot /\ dot # 0
    BY <1>2, <1>3, <1>4
  <2>3. Extension(base) = SubSeq(base, dot, Len(base))
    BY <2>1, <2>2 DEF Extension
  <2>4. QED
    BY <1>2, <1>4, <2>1, <2>2, <2>3
<1>5. CASE ~(dot > 1 /\ Length(SubSeq(base, dot, Len(base))) <= MaxExtensionBytes)
  <2>1. Keeps(base) = Len(base)
    BY <1>1, <1>5 DEF Keeps
  <2>2. Len(base) + 1 \in Int /\ Len(base) \in Int /\ Len(base) < Len(base) + 1
    BY <1>3
  <2>3. Extension(base) = <<>>
    BY <2>1, <2>2, SubSeqEmpty DEF Extension
  <2>4. MaxExtensionBytes \in Nat /\ Length(<<>>) = 0
    BY BundleAssumption, LengthFacts DEF BundleAssumption
  <2>5. QED
    BY <1>3, <2>1, <2>3, <2>4
<1>6. QED
  BY <1>4, <1>5

\* fitFilename in its three parts: what fits of the stem, the suffix, the extension.
LEMMA FitIs ==
  ASSUME NEW base \in Name, base # <<>>, NEW suffix
  PROVE  Fit(base, suffix) =
           Fitted(base, MaxFilenameBytes - Length(suffix) - Length(Extension(base)))
             \o suffix \o Extension(base)
<1> USE DEF Name
<1>1. PICK dot : dot = SelectLastInSeq(base, LAMBDA c : c = ".")
  OBVIOUS
<1>2. dot \in 0 .. Len(base) /\ Len(base) \in Nat
  BY <1>1, LastDot
<1>3. CASE dot > 1 /\ Length(SubSeq(base, dot, Len(base))) <= MaxExtensionBytes
  <2>1. Keeps(base) = dot - 1 /\ (dot - 1) + 1 = dot
    BY <1>1, <1>2, <1>3 DEF Keeps
  <2>2. Extension(base) = SubSeq(base, dot, Len(base))
    BY <2>1 DEF Extension
  <2>3. QED
    BY <1>1, <1>3, <2>1, <2>2 DEF Fit, Fitted
<1>4. CASE ~(dot > 1 /\ Length(SubSeq(base, dot, Len(base))) <= MaxExtensionBytes)
  <2>1. Keeps(base) = Len(base)
    BY <1>1, <1>4 DEF Keeps
  <2>2. Len(base) + 1 \in Int /\ Len(base) \in Int /\ Len(base) < Len(base) + 1
    BY <1>2
  <2>3. Extension(base) = <<>>
    BY <2>1, <2>2, SubSeqEmpty DEF Extension
  <2>4. SubSeq(base, 1, Len(base)) = base
    BY SubSeqFull
  <2>5. QED
    BY <1>1, <1>4, <2>1, <2>3, <2>4 DEF Fit, Fitted
<1>5. QED
  BY <1>3, <1>4

\* The beginning of a name, and the beginning of that.
LEMMA Beginning ==
  ASSUME NEW s \in Name, NEW n \in 0 .. Len(s)
  PROVE  /\ SubSeq(s, 1, n) \in Name /\ Len(SubSeq(s, 1, n)) = n
         /\ \A i \in 1 .. n : SubSeq(s, 1, n)[i] = s[i]
         /\ \A m \in 0 .. n : SubSeq(SubSeq(s, 1, n), 1, m) = SubSeq(s, 1, m)
<1> USE DEF Name
<1>1. SubSeq(s, 1, n) \in Seq(Symbol)
  OBVIOUS
<1>2. Len(SubSeq(s, 1, n)) = n /\ \A i \in 1 .. n : SubSeq(s, 1, n)[i] = s[i]
  OBVIOUS
<1>3. PICK t \in Seq(Symbol) : t = SubSeq(s, 1, n)
  BY <1>1
<1>4. Len(t) = n /\ \A i \in 1 .. n : t[i] = s[i]
  BY <1>2, <1>3
<1>5. ASSUME NEW m \in 0 .. n PROVE SubSeq(t, 1, m) = SubSeq(s, 1, m)
  <2>1. SubSeq(t, 1, m) \in Seq(Symbol) /\ Len(SubSeq(t, 1, m)) = m
    BY <1>4
  <2>2. PICK u \in Seq(Symbol) : u = SubSeq(t, 1, m)
    BY <2>1
  <2>3. SubSeq(s, 1, m) \in Seq(Symbol) /\ Len(SubSeq(s, 1, m)) = m
    OBVIOUS
  <2>4. PICK v \in Seq(Symbol) : v = SubSeq(s, 1, m)
    BY <2>3
  <2>5. \A i \in 1 .. m : u[i] = t[i] /\ v[i] = s[i] /\ i \in 1 .. n
    BY <1>4, <2>2, <2>4
  <2>6. Len(u) = Len(v) /\ \A i \in 1 .. Len(u) : u[i] = v[i]
    BY <1>4, <2>1, <2>2, <2>3, <2>4, <2>5
  <2>7. QED
    BY <2>2, <2>4, <2>6, SeqEqual
<1>6. QED
  BY <1>1, <1>2, <1>3, <1>5

\* What Fit makes of the stem: a beginning of the name, not blank, that fits.
LEMMA FittedFacts ==
  ASSUME NEW base \in Name, base # <<>>, NEW budget \in Nat, budget >= 1,
         NEW f, f = Fitted(base, budget)
  PROVE  /\ f \in Name /\ f # <<>> /\ f[Len(f)] \notin Trimmed
         /\ ~Blank(f)
         /\ Length(f) <= budget
         /\ f = <<"file">> \/ \E m \in 1 .. Keeps(base) : f = SubSeq(base, 1, m)
         /\ LET stem == SubSeq(base, 1, Keeps(base))
            IN Length(stem) <= budget /\ base[Keeps(base)] \notin Trimmed => f \in {stem, <<"file">>}
<1>1. PICK k \in 1 .. Len(base) : k = Keeps(base)
  BY KeepsFacts
<1>2. k \in 0 .. Len(base) /\ Len(base) \in Nat
  BY DEF Name
<1>3. PICK stem \in Name : /\ stem = SubSeq(base, 1, k) /\ Len(stem) = k
                           /\ \A i \in 1 .. k : stem[i] = base[i]
                           /\ \A m \in 0 .. k : SubSeq(stem, 1, m) = SubSeq(base, 1, m)
  BY <1>2, Beginning
<1>4. PICK n \in 0 .. k : Truncate(stem, budget) = SubSeq(stem, 1, n) /\ Length(SubSeq(stem, 1, n)) <= budget
  BY <1>3, TruncateFacts
<1>5. n \in 0 .. Len(stem)
  BY <1>3
<1>6. PICK t \in Name : t = SubSeq(stem, 1, n) /\ Len(t) = n /\ \A m \in 0 .. n : SubSeq(t, 1, m) = SubSeq(stem, 1, m)
  BY <1>5, Beginning
<1>7. PICK m \in 0 .. n : TrimRight(t, Trimmed) = SubSeq(t, 1, m) /\ (m # 0 => t[m] \notin Trimmed)
  BY <1>6, TrimFacts
<1>8. m \in 0 .. Len(t) /\ m \in 0 .. k
  BY <1>6
<1>9. PICK g \in Name : g = SubSeq(t, 1, m) /\ Len(g) = m /\ \A i \in 1 .. m : g[i] = t[i]
  BY <1>8, Beginning
<1>10. f = IF Meaningless(g) THEN <<"file">> ELSE g
  BY <1>1, <1>3, <1>4, <1>6, <1>7, <1>9 DEF Fitted
<1>11. g = SubSeq(base, 1, m)
  BY <1>3, <1>6, <1>8, <1>9
<1>12. Length(g) <= budget
  <2>1. Length(g) <= Length(t)
    BY <1>8, <1>9, LengthSplits
  <2>2. PICK a \in Nat, b \in Nat : a = Length(g) /\ b = Length(t)
    BY LengthFacts
  <2>3. b <= budget
    BY <1>4, <1>6, <2>2
  <2>4. QED
    BY <2>1, <2>2, <2>3
<1>13. ASSUME Length(stem) <= budget, base[k] \notin Trimmed PROVE g = stem
  <2>1. Truncate(stem, budget) = stem
    BY <1>13, TruncateFacts
  <2>2. t = stem
    BY <1>4, <1>6, <2>1
  <2>3. t[Len(t)] \notin Trimmed
    <3>1. Len(t) = k /\ k \in 1 .. k
      BY <1>3, <2>2
    <3>2. stem[k] = base[k]
      BY <1>3, <3>1
    <3>3. QED
      BY <1>13, <2>2, <3>1, <3>2
  <2>4. TrimRight(t, Trimmed) = t
    BY <2>3, TrimKeeps
  <2>5. QED
    BY <1>7, <1>9, <2>2, <2>4
<1>14. CASE Meaningless(g)
  <2>1. f = <<"file">>
    BY <1>10, <1>14
  <2>2. "file" \in Symbol
    BY DEF Symbol
  <2>3. f \in Name /\ f # <<>> /\ Len(f) = 1 /\ f[1] = "file"
    BY <2>1, <2>2 DEF Name
  <2>4. ~Blank(f)
    <3>1. 1 \in DOMAIN f
      BY <2>1
    <3>2. QED
      BY <2>3, <3>1, SpaceIsItself DEF Blank
  <2>5. Length(f) = 1
    BY <2>1, <2>2, LengthFacts DEF Bytes
  <2>6. f[Len(f)] \notin Trimmed
    BY <2>3, SpaceIsItself DEF Trimmed
  <2>7. Length(f) <= budget
    BY <2>5
  <2>8. QED
    BY <2>1, <2>3, <2>4, <2>6, <2>7
<1>15. CASE ~Meaningless(g)
  <2>1. f = g
    BY <1>10, <1>15
  <2>2. ~Blank(g)
    BY <1>15 DEF Meaningless
  <2>3. m # 0
    <3> SUFFICES ASSUME m = 0 PROVE Blank(g)
      BY <2>2
    <3>1. DOMAIN g = {}
      BY <1>9 DEF Name
    <3>2. QED
      BY <3>1 DEF Blank
  <2>4. m \in 1 .. k /\ g # <<>> /\ g[Len(g)] \notin Trimmed
    <3>1. m \in 1 .. k
      BY <1>8, <2>3
    <3>2. g # <<>>
      BY <1>9, <2>3
    <3>3. g[m] = t[m]
      BY <1>9, <2>3
    <3>4. QED
      BY <1>7, <1>9, <2>3, <3>1, <3>2, <3>3
  <2>5. QED
    BY <1>1, <1>3, <1>11, <1>12, <1>13, <2>1, <2>2, <2>4
<1>16. QED
  BY <1>14, <1>15

\* Where the symbols of two joined names are found.
LEMMA JoinedParts ==
  ASSUME NEW s \in Name, NEW t \in Name
  PROVE  /\ s \o t \in Name /\ Len(s \o t) = Len(s) + Len(t)
         /\ \A i \in 1 .. Len(s) : (s \o t)[i] = s[i]
         /\ \A i \in 1 .. Len(t) : (s \o t)[Len(s) + i] = t[i]
         /\ \A i \in 1 .. Len(s \o t) : \/ i \in 1 .. Len(s)
                                        \/ i - Len(s) \in 1 .. Len(t) /\ (s \o t)[i] = t[i - Len(s)]
<1> USE DEF Name
<1> Len(s) \in Nat /\ Len(t) \in Nat
  OBVIOUS
<1>1. s \o t \in Seq(Symbol) /\ Len(s \o t) = Len(s) + Len(t)
  BY ConcatProperties
<1>2. \A i \in 1 .. Len(s) + Len(t) : (s \o t)[i] = IF i <= Len(s) THEN s[i] ELSE t[i - Len(s)]
  BY ConcatProperties
<1>3. \A i \in 1 .. Len(t) : (s \o t)[Len(s) + i] = t[i]
  BY JoinedTail
<1>4. \A i \in 1 .. Len(s) : (s \o t)[i] = s[i]
  BY <1>2
<1>5. ASSUME NEW i \in 1 .. Len(s \o t), i \notin 1 .. Len(s)
      PROVE  i - Len(s) \in 1 .. Len(t) /\ (s \o t)[i] = t[i - Len(s)]
  <2>1. i \in 1 .. Len(s) + Len(t) /\ ~(i <= Len(s))
    BY <1>1, <1>5
  <2>2. QED
    BY <1>2, <2>1
<1>6. QED
  BY <1>1, <1>3, <1>4, <1>5

\* Joining a tidy name and an end that needs no trimming gives a tidy name.
LEMMA TidyJoined ==
  ASSUME NEW s \in Name, NEW t \in Name, Tidy(s), ~Blank(s),
         t = <<>> \/ t[Len(t)] \notin Trimmed,
         \A i \in 1 .. Len(t) : t[i] \notin {"e+acute", "/"}
  PROVE  Tidy(s \o t) /\ ~Blank(s \o t)
<1>1. PICK u \in Name : u = s \o t
  BY JoinedParts
<1>2. PICK k \in Nat, l \in Nat : k = Len(s) /\ l = Len(t)
  BY NameFacts
<1>3. /\ Len(u) = k + l
      /\ \A i \in 1 .. k : u[i] = s[i]
      /\ \A i \in 1 .. l : u[k + i] = t[i]
      /\ \A i \in 1 .. k + l : i \in 1 .. k \/ (i - k \in 1 .. l /\ u[i] = t[i - k])
  <2>1. /\ Len(s \o t) = Len(s) + Len(t)
        /\ \A i \in 1 .. Len(s) : (s \o t)[i] = s[i]
        /\ \A i \in 1 .. Len(t) : (s \o t)[Len(s) + i] = t[i]
        /\ \A i \in 1 .. Len(s \o t) : \/ i \in 1 .. Len(s)
                                       \/ i - Len(s) \in 1 .. Len(t) /\ (s \o t)[i] = t[i - Len(s)]
    BY JoinedParts
  <2>2. QED
    BY <1>1, <1>2, <2>1
<1>4. /\ k # 0 /\ s[k] \notin Trimmed
      /\ \A i \in 1 .. k : s[i] \notin {"e+acute", "/"}
  <2>1. s # <<>> /\ s[Len(s)] \notin Trimmed /\ \A i \in 1 .. Len(s) : s[i] \notin {"e+acute", "/"}
    BY DEF Tidy
  <2>2. Len(s) # 0
    BY <2>1, NameFacts
  <2>3. QED
    BY <1>2, <2>1, <2>2
<1>5. u # <<>>
  BY <1>3, <1>4, NameFacts
<1>6. u[Len(u)] \notin Trimmed
  <2>1. CASE l = 0
    <3>1. Len(u) = k /\ k \in 1 .. k
      BY <1>3, <1>4, <2>1
    <3>2. QED
      BY <1>3, <1>4, <3>1
  <2>2. CASE l # 0
    <3>1. l \in 1 .. l /\ t # <<>>
      BY <1>2, <2>2, NameFacts
    <3>2. u[Len(u)] = t[l] /\ t[l] \notin Trimmed
      BY <1>2, <1>3, <3>1
    <3>3. QED
      BY <3>2
  <2>3. QED
    BY <2>1, <2>2
<1>7. ASSUME NEW i \in 1 .. Len(u) PROVE u[i] \notin {"e+acute", "/"}
  <2>1. i \in 1 .. k \/ (i - k \in 1 .. l /\ u[i] = t[i - k])
    BY <1>3
  <2>2. CASE i \in 1 .. k
    BY <1>3, <1>4, <2>2
  <2>3. CASE i - k \in 1 .. l /\ u[i] = t[i - k]
    BY <1>2, <2>3
  <2>4. QED
    BY <2>1, <2>2, <2>3
<1>8. ~Blank(u)
  <2>1. PICK i \in DOMAIN s : s[i] \notin {Space, "nbsp"}
    BY DEF Blank
  <2>2. i \in 1 .. k /\ i \in DOMAIN u
    <3>1. DOMAIN s = 1 .. k /\ DOMAIN u = 1 .. k + l
      BY <1>2, <1>3, NameFacts
    <3>2. \A j \in 1 .. k : j \in 1 .. k + l
      OBVIOUS
    <3>3. QED
      BY <2>1, <3>1, <3>2
  <2>3. u[i] \notin {Space, "nbsp"}
    BY <1>3, <2>1, <2>2
  <2>4. QED
    BY <2>2, <2>3 DEF Blank
<1>9. QED
  BY <1>1, <1>5, <1>6, <1>7, <1>8 DEF Tidy

\* The suffixes that Fit is called with: none, and the numbers.
Numbers == {<<>>, <<Space, "(2)">>, <<Space, "(3)">>, <<Space, "(4)">>}

\* A number and its space take two bytes and end in the number.
LEMMA SuffixFacts ==
  ASSUME NEW suffix \in Numbers
  PROVE  /\ suffix \in Name /\ Length(suffix) \in 0 .. 2
         /\ suffix = <<>> \/ suffix[Len(suffix)] \notin Trimmed
         /\ \A i \in 1 .. Len(suffix) : suffix[i] \notin {"e+acute", "/"}
         /\ suffix # <<>> => /\ Len(suffix) = 2 /\ suffix[1] = Space /\ suffix[2] \in {"(2)", "(3)", "(4)"}
                             /\ Length(suffix) = 2
<1>1. CASE suffix = <<>>
  <2>1. suffix \in Name /\ Len(suffix) = 0
    BY <1>1, EmptySeq DEF Name
  <2>2. Length(suffix) = 0
    BY <1>1, LengthFacts
  <2>3. QED
    BY <1>1, <2>1, <2>2
<1>2. ASSUME NEW c \in {"(2)", "(3)", "(4)"}, suffix = <<Space, c>>
      PROVE  /\ suffix \in Name /\ Len(suffix) = 2 /\ suffix[1] = Space /\ suffix[2] = c
             /\ Length(suffix) = 2
  <2>1. Space \in Symbol /\ c \in Symbol
    BY DEF Symbol
  <2>2. PICK a \in Symbol, d \in Symbol : a = Space /\ d = c
    BY <2>1
  <2>3. <<a>> \in Seq(Symbol) /\ <<d>> \in Seq(Symbol)
    OBVIOUS
  <2>4. suffix = <<a>> \o <<d>>
    BY <1>2, <2>2
  <2>5. Length(<<a>>) = 1 /\ Length(<<d>>) = 1
    <3>1. Length(<<a>>) = Bytes(a) /\ Length(<<d>>) = Bytes(d)
      BY LengthFacts
    <3>2. Bytes(a) = 1
      BY <2>2, SpaceIsItself
    <3>3. Bytes(d) = 1
      BY <2>2 DEF Bytes
    <3>4. QED
      BY <3>1, <3>2, <3>3
  <2>6. <<a>> \o <<d>> \in Name /\ Length(<<a>> \o <<d>>) = Length(<<a>>) + Length(<<d>>)
    BY <2>3, LengthJoined DEF Name
  <2>7. suffix \in Name /\ Length(suffix) = 2
    <3>1. 1 + 1 = 2
      OBVIOUS
    <3>2. QED
      BY <2>4, <2>5, <2>6, <3>1
  <2>8. Len(suffix) = 2 /\ suffix[1] = Space /\ suffix[2] = c
    BY <1>2
  <2>9. QED
    BY <2>7, <2>8
<1>3. CASE suffix # <<>>
  <2>1. PICK c \in {"(2)", "(3)", "(4)"} : suffix = <<Space, c>>
    BY <1>3 DEF Numbers
  <2>2. suffix \in Name /\ Len(suffix) = 2 /\ suffix[1] = Space /\ suffix[2] = c /\ Length(suffix) = 2
    BY <1>2, <2>1
  <2>3. suffix[Len(suffix)] \notin Trimmed
    BY <2>2, SpaceIsItself DEF Trimmed
  <2>4. ASSUME NEW i \in 1 .. Len(suffix) PROVE suffix[i] \notin {"e+acute", "/"}
    <3>1. i = 1 \/ i = 2
      BY <2>2
    <3>2. QED
      BY <2>2, <3>1, SpaceIsItself
  <2>5. Length(suffix) \in 0 .. 2
    BY <2>2
  <2>6. QED
    BY <2>2, <2>3, <2>4, <2>5
<1>4. QED
  BY <1>1, <1>3

\* The parts of a name that Fit puts together again.
LEMMA FitFacts ==
  ASSUME NEW base \in Name, Tidy(base), NEW suffix \in Numbers, NEW x, x = Fit(base, suffix)
  PROVE  /\ Tidy(x) /\ ~Blank(x) /\ Length(x) <= MaxFilenameBytes
         /\ \E f \in Name :
              /\ f = Fitted(base, MaxFilenameBytes - Length(suffix) - Length(Extension(base)))
              /\ f # <<>>
              /\ f = <<"file">> \/ \E m \in 1 .. Keeps(base) : f = SubSeq(base, 1, m)
              /\ Extension(base) \in Name
              /\ f \o suffix \in Name
              /\ x = (f \o suffix) \o Extension(base)
              /\ Length(base) <= MaxFilenameBytes - Length(suffix) /\ base[Keeps(base)] \notin Trimmed
                   => f \in {SubSeq(base, 1, Keeps(base)), <<"file">>}
<1>1. base # <<>> /\ base[Len(base)] \notin Trimmed /\ \A i \in 1 .. Len(base) : base[i] \notin {"e+acute", "/"}
  BY DEF Tidy
<1>2. PICK k \in 1 .. Len(base) : k = Keeps(base)
  BY <1>1, KeepsFacts
<1>3. k \in 0 .. Len(base) /\ Len(base) \in Nat
  BY NameFacts
<1>4. PICK e \in Name : e = Extension(base)
  BY <1>2, <1>3, LengthSplits DEF Extension
<1>5. /\ e = <<>> \/ e[Len(e)] \notin Trimmed
      /\ \A i \in 1 .. Len(e) : e[i] \notin {"e+acute", "/"}
  <2>1. /\ Len(e) = Len(base) - k
        /\ \A i \in 1 .. Len(base) - k : e[i] = base[k + i]
    <3>1. e = SubSeq(base, k + 1, Len(base))
      BY <1>2, <1>4 DEF Extension
    <3>2. Len(SubSeq(base, k + 1, Len(base))) = Len(base) - k
      BY <1>3 DEF Name
    <3>3. \A i \in 1 .. Len(base) - k : SubSeq(base, k + 1, Len(base))[i] = base[k + i]
      BY <1>3 DEF Name
    <3>4. QED
      BY <3>1, <3>2, <3>3
  <2>2. ASSUME e # <<>> PROVE e[Len(e)] \notin Trimmed
    <3>1. Len(e) # 0
      BY <2>2 DEF Name
    <3>2. Len(base) - k \in 1 .. Len(base) - k /\ k + (Len(base) - k) = Len(base)
      BY <1>3, <2>1, <3>1
    <3>3. e[Len(e)] = base[Len(base)]
      BY <2>1, <3>2
    <3>4. QED
      BY <1>1, <3>3
  <2>3. ASSUME NEW i \in 1 .. Len(e) PROVE e[i] \notin {"e+acute", "/"}
    <3>1. i \in 1 .. Len(base) - k /\ k + i \in 1 .. Len(base)
      BY <1>3, <2>1
    <3>2. QED
      BY <1>1, <2>1, <3>1
  <2>4. QED
    BY <2>2, <2>3
<1>6. /\ suffix \in Name
      /\ suffix = <<>> \/ suffix[Len(suffix)] \notin Trimmed
      /\ \A i \in 1 .. Len(suffix) : suffix[i] \notin {"e+acute", "/"}
  BY SuffixFacts
<1>7. PICK l \in 0 .. 2, g \in Nat : l = Length(suffix) /\ g = Length(e)
  BY SuffixFacts, LengthFacts
<1>8. PICK budget \in Nat : budget = MaxFilenameBytes - l - g /\ budget >= 1
  <2>1. g <= MaxExtensionBytes
    BY <1>1, <1>4, <1>7, KeepsFacts
  <2>2. MaxFilenameBytes \in Nat /\ MaxExtensionBytes \in Nat /\ MaxFilenameBytes - MaxExtensionBytes >= 3
    BY BundleAssumption DEF BundleAssumption
  <2>3. MaxFilenameBytes - l - g \in Nat /\ MaxFilenameBytes - l - g >= 1
    BY <2>1, <2>2
  <2>4. QED
    BY <2>3
<1>9. PICK f : f = Fitted(base, budget)
  OBVIOUS
<1>10. /\ f \in Name /\ f # <<>> /\ f[Len(f)] \notin Trimmed
       /\ ~Blank(f)
       /\ Length(f) <= budget
       /\ f = <<"file">> \/ \E m \in 1 .. Keeps(base) : f = SubSeq(base, 1, m)
  <2>1. base # <<>> /\ budget >= 1
    BY <1>1, <1>8
  <2>2. QED
    BY <1>9, <2>1, FittedFacts
<1>11. x = (f \o suffix) \o e
  BY <1>1, <1>4, <1>7, <1>8, <1>9, FitIs
<1>12. f \o suffix \in Name /\ (f \o suffix) \o e \in Name
  BY <1>6, <1>10, LengthJoined
<1>13. Tidy(f)
  <2>1. ASSUME NEW i \in 1 .. Len(f) PROVE f[i] \notin {"e+acute", "/"}
    <3>1. CASE f = <<"file">>
      <4>1. Len(f) = 1 /\ f[1] = "file"
        BY <3>1
      <4>2. i = 1
        BY <4>1
      <4>3. QED
        BY <4>1, <4>2
    <3>2. ASSUME NEW m \in 1 .. k, f = SubSeq(base, 1, m) PROVE f[i] \notin {"e+acute", "/"}
      <4>1. m \in 0 .. Len(base)
        BY <1>3
      <4>2. Len(f) = m /\ \A j \in 1 .. m : f[j] = base[j]
        BY <3>2, <4>1, Beginning
      <4>3. i \in 1 .. Len(base) /\ f[i] = base[i]
        BY <1>3, <4>2
      <4>4. QED
        BY <1>1, <4>3
    <3>3. QED
      BY <1>2, <1>10, <3>1, <3>2
  <2>2. QED
    BY <1>10, <2>1 DEF Tidy
<1>14. Tidy(f \o suffix) /\ ~Blank(f \o suffix)
  BY <1>6, <1>10, <1>13, TidyJoined
<1>15. Tidy(x) /\ ~Blank(x)
  BY <1>5, <1>11, <1>12, <1>14, TidyJoined
<1>16. Length(x) <= MaxFilenameBytes
  <2>1. Length(f \o suffix) = Length(f) + l
    BY <1>6, <1>7, <1>10, LengthJoined
  <2>2. Length(x) = Length(f \o suffix) + g
    BY <1>7, <1>11, <1>12, LengthJoined
  <2>3. PICK a \in Nat : a = Length(f) /\ a <= budget
    BY <1>10, LengthFacts
  <2>4. MaxFilenameBytes \in Nat
    BY BundleAssumption DEF BundleAssumption
  <2>5. (a + l) + g <= MaxFilenameBytes
    BY <1>8, <2>3, <2>4
  <2>6. QED
    BY <2>1, <2>2, <2>3, <2>5
<1>17. f = Fitted(base, MaxFilenameBytes - Length(suffix) - Length(Extension(base)))
  BY <1>4, <1>7, <1>8, <1>9
<1>18. ASSUME Length(base) <= MaxFilenameBytes - Length(suffix), base[k] \notin Trimmed
       PROVE  f \in {SubSeq(base, 1, k), <<"file">>}
  <2>1. Length(base) = Length(SubSeq(base, 1, k)) + g /\ SubSeq(base, 1, k) \in Name
    BY <1>2, <1>3, <1>4, <1>7, LengthSplits DEF Extension
  <2>2. PICK a \in Nat : a = Length(SubSeq(base, 1, k))
    BY <2>1, LengthFacts
  <2>3. MaxFilenameBytes \in Nat
    BY BundleAssumption DEF BundleAssumption
  <2>4. a + g <= MaxFilenameBytes - l
    BY <1>7, <1>18, <2>1, <2>2
  <2>5. a <= budget
    BY <1>8, <2>3, <2>4
  <2>6. base # <<>> /\ budget >= 1
    BY <1>1, <1>8
  <2>7. LET stem == SubSeq(base, 1, Keeps(base))
        IN Length(stem) <= budget /\ base[Keeps(base)] \notin Trimmed => f \in {stem, <<"file">>}
    BY <1>9, <2>6, FittedFacts
  <2>8. QED
    BY <1>2, <1>18, <2>2, <2>5, <2>7
<1>19. QED
  BY <1>2, <1>4, <1>10, <1>11, <1>12, <1>15, <1>16, <1>17, <1>18

\* A name whose symbols take no more bytes is not longer.
LEMMA LengthMonotone ==
  ASSUME NEW s \in Name, NEW t \in Name, Len(s) = Len(t),
         \A i \in 1 .. Len(s) : Bytes(s[i]) <= Bytes(t[i])
  PROVE  Length(s) <= Length(t)
<1> DEFINE A(n) == Length(SubSeq(s, 1, n))
           B(n) == Length(SubSeq(t, 1, n))
           G == {n \in Nat : n <= Len(s) => A(n) <= B(n)}
<1>1. Len(s) \in Nat
  BY NameFacts
<1>2. /\ \A n \in 0 .. Len(s) : A(n) \in Nat /\ A(n) = IF n = 0 THEN 0 ELSE A(n - 1) + Bytes(s[n])
      /\ \A n \in 0 .. Len(s) : B(n) \in Nat /\ B(n) = IF n = 0 THEN 0 ELSE B(n - 1) + Bytes(t[n])
  BY LengthRuns
<1>3. A(Len(s)) = Length(s) /\ B(Len(s)) = Length(t)
  BY SubSeqFull, NameFacts
<1> HIDE DEF A, B
<1>4. 0 \in G
  BY <1>1, <1>2
<1>5. ASSUME NEW n \in Nat, n \in G PROVE n + 1 \in G
  <2> SUFFICES ASSUME n + 1 <= Len(s) PROVE A(n + 1) <= B(n + 1)
    OBVIOUS
  <2>1. n + 1 \in 0 .. Len(s) /\ n \in 0 .. Len(s) /\ n + 1 # 0 /\ (n + 1) - 1 = n /\ n + 1 \in 1 .. Len(s)
    BY <1>1
  <2>2. A(n + 1) = A(n) + Bytes(s[n + 1]) /\ A(n) \in Nat
    BY <1>2, <2>1
  <2>3. B(n + 1) = B(n) + Bytes(t[n + 1]) /\ B(n) \in Nat
    BY <1>2, <2>1
  <2>4. A(n) <= B(n)
    BY <1>5, <2>1
  <2>5. \A c : Bytes(c) \in Nat
    BY DEF Bytes
  <2>6. Bytes(s[n + 1]) <= Bytes(t[n + 1])
    BY <2>1
  <2>7. QED
    BY <2>2, <2>3, <2>4, <2>5, <2>6
<1>6. Len(s) \in G
  <2> HIDE DEF G
  <2> QED BY <1>1, <1>4, <1>5, Induction
<1>7. QED
  BY <1>1, <1>3, <1>6

\* A name without a number.
LEMMA EmptySuffix ==
  /\ <<>> \in Numbers /\ Length(<<>>) = 0
  /\ \A s \in Name : s \o <<>> = s
BY LengthFacts, NameFacts, ConcatEmptySeq DEF Numbers

\* A name of one symbol that no rule minds.
LEMMA OneSymbol ==
  ASSUME NEW c \in Symbol, c \notin Trimmed, c \notin {"e+acute", "/", Space, "nbsp"}, NEW s, s = <<c>>
  PROVE  s \in Name /\ Len(s) = 1 /\ s[1] = c /\ Tidy(s) /\ ~Blank(s)
<1>1. s \in Seq(Symbol) /\ Len(s) = 1 /\ s[1] = c /\ DOMAIN s = 1 .. 1
  OBVIOUS
<1>2. s \in Name
  BY <1>1 DEF Name
<1>3. Tidy(s)
  <2>1. s # <<>> /\ s[Len(s)] \notin Trimmed
    BY <1>1, <1>2, NameFacts
  <2>2. ASSUME NEW i \in 1 .. Len(s) PROVE s[i] \notin {"e+acute", "/"}
    <3>1. i = 1
      BY <1>1
    <3>2. QED
      BY <1>1, <3>1
  <2>3. QED
    BY <1>2, <2>1, <2>2 DEF Tidy
<1>4. ~Blank(s)
  <2>1. 1 \in DOMAIN s
    BY <1>1
  <2>2. QED
    BY <1>1, <2>1 DEF Blank
<1>5. QED
  BY <1>1, <1>2, <1>3, <1>4

\* What a sender makes of a name is canonical, but for a reserved one that was cut to it.
LEMMA BaseFacts ==
  ASSUME NEW name \in Name, NEW x, x = Base(name)
  PROVE  /\ Tidy(x) /\ ~Blank(x) /\ Length(x) <= MaxFilenameBytes
         /\ Reserved(x) => Squeezed(name)
<1> DEFINE Clean(c) == LET d == IF c = "e+acute" THEN "eacute" ELSE c IN IF d = "/" THEN "_" ELSE d
<1>1. "_" \in Symbol /\ "eacute" \in Symbol /\ "file" \in Symbol
  BY DEF Symbol
<1>2. PICK len \in Nat : len = Len(name) /\ DOMAIN name = 1 .. len /\ \A i \in 1 .. len : name[i] \in Symbol
  BY NameFacts
<1>3. PICK clean : clean = [i \in 1 .. len |-> Clean(name[i])]
  OBVIOUS
<1>4. /\ clean = LET nfc == NFC(name) IN [i \in DOMAIN nfc |-> IF nfc[i] = "/" THEN "_" ELSE nfc[i]]
      /\ \A i \in 1 .. len : clean[i] = Clean(name[i])
  BY <1>2, <1>3 DEF NFC
<1>5. clean \in Name /\ Len(clean) = len
  <2>1. \A i \in 1 .. len : Clean(name[i]) \in Symbol
    BY <1>1, <1>2
  <2>2. clean \in Seq(Symbol) /\ Len(clean) = len
    <3> HIDE DEF Clean
    <3> QED BY <1>3, <2>1
  <2>3. QED
    BY <2>2 DEF Name
<1>6. \A c : /\ Clean(c) \notin {"e+acute", "/"}
             /\ Clean(c) \in Trimmed => Clean(c) = c
             /\ Clean(c) = "." => c = "."
             /\ Bytes(Clean(c)) <= Bytes(c)
  <2> SUFFICES ASSUME NEW c
               PROVE  /\ Clean(c) \notin {"e+acute", "/"}
                      /\ Clean(c) \in Trimmed => Clean(c) = c
                      /\ Clean(c) = "." => c = "."
                      /\ Bytes(Clean(c)) <= Bytes(c)
    OBVIOUS
  <2>1. CASE c = "e+acute"
    <3>1. Clean(c) = "eacute"
      BY <2>1
    <3>2. "eacute" \notin Trimmed
      BY SpaceIsItself DEF Trimmed
    <3>3. Bytes("eacute") = 2 /\ Bytes("e+acute") = 3
      BY DEF Bytes
    <3>4. QED
      BY <2>1, <3>1, <3>2, <3>3
  <2>2. CASE c = "/"
    <3>1. Clean(c) = "_"
      BY <2>2
    <3>2. "_" \notin Trimmed
      BY SpaceIsItself DEF Trimmed
    <3>3. Bytes("_") = 1 /\ Bytes("/") = 1
      BY DEF Bytes
    <3>4. "_" \notin {"e+acute", "/", "."}
      OBVIOUS
    <3>5. Bytes(Clean(c)) <= Bytes(c)
      <4> HIDE DEF Clean
      <4>1. Bytes(Clean(c)) = 1 /\ Bytes(c) = 1
        BY <2>2, <3>1, <3>3
      <4>2. QED
        BY <4>1
    <3>6. QED
      <4> HIDE DEF Clean
      <4> QED BY <3>1, <3>2, <3>4, <3>5
  <2>3. CASE c # "e+acute" /\ c # "/"
    <3>1. Clean(c) = c
      BY <2>3
    <3>2. Bytes(c) <= Bytes(c)
      BY DEF Bytes
    <3>3. QED
      BY <2>3, <3>1, <3>2
  <2>4. QED
    BY <2>1, <2>2, <2>3
<1> HIDE DEF Clean
<1>7. Length(clean) <= Length(name)
  <2>1. \A i \in 1 .. Len(clean) : Bytes(clean[i]) <= Bytes(name[i])
    BY <1>4, <1>5, <1>6
  <2>2. QED
    BY <1>2, <1>5, <2>1, LengthMonotone
<1>8. PICK n \in 0 .. Len(clean) : /\ TrimRight(clean, Trimmed) = SubSeq(clean, 1, n)
                                   /\ n # 0 => clean[n] \notin Trimmed
  BY <1>5, TrimFacts
<1>9. PICK trimmed \in Name : /\ trimmed = SubSeq(clean, 1, n) /\ Len(trimmed) = n
                              /\ \A i \in 1 .. n : trimmed[i] = clean[i]
  BY <1>5, Beginning
<1>10. PICK named : named = IF Meaningless(trimmed) THEN <<"file">> ELSE trimmed
  OBVIOUS
<1>11. ASSUME ~Meaningless(trimmed) PROVE named = trimmed /\ Tidy(named) /\ n # 0
  <2>1. ~Blank(trimmed) /\ named = trimmed
    BY <1>10, <1>11 DEF Meaningless
  <2>2. n # 0
    <3> SUFFICES ASSUME n = 0 PROVE Blank(trimmed)
      BY <2>1
    <3>1. DOMAIN trimmed = {}
      BY <1>9, NameFacts
    <3>2. QED
      BY <3>1 DEF Blank
  <2>3. trimmed # <<>> /\ trimmed[Len(trimmed)] \notin Trimmed
    <3>1. n \in 1 .. n
      BY <2>2
    <3>2. QED
      BY <1>8, <1>9, <2>2, <3>1, NameFacts
  <2>4. ASSUME NEW i \in 1 .. Len(trimmed) PROVE trimmed[i] \notin {"e+acute", "/"}
    <3>1. i \in 1 .. n /\ i \in 1 .. len
      BY <1>5, <1>9
    <3>2. trimmed[i] = clean[i] /\ clean[i] = Clean(name[i])
      BY <1>4, <1>9, <3>1
    <3>3. QED
      BY <1>6, <3>2
  <2>5. QED
    BY <2>1, <2>2, <2>3, <2>4 DEF Tidy
<1>12. ASSUME Meaningless(trimmed) PROVE Tidy(named) /\ named \in Name /\ named[1] = "file"
  <2>1. named = <<"file">>
    BY <1>10, <1>12
  <2>2. "file" \notin Trimmed /\ "file" \notin {"e+acute", "/", Space, "nbsp"}
    BY SpaceIsItself DEF Trimmed
  <2>3. QED
    BY <1>1, <2>1, <2>2, OneSymbol
<1>13. named \in Name /\ Tidy(named)
  BY <1>11, <1>12
<1>14. PICK b : b = IF Reserved(named) THEN <<"_">> \o named ELSE named
  OBVIOUS
<1>15. x = Fit(b, <<>>)
  BY <1>4, <1>8, <1>9, <1>10, <1>14 DEF Base
<1>16. ASSUME Reserved(named) PROVE b \in Name /\ Tidy(b) /\ b[1] = "_"
  <2>1. "_" \notin Trimmed /\ "_" \notin {"e+acute", "/", Space, "nbsp"}
    BY SpaceIsItself DEF Trimmed
  <2>2. PICK u : u = <<"_">>
    OBVIOUS
  <2>3. u \in Name /\ Len(u) = 1 /\ u[1] = "_" /\ Tidy(u) /\ ~Blank(u)
    BY <1>1, <2>1, <2>2, OneSymbol
  <2>4. b = u \o named
    BY <1>14, <1>16, <2>2
  <2>5. /\ named[Len(named)] \notin Trimmed
        /\ \A i \in 1 .. Len(named) : named[i] \notin {"e+acute", "/"}
    BY <1>13 DEF Tidy
  <2>6. Tidy(u \o named)
    BY <1>13, <2>3, <2>5, TidyJoined
  <2>7. u \o named \in Name /\ (u \o named)[1] = u[1]
    <3>1. 1 \in 1 .. 1
      OBVIOUS
    <3>2. 1 \in 1 .. Len(u) /\ u \in Name /\ named \in Name
      BY <1>13, <2>3, <3>1
    <3>3. u \o named \in Name /\ \A i \in 1 .. Len(u) : (u \o named)[i] = u[i]
      BY <3>2, JoinedParts
    <3>4. QED
      BY <3>2, <3>3
  <2>8. QED
    BY <2>3, <2>4, <2>6, <2>7
<1>17. b \in Name /\ Tidy(b)
  BY <1>13, <1>14, <1>16
<1>18. <<>> \in Numbers /\ Length(<<>>) = 0
  BY EmptySuffix
<1>19. Tidy(x) /\ ~Blank(x) /\ Length(x) <= MaxFilenameBytes
  BY <1>15, <1>17, <1>18, FitFacts
<1>20. PICK f \in Name : /\ f # <<>>
                         /\ f = <<"file">> \/ \E m \in 1 .. Keeps(b) : f = SubSeq(b, 1, m)
                         /\ Extension(b) \in Name
                         /\ x = (f \o <<>>) \o Extension(b)
                         /\ Length(b) <= MaxFilenameBytes - 0 /\ b[Keeps(b)] \notin Trimmed
                              => f \in {SubSeq(b, 1, Keeps(b)), <<"file">>}
  <2>1. PICK suffix \in Numbers : suffix = <<>>
    BY <1>18
  <2>2. x = Fit(b, suffix) /\ Length(suffix) = 0
    BY <1>15, <1>18, <2>1
  <2>3. PICK f \in Name :
          /\ f = Fitted(b, MaxFilenameBytes - Length(suffix) - Length(Extension(b)))
          /\ f # <<>>
          /\ f = <<"file">> \/ \E m \in 1 .. Keeps(b) : f = SubSeq(b, 1, m)
          /\ Extension(b) \in Name
          /\ f \o suffix \in Name
          /\ x = (f \o suffix) \o Extension(b)
          /\ Length(b) <= MaxFilenameBytes - Length(suffix) /\ b[Keeps(b)] \notin Trimmed
               => f \in {SubSeq(b, 1, Keeps(b)), <<"file">>}
    BY <1>17, <2>2, FitFacts
  <2>4. QED
    BY <2>1, <2>2, <2>3
<1>21. ASSUME Reserved(x), ~Squeezed(name) PROVE FALSE
  <2>1. x = f \o Extension(b)
    BY <1>20, EmptySuffix
  <2>2. x \in Name /\ x[1] \in {"con", "CON", "."}
    <3>1. x \in Name
      BY <1>19 DEF Tidy
    <3>2. QED
      BY <1>21, <3>1, ReservedFacts
  <2>3. x[1] = f[1]
    <3>1. 1 \in 1 .. Len(f)
      BY <1>20, NameFacts
    <3>2. QED
      BY <1>20, <2>1, <3>1, JoinedParts
  <2>4. f # <<"file">>
    <3> SUFFICES ASSUME f = <<"file">> PROVE FALSE
      OBVIOUS
    <3>1. f[1] = "file"
      OBVIOUS
    <3>2. QED
      BY <2>2, <2>3, <3>1
  <2>5. b # <<>> /\ b[Len(b)] \notin Trimmed
    BY <1>17 DEF Tidy
  <2>6. PICK k \in 1 .. Len(b) : k = Keeps(b) /\ (k # Len(b) => b[k + 1] = ".")
    BY <1>17, <2>5, KeepsFacts
  <2>7. PICK m \in 1 .. k : f = SubSeq(b, 1, m)
    BY <1>20, <2>4, <2>6
  <2>8. Len(b) \in Nat /\ m \in 0 .. Len(b) /\ k \in 0 .. Len(b) /\ 1 \in 1 .. m
    BY <1>17, <2>6, NameFacts
  <2>9. f[1] = b[1]
    BY <1>17, <2>7, <2>8, Beginning
  <2>10. ~Reserved(named) /\ b = named
    BY <1>14, <1>16, <2>2, <2>3, <2>9
  <2>11. ~Meaningless(trimmed)
    BY <1>12, <2>2, <2>3, <2>9, <2>10
  <2>12. b = trimmed /\ n # 0
    BY <1>11, <2>10, <2>11
  <2>13. Length(b) <= MaxFilenameBytes
    <3>1. Length(trimmed) <= Length(clean)
      BY <1>5, <1>9, LengthSplits
    <3>2. PICK p \in Nat, q \in Nat, r \in Nat : p = Length(trimmed) /\ q = Length(clean) /\ r = Length(name)
      BY <1>5, LengthFacts
    <3>3. ~(r > MaxFilenameBytes)
      BY <1>21, <3>2 DEF Squeezed
    <3>4. MaxFilenameBytes \in Nat
      BY BundleAssumption DEF BundleAssumption
    <3>5. p <= MaxFilenameBytes
      BY <1>7, <3>1, <3>2, <3>3, <3>4
    <3>6. QED
      BY <2>12, <3>2, <3>5
  <2>14. b[k] \notin Trimmed
    <3>1. CASE k = Len(b)
      BY <2>5, <3>1
    <3>2. CASE k # Len(b)
      <4>1. k \in 1 .. n /\ k + 1 \in 1 .. n /\ k \in 1 .. len /\ k + 1 \in 1 .. len /\ k \in 1 .. len - 1
        BY <1>5, <1>9, <2>12, <3>2
      <4>2. b[k] = Clean(name[k]) /\ b[k + 1] = Clean(name[k + 1]) /\ b[k + 1] = "."
        BY <1>4, <1>9, <2>6, <2>12, <3>2, <4>1
      <4>3. name[k + 1] = "."
        BY <1>6, <4>2
      <4>4. name[k] \notin Trimmed
        BY <1>2, <1>21, <4>1, <4>3 DEF Squeezed
      <4>5. QED
        BY <1>6, <4>2, <4>4
    <3>3. QED
      BY <3>1, <3>2
  <2>15. f = SubSeq(b, 1, k)
    <3>1. Length(b) <= MaxFilenameBytes - 0
      <4>1. MaxFilenameBytes \in Nat
        BY BundleAssumption DEF BundleAssumption
      <4>2. MaxFilenameBytes - 0 = MaxFilenameBytes
        BY <4>1
      <4>3. QED
        BY <2>13, <4>2
    <3>2. QED
      BY <1>20, <2>4, <2>6, <2>14, <3>1
  <2>16. x = b
    <3>1. SubSeq(b, 1, k) \o SubSeq(b, k + 1, Len(b)) = b
      BY <1>17, <2>8, LengthSplits
    <3>2. QED
      BY <2>1, <2>6, <2>15, <3>1 DEF Extension
  <2>17. QED
    BY <1>21, <2>10, <2>16
<1>22. QED
  BY <1>19, <1>21

-----------------------------------------------------------------------------
(* Candidate and Disambiguated *)

Number(n) == <<"(2)", "(3)", "(4)">>[n - 1]

\* x begins with f, the last of the base's stem that is left, and a number.
Stemmed(x, base, n, f) ==
  /\ f = Fitted(base, MaxFilenameBytes - 2 - Length(Extension(base)))
  /\ f # <<>>
  /\ f = <<"file">> \/ \E m \in 1 .. Keeps(base) : f = SubSeq(base, 1, m)
  /\ Len(f) + 2 <= Len(x)
  /\ \A i \in 1 .. Len(f) : x[i] = f[i]
  /\ x[Len(f) + 1] = Space /\ x[Len(f) + 2] = Number(n)

\* A numbered candidate: what is left of the stem, a space, the number, and the extension.
LEMMA NumberedIs ==
  ASSUME NEW base \in Name, Tidy(base), NEW n \in 2 .. 4, NEW x, x = Candidate(base, n)
  PROVE  /\ Tidy(x) /\ ~Blank(x) /\ Length(x) <= MaxFilenameBytes
         /\ \E f \in Name : Stemmed(x, base, n, f)
<1>1. Number(n) \in {"(2)", "(3)", "(4)"}
  <2>1. n = 2 \/ n = 3 \/ n = 4
    OBVIOUS
  <2>2. CASE n = 2
    BY <2>2 DEF Number
  <2>3. CASE n = 3
    BY <2>3 DEF Number
  <2>4. CASE n = 4
    BY <2>4 DEF Number
  <2>5. QED
    BY <2>1, <2>2, <2>3, <2>4
<1>2. PICK suffix \in Numbers : suffix = <<Space, Number(n)>>
  BY <1>1 DEF Numbers
<1>3. x = Fit(base, suffix)
  BY <1>2 DEF Candidate, Number
<1>4. /\ suffix \in Name /\ Len(suffix) = 2 /\ suffix[1] = Space /\ suffix[2] = Number(n)
      /\ Length(suffix) = 2
  <2>1. suffix # <<>>
    BY <1>2
  <2>2. suffix[1] = Space /\ suffix[2] = Number(n)
    BY <1>2
  <2>3. QED
    BY <2>1, <2>2, SuffixFacts
<1>5. Tidy(x) /\ ~Blank(x) /\ Length(x) <= MaxFilenameBytes
  BY <1>3, FitFacts
<1>6. PICK f \in Name :
        /\ f = Fitted(base, MaxFilenameBytes - Length(suffix) - Length(Extension(base)))
        /\ f # <<>>
        /\ f = <<"file">> \/ \E m \in 1 .. Keeps(base) : f = SubSeq(base, 1, m)
        /\ Extension(base) \in Name
        /\ f \o suffix \in Name
        /\ x = (f \o suffix) \o Extension(base)
  BY <1>3, FitFacts
<1>7. PICK y \in Name : y = f \o suffix
  BY <1>6
<1>8. PICK m \in Nat : m = Len(f)
  BY NameFacts
<1>9. /\ Len(y) = m + 2 /\ \A i \in 1 .. m : y[i] = f[i]
      /\ y[m + 1] = Space /\ y[m + 2] = Number(n)
  <2>1. /\ Len(y) = Len(f) + Len(suffix)
        /\ \A i \in 1 .. Len(f) : y[i] = f[i]
        /\ \A i \in 1 .. Len(suffix) : y[Len(f) + i] = suffix[i]
    <3>1. f \in Name /\ suffix \in Name
      BY <1>4, <1>6
    <3>2. QED
      BY <1>7, <3>1, JoinedParts
  <2>2. 1 \in 1 .. 2 /\ 2 \in 1 .. 2
    OBVIOUS
  <2>3. QED
    BY <1>4, <1>8, <2>1, <2>2
<1>10. PICK l \in Nat : l = Len(Extension(base))
  BY <1>6, NameFacts
<1>11. Len(x) = (m + 2) + l /\ \A i \in 1 .. m + 2 : x[i] = y[i]
  <2>1. PICK e \in Name : e = Extension(base)
    BY <1>6
  <2>2. x = y \o e
    BY <1>6, <1>7, <2>1
  <2>3. Len(x) = Len(y) + Len(e) /\ \A i \in 1 .. Len(y) : x[i] = y[i]
    BY <2>2, JoinedParts
  <2>4. QED
    BY <1>9, <1>10, <2>1, <2>3
<1>12. \A i \in 1 .. m : x[i] = f[i]
  <2>1. \A i \in 1 .. m : i \in 1 .. m + 2
    OBVIOUS
  <2>2. QED
    BY <1>9, <1>11, <2>1
<1>13. x[m + 1] = Space /\ x[m + 2] = Number(n)
  <2>1. m + 1 \in 1 .. m + 2 /\ m + 2 \in 1 .. m + 2
    OBVIOUS
  <2>2. QED
    BY <1>9, <1>11, <2>1
<1>14. m + 2 <= Len(x)
  BY <1>10, <1>11
<1>15. f = Fitted(base, MaxFilenameBytes - 2 - Length(Extension(base)))
  BY <1>4, <1>6
<1>16. Stemmed(x, base, n, f)
  BY <1>6, <1>8, <1>12, <1>13, <1>14, <1>15 DEF Stemmed
<1>17. QED
  BY <1>5, <1>16

\* A candidate is canonical but for what its base is reserved for.
LEMMA CandidateFacts ==
  ASSUME NEW base \in Name, Tidy(base), ~Blank(base), Length(base) <= MaxFilenameBytes,
         NEW n \in 1 .. 4, NEW x, x = Candidate(base, n)
  PROVE  /\ Tidy(x) /\ ~Blank(x) /\ Length(x) <= MaxFilenameBytes
         /\ Reserved(x) => Reserved(base)
<1>1. CASE n = 1
  BY <1>1 DEF Candidate
<1>2. CASE n # 1
  <2>1. n \in 2 .. 4
    BY <1>2
  <2>2. Tidy(x) /\ ~Blank(x) /\ Length(x) <= MaxFilenameBytes
    BY <2>1, NumberedIs
  <2>0. PICK f \in Name : Stemmed(x, base, n, f)
    BY <2>1, NumberedIs
  <2>3. /\ f # <<>>
        /\ f = <<"file">> \/ \E m \in 1 .. Keeps(base) : f = SubSeq(base, 1, m)
        /\ Len(f) + 2 <= Len(x)
        /\ \A i \in 1 .. Len(f) : x[i] = f[i]
        /\ x[Len(f) + 1] = Space /\ x[Len(f) + 2] = Number(n)
    BY <2>0 DEF Stemmed
  <2>4. PICK m \in Nat : m = Len(f) /\ m >= 1
    BY <2>3, NameFacts
  <2>5. x \in Name /\ Len(x) \in Nat
    BY <2>2, NameFacts DEF Tidy
  <2>6. Number(n) \notin {Space, ".", "json"}
    <3>1. n = 2 \/ n = 3 \/ n = 4
      BY <2>1
    <3>2. Number(n) \in {"(2)", "(3)", "(4)"}
      <4>1. CASE n = 2
        BY <4>1 DEF Number
      <4>2. CASE n = 3
        BY <4>2 DEF Number
      <4>3. CASE n = 4
        BY <4>3 DEF Number
      <4>4. QED
        BY <3>1, <4>1, <4>2, <4>3
    <3>3. QED
      BY <3>2, SpaceIsItself
  <2>7. SUFFICES ASSUME Reserved(x) PROVE Reserved(base)
    BY <2>2
  <2>8. x # ReservedReceiptName
    <3> SUFFICES ASSUME x = ReservedReceiptName PROVE FALSE
      OBVIOUS
    <3>1. Len(x) = 4 /\ x[1] = "." /\ x[2] = "receipt" /\ x[3] = "." /\ x[4] = "json"
      BY DEF ReservedReceiptName
    <3>2. m = 1 \/ m = 2
      BY <2>3, <2>4, <3>1
    <3>3. CASE m = 1
      <4>1. 1 + 2 = 3
        OBVIOUS
      <4>2. x[3] = Number(n)
        BY <2>3, <2>4, <3>3, <4>1
      <4>3. QED
        BY <2>6, <3>1, <4>2
    <3>4. CASE m = 2
      <4>1. 2 + 1 = 3
        OBVIOUS
      <4>2. x[3] = Space
        BY <2>3, <2>4, <3>4, <4>1
      <4>3. QED
        BY <3>1, <4>2, SpaceIsItself
    <3>5. QED
      BY <3>2, <3>3, <3>4
  <2>9. Device(x)
    BY <2>5, <2>7, <2>8, ReservedFacts
  <2>10. PICK e \in 1 .. Len(x) : /\ x[1] \in {"con", "CON"}
                                  /\ \A i \in 2 .. e : x[i] = Space
                                  /\ e = Len(x) \/ (e < Len(x) /\ x[e + 1] = ".")
    BY <2>9 DEF Device
  <2>11. e < m
    <3>1. ~(m + 2 <= e)
      <4> SUFFICES ASSUME m + 2 <= e PROVE FALSE
        OBVIOUS
      <4>1. m + 2 \in 2 .. e
        BY <2>4, <2>5
      <4>2. QED
        BY <2>3, <2>4, <2>6, <2>10, <4>1
    <3>2. e # m + 1
      <4> SUFFICES ASSUME e = m + 1 PROVE FALSE
        OBVIOUS
      <4>1. e # Len(x) /\ e + 1 = m + 2
        BY <2>3, <2>4, <2>5
      <4>2. QED
        BY <2>3, <2>4, <2>6, <2>10, <4>1
    <3>3. e # m
      <4> SUFFICES ASSUME e = m PROVE FALSE
        OBVIOUS
      <4>1. e # Len(x)
        BY <2>3, <2>4, <2>5
      <4>2. x[e + 1] = Space
        BY <2>3, <2>4
      <4>3. QED
        BY <2>10, <4>1, <4>2, SpaceIsItself
    <3>4. QED
      BY <2>4, <2>5, <3>1, <3>2, <3>3
  <2>12. e # Len(x) /\ 1 \in 1 .. m /\ e + 1 \in 1 .. m
    BY <2>3, <2>4, <2>5, <2>11
  <2>13. f[1] \in {"con", "CON"} /\ f[e + 1] = "."
    BY <2>3, <2>4, <2>10, <2>12
  <2>14. PICK k \in 1 .. Keeps(base) : f = SubSeq(base, 1, k)
    <3>1. f # <<"file">>
      <4> SUFFICES ASSUME f = <<"file">> PROVE FALSE
        OBVIOUS
      <4>1. f[1] = "file"
        OBVIOUS
      <4>2. QED
        BY <2>13, <4>1
    <3>2. QED
      BY <2>3, <3>1
  <2>15. base # <<>>
    BY DEF Tidy
  <2>16. k \in 0 .. Len(base) /\ Len(base) \in Nat
    BY <2>14, <2>15, KeepsFacts, NameFacts
  <2>17. k = m /\ \A i \in 1 .. m : f[i] = base[i]
    BY <2>4, <2>14, <2>16, Beginning
  <2>18. base[1] \in {"con", "CON"} /\ base[e + 1] = "."
    BY <2>12, <2>13, <2>17
  <2>19. \A i \in 2 .. e : base[i] = Space
    <3>1. \A i \in 2 .. e : i \in 1 .. m
      BY <2>11
    <3>2. QED
      BY <2>3, <2>4, <2>10, <2>17, <3>1
  <2>20. e \in 1 .. Len(base) /\ e < Len(base)
    BY <2>11, <2>16, <2>17
  <2>21. Device(base)
    BY <2>18, <2>19, <2>20 DEF Device
  <2>22. QED
    BY <2>21, ReservedFacts
<1>3. QED
  BY <1>1, <1>2

\* The numbered candidates of a name differ in their number, in the same place.
LEMMA NumberedApart ==
  ASSUME NEW base \in Name, Tidy(base), NEW n \in 2 .. 4, NEW k \in 2 .. 4,
         CollisionKey(Candidate(base, n)) = CollisionKey(Candidate(base, k))
  PROVE  n = k
<1>1. PICK x, y : x = Candidate(base, n) /\ y = Candidate(base, k)
  OBVIOUS
<1>2. PICK f : f = Fitted(base, MaxFilenameBytes - 2 - Length(Extension(base)))
  OBVIOUS
<1>3. x \in Name /\ f \in Name /\ Len(f) + 2 <= Len(x) /\ x[Len(f) + 2] = Number(n)
  BY <1>1, <1>2, NumberedIs DEF Tidy, Stemmed
<1>4. y \in Name /\ Len(f) + 2 <= Len(y) /\ y[Len(f) + 2] = Number(k)
  BY <1>1, <1>2, NumberedIs DEF Tidy, Stemmed
<1>5. PICK m \in Nat : m = Len(f)
  BY <1>3, NameFacts
<1>6. m + 2 \in 1 .. Len(x) /\ m + 2 \in 1 .. Len(y)
  BY <1>3, <1>4, <1>5, NameFacts
<1>7. [i \in 1 .. Len(x) |-> KeyOf(x[i])] = [i \in 1 .. Len(y) |-> KeyOf(y[i])]
  BY <1>1, <1>3, <1>4, KeyFacts
<1>8. KeyOf(x[m + 2]) = KeyOf(y[m + 2])
  <2>1. PICK v, w : /\ v = [i \in 1 .. Len(x) |-> KeyOf(x[i])]
                    /\ w = [i \in 1 .. Len(y) |-> KeyOf(y[i])]
    OBVIOUS
  <2>2. v[m + 2] = KeyOf(x[m + 2]) /\ w[m + 2] = KeyOf(y[m + 2])
    BY <1>6, <2>1
  <2>3. QED
    BY <1>7, <2>1, <2>2
<1>9. KeyOf(Number(n)) = KeyOf(Number(k))
  BY <1>3, <1>4, <1>5, <1>8
<1>10. \A c \in {"(2)", "(3)", "(4)"} : KeyOf(c) = c
  BY DEF KeyOf, Lower
<1>11. Number(2) = "(2)" /\ Number(3) = "(3)" /\ Number(4) = "(4)"
  BY DEF Number
<1>12. (n = 2 \/ n = 3 \/ n = 4) /\ (k = 2 \/ k = 3 \/ k = 4)
  OBVIOUS
<1>13. QED
  BY <1>9, <1>10, <1>11, <1>12

Few(used) == \E u, v : used \in {{}, {u}, {u, v}}

\* Where at most two keys are taken, the loop finds a candidate whose key is free.
LEMMA DisambiguatedFacts ==
  ASSUME NEW base \in Name, Tidy(base), NEW used, Few(used)
  PROVE  \E n \in 1 .. 4 : /\ Disambiguated(base, used) = Candidate(base, n)
                           /\ CollisionKey(Candidate(base, n)) \notin used
<1>0. PICK u, v : used \in {{}, {u}, {u, v}}
  BY DEF Few
<1> DEFINE Free(n) == CollisionKey(Candidate(base, n)) \notin used
           S == {n \in 1 .. Cardinality(used) + 2 : Free(n)}
<1>1. \A n, k \in 2 .. 4 : CollisionKey(Candidate(base, n)) = CollisionKey(Candidate(base, k)) => n = k
  BY NumberedApart
<1>2. /\ CollisionKey(Candidate(base, 2)) # CollisionKey(Candidate(base, 3))
      /\ CollisionKey(Candidate(base, 2)) # CollisionKey(Candidate(base, 4))
      /\ CollisionKey(Candidate(base, 3)) # CollisionKey(Candidate(base, 4))
  <2>1. 2 \in 2 .. 4 /\ 3 \in 2 .. 4 /\ 4 \in 2 .. 4 /\ 2 # 3 /\ 2 # 4 /\ 3 # 4
    OBVIOUS
  <2>2. QED
    BY <1>1, <2>1
<1>3. PICK c \in 0 .. 2 : c = Cardinality(used) /\ \E n \in 1 .. c + 2 : Free(n)
  <2>1. CASE used = {}
    <3>1. Cardinality(used) = 0
      BY <2>1, FS_EmptySet
    <3>2. 1 \in 1 .. 0 + 2 /\ 0 \in 0 .. 2 /\ Free(1)
      BY <2>1
    <3>3. QED
      BY <3>1, <3>2
  <2>2. CASE used = {u}
    <3>1. Cardinality(used) = 1
      BY <2>2, FS_Singleton
    <3>2. 2 \in 1 .. 1 + 2 /\ 3 \in 1 .. 1 + 2 /\ 1 \in 0 .. 2
      OBVIOUS
    <3>3. Free(2) \/ Free(3)
      BY <1>2, <2>2
    <3>4. QED
      BY <3>1, <3>2, <3>3
  <2>3. CASE used = {u, v} /\ u # v
    <3>1. Cardinality(used) = 2
      <4>1. IsFiniteSet({u}) /\ Cardinality({u}) = 1
        BY FS_Singleton
      <4>2. used = {u} \cup {v} /\ v \notin {u}
        BY <2>3
      <4>3. Cardinality({u} \cup {v}) = Cardinality({u}) + 1
        BY <4>1, <4>2, FS_AddElement
      <4>4. QED
        BY <4>1, <4>2, <4>3
    <3>2. 2 \in 1 .. 2 + 2 /\ 3 \in 1 .. 2 + 2 /\ 4 \in 1 .. 2 + 2 /\ 2 \in 0 .. 2
      OBVIOUS
    <3>3. Free(2) \/ Free(3) \/ Free(4)
      BY <1>2, <2>3
    <3>4. QED
      BY <3>1, <3>2, <3>3
  <2>4. used = {} \/ used = {u} \/ (used = {u, v} /\ u # v)
    BY <1>0
  <2>5. QED
    BY <2>1, <2>2, <2>3, <2>4
<1>4. Disambiguated(base, used) = Candidate(base, Min(S))
  BY DEF Disambiguated
<1> HIDE DEF Free
<1>5. S \subseteq Nat /\ S # {}
  BY <1>3
<1>6. Min(S) \in S
  <2> HIDE DEF S
  <2> QED BY <1>5, MinFacts
<1>7. Min(S) \in 1 .. 4 /\ Free(Min(S))
  BY <1>3, <1>6
<1>8. QED
  BY <1>4, <1>7 DEF Free

-----------------------------------------------------------------------------
(* The payload *)

Chosen == [name : Names \cup FewNames, size : Sizes]

\* What was put together is taken apart again: the sizes add up to the payload, and each
\* file is found where the sizes before it say.
LEMMA TakenApart ==
  ASSUME selected \in Seq(Chosen), selected # <<>>, names \in Seq(Name), Len(names) = Len(selected)
  PROVE  /\ Manifest # <<>> /\ DOMAIN Manifest = 1 .. Len(names) /\ Len(Manifest) = Len(names)
         /\ SizeBefore(Manifest, Len(Manifest) + 1) = Len(Plaintext)
         /\ SplitPayload(Manifest, Plaintext)
              = [i \in DOMAIN selected |-> [name |-> names[i], data |-> Content(i, selected[i].size)]]
<1>1. PICK l \in Nat : /\ l = Len(selected) /\ l = Len(names) /\ l >= 1
                       /\ DOMAIN selected = 1 .. l /\ DOMAIN names = 1 .. l
  OBVIOUS
<1>2. \A i \in 1 .. l : selected[i].size \in Nat
  <2>1. \A i \in 1 .. l : selected[i] \in Chosen
    BY <1>1
  <2>2. Sizes \subseteq Nat
    BY BundleAssumption DEF BundleAssumption
  <2>3. QED
    BY <2>1, <2>2 DEF Chosen
<1>3. PICK m : m = Manifest
  OBVIOUS
<1>4. m = [i \in 1 .. l |-> [name |-> names[i], size |-> selected[i].size]]
  BY <1>1, <1>3 DEF Manifest
<1>5. m \in Seq([name : Name, size : Nat])
  <2>1. \A i \in 1 .. l : names[i] \in Name
    BY <1>1
  <2>2. \A i \in 1 .. l : [name |-> names[i], size |-> selected[i].size] \in [name : Name, size : Nat]
    BY <1>2, <2>1
  <2>3. QED
    BY <1>4, <2>2
<1>6. DOMAIN m = 1 .. l /\ Len(m) = l
  BY <1>4, <1>5
<1>7. \A i \in 1 .. l : m[i].size = selected[i].size /\ m[i].name = names[i]
  BY <1>4
<1>8. PICK At : At = [i \in 1 .. l + 1 |-> SizeBefore(m, i)]
  OBVIOUS
<1>9. /\ SizeBefore(m, 1) = 0
      /\ \A i \in 1 .. l : SizeBefore(m, i + 1) = SizeBefore(m, i) + m[i].size
  <2>1. \A i \in 1 .. Len(m) : m[i].size \in Nat
    BY <1>2, <1>6, <1>7
  <2>2. QED
    BY <1>5, <1>6, <2>1, SizesAdd
<1>10. PICK seqs : seqs = [i \in 1 .. l |-> Content(i, selected[i].size)]
  OBVIOUS
<1>11. \A i \in 1 .. l : /\ Content(i, selected[i].size) \in Seq(Nat \X Nat)
                         /\ Len(Content(i, selected[i].size)) = selected[i].size
  <2> SUFFICES ASSUME NEW i \in 1 .. l
               PROVE  /\ Content(i, selected[i].size) \in Seq(Nat \X Nat)
                      /\ Len(Content(i, selected[i].size)) = selected[i].size
    OBVIOUS
  <2>1. PICK z \in Nat : z = selected[i].size
    BY <1>2
  <2>2. Content(i, z) = [b \in 1 .. z |-> <<i, b>>]
    BY DEF Content
  <2>3. \A b \in 1 .. z : <<i, b>> \in Nat \X Nat
    OBVIOUS
  <2>4. [b \in 1 .. z |-> <<i, b>>] \in Seq(Nat \X Nat)
    BY <2>3
  <2>5. Len([b \in 1 .. z |-> <<i, b>>]) = z
    OBVIOUS
  <2>6. QED
    BY <2>1, <2>2, <2>4, <2>5
<1>12. seqs \in Seq(Seq(Nat \X Nat))
  BY <1>10, <1>11
<1>13. Len(seqs) = l /\ \A i \in 1 .. l : seqs[i] = Content(i, selected[i].size)
  BY <1>10, <1>12
<1>14. At[1] = 0 /\ \A i \in 1 .. l : At[i + 1] = At[i] + Len(seqs[i])
  <2>1. 1 \in 1 .. l + 1 /\ \A i \in 1 .. l : i \in 1 .. l + 1 /\ i + 1 \in 1 .. l + 1
    BY <1>1
  <2>2. At[1] = 0
    BY <1>8, <1>9, <2>1
  <2>3. ASSUME NEW i \in 1 .. l PROVE At[i + 1] = At[i] + Len(seqs[i])
    <3>1. At[i + 1] = SizeBefore(m, i + 1) /\ At[i] = SizeBefore(m, i)
      BY <1>8, <2>1
    <3>2. Len(seqs[i]) = m[i].size
      BY <1>7, <1>11, <1>13
    <3>3. QED
      BY <1>9, <3>1, <3>2
  <2>4. QED
    BY <2>2, <2>3
<1>15. PICK plain : plain = Plaintext
  OBVIOUS
<1>16. plain = FlattenSeq(seqs)
  BY <1>1, <1>10, <1>15 DEF Plaintext
<1>17. /\ Len(plain) = At[l + 1]
       /\ \A i \in 1 .. l : SubSeq(plain, At[i] + 1, At[i] + Len(seqs[i])) = seqs[i]
  <2>1. seqs # <<>>
    BY <1>1, <1>13
  <2>2. At[1] = 0 /\ \A i \in 1 .. Len(seqs) : At[i + 1] = At[i] + Len(seqs[i])
    BY <1>13, <1>14
  <2>3. /\ Len(FlattenSeq(seqs)) = At[Len(seqs) + 1]
        /\ \A i \in 1 .. Len(seqs) :
             SubSeq(FlattenSeq(seqs), At[i] + 1, At[i] + Len(seqs[i])) = seqs[i]
    BY <1>12, <2>1, <2>2, FlattenedInPlace
  <2>4. QED
    BY <1>13, <1>16, <2>3
<1>18. SizeBefore(m, Len(m) + 1) = Len(plain)
  <2>1. l + 1 \in 1 .. l + 1
    BY <1>1
  <2>2. At[l + 1] = SizeBefore(m, l + 1)
    BY <1>8, <2>1
  <2>3. QED
    BY <1>6, <1>17, <2>2
<1>19. \A i \in 1 .. l : SubSeq(plain, SizeBefore(m, i) + 1, SizeBefore(m, i) + m[i].size)
                           = Content(i, selected[i].size)
  <2> SUFFICES ASSUME NEW i \in 1 .. l
               PROVE  SubSeq(plain, SizeBefore(m, i) + 1, SizeBefore(m, i) + m[i].size)
                        = Content(i, selected[i].size)
    OBVIOUS
  <2>1. i \in 1 .. l + 1
    BY <1>1
  <2>2. At[i] = SizeBefore(m, i) /\ Len(seqs[i]) = m[i].size
    BY <1>7, <1>8, <1>11, <1>13, <2>1
  <2>3. QED
    BY <1>13, <1>17, <2>2
<1>20. SplitPayload(m, plain)
         = [i \in 1 .. l |-> [name |-> names[i], data |-> Content(i, selected[i].size)]]
  <2>1. SplitPayload(m, plain)
          = [i \in 1 .. l |-> [name |-> m[i].name,
                               data |-> SubSeq(plain, SizeBefore(m, i) + 1, SizeBefore(m, i) + m[i].size)]]
    BY <1>6 DEF SplitPayload
  <2>2. \A i \in 1 .. l :
          [name |-> m[i].name, data |-> SubSeq(plain, SizeBefore(m, i) + 1, SizeBefore(m, i) + m[i].size)]
            = [name |-> names[i], data |-> Content(i, selected[i].size)]
    BY <1>7, <1>19
  <2>3. QED
    BY <2>1, <2>2
<1>21. m # <<>>
  BY <1>1, <1>6
<1>22. QED
  BY <1>1, <1>3, <1>6, <1>15, <1>18, <1>20, <1>21

-----------------------------------------------------------------------------
(* The invariant *)

BundleTypes ==
  /\ app \in Apps /\ recipient \in Recipients
  /\ phase \in {"choosing", "refused", "sent", "rejected", "recovered"}
  /\ selected \in Seq(Chosen) /\ Len(selected) <= MaxFiles
  /\ names \in Seq(Name)
  /\ Len(names) = IF phase = "refused" THEN Len(selected) - 1 ELSE Len(selected)
  /\ phase \in {"refused", "sent", "rejected", "recovered"} => selected # <<>>

\* A name as a sender leaves it: canonical, unless the page cut it to a reserved one.
NamedWell(i) ==
  /\ Tidy(names[i]) /\ ~Blank(names[i]) /\ Length(names[i]) <= MaxFilenameBytes
  /\ Reserved(names[i]) => app = "page" /\ Squeezed(selected[i].name)

NamesHold ==
  /\ \A i \in 1 .. Len(names) : NamedWell(i)
  /\ \A i, j \in 1 .. Len(names) : i # j => CollisionKey(names[i]) # CollisionKey(names[j])

\* What left the sender is made of the files it was given, and so is what came out of it.
PartsHold ==
  /\ phase \in {"sent", "rejected", "recovered"} =>
       envelope = Sealed(Manifest) /\ payload = Sealed(Plaintext)
  /\ phase = "recovered" =>
       /\ ValidManifest(Manifest, Plaintext)
       /\ recovered = SplitPayload(Manifest, Plaintext)
  /\ phase # "recovered" => recovered = <<>>

BundleInv == BundleTypes /\ NamesHold /\ PartsHold /\ RefusedOnlyIfReserved

\* What is free of the keys in use is named apart from the names that have them.
LEMMA UsedAreFew ==
  ASSUME BundleTypes, Len(names) <= 2
  PROVE  Few(UsedKeys)
<1>1. PICK l \in Nat : l = Len(names) /\ DOMAIN names = 1 .. l /\ l <= 2
  BY DEF BundleTypes
<1>2. UsedKeys = {CollisionKey(names[i]) : i \in 1 .. l}
  BY <1>1 DEF UsedKeys
<1>3. CASE l = 0
  BY <1>2, <1>3 DEF Few
<1>4. CASE l = 1
  <2>1. \A i \in 1 .. l : i = 1
    BY <1>4
  <2>2. 1 \in 1 .. l
    BY <1>4
  <2>3. UsedKeys = {CollisionKey(names[1])}
    BY <1>2, <2>1, <2>2
  <2>4. QED
    BY <2>3 DEF Few
<1>5. CASE l = 2
  <2>1. \A i \in 1 .. l : i = 1 \/ i = 2
    BY <1>5
  <2>2. 1 \in 1 .. l /\ 2 \in 1 .. l
    BY <1>5
  <2>3. UsedKeys = {CollisionKey(names[1]), CollisionKey(names[2])}
    BY <1>2, <2>1, <2>2
  <2>4. QED
    BY <2>3 DEF Few
<1>6. l = 0 \/ l = 1 \/ l = 2
  BY <1>1
<1>7. QED
  BY <1>3, <1>4, <1>5, <1>6

\* The name a sender gives a file that it does not refuse.
LEMMA NewName ==
  ASSUME BundleTypes, Len(names) <= 2, NEW name \in Names \cup FewNames, app = "page" \/ CanonicalName(Base(name)),
         NEW x, x = Disambiguated(Base(name), UsedKeys)
  PROVE  /\ Tidy(x) /\ ~Blank(x) /\ Length(x) <= MaxFilenameBytes
         /\ Reserved(x) => app = "page" /\ Squeezed(name)
         /\ \A i \in DOMAIN names : CollisionKey(x) # CollisionKey(names[i])
<1>1. name \in Name
  BY NamesAreNames
<1>2. PICK b : b = Base(name)
  OBVIOUS
<1>3. /\ b \in Name /\ Tidy(b) /\ ~Blank(b) /\ Length(b) <= MaxFilenameBytes
      /\ Reserved(b) => Squeezed(name)
  BY <1>1, <1>2, BaseFacts DEF Tidy
<1>4. PICK n \in 1 .. 4 : x = Candidate(b, n) /\ CollisionKey(x) \notin UsedKeys
  <2>1. Few(UsedKeys)
    BY UsedAreFew
  <2>2. \E n \in 1 .. 4 : /\ Disambiguated(b, UsedKeys) = Candidate(b, n)
                          /\ CollisionKey(Candidate(b, n)) \notin UsedKeys
    BY <1>3, <2>1, DisambiguatedFacts
  <2>3. QED
    BY <1>2, <2>2
<1>5. /\ Tidy(x) /\ ~Blank(x) /\ Length(x) <= MaxFilenameBytes
      /\ Reserved(x) => Reserved(b)
  BY <1>3, <1>4, CandidateFacts
<1>6. Reserved(b) => app = "page"
  BY <1>2 DEF CanonicalName
<1>7. QED
  BY <1>3, <1>4, <1>5, <1>6 DEF UsedKeys

\* Before a file is chosen the invariant holds.
LEMMA BundleInit == Init => BundleInv
<1> SUFFICES ASSUME Init PROVE BundleInv
  OBVIOUS
<1>1. /\ app \in Apps /\ recipient \in Recipients /\ phase = "choosing"
      /\ selected = <<>> /\ names = <<>> /\ recovered = <<>>
  BY DEF Init
<1>2. MaxFiles \in Nat /\ 0 <= MaxFiles
  BY BundleAssumption DEF BundleAssumption
<1>3. Len(names) = 0 /\ Len(selected) = 0
  BY <1>1
<1>4. BundleTypes
  <2>1. selected \in Seq(Chosen) /\ names \in Seq(Name)
    BY <1>1
  <2>2. QED
    BY <1>1, <1>2, <1>3, <2>1 DEF BundleTypes
<1>5. NamesHold
  BY <1>3 DEF NamesHold
<1>6. PartsHold /\ RefusedOnlyIfReserved
  BY <1>1 DEF PartsHold, RefusedOnlyIfReserved
<1>7. QED
  BY <1>4, <1>5, <1>6 DEF BundleInv

\* A file is added under a name that is canonical, or that only the page lets pass, and apart from the others.
LEMMA AddFileKeeps ==
  ASSUME BundleInv, NEW name \in Names \cup FewNames, NEW size \in Sizes, AddFile(name, size)
  PROVE  BundleInv'
<1>1. /\ BundleTypes /\ NamesHold /\ PartsHold
      /\ phase = "choosing" /\ phase' = "choosing" /\ recovered' = recovered
      /\ app' = app /\ recipient' = recipient
      /\ selected' = Append(selected, [name |-> name, size |-> size])
      /\ Len(selected) < MaxFiles
      /\ app = "page" \/ CanonicalName(Base(name))
  BY DEF BundleInv, AddFile, Choose
<1>2. PICK x : x = Disambiguated(Base(name), UsedKeys) /\ names' = Append(names, x)
  BY DEF AddFile
<1>3. PICK l \in Nat : /\ l = Len(names) /\ l = Len(selected) /\ l <= 2 /\ l < MaxFiles
                       /\ DOMAIN names = 1 .. l
  <2>1. MaxFiles \in 1 .. 3
    BY BundleAssumption DEF BundleAssumption
  <2>2. selected \in Seq(Chosen) /\ names \in Seq(Name) /\ Len(names) = Len(selected)
    BY <1>1 DEF BundleTypes
  <2>3. QED
    BY <1>1, <2>1, <2>2
<1>4. /\ Tidy(x) /\ ~Blank(x) /\ Length(x) <= MaxFilenameBytes
      /\ Reserved(x) => app = "page" /\ Squeezed(name)
      /\ \A i \in 1 .. l : CollisionKey(x) # CollisionKey(names[i])
  BY <1>1, <1>2, <1>3, NewName
<1>5. selected \in Seq(Chosen) /\ names \in Seq(Name) /\ x \in Name
  BY <1>1, <1>4 DEF BundleTypes, Tidy
<1>6. PICK file \in Chosen : file = [name |-> name, size |-> size]
  BY DEF Chosen
<1>7. /\ selected' \in Seq(Chosen) /\ Len(selected') = l + 1
      /\ \A i \in 1 .. l : selected'[i] = selected[i]
      /\ selected'[l + 1] = file
  BY <1>1, <1>3, <1>5, <1>6
<1>8. /\ names' \in Seq(Name) /\ Len(names') = l + 1
      /\ \A i \in 1 .. l : names'[i] = names[i]
      /\ names'[l + 1] = x
  BY <1>2, <1>3, <1>5
<1>9. BundleTypes'
  <2>1. l + 1 <= MaxFiles
    <3>1. MaxFiles \in Nat
      BY BundleAssumption DEF BundleAssumption
    <3>2. QED
      BY <1>3, <3>1
  <2>2. QED
    BY <1>1, <1>7, <1>8, <2>1 DEF BundleTypes
<1>10. NamesHold'
  <2>1. \A i \in 1 .. l + 1 : i \in 1 .. l \/ i = l + 1
    OBVIOUS
  <2>2. ASSUME NEW i \in 1 .. l + 1 PROVE NamedWell(i)'
    <3>1. CASE i \in 1 .. l
      <4>1. NamedWell(i)
        BY <1>1, <1>3, <3>1 DEF NamesHold
      <4>2. names'[i] = names[i] /\ selected'[i] = selected[i]
        BY <1>7, <1>8, <3>1
      <4>3. QED
        BY <1>1, <4>1, <4>2 DEF NamedWell
    <3>2. CASE i = l + 1
      <4>1. names'[i] = x /\ selected'[i].name = name
        BY <1>6, <1>7, <1>8, <3>2
      <4>2. QED
        BY <1>1, <1>4, <4>1 DEF NamedWell
    <3>3. QED
      BY <2>1, <3>1, <3>2
  <2>3. ASSUME NEW i \in 1 .. l + 1, NEW j \in 1 .. l + 1, i # j
        PROVE  CollisionKey(names'[i]) # CollisionKey(names'[j])
    <3>1. CASE i \in 1 .. l /\ j \in 1 .. l
      BY <1>1, <1>3, <1>8, <2>3, <3>1 DEF NamesHold
    <3>2. CASE i \in 1 .. l /\ j = l + 1
      BY <1>4, <1>8, <3>2
    <3>3. CASE i = l + 1 /\ j \in 1 .. l
      BY <1>4, <1>8, <3>3
    <3>4. QED
      BY <2>1, <2>3, <3>1, <3>2, <3>3
  <2>4. QED
    BY <1>8, <2>2, <2>3 DEF NamesHold
<1>11. PartsHold'
  BY <1>1 DEF PartsHold
<1>12. RefusedOnlyIfReserved'
  BY <1>1 DEF RefusedOnlyIfReserved
<1>13. QED
  BY <1>9, <1>10, <1>11, <1>12 DEF BundleInv

\* The senders in Go and Python refuse only a name that cutting made reserved (manifest.go:267).
LEMMA RefuseFileKeeps ==
  ASSUME BundleInv, NEW name \in Names \cup FewNames, NEW size \in Sizes, RefuseFile(name, size)
  PROVE  BundleInv'
<1>1. /\ BundleTypes /\ NamesHold /\ PartsHold
      /\ phase = "choosing" /\ phase' = "refused"
      /\ app' = app /\ recipient' = recipient /\ names' = names /\ recovered' = recovered
      /\ selected' = Append(selected, [name |-> name, size |-> size])
      /\ Len(selected) < MaxFiles
      /\ ~CanonicalName(Base(name))
  BY DEF BundleInv, RefuseFile, Choose
<1>2. PICK l \in Nat : /\ l = Len(names) /\ l = Len(selected)
                       /\ l + 1 <= MaxFiles
  <2>1. MaxFiles \in 1 .. 3
    BY BundleAssumption DEF BundleAssumption
  <2>2. selected \in Seq(Chosen) /\ names \in Seq(Name) /\ Len(names) = Len(selected)
    BY <1>1 DEF BundleTypes
  <2>3. QED
    BY <1>1, <2>1, <2>2
<1>3. PICK file \in Chosen : file = [name |-> name, size |-> size]
  BY DEF Chosen
<1>4. selected \in Seq(Chosen) /\ names \in Seq(Name)
  BY <1>1 DEF BundleTypes
<1>5. /\ selected' \in Seq(Chosen) /\ Len(selected') = l + 1
      /\ \A i \in 1 .. l : selected'[i] = selected[i]
      /\ selected'[l + 1] = file
  BY <1>1, <1>2, <1>3, <1>4
<1>6. BundleTypes'
  <2>1. selected' # <<>> /\ l = (l + 1) - 1
    BY <1>5
  <2>2. QED
    BY <1>1, <1>2, <1>4, <1>5, <2>1 DEF BundleTypes
<1>7. NamesHold'
  <2>1. ASSUME NEW i \in 1 .. l PROVE NamedWell(i)'
    <3>1. NamedWell(i)
      BY <1>1, <1>2 DEF NamesHold
    <3>2. names'[i] = names[i] /\ selected'[i] = selected[i]
      BY <1>1, <1>5
    <3>3. QED
      BY <1>1, <3>1, <3>2 DEF NamedWell
  <2>2. QED
    BY <1>1, <1>2, <2>1 DEF NamesHold
<1>8. PartsHold'
  BY <1>1 DEF PartsHold
<1>9. RefusedOnlyIfReserved'
  <2>1. Last(selected').name = name
    <3>1. Last(selected') = selected'[l + 1]
      BY <1>5 DEF Last
    <3>2. QED
      BY <1>3, <1>5, <3>1
  <2>2. PICK b : b = Base(name)
    OBVIOUS
  <2>3. name \in Name
    BY NamesAreNames
  <2>4. /\ b \in Name /\ Tidy(b) /\ ~Blank(b) /\ Length(b) <= MaxFilenameBytes
        /\ Reserved(b) => Squeezed(name)
    BY <2>2, <2>3, BaseFacts DEF Tidy
  <2>5. Reserved(b)
    BY <1>1, <2>2, <2>4, TidyIsCanonical
  <2>6. QED
    BY <2>1, <2>2, <2>4, <2>5 DEF RefusedOnlyIfReserved
<1>10. QED
  BY <1>6, <1>7, <1>8, <1>9 DEF BundleInv

\* What is sealed is made of the files that were chosen.
LEMMA SendKeeps ==
  ASSUME BundleInv, Send
  PROVE  BundleInv'
<1>1. /\ BundleTypes /\ NamesHold /\ PartsHold
      /\ phase = "choosing" /\ phase' = "sent" /\ selected # <<>>
      /\ app' = app /\ recipient' = recipient /\ names' = names /\ recovered' = recovered
      /\ selected' = selected
      /\ envelope' = Sealed(Manifest) /\ payload' = Sealed(Plaintext)
  BY DEF BundleInv, Send
<1>2. BundleTypes'
  BY <1>1 DEF BundleTypes
<1>3. NamesHold'
  BY <1>1 DEF NamesHold, NamedWell
<1>4. Manifest' = Manifest /\ Plaintext' = Plaintext /\ \A plain : Sealed(plain)' = Sealed(plain)
  BY <1>1 DEF Manifest, Plaintext, Sealed
<1>5. PartsHold'
  <2>1. recovered' = <<>>
    BY <1>1 DEF PartsHold
  <2>2. envelope' = Sealed(Manifest)' /\ payload' = Sealed(Plaintext)'
    BY <1>1, <1>4 DEF Sealed
  <2>3. QED
    BY <1>1, <2>1, <2>2 DEF PartsHold
<1>6. RefusedOnlyIfReserved'
  BY <1>1 DEF RefusedOnlyIfReserved
<1>7. QED
  BY <1>2, <1>3, <1>5, <1>6 DEF BundleInv

\* The receiver is handed what was sealed.
LEMMA Handed ==
  ASSUME BundleInv, phase \in {"sent", "rejected", "recovered"}
  PROVE  /\ envelope.to = recipient /\ payload.to = recipient
         /\ envelope.plain = Manifest /\ payload.plain = Plaintext
BY DEF BundleInv, PartsHold, Sealed

\* The receiver splits what it was handed, when it accepts it, and keeps nothing otherwise.
LEMMA ReceiverKeeps ==
  ASSUME BundleInv, NEW r \in Recipients, Recover(r) \/ Reject(r)
  PROVE  BundleInv'
<1>1. /\ BundleTypes /\ NamesHold /\ PartsHold
      /\ phase = "sent"
      /\ app' = app /\ recipient' = recipient /\ names' = names /\ selected' = selected
      /\ envelope' = envelope /\ payload' = payload
      /\ phase' \in {"recovered", "rejected"}
  BY DEF BundleInv, Recover, Reject
<1>2. BundleTypes'
  BY <1>1 DEF BundleTypes
<1>3. NamesHold'
  BY <1>1 DEF NamesHold, NamedWell
<1>4. Manifest' = Manifest /\ Plaintext' = Plaintext
  BY <1>1 DEF Manifest, Plaintext
<1>5. envelope' = Sealed(Manifest)' /\ payload' = Sealed(Plaintext)'
  BY <1>1, <1>4 DEF PartsHold, Sealed
<1>6. ASSUME phase' = "recovered"
      PROVE  /\ ValidManifest(Manifest, Plaintext)'
             /\ (recovered = SplitPayload(Manifest, Plaintext))'
  <2>1. Accepts(r) /\ recovered' = SplitPayload(envelope.plain, payload.plain)
    BY <1>6 DEF Recover, Reject
  <2>2. envelope.plain = Manifest /\ payload.plain = Plaintext
    BY <1>1, Handed
  <2>3. ValidManifest(Manifest, Plaintext)
    BY <2>1, <2>2 DEF Accepts
  <2>4. QED
    BY <1>1, <1>4, <2>1, <2>2, <2>3
<1>7. phase' # "recovered" => recovered' = <<>>
  BY <1>1 DEF PartsHold, Recover, Reject
<1>8. PartsHold'
  BY <1>1, <1>5, <1>6, <1>7 DEF PartsHold
<1>9. RefusedOnlyIfReserved'
  BY <1>1 DEF RefusedOnlyIfReserved
<1>10. QED
  BY <1>2, <1>3, <1>8, <1>9 DEF BundleInv

\* A step that changes nothing preserves the invariant.
LEMMA BundleStutters == BundleInv /\ UNCHANGED vars => BundleInv'
<1> SUFFICES ASSUME BundleInv, UNCHANGED vars PROVE BundleInv'
  OBVIOUS
<1>1. /\ app' = app /\ recipient' = recipient /\ names' = names /\ selected' = selected
      /\ envelope' = envelope /\ payload' = payload /\ phase' = phase /\ recovered' = recovered
  BY DEF vars
<1>2. BundleTypes' /\ NamesHold' /\ RefusedOnlyIfReserved'
  BY <1>1 DEF BundleInv, BundleTypes, NamesHold, NamedWell, RefusedOnlyIfReserved
<1>3. Manifest' = Manifest /\ Plaintext' = Plaintext
  BY <1>1 DEF Manifest, Plaintext
<1>4. PartsHold'
  BY <1>1, <1>3 DEF BundleInv, PartsHold, Sealed
<1>5. QED
  BY <1>2, <1>4 DEF BundleInv

\* The invariant holds, whatever the names, the sizes and the limits.
THEOREM BundleHolds == Spec => []BundleInv
<1>1. Init => BundleInv
  BY BundleInit
<1>2. BundleInv /\ [Next]_vars => BundleInv'
  <2> SUFFICES ASSUME BundleInv, [Next]_vars PROVE BundleInv'
    OBVIOUS
  <2>1. ASSUME NEW name \in Names \cup FewNames, NEW size \in Sizes, AddFile(name, size) PROVE BundleInv'
    BY <2>1, AddFileKeeps
  <2>2. ASSUME NEW name \in Names \cup FewNames, NEW size \in Sizes, RefuseFile(name, size) PROVE BundleInv'
    BY <2>2, RefuseFileKeeps
  <2>3. CASE Send
    BY <2>3, SendKeeps
  <2>4. ASSUME NEW r \in Recipients, Recover(r) \/ Reject(r) PROVE BundleInv'
    BY <2>4, ReceiverKeeps
  <2>5. CASE UNCHANGED vars
    BY <2>5, BundleStutters
  <2>6. QED
    BY <2>1, <2>2, <2>3, <2>4, <2>5 DEF Next
<1>3. QED
  BY <1>1, <1>2, PTL DEF Spec

-----------------------------------------------------------------------------
(* What it says *)

\* The state has its type, and no name is longer than the protocol allows (fitFilename, manifest.go:273-291).
THEOREM BundleIsTyped == Spec => []BundleTypeOK
<1>1. BundleInv => BundleTypeOK
  <2> SUFFICES ASSUME BundleInv PROVE BundleTypeOK
    OBVIOUS
  <2>1. BundleTypes /\ NamesHold
    BY DEF BundleInv
  <2>2. MaxFiles \in Nat /\ MaxFilenameBytes \in Nat
    BY BundleAssumption DEF BundleAssumption
  <2>3. Len(selected) \in 0 .. MaxFiles
    BY <2>1, <2>2 DEF BundleTypes
  <2>4. \A i \in DOMAIN selected : selected[i].size \in Sizes
    <3>1. \A i \in DOMAIN selected : selected[i] \in Chosen
      BY <2>1 DEF BundleTypes
    <3>2. QED
      BY <3>1 DEF Chosen
  <2>5. ASSUME NEW i \in DOMAIN names PROVE Length(names[i]) \in 1 .. MaxFilenameBytes
    <3>1. i \in 1 .. Len(names)
      BY <2>1 DEF BundleTypes
    <3>2. Tidy(names[i]) /\ Length(names[i]) <= MaxFilenameBytes
      BY <2>1, <3>1 DEF NamesHold, NamedWell
    <3>3. PICK l \in Nat : l = Length(names[i]) /\ l >= 1
      BY <3>2, LengthFacts DEF Tidy
    <3>4. QED
      BY <2>2, <3>2, <3>3
  <2>6. QED
    BY <2>1, <2>3, <2>4, <2>5 DEF BundleTypes, BundleTypeOK
<1>2. QED
  BY <1>1, BundleHolds, PTL

\* A sender refuses a name (manifest.go:267) only when cutting it left a reserved one.
THEOREM NoOtherRefusal == Spec => []RefusedOnlyIfReserved
<1>1. BundleInv => RefusedOnlyIfReserved
  BY DEF BundleInv
<1>2. QED
  BY <1>1, BundleHolds, PTL

\* A recipient rejects what a sender sealed (ValidateManifest, manifest.go:90-129) only when the
\* page cut a name to a reserved one.
THEOREM NoOtherRejection == Spec => []RejectedOnlyIfReserved
<1>1. BundleInv => RejectedOnlyIfReserved
  <2> SUFFICES ASSUME BundleInv, phase = "sent", ~Accepts(recipient)
               PROVE  app = "page" /\ \E i \in DOMAIN selected : Squeezed(selected[i].name) /\ Reserved(names[i])
    BY DEF RejectedOnlyIfReserved
  <2>1. BundleTypes /\ NamesHold
    BY DEF BundleInv
  <2>2. selected \in Seq(Chosen) /\ selected # <<>> /\ names \in Seq(Name) /\ Len(names) = Len(selected)
    BY <2>1 DEF BundleTypes
  <2>3. /\ Manifest # <<>> /\ DOMAIN Manifest = 1 .. Len(names)
        /\ SizeBefore(Manifest, Len(Manifest) + 1) = Len(Plaintext)
    BY <2>2, TakenApart
  <2>4. ~ValidManifest(Manifest, Plaintext)
    BY Handed DEF Accepts, Opens
  <2>5. \A i \in 1 .. Len(names) : Manifest[i].name = names[i]
    <3>1. DOMAIN names = 1 .. Len(names)
      BY <2>2
    <3>2. QED
      BY <3>1 DEF Manifest
  <2>6. PICK i \in 1 .. Len(names) : ~CanonicalName(names[i])
    <3>1. \A i, j \in 1 .. Len(names) :
            i # j => CollisionKey(Manifest[i].name) # CollisionKey(Manifest[j].name)
      BY <2>1, <2>5 DEF NamesHold
    <3>2. QED
      BY <2>3, <2>4, <2>5, <3>1 DEF ValidManifest
  <2>7. NamedWell(i)
    BY <2>1 DEF NamesHold
  <2>8. Reserved(names[i])
    BY <2>6, <2>7, TidyIsCanonical DEF NamedWell, Tidy
  <2>9. i \in DOMAIN selected
    BY <2>2
  <2>10. QED
    BY <2>7, <2>8, <2>9 DEF NamedWell
<1>2. QED
  BY <1>1, BundleHolds, PTL

\* What was recovered, spelled out.
LEMMA Recovered ==
  ASSUME BundleInv, phase = "recovered"
  PROVE  /\ recovered = [i \in DOMAIN selected |->
                           [name |-> names[i], data |-> Content(i, selected[i].size)]]
         /\ DOMAIN selected = DOMAIN names
         /\ \A i \in DOMAIN names : names[i] \in Name /\ CanonicalName(names[i])
         /\ \A i, j \in DOMAIN names : i # j => CollisionKey(names[i]) # CollisionKey(names[j])
<1>1. BundleTypes /\ NamesHold /\ PartsHold
  BY DEF BundleInv
<1>2. selected \in Seq(Chosen) /\ selected # <<>> /\ names \in Seq(Name) /\ Len(names) = Len(selected)
  BY <1>1 DEF BundleTypes
<1>3. /\ DOMAIN Manifest = 1 .. Len(names)
      /\ SplitPayload(Manifest, Plaintext)
           = [i \in DOMAIN selected |-> [name |-> names[i], data |-> Content(i, selected[i].size)]]
  BY <1>2, TakenApart
<1>4. ValidManifest(Manifest, Plaintext) /\ recovered = SplitPayload(Manifest, Plaintext)
  BY <1>1 DEF PartsHold
<1>5. DOMAIN names = 1 .. Len(names) /\ DOMAIN selected = 1 .. Len(names)
  BY <1>2
<1>6. \A i \in DOMAIN names : Manifest[i].name = names[i] /\ names[i] \in Name
  BY <1>2, <1>5 DEF Manifest
<1>7. \A i \in DOMAIN names : CanonicalName(names[i])
  BY <1>3, <1>4, <1>5, <1>6 DEF ValidManifest
<1>8. \A i, j \in DOMAIN names : i # j => CollisionKey(names[i]) # CollisionKey(names[j])
  BY <1>1, <1>5 DEF NamesHold
<1>9. QED
  BY <1>3, <1>4, <1>5, <1>6, <1>7, <1>8

\* A receiver gets out the files that were chosen, in their order, each with its own content
\* (SplitPayload, manifest.go:131-163).
THEOREM WhatWasSentArrives == Spec => []RecoveredIsSent
<1>1. BundleInv => RecoveredIsSent
  <2> SUFFICES ASSUME BundleInv, phase = "recovered"
               PROVE  recovered = [i \in DOMAIN selected |->
                                     [name |-> names[i], data |-> Content(i, selected[i].size)]]
    BY DEF RecoveredIsSent
  <2>1. QED
    BY Recovered
<1>2. QED
  BY <1>1, BundleHolds, PTL

\* Names that are one file have one key.
LEMMA SameFileSameKey ==
  ASSUME NEW n \in Name, NEW m \in Name, SameFile(n, m)
  PROVE  CollisionKey(n) = CollisionKey(m)
<1>1. \A c, d : Alike(c, d) => KeyOf(c) = KeyOf(d)
  <2> SUFFICES ASSUME NEW c, NEW d, Alike(c, d), c # d PROVE KeyOf(c) = KeyOf(d)
    OBVIOUS
  <2>1. \/ {c, d} = {"a", "A"} \/ {c, d} = {"con", "CON"} \/ {c, d} = {"eacute", "e+acute"}
    BY DEF Alike
  <2>2. /\ KeyOf("a") = "a" /\ KeyOf("A") = "a"
        /\ KeyOf("con") = "con" /\ KeyOf("CON") = "con"
        /\ KeyOf("eacute") = "eacute" /\ KeyOf("e+acute") = "eacute"
    BY DEF KeyOf, Lower
  <2>3. CASE {c, d} = {"a", "A"}
    <3>1. (c = "a" \/ c = "A") /\ (d = "a" \/ d = "A")
      BY <2>3
    <3>2. QED
      BY <2>2, <3>1
  <2>4. CASE {c, d} = {"con", "CON"}
    <3>1. (c = "con" \/ c = "CON") /\ (d = "con" \/ d = "CON")
      BY <2>4
    <3>2. QED
      BY <2>2, <3>1
  <2>5. CASE {c, d} = {"eacute", "e+acute"}
    <3>1. (c = "eacute" \/ c = "e+acute") /\ (d = "eacute" \/ d = "e+acute")
      BY <2>5
    <3>2. QED
      BY <2>2, <3>1
  <2>6. QED
    BY <2>1, <2>3, <2>4, <2>5
<1>2. DOMAIN n = 1 .. Len(n) /\ Len(n) = Len(m)
  BY NameFacts DEF SameFile
<1>3. \A i \in 1 .. Len(n) : KeyOf(n[i]) = KeyOf(m[i])
  BY <1>1, <1>2 DEF SameFile
<1>4. [i \in 1 .. Len(n) |-> KeyOf(n[i])] = [i \in 1 .. Len(m) |-> KeyOf(m[i])]
  BY <1>2, <1>3
<1>5. CollisionKey(n) = [i \in 1 .. Len(n) |-> KeyOf(n[i])] /\ CollisionKey(m) = [i \in 1 .. Len(m) |-> KeyOf(m[i])]
  BY KeyFacts
<1>6. QED
  BY <1>4, <1>5

\* A canonical name is neither the receipt's file nor a device's.
LEMMA CanonicalIsApart ==
  ASSUME NEW n \in Name, CanonicalName(n)
  PROVE  ~SameFile(n, ReservedReceiptName) /\ ~SameFile(n, <<"con">>)
<1>1. ~Reserved(n)
  BY DEF CanonicalName
<1>2. ASSUME SameFile(n, ReservedReceiptName) PROVE FALSE
  <2>1. PICK r : r = ReservedReceiptName
    OBVIOUS
  <2>2. r \in Name
    <3>1. "." \in Symbol /\ "receipt" \in Symbol /\ "json" \in Symbol
      BY DEF Symbol
    <3>2. <<".", "receipt", ".", "json">> \in Seq(Symbol)
      BY <3>1
    <3>3. QED
      BY <2>1, <3>2 DEF ReservedReceiptName, Name
  <2>3. CollisionKey(r) = ReservedReceiptName
    BY <2>1, <2>2, KeyFacts
  <2>4. CollisionKey(n) = CollisionKey(r)
    BY <1>2, <2>1, <2>2, SameFileSameKey
  <2>5. QED
    BY <1>1, <2>3, <2>4 DEF Reserved
<1>3. ASSUME SameFile(n, <<"con">>) PROVE FALSE
  <2>1. PICK r : r = <<"con">>
    OBVIOUS
  <2>2. Len(r) = 1 /\ r[1] = "con"
    BY <2>1
  <2>3. Len(n) = 1 /\ DOMAIN n = 1 .. Len(n) /\ \A i \in DOMAIN n : Alike(n[i], r[i])
    BY <1>3, <2>1, <2>2, NameFacts DEF SameFile
  <2>4. 1 \in 1 .. 1 /\ \A i \in 2 .. 1 : FALSE
    OBVIOUS
  <2>5. Alike(n[1], "con")
    BY <2>2, <2>3, <2>4
  <2>6. n[1] \in {"con", "CON"}
    <3>1. \/ n[1] = "con" \/ {n[1], "con"} = {"a", "A"} \/ {n[1], "con"} = {"con", "CON"}
          \/ {n[1], "con"} = {"eacute", "e+acute"}
      BY <2>5 DEF Alike
    <3>2. {n[1], "con"} # {"a", "A"} /\ {n[1], "con"} # {"eacute", "e+acute"}
      OBVIOUS
    <3>3. QED
      BY <3>1, <3>2
  <2>7. Device(n)
    BY <2>3, <2>4, <2>6 DEF Device
  <2>8. QED
    BY <1>1, <2>7, ReservedFacts
<1>4. QED
  BY <1>2, <1>3

\* No two recovered files are one file, and none is a device or the receipt (ValidateManifest,
\* manifest.go:103-119).
THEOREM WhatArrivesIsApart == Spec => []RecoveredApart
<1>1. BundleInv => RecoveredApart
  <2> SUFFICES ASSUME BundleInv, NEW i \in DOMAIN recovered
               PROVE  /\ ~\E j \in DOMAIN recovered \ {i} : SameFile(recovered[i].name, recovered[j].name)
                      /\ ~SameFile(recovered[i].name, ReservedReceiptName)
                      /\ ~SameFile(recovered[i].name, <<"con">>)
    BY DEF RecoveredApart
  <2>1. phase = "recovered"
    <3> SUFFICES ASSUME phase # "recovered" PROVE FALSE
      OBVIOUS
    <3>1. recovered = <<>>
      BY DEF BundleInv, PartsHold
    <3>2. QED
      BY <3>1
  <2>2. DOMAIN recovered = DOMAIN names /\ \A j \in DOMAIN names : recovered[j].name = names[j]
    BY <2>1, Recovered
  <2>3. ASSUME NEW j \in DOMAIN recovered \ {i}, SameFile(recovered[i].name, recovered[j].name) PROVE FALSE
    <3>1. names[i] \in Name /\ names[j] \in Name /\ i # j /\ i \in DOMAIN names /\ j \in DOMAIN names
      BY <2>1, <2>2, Recovered
    <3>2. CollisionKey(names[i]) # CollisionKey(names[j])
      BY <2>1, <3>1, Recovered
    <3>3. SameFile(names[i], names[j])
      BY <2>2, <2>3, <3>1
    <3>4. QED
      BY <3>1, <3>2, <3>3, SameFileSameKey
  <2>4. names[i] \in Name /\ CanonicalName(names[i]) /\ recovered[i].name = names[i]
    BY <2>1, <2>2, Recovered
  <2>5. QED
    BY <2>3, <2>4, CanonicalIsApart
<1>2. QED
  BY <1>1, BundleHolds, PTL
===========================================================================
