------------------------- MODULE VerificationProofs -------------------------
(***************************************************************************)
(* Proofs about verification, for any build-info, any number of contracts  *)
(* and requests.                                                           *)
(*                                                                         *)
(* What the model computes comes first: the element of an order that is    *)
(* chosen, and the search for the sources of a contract, which is defined  *)
(* by recursion.  Its induction is that of the natural numbers: a set of   *)
(* numbers has a least one.                                                *)
(*                                                                         *)
(* Of the two inductive invariants, VInv says what a request that          *)
(* Etherscan has passed means, and that the command waits for a request it *)
(* has made for its own contract; TInv holds the types, and that the files *)
(* looked at so far have the artifacts of the build-info.                  *)
(***************************************************************************)
EXTENDS Verification, FiniteSetTheorems, TLAPS

\* Induction: a set of numbers has a least one.
LEMMA Least == ASSUME NEW T, T \subseteq Nat, T # {} PROVE \E m \in T : \A k \in T : m <= k
<1> DEFINE R == OpToRel(<, Nat)
<1>1. IsWellFoundedOn(R, Nat)
  BY NatLessThanWellFounded, Zenon
<1>2. \A x, y \in Nat : x < y => <<x, y>> \in R
  BY Zenon DEF OpToRel
<1> HIDE DEF R
<1>3. PICK m \in T : \A k \in T : ~ (<<k, m>> \in R)
  BY <1>1, WFMin
<1>4. ASSUME NEW k \in T PROVE m <= k
  <2>1. ~(k < m)
    BY <1>2, <1>3
  <2> QED BY <2>1
<1> QED BY <1>4

\* What holds of 0 and goes from one number to the next holds of all up to a bound.
LEMMA Stepwise ==
    ASSUME NEW N \in Nat, NEW T, 0 \in T, \A n \in 0 .. N - 1 : n \in T => n + 1 \in T
    PROVE  \A n \in 0 .. N : n \in T
<1> SUFFICES ASSUME \E n \in 0 .. N : n \notin T PROVE FALSE
  OBVIOUS
<1> DEFINE rest == {n \in 0 .. N : n \notin T}
<1>1. PICK m \in rest : \A k \in rest : m <= k
  <2>1. rest \subseteq Nat /\ rest # {}
    OBVIOUS
  <2> HIDE DEF rest
  <2> QED BY <2>1, Least
<1>2. m # 0 /\ m \in 1 .. N
  BY <1>1
<1>3. m - 1 \in 0 .. N - 1 /\ m - 1 \notin rest
  BY <1>1, <1>2
<1> QED BY <1>1, <1>2, <1>3

\* A function of numbers that is defined by what comes after each value exists.
LEMMA Recursion ==
    ASSUME NEW S, NEW x \in S, NEW F \in [S -> S]
    PROVE  \E g \in [Nat -> S] : g[0] = x /\ \A n \in Nat : g[n + 1] = F[g[n]]
<1> DEFINE Starts(n, h) == h \in [0 .. n -> S] /\ h[0] = x /\ \A k \in 0 .. n - 1 : h[k + 1] = F[h[k]]
<1>1. \A n \in Nat : \E h : Starts(n, h)
  <2> DEFINE good == {n \in Nat : \E h : Starts(n, h)}
  <2>1. 0 \in good
    <3> DEFINE h == [i \in 0 .. 0 |-> x]
    <3>1. Starts(0, h)
      OBVIOUS
    <3> QED BY <3>1
  <2>2. ASSUME NEW n \in Nat, n \in good PROVE n + 1 \in good
    <3> PICK h : Starts(n, h)
      BY <2>2
    <3> DEFINE e == [i \in 0 .. n + 1 |-> IF i = n + 1 THEN F[h[n]] ELSE h[i]]
    <3>1. h[n] \in S /\ F[h[n]] \in S
      OBVIOUS
    <3>2. e \in [0 .. n + 1 -> S]
      BY <3>1
    <3>3. e[0] = x
      OBVIOUS
    <3>4. ASSUME NEW k \in 0 .. n PROVE e[k + 1] = F[e[k]]
      OBVIOUS
    <3>5. Starts(n + 1, e)
      BY <3>2, <3>3, <3>4
    <3> QED BY <3>5
  <2> HIDE DEF good
  <2>3. \A n \in Nat : n \in good
    <3> TAKE n \in Nat
    <3> QED BY <2>1, <2>2, Stepwise
  <2> QED BY <2>3 DEF good
<1>2. ASSUME NEW n \in Nat, NEW h, NEW e, Starts(n, h), Starts(n + 1, e)
      PROVE  \A k \in 0 .. n : h[k] = e[k]
  <2> DEFINE same == {k \in 0 .. n : h[k] = e[k]}
  <2>1. 0 \in same
    BY <1>2
  <2>2. ASSUME NEW k \in 0 .. n - 1, k \in same PROVE k + 1 \in same
    BY <1>2, <2>2
  <2> HIDE DEF same
  <2>3. \A k \in 0 .. n : k \in same
    BY <2>1, <2>2, Stepwise
  <2> QED BY <2>3 DEF same
<1> DEFINE G(n) == CHOOSE h : Starts(n, h)
           g == [n \in Nat |-> G(n)[n]]
<1>3. \A n \in Nat : Starts(n, G(n))
  BY <1>1
<1> HIDE DEF G
<1>4. g \in [Nat -> S]
  BY <1>3
<1>5. g[0] = x
  BY <1>3
<1>6. ASSUME NEW n \in Nat PROVE g[n + 1] = F[g[n]]
  <2>1. Starts(n, G(n)) /\ Starts(n + 1, G(n + 1))
    BY <1>3
  <2>2. G(n)[n] = G(n + 1)[n]
    BY <1>2, <2>1
  <2>3. G(n + 1)[n + 1] = F[G(n + 1)[n]]
    BY <2>1
  <2> QED BY <2>2, <2>3
<1> QED BY <1>4, <1>5, <1>6

\* What is first in an order is in the set.
LEMMA FirstIn ==
    ASSUME NEW X, NEW order \in Seq(X), NEW S, \E i \in DOMAIN order : order[i] \in S
    PROVE  First(order, S) \in S /\ \E i \in DOMAIN order : First(order, S) = order[i]
<1> DEFINE T == {i \in DOMAIN order : order[i] \in S}
           IsFirst(i) == order[i] \in S /\ \A j \in 1 .. i - 1 : order[j] \notin S
<1>1. DOMAIN order \subseteq Nat /\ \A i \in DOMAIN order : 1 .. i - 1 \subseteq DOMAIN order
  BY DOMAIN order = 1 .. Len(order), Len(order) \in Nat
<1>2. PICK m \in T : \A k \in T : m <= k
  <2>1. T \subseteq Nat /\ T # {}
    BY <1>1
  <2> HIDE DEF T
  <2> QED BY <2>1, Least
<1>3. IsFirst(m)
  <2>1. ASSUME NEW j \in 1 .. m - 1, order[j] \in S PROVE FALSE
    BY <1>1, <1>2, <2>1
  <2> QED BY <1>2, <2>1
<1>4. m \in DOMAIN order /\ IsFirst(m)
  BY <1>3
<1> DEFINE c == CHOOSE i \in DOMAIN order : IsFirst(i)
<1>5. c \in DOMAIN order /\ IsFirst(c)
  <2> HIDE DEF IsFirst
  <2> QED BY <1>4
<1>6. First(order, S) = order[c]
  BY DEF First
<1> HIDE DEF c
<1> QED BY <1>5, <1>6

LEMMA FirstFile ==
    ASSUME NEW S, S \subseteq FileNames, S # {}
    PROVE  First(FileOrder, S) \in S
<1>1. \E i \in DOMAIN FileOrder : FileOrder[i] \in S
  BY DEF FileNames
<1> QED BY <1>1, FirstIn, BuildInfoAssumption

LEMMA FirstSource ==
    ASSUME NEW S, S \subseteq Sources, S # {}
    PROVE  First(SourceOrder, S) \in S
<1>1. \E i \in DOMAIN SourceOrder : SourceOrder[i] \in S
  BY DEF Sources
<1> QED BY <1>1, FirstIn, BuildInfoAssumption

\* The last file with a source is one.
LEMMA LastHasIt ==
    ASSUME NEW d, NEW source, \E f \in Files(d) : source \in d[f].sources
    PROVE  LastFile(d, source) \in Files(d) /\ source \in d[LastFile(d, source)].sources
<1> DEFINE having == {i \in DOMAIN FileOrder :
                         FileOrder[i] \in Files(d) /\ source \in d[FileOrder[i]].sources}
           N == Len(FileOrder)
           left == {N - i : i \in having}
<1>1. N \in Nat /\ DOMAIN FileOrder = 1 .. N
  BY BuildInfoAssumption
<1>2. having # {}
  BY DEF Files, FileNames
<1>3. PICK m \in left : \A k \in left : m <= k
  <2>1. left \subseteq Nat /\ left # {}
    BY <1>1, <1>2
  <2> HIDE DEF left
  <2> QED BY <2>1, Least
<1>4. \E i \in having : \A j \in having : j <= i
  <2> PICK i \in having : m = N - i
    BY <1>3
  <2>1. ASSUME NEW j \in having PROVE j <= i
    <3>1. N - j \in left
      OBVIOUS
    <3>2. i \in Nat /\ j \in Nat /\ N \in Nat
      BY <1>1
    <3>3. N - i <= N - j
      BY <1>3, <3>1
    <3> HIDE DEF N, having, left
    <3> QED BY <3>2, <3>3
  <2> QED BY <2>1
<1> DEFINE last == CHOOSE i \in having : \A j \in having : j <= i
<1>5. last \in having
  <2> HIDE DEF having
  <2> QED BY <1>4
<1>6. LastFile(d, source) = FileOrder[last]
  BY DEF LastFile
<1> HIDE DEF last
<1> QED BY <1>5, <1>6

\* The artifacts of a directory are what compilations make of sources.
LEMMA ArtifactType ==
    ASSUME NEW d \in Directories, NEW n, NEW f, ArtifactIn(d, n, f) # Error
    PROVE  ArtifactIn(d, n, f) \in Codes
<1>1. \A g \in Files(d) : d[g] \in Builds /\ Defining(d[g], n) \subseteq Sources
  BY DEF Files, Directories, Builds, Defining
<1>2. \A build \in Builds, s \in Sources : ArtifactFrom(build, s) \in Codes
  BY DEF Builds, ArtifactFrom, Codes
<1>3. CASE f \notin Files(d)
  <2>1. ArtifactIn(d, n, f) = OfMergedBuilds(d, n) /\ FilesDefining(d, n) # {}
    BY <1>3 DEF ArtifactIn, OfMergedBuilds
  <2> DEFINE first == First(FileOrder, FilesDefining(d, n))
             source == First(SourceOrder, Defining(d[first], n))
  <2>2. first \in FilesDefining(d, n)
    BY <2>1, FirstFile DEF FilesDefining, Files
  <2>3. first \in Files(d) /\ Defining(d[first], n) # {}
    BY <2>2 DEF FilesDefining
  <2>4. source \in Defining(d[first], n)
    BY <1>1, <2>3, FirstSource
  <2>5. ArtifactIn(d, n, f) = ArtifactFrom(d[LastFile(d, source)], source)
    BY <2>1 DEF OfMergedBuilds
  <2> HIDE DEF source, first
  <2>6. source \in Sources /\ source \in d[first].sources
    BY <1>1, <2>3, <2>4 DEF Defining
  <2>7. LastFile(d, source) \in Files(d)
    BY <2>3, <2>6, LastHasIt
  <2> QED BY <1>1, <1>2, <2>5, <2>6, <2>7
<1>4. CASE f \in Files(d)
  <2>1. n \in Files(d) /\ ArtifactIn(d, n, f) = OfBuild(d[n], n)
    BY <1>4 DEF ArtifactIn
  <2> DEFINE source == First(SourceOrder, Defining(d[n], n))
  <2>2. Defining(d[n], n) # {} /\ OfBuild(d[n], n) = ArtifactFrom(d[n], source)
    BY <2>1 DEF OfBuild
  <2>3. source \in Sources
    BY <1>1, <2>1, <2>2, FirstSource
  <2> QED BY <1>1, <1>2, <2>1, <2>2, <2>3
<1> QED BY <1>3, <1>4

\* What is reached is the last of the sets that a search goes through.
Onward(next, X) == X \cup UNION {next[s] : s \in X}

Searches(B, next, source) ==
    {g \in [Nat -> SUBSET B] : g[0] = {source} /\ \A n \in Nat : g[n + 1] = Onward(next, g[n])}

LEMMA ReachedSteps ==
    ASSUME NEW B, NEW next \in [B -> SUBSET B], NEW source \in B
    PROVE  \E g \in Searches(B, next, source) : Reached(next, source) = g[Len(SourceOrder)]
<1> DEFINE F == [X \in SUBSET B |-> Onward(next, X)]
           IsSearch(g) == g = [n \in Nat |-> IF n = 0 THEN {source} ELSE Onward(next, g[n - 1])]
           search == CHOOSE g : IsSearch(g)
<1>1. F \in [SUBSET B -> SUBSET B] /\ {source} \in SUBSET B
  BY DEF Onward
<1>2. PICK h \in [Nat -> SUBSET B] : h[0] = {source} /\ \A n \in Nat : h[n + 1] = Onward(next, h[n])
  <2> PICK S, x, G : S = SUBSET B /\ x = {source} /\ G = F
    OBVIOUS
  <2>1. x \in S /\ G \in [S -> S]
    BY <1>1
  <2>2. \E h \in [Nat -> S] : h[0] = x /\ \A n \in Nat : h[n + 1] = G[h[n]]
    <3> HIDE DEF F
    <3> QED BY ONLY <2>1, Recursion
  <2> QED BY <2>2
<1>3. IsSearch(h)
  <2>1. ASSUME NEW n \in Nat, n # 0 PROVE h[n] = Onward(next, h[n - 1])
    <3>1. n - 1 \in Nat /\ (n - 1) + 1 = n
      BY <2>1
    <3> QED BY <1>2, <3>1
  <2> QED BY <1>2, <2>1
<1>4. IsSearch(search)
  <2> HIDE DEF IsSearch
  <2> QED BY <1>3
<1>5. Reached(next, source) = search[Len(SourceOrder)]
  BY DEF Reached, Onward
<1>6. search[0] = {source} /\ DOMAIN search = Nat
  BY <1>4
<1>7. \A n \in Nat : search[n + 1] = Onward(next, search[n])
  <2> TAKE n \in Nat
  <2>1. n + 1 \in Nat /\ n + 1 # 0 /\ (n + 1) - 1 = n
    OBVIOUS
  <2> HIDE DEF search
  <2> QED BY <1>4, <2>1
<1> HIDE DEF search, IsSearch
<1>8. \A n \in Nat : search[n] = h[n]
  <2> TAKE n \in Nat
  <2> DEFINE same == {k \in Nat : search[k] = h[k]}
  <2>1. 0 \in same
    BY <1>2, <1>6
  <2>2. \A k \in 0 .. n - 1 : k \in same => k + 1 \in same
    BY <1>2, <1>7
  <2>3. n \in same
    <3> HIDE DEF same
    <3> QED BY <2>1, <2>2, Stepwise
  <2> QED BY <2>3
<1>9. Len(SourceOrder) \in Nat
  BY BuildInfoAssumption
<1> QED BY <1>2, <1>5, <1>8, <1>9 DEF Searches

\* There are no more sources than places in their order.
LEMMA SourceCount == IsFiniteSet(Sources) /\ Cardinality(Sources) <= Len(SourceOrder)
<1> PICK N \in Nat : N = Len(SourceOrder)
  BY BuildInfoAssumption
<1>1. SourceOrder \in Surjection(1 .. N, Sources)
  <2>1. SourceOrder \in [1 .. N -> Sources] /\ DOMAIN SourceOrder = 1 .. N
    BY BuildInfoAssumption
  <2> QED BY <2>1 DEF Surjection, Sources
<1>2. ExistsSurjection(1 .. N, Sources)
  BY <1>1 DEF ExistsSurjection
<1>3. IsFiniteSet(Sources)
  BY <1>2, FS_NatSurjection
<1>4. Cardinality(Sources) <= N
  BY <1>2, FS_SurjCardinalityBound
<1> QED BY <1>3, <1>4

\* A search that has taken as many steps as there are elements is at its end.
LEMMA SearchEnds ==
    ASSUME NEW B, IsFiniteSet(B), NEW next, NEW source, NEW g \in Searches(B, next, source),
           NEW N \in Nat, Cardinality(B) <= N
    PROVE  Onward(next, g[N]) = g[N]
<1>0. /\ g \in [Nat -> SUBSET B] /\ g[0] # {}
      /\ \A n \in Nat : g[n + 1] = Onward(next, g[n])
  BY DEF Searches
<1>1. \A n \in Nat : /\ IsFiniteSet(g[n]) /\ Cardinality(g[n]) \in Nat
                     /\ Cardinality(g[n]) <= Cardinality(B) /\ Cardinality(B) \in Nat
  <2> TAKE n \in Nat
  <2>1. g[n] \in SUBSET B
    BY <1>0
  <2> QED BY <2>1, FS_Subset, FS_CardinalityType
<1>2. \A n \in Nat : g[n] \subseteq g[n + 1]
  BY <1>0 DEF Onward
<1>3. \E k \in 0 .. N - 1 : g[k + 1] = g[k]
  <2> SUFFICES ASSUME \A k \in 0 .. N - 1 : g[k + 1] # g[k] PROVE FALSE
    OBVIOUS
  <2> DEFINE grown == {k \in Nat : Cardinality(g[k]) >= k + 1}
  <2>1. 0 \in grown
    BY <1>0, <1>1, FS_EmptySet
  <2>2. ASSUME NEW k \in 0 .. N - 1, k \in grown PROVE k + 1 \in grown
    <3> PICK X, Y : X = g[k] /\ Y = g[k + 1]
      OBVIOUS
    <3>1. X \in SUBSET Y /\ X # Y /\ IsFiniteSet(Y)
      BY <1>1, <1>2
    <3>2. Cardinality(X) <= Cardinality(Y) /\ Cardinality(Y) # Cardinality(X)
      BY <3>1, FS_Subset
    <3>3. /\ Cardinality(X) \in Nat /\ Cardinality(Y) \in Nat /\ k \in Nat
          /\ Cardinality(X) >= k + 1
      BY <1>1, <2>2
    <3>4. Cardinality(Y) >= (k + 1) + 1
      BY <3>2, <3>3
    <3> QED BY <3>4
  <2> HIDE DEF grown
  <2>3. N \in grown
    BY <2>1, <2>2, Stepwise
  <2>4. Cardinality(g[N]) >= N + 1
    BY <2>3 DEF grown
  <2> QED BY <1>1, <2>4
<1> PICK k \in 0 .. N - 1 : g[k + 1] = g[k]
  BY <1>3
<1> DEFINE same == {i \in Nat : g[k + i] = g[k]}
<1>4. 0 \in same
  OBVIOUS
<1>5. ASSUME NEW i \in 0 .. N, i \in same PROVE i + 1 \in same
  <2>1. g[(k + i) + 1] = Onward(next, g[k + i])
    BY <1>0
  <2>2. g[k + 1] = Onward(next, g[k]) /\ g[k + i] = g[k]
    BY <1>0, <1>5
  <2>3. (k + i) + 1 = k + (i + 1)
    OBVIOUS
  <2> QED BY <2>1, <2>2, <2>3
<1>6. \A i \in 0 .. N : i \in same
  <2> HIDE DEF same
  <2> QED BY <1>4, <1>5, Stepwise
<1>7. N - k \in 0 .. N /\ N - k \in same
  <2>1. N - k \in 0 .. N
    OBVIOUS
  <2> HIDE DEF same
  <2> QED BY <1>6, <2>1
<1>8. g[N] = g[k]
  BY <1>7
<1> QED BY <1>0, <1>8

\* A search ends with a set that holds its source and all that follows from it, and
\* that is within every other such set.
LEMMA ReachedAll ==
    ASSUME NEW B, B \subseteq Sources, NEW next \in [B -> SUBSET B], NEW source \in B
    PROVE  /\ Reached(next, source) \subseteq B /\ source \in Reached(next, source)
           /\ \A s \in Reached(next, source) : next[s] \subseteq Reached(next, source)
           /\ \A X : source \in X /\ (\A s \in X \cap B : next[s] \subseteq X)
                 => Reached(next, source) \subseteq X
<1> DEFINE N == Len(SourceOrder)
<1>0. N \in Nat
  BY BuildInfoAssumption
<1>1. PICK g \in Searches(B, next, source) : Reached(next, source) = g[N]
  BY ReachedSteps
<1>8. g \in [Nat -> SUBSET B] /\ g[0] = {source} /\ \A n \in Nat : g[n + 1] = Onward(next, g[n])
  BY DEF Searches
<1> HIDE DEF N
<1>2. IsFiniteSet(B) /\ Cardinality(B) <= N
  <2>1. B \in SUBSET Sources
    OBVIOUS
  <2>2. IsFiniteSet(B) /\ Cardinality(B) <= Cardinality(Sources)
    BY <2>1, SourceCount, FS_Subset
  <2>3. Cardinality(B) \in Nat /\ Cardinality(Sources) \in Nat
    BY <2>2, SourceCount, FS_CardinalityType
  <2> QED BY <2>2, <2>3, SourceCount DEF N
<1>3. Onward(next, g[N]) = g[N]
  BY <1>0, <1>2, SearchEnds
<1>4. \A s \in g[N] : next[s] \subseteq g[N]
  BY <1>0, <1>3 DEF Onward
<1>5. source \in g[N]
  <2> DEFINE with == {n \in Nat : source \in g[n]}
  <2>1. 0 \in with
    BY <1>8
  <2>2. \A n \in 0 .. N - 1 : n \in with => n + 1 \in with
    BY <1>0, <1>8 DEF Onward
  <2>3. N \in with
    <3> HIDE DEF with
    <3> QED BY ONLY <1>0, <2>1, <2>2, Stepwise
  <2> QED BY <2>3
<1>6. ASSUME NEW X, source \in X, \A s \in X \cap B : next[s] \subseteq X PROVE g[N] \subseteq X
  <2> DEFINE within == {n \in Nat : g[n] \subseteq X}
  <2>1. 0 \in within
    BY <1>8, <1>6
  <2>2. ASSUME NEW n \in 0 .. N - 1, n \in within PROVE n + 1 \in within
    <3>1. n \in Nat /\ g[n] \subseteq X /\ g[n] \subseteq B /\ g[n + 1] = Onward(next, g[n])
      BY <1>0, <1>8, <2>2
    <3> QED BY <1>6, <3>1 DEF Onward
  <2>3. N \in within
    <3> HIDE DEF within
    <3> QED BY ONLY <1>0, <2>1, <2>2, Stepwise
  <2> QED BY <2>3
<1>7. g[N] \subseteq B
  BY <1>0, <1>8
<1> QED BY <1>1, <1>4, <1>5, <1>6, <1>7

\* The source of an import is found by its base name: one of the build, and the
\* right one if no other has the name.
LEMMA GuessedIs ==
    ASSUME NEW b \in Builds, NEW i \in b.sources
    PROVE  GuessedSource(b, i) \in b.sources /\ (~Ambiguous(b, i) => GuessedSource(b, i) = i)
<1> DEFINE like == {s \in b.sources : Base[s] = Base[i]}
<1>1. like \subseteq Sources /\ like # {}
  BY DEF Builds
<1>2. GuessedSource(b, i) \in like
  BY <1>1, FirstSource DEF GuessedSource
<1> QED BY <1>2 DEF Ambiguous

\* What is submitted for a source: sources of the build, itself among them, with all
\* the sources that their imports are taken for, and nothing else.
LEMMA TrimmedIs ==
    ASSUME NEW b \in Builds, NEW imports, Closed(imports, b.sources), NEW s \in b.sources
    PROVE  /\ Trimmed(b, imports, s) \subseteq b.sources /\ s \in Trimmed(b, imports, s)
           /\ \A t \in Trimmed(b, imports, s) : \A i \in imports[t] :
                 GuessedSource(b, i) \in Trimmed(b, imports, s)
           /\ \A X : s \in X /\ (\A t \in X \cap b.sources : \A i \in imports[t] : GuessedSource(b, i) \in X)
                 => Trimmed(b, imports, s) \subseteq X
<1> DEFINE next == [t \in b.sources |-> GuessedImports(b, imports, t)]
<1>1. \A t \in b.sources : next[t] = {GuessedSource(b, i) : i \in imports[t]}
  BY DEF GuessedImports
<1>2. ASSUME NEW t \in b.sources PROVE next[t] \subseteq b.sources
  BY <1>1, GuessedIs DEF Closed
<1>3. next \in [b.sources -> SUBSET b.sources] /\ b.sources \subseteq Sources
  BY <1>2 DEF Builds
<1>4. Trimmed(b, imports, s) = Reached(next, s)
  BY DEF Trimmed
<1> HIDE DEF next
<1> PICK B : B = b.sources
  OBVIOUS
<1> PICK R : R = Reached(next, s)
  OBVIOUS
<1>5. /\ R \subseteq B /\ s \in R
      /\ \A t \in R : next[t] \subseteq R
      /\ \A X : s \in X /\ (\A t \in X \cap B : next[t] \subseteq X) => R \subseteq X
  BY <1>3, ReachedAll
<1>6. \A t \in R : \A i \in imports[t] : GuessedSource(b, i) \in R
  BY <1>1, <1>5
<1>7. ASSUME NEW X, s \in X, \A t \in X \cap b.sources : \A i \in imports[t] : GuessedSource(b, i) \in X
      PROVE  R \subseteq X
  <2>1. ASSUME NEW t \in X \cap B PROVE next[t] \subseteq X
    BY <1>1, <1>7
  <2> QED BY <1>5, <1>7, <2>1
<1> QED BY <1>4, <1>5, <1>6, <1>7

\* The sources that are needed are closed, if the imports are sources, and within
\* every other closed set with the source.
LEMMA NeededIs ==
    ASSUME NEW imports, Closed(imports, DOMAIN imports), NEW s \in DOMAIN imports
    PROVE  /\ Needed(imports, s) \subseteq DOMAIN imports /\ s \in Needed(imports, s)
           /\ Closed(imports, Needed(imports, s))
           /\ \A S \in SUBSET DOMAIN imports : s \in S /\ Closed(imports, S) => Needed(imports, s) \subseteq S
<1>1. ASSUME NEW t \in Needed(imports, s), NEW i \in imports[t] PROVE i \in Needed(imports, s)
  <2>1. i \in DOMAIN imports
    BY DEF Needed, Closed
  <2>2. ASSUME NEW S \in SUBSET DOMAIN imports, s \in S, Closed(imports, S) PROVE i \in S
    BY <2>2 DEF Needed, Closed
  <2> QED BY <2>1, <2>2 DEF Needed
<1>2. Closed(imports, Needed(imports, s))
  BY <1>1 DEF Closed
<1> QED BY <1>2 DEF Needed

\* Where base names are unambiguous, what is submitted is what is needed.
LEMMA Exact ==
    ASSUME NEW b \in Builds, NEW imports \in [b.sources -> SUBSET b.sources], NEW s \in b.sources
    PROVE  ExactFor(imports, b, s)
<1> SUFFICES ASSUME \A t \in Needed(imports, s) : ~Ambiguous(b, t)
             PROVE  Trimmed(b, imports, s) = Needed(imports, s)
  BY DEF ExactFor
<1> PICK T, W, B : T = Trimmed(b, imports, s) /\ W = Needed(imports, s) /\ B = b.sources
  OBVIOUS
<1>1. Closed(imports, B) /\ DOMAIN imports = B
  BY DEF Closed
<1>2. /\ W \subseteq B /\ s \in W /\ Closed(imports, W)
      /\ \A S \in SUBSET B : s \in S /\ Closed(imports, S) => W \subseteq S
  BY <1>1, NeededIs
<1>3. \A i \in W : GuessedSource(b, i) = i
  BY <1>2, GuessedIs
<1>4. /\ T \subseteq B /\ s \in T
      /\ \A t \in T : \A i \in imports[t] : GuessedSource(b, i) \in T
      /\ \A X : s \in X /\ (\A t \in X \cap B : \A i \in imports[t] : GuessedSource(b, i) \in X)
            => T \subseteq X
  BY <1>1, TrimmedIs
<1>5. T \subseteq W
  <2>1. \A t \in W \cap B : \A i \in imports[t] : GuessedSource(b, i) \in W
    BY <1>2, <1>3 DEF Closed
  <2> QED BY <1>2, <1>4, <2>1
<1>6. Closed(imports, T)
  <2>1. ASSUME NEW t \in T, NEW i \in imports[t] PROVE i \in T
    <3>1. i \in W
      BY <1>2, <1>5 DEF Closed
    <3> QED BY <1>3, <1>4, <3>1
  <2> QED BY <2>1 DEF Closed
<1> QED BY <1>2, <1>4, <1>5, <1>6

-----------------------------------------------------------------------------
\* Etherscan and what is reported.

Members(s) == {s[i] : i \in DOMAIN s}

Shapes == /\ chain \in Seq(Members(chain)) /\ requests \in Seq(Members(requests))
          /\ cmd = [op |-> cmd.op, name |-> cmd.name, address |-> cmd.address,
                    intent |-> cmd.intent, guid |-> cmd.guid, request |-> cmd.request,
                    report |-> cmd.report]

\* Etherscan is asked about contracts that exist, and shows as verified those
\* whose sources compile to their code.
Judged == /\ indexed \subseteq DOMAIN chain
          /\ \A j \in DOMAIN requests :
                /\ requests[j].address \in DOMAIN chain
                /\ requests[j].status = "pass" =>
                       /\ requests[j].address \in verified
                       /\ Passes(requests[j].address, requests[j].request)

\* What the command asks is about its own contract.
Asked == /\ pc \in {"post", "poll"} => cmd.request.contract = cmd.name
         /\ pc = "poll" => /\ cmd.guid \in DOMAIN requests
                           /\ requests[cmd.guid].address = cmd.address
                           /\ requests[cmd.guid].request.contract = cmd.name

VInv == Shapes /\ Judged /\ Asked /\ ReportedVerified

\* A sequence that grows.
LEMMA Grown ==
    ASSUME NEW s, NEW x, s \in Seq(Members(s))
    PROVE  /\ Append(s, x) \in Seq(Members(Append(s, x)))
           /\ DOMAIN Append(s, x) = (DOMAIN s) \cup {Len(s) + 1} /\ Append(s, x)[Len(s) + 1] = x
           /\ \A i \in DOMAIN s : i # Len(s) + 1 /\ Append(s, x)[i] = s[i]
<1> PICK S, t : S = Members(s) /\ t = Append(s, x)
  OBVIOUS
<1>1. s \in Seq(S \cup {x})
  OBVIOUS
<1>2. /\ Len(t) = Len(s) + 1 /\ Len(s) \in Nat /\ DOMAIN t = 1 .. Len(t) /\ DOMAIN s = 1 .. Len(s)
      /\ t \in Seq(S \cup {x})
  BY <1>1
<1>3. \A i \in DOMAIN s : i # Len(s) + 1 /\ t[i] = s[i]
  BY <1>1, <1>2
<1>4. t[Len(s) + 1] = x
  BY <1>1, <1>2
<1>5. \A i \in 1 .. Len(t) : t[i] \in Members(t)
  BY <1>2 DEF Members
<1>6. t \in Seq(Members(t))
  BY <1>2, <1>5
<1> QED BY <1>2, <1>3, <1>4, <1>6

LEMMA InitialInvariant == Init => VInv
<1> SUFFICES ASSUME Init PROVE VInv
  OBVIOUS
<1>1. <<>> \in Seq(Members(<<>>)) /\ DOMAIN <<>> = {}
  OBVIOUS
<1> QED BY <1>1 DEF Init, NoCommand, NewCommand, VInv, Shapes, Judged, Asked, ReportedVerified

\* A step that leaves contracts and Etherscan alone, and reports no success.
LEMMA LocalStep ==
    ASSUME VInv, UNCHANGED <<chain, indexed, requests, verified>>,
           \/ pc' \notin {"post", "poll", "done"} \/ (pc' = "done" /\ cmd'.report # "verified"),
           cmd' = [op |-> cmd'.op, name |-> cmd'.name, address |-> cmd'.address,
                   intent |-> cmd'.intent, guid |-> cmd'.guid, request |-> cmd'.request,
                   report |-> cmd'.report]
    PROVE  VInv'
BY DEF VInv, Shapes, Judged, Asked, ReportedVerified, Passes

\* A command that ends, with nothing or with a report that is no success.
LEMMA EndStep ==
    ASSUME VInv, UNCHANGED <<chain, indexed, requests, verified>>,
           NEW label \in {"done", "failed"}, NEW report, report # "verified", End(label, report)
    PROVE  VInv'
<1>1. /\ pc' = label
      /\ \/ cmd' = Renewed(cmd.intent, report)
         \/ \E op : cmd' = NewCommand(op, Absent, Unknown)
  BY DEF End
<1>2. CASE cmd' = Renewed(cmd.intent, report)
  BY <1>1, <1>2, LocalStep DEF Renewed
<1>3. ASSUME NEW op, cmd' = NewCommand(op, Absent, Unknown) PROVE VInv'
  BY <1>1, <1>3, LocalStep DEF NewCommand
<1> QED BY <1>1, <1>2, <1>3

LEMMA FailStep == VInv /\ Fail => VInv'
BY EndStep DEF Fail, etherscan

\* Commands that do not ask Etherscan.
LEMMA BeginStep ==
    ASSUME VInv, \/ \E f \in FileNames \cup {Absent}, n \in Contracts \cup {Absent} : ExtractArtifacts(f, n)
                 \/ CheckArtifacts
                 \/ \E n \in Contracts : DeployAndVerify(n)
                 \/ \E n \in Contracts, a \in Addresses : VerifyContract(n, a)
    PROVE  VInv'
<1>1. /\ UNCHANGED <<chain, indexed, requests, verified>>
      /\ pc' \in {"extract", "check", "deploy", "verify"}
      /\ \E op, n, a : cmd' = NewCommand(op, n, a)
  BY DEF ExtractArtifacts, CheckArtifacts, DeployAndVerify, VerifyContract, Begin, etherscan
<1> PICK op, n, a : cmd' = NewCommand(op, n, a)
  BY <1>1
<1> QED BY <1>1, LocalStep DEF NewCommand

LEMMA FilesStep == VInv /\ (ExtractFile \/ EndOfFiles \/ CheckFile \/ EndOfCheck) => VInv'
<1> SUFFICES ASSUME VInv PROVE ExtractFile \/ EndOfFiles \/ CheckFile \/ EndOfCheck => VInv'
  OBVIOUS
<1>1. ASSUME EndOfFiles \/ EndOfCheck PROVE VInv'
  BY <1>1, EndStep DEF EndOfFiles, EndOfCheck, etherscan
<1>2. ASSUME ExtractFile \/ CheckFile PROVE VInv'
  <2>1. CASE Fail
    BY <2>1, FailStep
  <2>2. CASE ~Fail
    <3>1. UNCHANGED <<chain, indexed, requests, verified, pc, cmd>> /\ pc \in {"extract", "check"}
      BY <1>2, <2>2 DEF ExtractFile, CheckFile, etherscan
    <3>2. cmd' = [op |-> cmd'.op, name |-> cmd'.name, address |-> cmd'.address,
                  intent |-> cmd'.intent, guid |-> cmd'.guid, request |-> cmd'.request,
                  report |-> cmd'.report]
      BY <3>1 DEF VInv, Shapes
    <3> QED BY <3>1, <3>2, LocalStep
  <2> QED BY <2>1, <2>2
<1> QED BY <1>1, <1>2

LEMMA DeployStep == VInv /\ (Deploy \/ Reuse) => VInv'
<1> SUFFICES ASSUME VInv PROVE Deploy \/ Reuse => VInv'
  OBVIOUS
<1>1. CASE Fail
  BY <1>1, FailStep
<1>2. ASSUME ~Fail, Deploy PROVE VInv'
  <2> DEFINE code == Artifact(dir, cmd.name)
  <2>1. /\ UNCHANGED <<indexed, requests, verified>> /\ pc' = "verify"
        /\ cmd' = [cmd EXCEPT !.address = Len(chain) + 1]
        /\ chain' = Append(chain, code)
    BY <1>2 DEF Deploy, etherscan
  <2> HIDE DEF code
  <2>5. chain \in Seq(Members(chain))
    BY DEF VInv, Shapes
  <2>6. /\ chain' \in Seq(Members(chain'))
        /\ DOMAIN chain' = (DOMAIN chain) \cup {Len(chain) + 1}
        /\ \A i \in DOMAIN chain : i # Len(chain) + 1 /\ chain'[i] = chain[i]
    BY <2>1, <2>5, Grown, SMT
  <2>2. /\ chain' \in Seq(Members(chain')) /\ DOMAIN chain \subseteq DOMAIN chain'
        /\ \A i \in DOMAIN chain : chain'[i] = chain[i]
    BY <2>6
  <2>3. Shapes'
    BY <2>1, <2>2 DEF VInv, Shapes
  <2>4. Judged'
    BY <2>1, <2>2 DEF VInv, Judged, Passes
  <2> QED BY <2>1, <2>3, <2>4 DEF VInv, Asked, ReportedVerified
<1>3. ASSUME ~Fail, Reuse PROVE VInv'
  <2>1. /\ UNCHANGED <<chain, indexed, requests, verified>> /\ pc' = "verify"
        /\ \E x : cmd' = [cmd EXCEPT !.address = x]
    BY <1>3 DEF Reuse, etherscan
  <2> QED BY <2>1, LocalStep DEF VInv, Shapes
<1> QED BY <1>1, <1>2, <1>3

\* The request is for the contract of the command.
LEMMA RequestContract ==
    ASSUME NEW contract, NEW code, Request(contract, code) # Error
    PROVE  Request(contract, code).contract = contract
BY DEF Request

LEMMA PrepareStep == VInv /\ (Prepare \/ PrepareFails \/ NoVerifier) => VInv'
<1> SUFFICES ASSUME VInv PROVE Prepare \/ PrepareFails \/ NoVerifier => VInv'
  OBVIOUS
<1>1. ASSUME Prepare PROVE VInv'
  <2>1. /\ UNCHANGED <<chain, indexed, requests, verified>> /\ pc' = "post"
        /\ Prepared # Error /\ cmd' = [cmd EXCEPT !.request = Prepared]
    BY <1>1 DEF Prepare, etherscan
  <2>2. Prepared.contract = cmd.name
    BY <2>1, RequestContract DEF Prepared
  <2>3. Shapes' /\ cmd'.name = cmd.name /\ cmd'.request = Prepared
    BY <2>1 DEF VInv, Shapes
  <2>4. Judged'
    BY <2>1 DEF VInv, Judged, Passes
  <2> QED BY <2>1, <2>2, <2>3, <2>4 DEF VInv, Asked, ReportedVerified
<1>2. ASSUME PrepareFails \/ NoVerifier PROVE VInv'
  BY <1>2, EndStep DEF PrepareFails, NoVerifier, Throw, etherscan
<1> QED BY <1>1, <1>2

\* Etherscan accepts a request.
LEMMA AcceptStep ==
    ASSUME VInv, Accept, chain' = chain
    PROVE  /\ Judged' /\ requests' \in Seq(Members(requests'))
           /\ Len(requests) + 1 \in DOMAIN requests'
           /\ requests'[Len(requests) + 1].address = cmd.address
           /\ requests'[Len(requests) + 1].request = cmd.request
<1> DEFINE new == [address |-> cmd.address, request |-> cmd.request, status |-> "pending"]
<1>1. /\ new.address = cmd.address /\ new.request = cmd.request /\ new.status # "pass"
      /\ requests' = Append(requests, new) /\ UNCHANGED <<indexed, verified>>
      /\ cmd.address \in indexed
  BY DEF Accept, Acceptable
<1> HIDE DEF new
<1>4. requests \in Seq(Members(requests))
  BY DEF VInv, Shapes
<1>2. /\ requests' \in Seq(Members(requests'))
      /\ DOMAIN requests' = (DOMAIN requests) \cup {Len(requests) + 1}
      /\ requests'[Len(requests) + 1] = new
      /\ \A i \in DOMAIN requests : requests'[i] = requests[i]
  BY <1>1, <1>4, Grown, SMT
<1>3. Judged'
  BY <1>1, <1>2 DEF VInv, Judged, Passes
<1> QED BY <1>1, <1>2, <1>3

LEMMA PostStep == VInv /\ (Post \/ PostFails \/ Refused) => VInv'
<1> SUFFICES ASSUME VInv PROVE Post \/ PostFails \/ Refused => VInv'
  OBVIOUS
<1>1. ASSUME Post PROVE VInv'
  <2>1. /\ pc = "post" /\ pc' = "poll" /\ Accept /\ chain' = chain
        /\ cmd' = [cmd EXCEPT !.guid = Len(requests) + 1]
    BY <1>1 DEF Post
  <2>2. Shapes' /\ cmd'.name = cmd.name /\ cmd'.request = cmd.request
        /\ cmd'.address = cmd.address /\ cmd'.guid = Len(requests) + 1
    BY <2>1, AcceptStep DEF VInv, Shapes
  <2>3. Asked'
    BY <2>1, <2>2, AcceptStep DEF VInv, Asked
  <2> QED BY <2>1, <2>2, <2>3, AcceptStep DEF VInv, ReportedVerified
<1>2. ASSUME PostFails PROVE VInv'
  <2>1. pc' = "done" /\ chain' = chain /\ cmd'.report # "verified"
        /\ \E op : cmd' = NewCommand(op, Absent, Unknown)
    BY <1>2 DEF PostFails, Throw, End, NewCommand
  <2>2. CASE Accept
    BY <2>1, <2>2, AcceptStep DEF VInv, Shapes, Asked, ReportedVerified, NewCommand
  <2>3. CASE UNCHANGED etherscan
    BY <2>1, <2>3, LocalStep DEF etherscan, NewCommand
  <2> QED BY <1>2, <2>2, <2>3 DEF PostFails
<1>3. ASSUME Refused PROVE VInv'
  <2>1. Refusal # "verified"
    BY DEF Refusal
  <2> QED BY <1>3, <2>1, EndStep DEF Refused, Throw, etherscan
<1> QED BY <1>1, <1>2, <1>3

\* A success is one that Etherscan has given to the request of the command.
LEMMA PollStep == VInv /\ (Poll \/ PollFails) => VInv'
<1> SUFFICES ASSUME VInv PROVE Poll \/ PollFails => VInv'
  OBVIOUS
<1>1. ASSUME PollFails PROVE VInv'
  BY <1>1, EndStep DEF PollFails, Throw, etherscan
<1>2. ASSUME Poll PROVE VInv'
  <2>1. pc = "poll" /\ UNCHANGED <<chain, indexed, requests, verified>>
    BY <1>2 DEF Poll, etherscan
  <2>2. CASE requests[cmd.guid].status # "pass"
    BY <1>2, <2>1, <2>2, EndStep DEF Poll
  <2>3. CASE requests[cmd.guid].status = "pass"
    <3>1. pc' = "done" /\ cmd' = Renewed(cmd.intent, "verified")
      BY <1>2, <2>3 DEF Poll, Respond, End
    <3>2. Shapes' /\ cmd'.name = cmd.name /\ cmd'.address = cmd.address
      BY <2>1, <3>1 DEF VInv, Shapes, Renewed
    <3>3. Judged'
      BY <2>1 DEF VInv, Judged, Passes
    <3>4. /\ cmd.guid \in DOMAIN requests /\ requests[cmd.guid].address = cmd.address
          /\ requests[cmd.guid].request.contract = cmd.name
          /\ cmd.address \in verified
          /\ Passes(cmd.address, requests[cmd.guid].request)
      BY <2>1, <2>3 DEF VInv, Asked, Judged
    <3>5. ReportedVerified'
      BY <2>1, <3>2, <3>4 DEF ReportedVerified, Passes
    <3> QED BY <3>1, <3>2, <3>3, <3>5 DEF VInv, Asked
  <2> QED BY <2>2, <2>3
<1> QED BY <1>1, <1>2

LEMMA ProcessStep == ASSUME VInv, NEW j, Process(j) PROVE VInv'
<1> DEFINE judged == [address |-> requests[j].address, request |-> requests[j].request,
                      status |-> IF Passes(requests[j].address, requests[j].request)
                                 THEN "pass" ELSE "fail"]
<1>1. /\ judged.address = requests[j].address /\ judged.request = requests[j].request
      /\ judged.status = "pass" => Passes(requests[j].address, requests[j].request)
      /\ j \in DOMAIN requests /\ requests' = [requests EXCEPT ![j] = judged]
      /\ UNCHANGED <<chain, indexed, pc, cmd>> /\ verified \subseteq verified'
      /\ judged.status = "pass" => requests[j].address \in verified'
  BY DEF Process, command
<1> HIDE DEF judged
<1>2. /\ DOMAIN requests' = DOMAIN requests
      /\ \A i \in DOMAIN requests : requests'[i] = IF i = j THEN judged ELSE requests[i]
  BY <1>1 DEF VInv, Shapes
<1>3. \A i \in DOMAIN requests : /\ requests'[i].address = requests[i].address
                                 /\ requests'[i].request = requests[i].request
  BY <1>1, <1>2
<1>4. requests' \in Seq(Members(requests'))
  <2> PICK n \in Nat : DOMAIN requests = 1 .. n /\ Len(requests) = n
    BY DEF VInv, Shapes
  <2>1. requests' = [i \in 1 .. n |-> requests'[i]]
    BY <1>1, <1>2 DEF VInv, Shapes
  <2>2. \A i \in 1 .. n : requests'[i] \in Members(requests')
    BY <1>2 DEF Members
  <2>3. [i \in 1 .. n |-> requests'[i]] \in [1 .. n -> Members(requests')]
    BY <2>2
  <2> QED BY <2>1, <2>3
<1>5. Shapes'
  BY <1>1, <1>4 DEF VInv, Shapes
<1>6. Judged'
  BY <1>1, <1>2, <1>3 DEF VInv, Judged, Passes
<1>7. Asked'
  BY <1>1, <1>2, <1>3 DEF VInv, Asked
<1>8. ReportedVerified'
  BY <1>1, <1>2, <1>3 DEF VInv, ReportedVerified, Passes
<1> QED BY <1>5, <1>6, <1>7, <1>8 DEF VInv

\* What happens besides the command.
LEMMA OthersStep ==
    ASSUME VInv, Recompile \/ (\E a \in Addresses : Index(a)) \/ UNCHANGED vars
    PROVE  VInv'
<1>1. /\ UNCHANGED <<chain, requests, verified, pc, cmd>> /\ indexed' \subseteq indexed \cup DOMAIN chain
  BY DEF Recompile, Index, vars, etherscan, command
<1> QED BY <1>1 DEF VInv, Shapes, Judged, Asked, ReportedVerified, Passes

\* A success that is reported is one: the contract is shown as verified, for
\* complete sources of the right contract that compile to the code at the address,
\* however builds, requests and answers were mixed up meanwhile (verifier.ts).
THEOREM SuccessIsVerified == Spec => []ReportedVerified
<1>1. VInv /\ [Next]_vars => VInv'
  <2> SUFFICES ASSUME VInv, [Next]_vars PROVE VInv'
    OBVIOUS
  <2>1. CASE Proceed
    BY <2>1, FilesStep, DeployStep, PrepareStep, PostStep, PollStep DEF Proceed
  <2>2. CASE DeployFails \/ Kill
    BY <2>2, FailStep DEF DeployFails, Kill
  <2>3. CASE NoVerifier \/ PostFails \/ PollFails
    BY <2>3, PrepareStep, PostStep, PollStep
  <2>4. CASE \E j \in 1 .. MaxRequests : Process(j)
    BY <2>4, ProcessStep
  <2> QED BY <2>1, <2>2, <2>3, <2>4, BeginStep, OthersStep DEF Next
<1>2. VInv => ReportedVerified
  BY DEF VInv
<1> QED BY <1>1, <1>2, InitialInvariant, PTL DEF Spec

-----------------------------------------------------------------------------
\* What the types rest on: the command's contract, the room on the chain that it found,
\* the requests that Etherscan takes for contracts it knows.
Searching == pc \in {"deploy", "verify", "post", "poll"}
Placed == /\ dir \in Compiled
          /\ \A j \in DOMAIN requests : requests[j].address \in indexed
          /\ Searching => cmd.name \in Contracts /\ cmd.op \in {"deploy", "verify"}
          /\ pc = "deploy" /\ output[cmd.name] = Unknown => Len(chain) < MaxDeploys
          /\ pc = "extract" => cmd.op \in {"extract", "extractOne"}
          /\ pc = "check" => cmd.op = "check"

\* The files that have been looked at: their artifacts are those of the build-info.
Gathered == pc \in {"extract", "check"} /\ cmd.op # "extractOne" /\ quiet =>
               /\ cmd.name = Absent
               /\ \A f \in Files(dir) : f \in queue \/ artifacts[f] = Artifact(dir, f)

TInv == TypeOK /\ Placed /\ Gathered /\ ArtifactsMatch

LEMMA CompiledDirectories == Compiled \subseteq Directories /\ \A d \in Compiled : Files(d) \subseteq FileNames
BY VerificationAssumption DEF Compiled, Directories, Files

LEMMA CommandTypes ==
    /\ \A op \in {"none", "extract", "extractOne", "check", "deploy", "verify"},
          name \in Contracts \cup {Absent}, address \in Addresses \cup {Unknown} :
             NewCommand(op, name, address) \in Commands
    /\ TypeOK => \A intent \in 1 .. 3, report \in {"none", "verified", "bytecode missing"} :
             Renewed(intent, report) \in Commands
<1>1. 0 \in 0 .. MaxRequests /\ 1 \in 1 .. 3
  BY VerificationAssumption
<1> QED BY <1>1 DEF NewCommand, Renewed, Commands, TypeOK, MAX_VERIFICATION_INTENTS

LEMMA InitTypes == Init => TInv
<1> SUFFICES ASSUME Init PROVE TInv
  OBVIOUS
<1>1. NoCommand \in Commands /\ NoCommand.op = "none"
  BY CommandTypes DEF NoCommand, NewCommand, Unknown
<1>2. <<>> \in Seq(Codes) /\ Len(<<>>) = 0 /\ DOMAIN <<>> = {}
      /\ <<>> \in Seq([address : Addresses, request : Requests, status : {"pending", "pass", "fail"}])
  OBVIOUS
<1>3. TypeOK
  BY <1>1, <1>2, CompiledDirectories, VerificationAssumption DEF Init, TypeOK, Labels, Stopped
<1>4. Placed
  BY <1>2 DEF Init, Placed, Searching
<1> QED BY <1>3, <1>4 DEF Init, TInv, Gathered, ArtifactsMatch

\* A command that begins.
LEMMA BeginTypes ==
    ASSUME TInv, \/ \E f \in FileNames \cup {Absent}, n \in Contracts \cup {Absent} : ExtractArtifacts(f, n)
                 \/ CheckArtifacts
                 \/ \E n \in Contracts : DeployAndVerify(n)
                 \/ \E n \in Contracts, a \in Addresses : VerifyContract(n, a)
    PROVE  TInv'
<1>0. /\ UNCHANGED <<files, output, chain, etherscan>> /\ quiet' = TRUE
      /\ \/ /\ pc' = "extract" /\ queue' = Files(dir) /\ cmd' = NewCommand("extract", Absent, Unknown)
         \/ /\ pc' = "extract" /\ queue' \subseteq FileNames
            /\ \E n \in Contracts \cup {Absent} : cmd' = NewCommand("extractOne", n, Unknown)
         \/ /\ pc' = "check" /\ queue' = Files(dir) /\ cmd' = NewCommand("check", Absent, Unknown)
         \/ /\ pc' = "deploy" /\ queue' = {}
            /\ \E n \in Contracts : /\ cmd' = NewCommand("deploy", n, Unknown)
                                    /\ output[n] = Unknown => Len(chain) < MaxDeploys
         \/ /\ pc' = "verify" /\ queue' = {}
            /\ \E n \in Contracts, a \in Addresses : cmd' = NewCommand("verify", n, a)
  <2>1. ASSUME NEW f \in FileNames \cup {Absent}, NEW n \in Contracts \cup {Absent}, ExtractArtifacts(f, n)
        PROVE  /\ UNCHANGED <<files, output, chain, etherscan>> /\ quiet' = TRUE
               /\ pc' = "extract"
               /\ \/ queue' = Files(dir) /\ cmd' = NewCommand("extract", Absent, Unknown)
                  \/ queue' \subseteq FileNames /\ cmd' = NewCommand("extractOne", n, Unknown)
    <3>1. Files(dir) \subseteq FileNames
      BY DEF Files
    <3> QED BY <2>1, <3>1 DEF ExtractArtifacts, Begin
  <2> QED BY <2>1 DEF CheckArtifacts, DeployAndVerify, VerifyContract, Begin
<1>1. TypeOK' /\ cmd'.op \in {"extract", "extractOne", "check", "deploy", "verify"}
  <2>1. cmd' \in Commands
    BY <1>0, CommandTypes
  <2>2. pc' \in Labels /\ pc' \notin {"post", "poll"} /\ queue' \subseteq FileNames
    BY <1>0 DEF Labels, Files
  <2>3. cmd'.op \in {"extract", "extractOne", "check", "deploy", "verify"}
    BY <1>0 DEF NewCommand
  <2> QED BY <1>0, <2>1, <2>2, <2>3 DEF TInv, TypeOK, files, etherscan
<1>2. Placed'
  <2>1. UNCHANGED <<dir, requests, indexed, output, chain>>
    BY <1>0 DEF files, etherscan
  <2> QED BY <1>0, <2>1 DEF TInv, Placed, Searching, NewCommand
<1>3. Gathered'
  <2>1. UNCHANGED <<dir, artifacts>>
    BY <1>0 DEF files
  <2> QED BY <1>0, <2>1 DEF Gathered, NewCommand
<1> QED BY <1>0, <1>1, <1>2, <1>3 DEF TInv, ArtifactsMatch

\* A command that ends, by itself or by an error.
LEMMA EndTypes ==
    ASSUME TInv, UNCHANGED <<files, output, chain, etherscan, quiet>>,
           NEW label \in {"done", "failed"}, NEW report \in {"none", "verified", "bytecode missing"},
           End(label, report),
           label = "done" => \/ Searching
                             \/ pc \in {"extract", "check"} /\ queue = {}
    PROVE  TInv'
<1>1. /\ pc' = label /\ queue' = {} /\ cmd' \in Commands /\ cmd.op \in {"none", "extract", "extractOne", "check", "deploy", "verify"}
      /\ label = "done" => cmd'.op = cmd.op
  <2>1. cmd.intent \in 1 .. 3 /\ cmd.op \in {"none", "extract", "extractOne", "check", "deploy", "verify"}
    BY DEF TInv, TypeOK, Commands, MAX_VERIFICATION_INTENTS
  <2> PICK op \in {"none", cmd.op} : op = IF label = "done" THEN cmd.op ELSE "none"
    OBVIOUS
  <2>2. cmd' = Renewed(cmd.intent, report) \/ cmd' = NewCommand(op, Absent, Unknown)
    BY DEF End
  <2>3. cmd' \in Commands
    <3>1. Renewed(cmd.intent, report) \in Commands
      BY <2>1, CommandTypes DEF TInv
    <3>2. NewCommand(op, Absent, Unknown) \in Commands
      BY <2>1, CommandTypes
    <3> QED BY <2>2, <3>1, <3>2
  <2>4. ASSUME label = "done" PROVE cmd'.op = cmd.op
    <3>1. Renewed(cmd.intent, report).op = cmd.op
      BY DEF Renewed
    <3>2. op = cmd.op /\ NewCommand(op, Absent, Unknown).op = op
      BY <2>4 DEF NewCommand
    <3> QED BY <2>2, <3>1, <3>2
  <2> QED BY <2>1, <2>3, <2>4 DEF End
<1>2. TypeOK' /\ Placed' /\ Gathered'
  BY <1>1 DEF TInv, TypeOK, Placed, Gathered, Searching, files, etherscan, Labels, Stopped
<1>3. ArtifactsMatch'
  <2> SUFFICES ASSUME label = "done", cmd.op \in {"extract", "check"}, quiet
               PROVE  \A f \in Files(dir) : artifacts[f] = Artifact(dir, f)
    BY <1>1 DEF ArtifactsMatch, files
  <2>1. pc \in {"extract", "check"} /\ queue = {}
    BY DEF TInv, Placed, Searching
  <2> QED BY <2>1 DEF TInv, Gathered
<1> QED BY <1>2, <1>3 DEF TInv

LEMMA FailTypes == TInv /\ Fail => TInv'
<1> SUFFICES ASSUME TInv, Fail PROVE TInv'
  OBVIOUS
<1>1. End("failed", "none") /\ UNCHANGED <<files, output, chain, etherscan, quiet>>
  BY DEF Fail
<1> QED BY <1>1, EndTypes

\* A step with the files of a task.
LEMMA FilesTypes ==
    ASSUME TInv, ExtractFile \/ EndOfFiles \/ CheckFile \/ EndOfCheck
    PROVE  TInv'
<1>1. CASE Fail
  BY <1>1, FailTypes
<1>2. CASE EndOfFiles \/ EndOfCheck
  BY <1>2, EndTypes DEF EndOfFiles, EndOfCheck
<1>3. ASSUME pc \in {"extract", "check"}, queue # {} PROVE NextFile \in queue /\ NextFile \in FileNames
  BY <1>3, FirstFile DEF TInv, TypeOK, NextFile
<1>4. ASSUME ~Fail, ExtractFile PROVE TInv'
  <2> DEFINE file == NextFile
             name == Extracted
             written == Written(name, file)
  <2>1. /\ pc = "extract" /\ written # Error
        /\ artifacts' = [artifacts EXCEPT ![name] = written]
        /\ queue' = queue \ {file} /\ file \in queue /\ file \in FileNames
        /\ UNCHANGED <<dir, compilations, output, chain, etherscan, pc, cmd, quiet>>
    BY <1>3, <1>4 DEF ExtractFile
  <2>2. written \in Codes /\ written = ArtifactIn(dir, name, file)
    BY <2>1, ArtifactType DEF Written, TInv, TypeOK
  <2>3. name \in Contracts \cup FileNames /\ (cmd.name = Absent => name = file)
    BY <2>1 DEF Extracted, TInv, TypeOK, Commands
  <2> HIDE DEF file, name, written
  <2>4. TypeOK'
    BY <2>1, <2>2 DEF TInv, TypeOK, etherscan
  <2>5. Placed'
    BY <2>1 DEF TInv, Placed, Searching, etherscan
  <2>6. Gathered'
    <3> SUFFICES ASSUME cmd.op # "extractOne", quiet, NEW f \in Files(dir), f \notin queue'
                 PROVE  artifacts'[f] = Artifact(dir, f)
      BY <2>1 DEF TInv, Gathered
    <3>1. cmd.name = Absent /\ (f \in queue \/ artifacts[f] = Artifact(dir, f))
      BY <2>1 DEF TInv, Gathered
    <3>2. name = file
      BY <2>3, <3>1
    <3>3. f \in Contracts \cup FileNames /\ DOMAIN artifacts = Contracts \cup FileNames
      BY DEF Files, TInv, TypeOK
    <3>4. CASE f = file
      <4>1. artifacts'[f] = written
        BY <2>1, <3>2, <3>3, <3>4
      <4> QED BY <2>2, <3>2, <3>4, <4>1 DEF Artifact
    <3>5. CASE f # file
      BY <2>1, <3>1, <3>2, <3>3, <3>5
    <3> QED BY <3>4, <3>5
  <2> QED BY <2>1, <2>4, <2>5, <2>6 DEF TInv, ArtifactsMatch
<1>5. ASSUME ~Fail, CheckFile PROVE TInv'
  <2> DEFINE file == NextFile
             expected == ArtifactIn(dir, file, file)
  <2>1. /\ pc = "check" /\ artifacts[file] = expected
        /\ queue' = queue \ {file} /\ file \in queue
        /\ UNCHANGED <<files, output, chain, etherscan, pc, cmd, quiet>>
    BY <1>3, <1>5 DEF CheckFile
  <2>2. artifacts[file] = Artifact(dir, file)
    BY <2>1 DEF Artifact
  <2> HIDE DEF file, expected
  <2>3. TypeOK' /\ Placed'
    BY <2>1 DEF TInv, TypeOK, Placed, Searching, etherscan, files
  <2>4. Gathered'
    BY <2>1, <2>2 DEF TInv, Gathered, files
  <2> QED BY <2>1, <2>3, <2>4 DEF TInv, ArtifactsMatch
<1> QED BY <1>1, <1>2, <1>4, <1>5

LEMMA DeployTypes == ASSUME TInv, Deploy \/ Reuse PROVE TInv'
<1>1. CASE Fail
  BY <1>1, FailTypes
<1>2. ASSUME NEW a, cmd' = [cmd EXCEPT !.address = a], a \in Addresses PROVE cmd' \in Commands
  BY <1>2 DEF TInv, TypeOK, Commands
<1>3. ASSUME ~Fail, Deploy PROVE TInv'
  <2> DEFINE code == Artifact(dir, cmd.name)
             a == Len(chain) + 1
  <2>1. /\ pc = "deploy" /\ output[cmd.name] = Unknown /\ code # Error
        /\ chain' = Append(chain, code)
        /\ output' = [output EXCEPT ![cmd.name] = a]
        /\ cmd' = [cmd EXCEPT !.address = a] /\ pc' = "verify"
        /\ UNCHANGED <<files, etherscan, queue, quiet>>
    BY <1>3 DEF Deploy
  <2>2. code \in Codes
    BY <2>1, ArtifactType DEF Artifact, TInv, TypeOK
  <2>3. Len(chain) < MaxDeploys /\ a \in Addresses /\ chain \in Seq(Codes) /\ DOMAIN chain = 1 .. Len(chain)
    BY <2>1, VerificationAssumption DEF TInv, TypeOK, Placed, Searching, Addresses
  <2>4. /\ chain' \in Seq(Codes) /\ Len(chain') = a /\ Len(chain') <= MaxDeploys
        /\ DOMAIN chain' = (DOMAIN chain) \cup {a}
    <3> HIDE DEF code
    <3>1. chain' \in Seq(Codes) /\ Len(chain') = Len(chain) + 1
      BY <2>1, <2>2, <2>3
    <3>2. Len(chain) \in Nat /\ DOMAIN chain' = 1 .. Len(chain')
      BY <2>3, <3>1
    <3> QED BY <2>3, <3>1, <3>2, VerificationAssumption
  <2> HIDE DEF code, a
  <2>5. cmd' \in Commands
    BY <1>2, <2>1, <2>3
  <2>6. output' \in [Contracts -> (DOMAIN chain') \cup {Unknown}]
    BY <2>1, <2>4 DEF TInv, TypeOK
  <2>7. TypeOK'
    BY <2>1, <2>4, <2>5, <2>6 DEF TInv, TypeOK, files, etherscan, Labels
  <2>8. Placed'
    <3>1. cmd'.name = cmd.name /\ cmd'.op = cmd.op
      BY <2>1 DEF TInv, TypeOK, Commands
    <3> QED BY <2>1, <3>1 DEF TInv, Placed, Searching, files, etherscan
  <2> QED BY <2>1, <2>7, <2>8 DEF TInv, Gathered, ArtifactsMatch
<1>4. ASSUME ~Fail, Reuse PROVE TInv'
  <2> DEFINE a == output[cmd.name]
  <2>1. /\ pc = "deploy" /\ a # Unknown
        /\ cmd' = [cmd EXCEPT !.address = a] /\ pc' = "verify"
        /\ UNCHANGED <<files, output, chain, etherscan, queue, quiet>>
    BY <1>4 DEF Reuse
  <2>2. a \in Addresses
    <3>1. cmd.name \in Contracts
      BY <2>1 DEF TInv, Placed, Searching
    <3>2. a \in DOMAIN chain /\ DOMAIN chain = 1 .. Len(chain) /\ Len(chain) \in Nat /\ Len(chain) <= MaxDeploys
      BY <2>1, <3>1 DEF TInv, TypeOK
    <3> QED BY <3>2, VerificationAssumption DEF Addresses
  <2> HIDE DEF a
  <2>3. cmd' \in Commands /\ cmd'.name = cmd.name /\ cmd'.op = cmd.op
    BY <1>2, <2>1, <2>2 DEF TInv, TypeOK, Commands
  <2>4. TypeOK'
    BY <2>1, <2>3 DEF TInv, TypeOK, files, etherscan, Labels
  <2>5. Placed'
    BY <2>1, <2>3 DEF TInv, Placed, Searching, files, etherscan
  <2> QED BY <2>1, <2>4, <2>5 DEF TInv, Gathered, ArtifactsMatch
<1> QED BY <1>1, <1>3, <1>4

\* A request is one of the sources of a build.
LEMMA RequestIs ==
    ASSUME dir \in Compiled, NEW n \in Contracts, NEW code, Request(n, code) # Error
    PROVE  Request(n, code) \in Requests
<1> DEFINE build == BuildWith(dir, n)
           source == First(SourceOrder, Defining(build, n))
<1>1. FilesDefining(dir, n) # {}
  BY DEF Request
<1>2. First(FileOrder, FilesDefining(dir, n)) \in FilesDefining(dir, n)
  BY <1>1, FirstFile DEF FilesDefining, Files
<1>3. build \in Compilations /\ Defining(build, n) # {}
  BY <1>2 DEF FilesDefining, Files, Compiled, BuildWith
<1>4. build \in Builds /\ Closed(Imports, build.sources)
  BY <1>3, VerificationAssumption
<1>5. source \in Defining(build, n)
  <2>1. Defining(build, n) \subseteq Sources
    BY <1>4 DEF Defining, Builds
  <2> QED BY <1>3, <2>1, FirstSource
<1>6. Request(n, code) = [contract |-> n, source |-> source, version |-> build.version,
                          sources |-> TrimmedFor[build][source]]
  BY <1>1 DEF Request
<1> HIDE DEF source, build
<1>7. source \in build.sources /\ source \in Sources /\ build.version \in Versions
  BY <1>4, <1>5 DEF Builds, Defining
<1>8. TrimmedFor[build][source] = Trimmed(build, Imports, source)
  BY <1>3, <1>7 DEF TrimmedFor
<1>9. TrimmedFor[build][source] \in SUBSET Sources
  <2>1. Trimmed(build, Imports, source) \subseteq build.sources
    BY <1>4, <1>7, TrimmedIs
  <2> QED BY <1>4, <1>8, <2>1 DEF Builds
<1> QED BY <1>6, <1>7, <1>9 DEF Requests

LEMMA PrepareTypes == ASSUME TInv, Prepare \/ PrepareFails \/ NoVerifier PROVE TInv'
<1>1. ASSUME Prepare PROVE TInv'
  <2>1. /\ pc = "verify" /\ pc' = "post" /\ Prepared # Error
        /\ cmd' = [cmd EXCEPT !.request = Prepared]
        /\ UNCHANGED <<files, output, chain, etherscan, queue, quiet>>
    BY <1>1 DEF Prepare
  <2>2. Prepared \in Requests
    BY <2>1, RequestIs DEF Prepared, TInv, Placed, Searching
  <2>3. cmd' \in Commands /\ cmd'.name = cmd.name /\ cmd'.op = cmd.op /\ cmd'.request \in Requests
    BY <2>1, <2>2 DEF TInv, TypeOK, Commands
  <2>4. TypeOK'
    BY <2>1, <2>3 DEF TInv, TypeOK, files, etherscan, Labels
  <2>5. Placed'
    BY <2>1, <2>3 DEF TInv, Placed, Searching, files, etherscan
  <2> QED BY <2>1, <2>4, <2>5 DEF TInv, Gathered, ArtifactsMatch
<1>2. ASSUME PrepareFails \/ NoVerifier PROVE TInv'
  <2>1. pc = "verify" /\ UNCHANGED <<files, output, chain, etherscan, quiet>> /\ End("done", "none")
    BY <1>2 DEF PrepareFails, NoVerifier, Throw
  <2> QED BY <2>1, EndTypes DEF Searching
<1> QED BY <1>1, <1>2

\* What Etherscan takes.
LEMMA AcceptTypes ==
    ASSUME TInv, pc = "post", Accept
    PROVE  /\ requests' \in Seq([address : Addresses, request : Requests, status : {"pending", "pass", "fail"}])
           /\ UNCHANGED <<indexed, verified>>
           /\ Len(requests) + 1 \in DOMAIN requests' /\ Len(requests) + 1 \in 0 .. MaxRequests
           /\ \A j \in DOMAIN requests' : requests'[j].address \in indexed
<1> DEFINE R == [address : Addresses, request : Requests, status : {"pending", "pass", "fail"}]
           new == [address |-> cmd.address, request |-> cmd.request, status |-> "pending"]
<1>1. /\ requests' = Append(requests, new) /\ UNCHANGED <<indexed, verified>>
      /\ cmd.address \in indexed /\ Len(requests) < MaxRequests
  BY DEF Accept, Acceptable
<1>2. cmd.address \in Addresses
  BY <1>1, VerificationAssumption DEF TInv, TypeOK, Addresses
<1>3. new \in R /\ new.address = cmd.address
  BY <1>2 DEF TInv, TypeOK
<1>4. requests \in Seq(R)
  BY DEF TInv, TypeOK
<1> HIDE DEF R, new
<1>5. requests' \in Seq(R) /\ Len(requests') = Len(requests) + 1 /\ Len(requests) \in Nat
  BY <1>1, <1>3, <1>4
<1>6. \A j \in 1 .. Len(requests) : requests'[j] = requests[j]
  BY <1>1, <1>3, <1>4
<1>7. requests'[Len(requests) + 1] = new
  BY <1>1, <1>3, <1>4
<1>8. DOMAIN requests = 1 .. Len(requests) /\ DOMAIN requests' = 1 .. Len(requests) + 1
  BY <1>4, <1>5
<1>9. \A j \in DOMAIN requests' : requests'[j].address \in indexed
  BY <1>1, <1>3, <1>5, <1>6, <1>7, <1>8 DEF TInv, Placed
<1> QED BY <1>1, <1>5, <1>8, <1>9, VerificationAssumption DEF R

LEMMA PostTypes == ASSUME TInv, Post \/ PostFails \/ Refused PROVE TInv'
<1>1. ASSUME Post PROVE TInv'
  <2> DEFINE g == Len(requests) + 1
  <2>1. /\ pc = "post" /\ pc' = "poll" /\ Accept
        /\ cmd' = [cmd EXCEPT !.guid = g]
        /\ UNCHANGED <<files, output, chain, queue, quiet>>
    BY <1>1 DEF Post
  <2>2. /\ requests' \in Seq([address : Addresses, request : Requests, status : {"pending", "pass", "fail"}])
        /\ UNCHANGED <<indexed, verified>>
        /\ g \in DOMAIN requests' /\ g \in 0 .. MaxRequests
        /\ \A j \in DOMAIN requests' : requests'[j].address \in indexed
    BY <2>1, AcceptTypes
  <2> HIDE DEF g
  <2>3. cmd' \in Commands /\ cmd'.name = cmd.name /\ cmd'.op = cmd.op /\ cmd'.guid = g
    BY <2>1, <2>2 DEF TInv, TypeOK, Commands
  <2>4. TypeOK'
    BY <2>1, <2>2, <2>3 DEF TInv, TypeOK, files, Labels
  <2>5. Placed'
    BY <2>1, <2>2, <2>3 DEF TInv, Placed, Searching, files
  <2> QED BY <2>1, <2>4, <2>5 DEF TInv, Gathered, ArtifactsMatch
<1>2. ASSUME PostFails, Accept PROVE TInv'
  <2>1. pc = "post" /\ pc' = "done" /\ queue' = {} /\ UNCHANGED <<files, output, chain, quiet>>
        /\ cmd' = NewCommand(cmd.op, Absent, Unknown)
    BY <1>2 DEF PostFails, Throw, End
  <2>2. cmd.op \in {"deploy", "verify"}
    BY <2>1 DEF TInv, Placed, Searching
  <2>3. cmd' \in Commands /\ cmd'.op = cmd.op
    <3>1. NewCommand(cmd.op, Absent, Unknown).op = cmd.op
      BY DEF NewCommand
    <3> QED BY <2>1, <2>2, <3>1, CommandTypes
  <2>4. /\ requests' \in Seq([address : Addresses, request : Requests, status : {"pending", "pass", "fail"}])
        /\ UNCHANGED <<indexed, verified>>
        /\ \A j \in DOMAIN requests' : requests'[j].address \in indexed
    BY <1>2, <2>1, AcceptTypes
  <2>5. TypeOK'
    BY <2>1, <2>3, <2>4 DEF TInv, TypeOK, files, Labels, Stopped
  <2>6. Placed' /\ Gathered' /\ ArtifactsMatch'
    BY <2>1, <2>2, <2>3, <2>4 DEF TInv, Placed, Searching, files, Gathered, ArtifactsMatch
  <2> QED BY <2>5, <2>6 DEF TInv
<1>3. ASSUME (PostFails /\ UNCHANGED etherscan) \/ Refused PROVE TInv'
  <2>1. /\ pc = "post" /\ UNCHANGED <<files, output, chain, etherscan, quiet>>
        /\ \E report \in {"none", "bytecode missing"} : End("done", report)
    BY <1>3 DEF PostFails, Refused, Throw, Refusal
  <2> QED BY <2>1, EndTypes DEF Searching
<1> QED BY <1>1, <1>2, <1>3 DEF PostFails

LEMMA PollTypes == ASSUME TInv, Poll \/ PollFails PROVE TInv'
<1>1. /\ pc = "poll" /\ UNCHANGED <<files, output, chain, etherscan, quiet>>
      /\ \E report \in {"none", "verified"} : End("done", report)
  BY DEF Poll, PollFails, Throw, Respond
<1> QED BY <1>1, EndTypes DEF Searching

\* What happens besides the command.
LEMMA RecompileTypes == ASSUME TInv, Recompile PROVE TInv'
<1>1. /\ dir' \in Compiled /\ quiet' = FALSE /\ compilations' = compilations + 1
      /\ compilations < MaxCompilations
      /\ UNCHANGED <<artifacts, output, chain, etherscan, pc, cmd, queue>>
  BY DEF Recompile, command
<1>2. compilations' \in 0 .. MaxCompilations /\ dir' \in Directories
  BY <1>1, CompiledDirectories, VerificationAssumption DEF TInv, TypeOK
<1>3. TypeOK'
  BY <1>1, <1>2 DEF TInv, TypeOK, etherscan
<1> QED BY <1>1, <1>3 DEF TInv, Placed, Searching, Gathered, ArtifactsMatch, etherscan

LEMMA IndexTypes == ASSUME TInv, NEW a, Index(a) PROVE TInv'
<1>1. /\ a \in DOMAIN chain /\ indexed' = indexed \cup {a}
      /\ UNCHANGED <<files, output, chain, requests, verified, pc, cmd, queue, quiet>>
  BY DEF Index, command
<1>2. TypeOK'
  BY <1>1 DEF TInv, TypeOK, files
<1> QED BY <1>1, <1>2 DEF TInv, Placed, Searching, Gathered, ArtifactsMatch, files

LEMMA ProcessTypes == ASSUME TInv, NEW j, Process(j) PROVE TInv'
<1> DEFINE R == [address : Addresses, request : Requests, status : {"pending", "pass", "fail"}]
           judged == [address |-> requests[j].address, request |-> requests[j].request,
                      status |-> IF Passes(requests[j].address, requests[j].request)
                                 THEN "pass" ELSE "fail"]
<1>1. /\ j \in DOMAIN requests /\ requests' = [requests EXCEPT ![j] = judged]
      /\ UNCHANGED <<files, output, chain, indexed, pc, cmd, queue, quiet>>
      /\ verified' \subseteq verified \cup {requests[j].address}
  BY DEF Process, command
<1>2. requests \in Seq(R) /\ requests[j] \in R
  <2>1. requests \in Seq(R)
    BY DEF TInv, TypeOK
  <2> HIDE DEF R
  <2> QED BY <1>1, <2>1
<1>3. judged \in R /\ judged.address = requests[j].address
  BY <1>2
<1> HIDE DEF R, judged
<1>4. requests' \in Seq(R) /\ DOMAIN requests' = DOMAIN requests
      /\ \A i \in DOMAIN requests : requests'[i].address = requests[i].address
  BY <1>1, <1>2, <1>3
<1>5. verified' \subseteq indexed
  BY <1>1 DEF TInv, TypeOK, Placed
<1>6. TypeOK'
  BY <1>1, <1>4, <1>5 DEF TInv, TypeOK, files, R
<1> QED BY <1>1, <1>4, <1>6 DEF TInv, Placed, Searching, Gathered, ArtifactsMatch, files

LEMMA TypesKept == TInv /\ [Next]_vars => TInv'
<1> SUFFICES ASSUME TInv, [Next]_vars PROVE TInv'
  OBVIOUS
<1>1. CASE Proceed
  BY <1>1, FilesTypes, DeployTypes, PrepareTypes, PostTypes, PollTypes DEF Proceed
<1>2. CASE DeployFails \/ Kill
  BY <1>2, FailTypes DEF DeployFails, Kill
<1>3. CASE NoVerifier \/ PostFails \/ PollFails
  BY <1>3, PrepareTypes, PostTypes, PollTypes
<1>4. CASE Recompile \/ (\E a \in Addresses : Index(a)) \/ \E j \in 1 .. MaxRequests : Process(j)
  BY <1>4, RecompileTypes, IndexTypes, ProcessTypes
<1>5. CASE UNCHANGED vars
  BY <1>5 DEF vars, files, etherscan, command, TInv, TypeOK, Placed, Searching, Gathered, ArtifactsMatch
<1> QED BY <1>1, <1>2, <1>3, <1>4, <1>5, BeginTypes DEF Next

LEMMA Typed == Spec => []TInv
BY InitTypes, TypesKept, PTL DEF Spec

\* The state keeps its types: whatever fails, is replaced, lost or killed, the output
\* points to a contract that is there, and the command polls a request that was made.
THEOREM TypeCorrect == Spec => []TypeOK
BY Typed, PTL DEF TInv

\* Artifacts that were all extracted, or all checked, from build-info that stayed the
\* same are what the task deploys, whatever other runs have left (artifact.ts).
THEOREM ArtifactsAreOfBuildInfo == Spec => []ArtifactsMatch
BY Typed, PTL DEF TInv

\* Whatever builds there are: where base names are unambiguous, exactly the sources
\* that are needed are submitted, however they import each other (verifier.ts).
THEOREM SubmittedExactly == Spec => []TrimmedExactly
<1>1. Placed => TrimmedExactly
  <2> SUFFICES ASSUME Placed, NEW f \in Files(dir) PROVE dir[f] \in TrimmedWell
    BY DEF TrimmedExactly
  <2>1. dir[f] \in Compilations /\ dir[f] \in Builds
    BY VerificationAssumption DEF Placed, Compiled, Files
  <2>2. \A imports \in [dir[f].sources -> SUBSET dir[f].sources] : \A s \in dir[f].sources :
           ExactFor(imports, dir[f], s)
    BY <2>1, Exact
  <2> QED BY <2>1, <2>2 DEF TrimmedWell
<1> QED BY <1>1, Typed, PTL DEF TInv

\* The one file that has a contract is where all its artifacts come from.
LEMMA OnlyBuild ==
    ASSUME NEW d \in Compiled, NEW n \in Contracts, Cardinality(FilesDefining(d, n)) = 1,
           \A s \in BuildWith(d, n).sources : ~Ambiguous(BuildWith(d, n), s),
           Artifact(d, n) # Error
    PROVE  /\ FilesDefining(d, n) # {} /\ BuildWith(d, n) \in Compilations
           /\ \E source \in BuildWith(d, n).sources :
                 /\ Defining(BuildWith(d, n), n) = {source}
                 /\ Artifact(d, n) = ArtifactFrom(BuildWith(d, n), source)
<1>1. PICK f : FilesDefining(d, n) = {f}
  <2>1. IsFiniteSet(FilesDefining(d, n))
    <3> PICK N \in Nat : N = Len(FileOrder)
      BY BuildInfoAssumption
    <3>1. FileOrder \in Surjection(1 .. N, FileNames)
      <4>1. FileOrder \in [1 .. N -> FileNames] /\ DOMAIN FileOrder = 1 .. N
        BY BuildInfoAssumption
      <4> QED BY <4>1 DEF Surjection, FileNames
    <3>2. ExistsSurjection(1 .. N, FileNames)
      BY <3>1 DEF ExistsSurjection
    <3>3. IsFiniteSet(FileNames)
      BY <3>2, FS_NatSurjection
    <3>4. FilesDefining(d, n) \in SUBSET FileNames
      BY DEF FilesDefining, Files
    <3> QED BY <3>3, <3>4, FS_Subset
  <2> QED BY <2>1, FS_Singleton
<1>2. f \in Files(d) /\ f \in FileNames /\ Defining(d[f], n) # {}
  BY <1>1 DEF FilesDefining, Files
<1>3. First(FileOrder, FilesDefining(d, n)) = f
  <2>1. First(FileOrder, {f}) \in {f}
    BY <1>2, FirstFile
  <2> QED BY <1>1, <2>1
<1>4. BuildWith(d, n) = d[f] /\ d[f] \in Compilations /\ d[f] \in Builds
  BY <1>2, <1>3, VerificationAssumption DEF BuildWith, Compiled, Files
<1> PICK source : source = First(SourceOrder, Defining(d[f], n))
  OBVIOUS
<1>5. source \in Defining(d[f], n)
  <2>1. Defining(d[f], n) \subseteq Sources
    BY <1>4 DEF Defining, Builds
  <2> QED BY <1>2, <2>1, FirstSource
<1>6. Defining(d[f], n) = {source}
  <2>1. ASSUME NEW s \in Defining(d[f], n) PROVE s = source
    BY <1>4, <1>5 DEF Defining, Ambiguous
  <2> QED BY <1>5, <2>1
<1>7. Artifact(d, n) = ArtifactFrom(d[f], source)
  <2>1. CASE n \in Files(d)
    <3>1. Artifact(d, n) = OfBuild(d[n], n)
      BY <2>1 DEF Artifact, ArtifactIn
    <3>2. Defining(d[n], n) # {}
      BY <3>1 DEF OfBuild
    <3>3. n = f
      BY <1>1, <2>1, <3>2 DEF FilesDefining
    <3> QED BY <3>1, <3>2, <3>3 DEF OfBuild
  <2>2. CASE n \notin Files(d)
    <3>1. Artifact(d, n) = OfMergedBuilds(d, n) /\ FilesDefining(d, n) # {}
      BY <1>1, <2>2 DEF Artifact, ArtifactIn
    <3>2. Artifact(d, n) = ArtifactFrom(d[LastFile(d, source)], source)
      BY <1>3, <3>1 DEF OfMergedBuilds
    <3>3. /\ LastFile(d, source) \in Files(d)
          /\ source \in d[LastFile(d, source)].sources
      BY <1>2, <1>5, LastHasIt DEF Defining
    <3>4. LastFile(d, source) \in FilesDefining(d, n)
      BY <1>5, <3>3 DEF FilesDefining, Defining
    <3> QED BY <1>1, <3>2, <3>4
  <2> QED BY <2>1, <2>2
<1> QED BY <1>1, <1>4, <1>5, <1>6, <1>7 DEF Defining

\* Without ambiguity, what is submitted is enough.
LEMMA SubmittedSuffices ==
    ASSUME NEW b \in Compilations, NEW s \in b.sources, \A t \in b.sources : ~Ambiguous(b, t)
    PROVE  NeededFor[s] \subseteq TrimmedFor[b][s]
<1> PICK T : T = Trimmed(b, Imports, s)
  OBVIOUS
<1>1. b \in Builds /\ Closed(Imports, b.sources) /\ b.sources \subseteq Sources
      /\ DOMAIN Imports = Sources /\ Closed(Imports, Sources)
  BY VerificationAssumption DEF Builds, Closed
<1>2. TrimmedFor[b][s] = T /\ NeededFor[s] = Needed(Imports, s)
  BY <1>1 DEF TrimmedFor, NeededFor
<1>3. T \subseteq b.sources /\ s \in T /\ \A t \in T : \A i \in Imports[t] : GuessedSource(b, i) \in T
  BY <1>1, TrimmedIs
<1>4. Closed(Imports, T)
  <2>1. ASSUME NEW t \in T, NEW i \in Imports[t] PROVE i \in T
    <3>1. i \in b.sources
      BY <1>1, <1>3 DEF Closed
    <3>2. GuessedSource(b, i) = i
      BY <1>1, <3>1, GuessedIs
    <3> QED BY <1>3, <3>2
  <2> QED BY <2>1 DEF Closed
<1>5. T \in SUBSET Sources
  BY <1>1, <1>3
<1> QED BY <1>1, <1>2, <1>3, <1>4, <1>5, NeededIs

\* The artifact that was deployed and the sources that the verifier finds in its own
\* way agree, where one file and no ambiguous name can be found (task.ts, verifier.ts).
THEOREM DeployedCanBeVerified == Spec => []DeployedVerifiable
<1>1. TInv => DeployedVerifiable
  <2> SUFFICES ASSUME TInv, NEW n \in Contracts, output[n] # Unknown, chain[output[n]] = Artifact(dir, n),
                      Cardinality(FilesDefining(dir, n)) = 1,
                      \A s \in BuildWith(dir, n).sources : ~Ambiguous(BuildWith(dir, n), s)
               PROVE  LET request == Request(n, chain[output[n]])
                      IN  request # Error /\ Passes(output[n], request)
    BY DEF DeployedVerifiable
  <2> PICK a, b, code : a = output[n] /\ b = BuildWith(dir, n) /\ code = chain[output[n]]
    OBVIOUS
  <2>1. code \in Codes /\ dir \in Compiled
    BY DEF TInv, TypeOK, Placed
  <2>2. code # Error
    <3>1. DOMAIN code = {"source", "version"} /\ DOMAIN Error = {"error"}
      BY <2>1 DEF Codes, Error
    <3> QED BY <3>1
  <2>3. FilesDefining(dir, n) # {} /\ b \in Compilations
    BY <2>1, <2>2, OnlyBuild
  <2>4. PICK source \in b.sources : Defining(b, n) = {source} /\ code = ArtifactFrom(b, source)
    BY <2>1, <2>2, OnlyBuild
  <2>5. First(SourceOrder, Defining(b, n)) = source
    <3>1. source \in Sources
      BY <2>3, VerificationAssumption DEF Builds
    <3>2. First(SourceOrder, {source}) \in {source}
      BY <3>1, FirstSource
    <3> QED BY <2>4, <3>2
  <2>6. Cardinality(Defining(b, n)) = 1
    BY <2>4, FS_Singleton
  <2>7. Request(n, code) = [contract |-> n, source |-> source, version |-> b.version,
                            sources |-> TrimmedFor[b][source]]
    BY <2>3, <2>4, <2>5, <2>6 DEF Request
  <2> PICK r : r = Request(n, code)
    OBVIOUS
  <2>8. r # Error /\ r.source = source /\ r.version = b.version /\ r.sources = TrimmedFor[b][source]
    <3>1. DOMAIN r = {"contract", "source", "version", "sources"} /\ DOMAIN Error = {"error"}
      BY <2>7 DEF Error
    <3> QED BY <2>7, <3>1
  <2>9. NeededFor[source] \subseteq TrimmedFor[b][source]
    BY <2>3, <2>4, SubmittedSuffices
  <2> QED BY <2>4, <2>8, <2>9 DEF Passes, ArtifactFrom
<1> QED BY <1>1, Typed, PTL
=============================================================================
