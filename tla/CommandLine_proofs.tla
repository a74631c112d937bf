------------------------- MODULE CommandLine_proofs -------------------------
(* Proofs about CommandLine, and the Catalogue and Palettes it extends: the  *)
(* type invariant, that a download which was alone has all the cloud has in  *)
(* the file, that rewriting the device file keeps a token the bulb accepts,  *)
(* and what the commands that look for a scene do to those of the bulb.      *)
EXTENDS CommandLine, FiniteSetTheorems, FunctionTheorems, SequenceTheorems, TLAPS

-----------------------------------------------------------------------------
(* Induction, from counting: what would be left out of P, up to a number    *)
(* that is, could be mapped into itself but for that number.                *)

\* A set with 0 and the successor of each of its numbers has every number.
LEMMA Induction ==
  ASSUME NEW P, 0 \in P, \A n \in Nat : n \in P => n + 1 \in P
  PROVE  Nat \subseteq P
<1>1. SUFFICES ASSUME NEW k \in Nat, k \notin P PROVE FALSE
  OBVIOUS
<1>. DEFINE Q == (0 .. k) \ P
            f == [q \in Q |-> q - 1]
<1>2. IsFiniteSet(Q)
  <2>1. IsFiniteSet(0 .. k)
    BY FS_Interval
  <2>2. Q \in SUBSET (0 .. k)
    OBVIOUS
  <2>. QED
    BY <2>1, <2>2, FS_Subset
<1>3. IsFiniteSet(Q \ {k}) /\ Cardinality(Q \ {k}) = Cardinality(Q) - 1
  <2>1. k \in Q
    BY <1>1
  <2>. QED
    BY <1>2, <2>1, FS_RemoveElement
<1>4. f \in [Q -> Q \ {k}]
  <2>1. SUFFICES ASSUME NEW q \in Q PROVE q - 1 \in Q \ {k}
    OBVIOUS
  <2>2. q \in Nat /\ q <= k /\ q # 0
    OBVIOUS
  <2>3. q - 1 \in Nat /\ (q - 1) + 1 = q
    BY <2>2
  <2>4. q - 1 \notin P
    BY <2>1, <2>3
  <2>. QED
    BY <2>2, <2>3, <2>4
<1>5. f \in Injection(Q, Q \ {k})
  BY <1>4 DEF Injection, IsInjective
<1>6. Cardinality(Q) <= Cardinality(Q \ {k})
  BY <1>3, <1>5, FS_Injection
<1>. QED
  BY <1>2, <1>3, <1>6, FS_CardinalityType

-----------------------------------------------------------------------------
(* Orders of finite sets.                                                   *)

\* An order without ties.
StrictOrder(I, R) ==
  /\ \A i \in I : <<i, i>> \notin R
  /\ \A i, j \in I : i # j => <<i, j>> \in R \/ <<j, i>> \in R
  /\ \A i, j, k \in I : <<i, j>> \in R /\ <<j, k>> \in R => <<i, k>> \in R

\* The k-th is one of I, each of I has its place, and the places are in order.
LEMMA NthInOrder ==
  ASSUME NEW I, IsFiniteSet(I), NEW R, StrictOrder(I, R)
  PROVE  /\ Cardinality(I) \in Nat
         /\ \A k \in 1 .. Cardinality(I) : Nth(I, R, k) \in I
         /\ \A i \in I : \E k \in 1 .. Cardinality(I) : Nth(I, R, k) = i
         /\ \A k, l \in 1 .. Cardinality(I) : k < l => <<Nth(I, R, k), Nth(I, R, l)>> \in R
<1>. DEFINE n == Cardinality(I)
            Under(i) == {j \in I : <<j, i>> \in R}
            Rank(i) == Cardinality(Under(i)) + 1
            f == [i \in I |-> Rank(i)]
<1>1. n \in Nat
  BY FS_CardinalityType
<1>2. \A i \in I : Rank(i) \in 1 .. n
  <2>1. SUFFICES ASSUME NEW i \in I PROVE Rank(i) \in 1 .. n
    OBVIOUS
  <2>2. Under(i) \subseteq I \ {i}
    BY DEF StrictOrder
  <2>3. IsFiniteSet(I \ {i}) /\ Cardinality(I \ {i}) = n - 1
    BY FS_RemoveElement
  <2>. HIDE DEF Under
  <2>4. IsFiniteSet(Under(i)) /\ Cardinality(Under(i)) <= n - 1
    BY <2>2, <2>3, FS_Subset
  <2>5. Cardinality(Under(i)) \in Nat
    BY <2>4, FS_CardinalityType
  <2>. QED
    BY <1>1, <2>4, <2>5
<1>3. \A i, j \in I : <<i, j>> \in R => Rank(i) < Rank(j)
  <2>1. SUFFICES ASSUME NEW i \in I, NEW j \in I, <<i, j>> \in R PROVE Rank(i) < Rank(j)
    OBVIOUS
  <2>2. Under(i) \subseteq Under(j) /\ i \in Under(j) /\ i \notin Under(i)
    BY <2>1 DEF StrictOrder
  <2>3. Under(j) \subseteq I
    OBVIOUS
  <2>. HIDE DEF Under
  <2>4. IsFiniteSet(Under(j))
    BY <2>3, FS_Subset
  <2>5. IsFiniteSet(Under(i)) /\ Cardinality(Under(i)) <= Cardinality(Under(j))
        /\ Cardinality(Under(i)) # Cardinality(Under(j))
    BY <2>2, <2>4, FS_Subset
  <2>6. Cardinality(Under(i)) \in Nat /\ Cardinality(Under(j)) \in Nat
    BY <2>4, <2>5, FS_CardinalityType
  <2>. QED
    BY <2>5, <2>6
<1>. HIDE DEF Rank
<1>4. \A i, j \in I : Rank(i) = Rank(j) => i = j
  <2>1. SUFFICES ASSUME NEW i \in I, NEW j \in I, Rank(i) = Rank(j), i # j PROVE FALSE
    OBVIOUS
  <2>2. Rank(i) < Rank(j) \/ Rank(j) < Rank(i)
    BY <1>3, <2>1 DEF StrictOrder
  <2>. QED
    BY <1>1, <1>2, <2>1, <2>2
<1>5. \A k \in 1 .. n : \E i \in I : Rank(i) = k
  <2>1. f \in Injection(I, 1 .. n)
    BY <1>2, <1>4 DEF Injection, IsInjective
  <2>2. IsFiniteSet(1 .. n) /\ Cardinality(1 .. n) = n
    BY <1>1, FS_Interval
  <2>3. f \in Surjection(I, 1 .. n)
    BY <2>1, <2>2, FS_Injection
  <2>. QED
    BY <2>3 DEF Surjection
<1>6. \A k \in 1 .. n : Nth(I, R, k) \in I /\ Rank(Nth(I, R, k)) = k
  <2>1. SUFFICES ASSUME NEW k \in 1 .. n PROVE Nth(I, R, k) \in I /\ Rank(Nth(I, R, k)) = k
    OBVIOUS
  <2>2. PICK i \in I : Rank(i) = k
    BY <1>5
  <2>3. \A j \in I : Rank(j) = k <=> Cardinality(Under(j)) = k - 1
    <3>1. SUFFICES ASSUME NEW j \in I PROVE Rank(j) = k <=> Cardinality(Under(j)) = k - 1
      OBVIOUS
    <3>2. IsFiniteSet(Under(j))
      BY FS_Subset
    <3>3. Cardinality(Under(j)) \in Nat
      BY <3>2, FS_CardinalityType
    <3>. QED
      BY <3>3, <1>1 DEF Rank
  <2>4. Nth(I, R, k) \in I /\ Cardinality(Under(Nth(I, R, k))) = k - 1
    BY <2>2, <2>3 DEF Nth
  <2>. QED
    BY <2>3, <2>4
<1>7. \A i \in I : \E k \in 1 .. n : Nth(I, R, k) = i
  BY <1>2, <1>4, <1>6
<1>8. ASSUME NEW k \in 1 .. n, NEW l \in 1 .. n, k < l PROVE <<Nth(I, R, k), Nth(I, R, l)>> \in R
  <2>1. /\ Nth(I, R, k) \in I /\ Rank(Nth(I, R, k)) = k
        /\ Nth(I, R, l) \in I /\ Rank(Nth(I, R, l)) = l
    BY <1>6
  <2>2. Nth(I, R, k) # Nth(I, R, l)
    BY <1>1, <1>8, <2>1
  <2>3. <<Nth(I, R, l), Nth(I, R, k)>> \notin R
    BY <1>1, <1>3, <1>8, <2>1
  <2>. QED
    BY <2>1, <2>2, <2>3 DEF StrictOrder
<1>. QED
  BY <1>1, <1>6, <1>7, <1>8

\* Numbers in their order.
LEMMA AscendingIsOrder ==
  ASSUME NEW I \in SUBSET Nat
  PROVE  StrictOrder(I, Ascending(I))
BY DEF StrictOrder, Ascending

\* A set of numbers that is not empty has a least one.
LEMMA Least ==
  ASSUME NEW I \in SUBSET Nat, IsFiniteSet(I), I # {}
  PROVE  \E m \in I : \A i \in I : m <= i
<1>. DEFINE n == Cardinality(I)
            At(k) == Nth(I, Ascending(I), k)
<1>1. /\ n \in Nat
      /\ \A k \in 1 .. n : At(k) \in I
      /\ \A i \in I : \E k \in 1 .. n : At(k) = i
      /\ \A k, l \in 1 .. n : k < l => <<At(k), At(l)>> \in Ascending(I)
  BY AscendingIsOrder, NthInOrder
<1>2. \A k, l \in 1 .. n : k < l => At(k) < At(l)
  BY <1>1 DEF Ascending
<1>. HIDE DEF At, n
<1>3. 1 \in 1 .. n
  <2>1. PICK i \in I : TRUE
    OBVIOUS
  <2>2. PICK k \in 1 .. n : At(k) = i
    BY <1>1
  <2>. QED
    BY <1>1, <2>2
<1>4. At(1) \in I /\ \A i \in I : At(1) <= i
  <2>1. SUFFICES ASSUME NEW i \in I PROVE At(1) <= i
    BY <1>1, <1>3
  <2>2. PICK k \in 1 .. n : At(k) = i
    BY <1>1
  <2>3. CASE k = 1
    BY <1>1, <1>3, <2>2, <2>3
  <2>4. CASE 1 < k
    <3>1. At(1) < At(k)
      BY <1>2, <1>3, <2>4
    <3>2. At(1) \in Nat /\ i \in Nat
      BY <1>1, <1>3
    <3>. QED
      BY <2>2, <3>1, <3>2
  <2>. QED
    BY <1>1, <2>2, <2>3, <2>4
<1>. QED
  BY <1>4

\* What is chosen from a sequence: its elements at those places, in their order.
LEMMA ChosenInOrder ==
  ASSUME NEW S, NEW s \in Seq(S), NEW I \in SUBSET (DOMAIN s)
  PROVE  /\ Chosen(s, I) \in Seq(S)
         /\ ToSet(Chosen(s, I)) = {s[i] : i \in I}
         /\ \A k, l \in DOMAIN Chosen(s, I) :
              k < l => \E i, j \in I : i < j /\ Chosen(s, I)[k] = s[i] /\ Chosen(s, I)[l] = s[j]
<1>. DEFINE n == Cardinality(I)
            At(k) == Nth(I, Ascending(I), k)
            c == Chosen(s, I)
<1>1. DOMAIN s = 1 .. Len(s) /\ Len(s) \in Nat /\ \A i \in DOMAIN s : s[i] \in S
  OBVIOUS
<1>2. I \in SUBSET Nat /\ IsFiniteSet(I)
  <2>1. IsFiniteSet(DOMAIN s)
    BY <1>1, FS_Interval
  <2>. QED
    BY <1>1, <2>1, FS_Subset
<1>3. /\ n \in Nat
      /\ \A k \in 1 .. n : At(k) \in I
      /\ \A i \in I : \E k \in 1 .. n : At(k) = i
      /\ \A k, l \in 1 .. n : k < l => <<At(k), At(l)>> \in Ascending(I)
  BY <1>2, AscendingIsOrder, NthInOrder
<1>4. \A k, l \in 1 .. n : k < l => At(k) < At(l)
  BY <1>3 DEF Ascending
<1>5. c = [k \in 1 .. n |-> s[At(k)]]
  BY DEF Chosen
<1>. HIDE DEF At, n, c
<1>6. c \in [1 .. n -> S]
  BY <1>1, <1>3, <1>5
<1>7. c \in Seq(S) /\ DOMAIN c = 1 .. n
  BY <1>3, <1>6, SeqDef
<1>8. ToSet(c) = {s[i] : i \in I}
  BY <1>3, <1>5, <1>7 DEF ToSet
<1>9. ASSUME NEW k \in DOMAIN c, NEW l \in DOMAIN c, k < l
      PROVE  \E i, j \in I : i < j /\ c[k] = s[i] /\ c[l] = s[j]
  BY <1>3, <1>4, <1>5, <1>7, <1>9
<1>. QED
  BY <1>7, <1>8, <1>9 DEF c

-----------------------------------------------------------------------------
(* What the download makes of a page, and of all that it has.               *)

\* The places of a sequence with some property, and a first one among them.
LEMMA FirstPlace ==
  ASSUME NEW S, NEW s \in Seq(S), NEW I \in SUBSET (DOMAIN s), I # {}
  PROVE  \E m \in I : \A i \in I : m <= i
<1>1. DOMAIN s = 1 .. Len(s) /\ Len(s) \in Nat
  OBVIOUS
<1>2. IsFiniteSet(DOMAIN s)
  BY <1>1, FS_Interval
<1>3. I \in SUBSET Nat /\ IsFiniteSet(I)
  BY <1>1, <1>2, FS_Subset
<1>. QED
  BY <1>3, Least

\* Fresh takes each new item that has a palette.
LEMMA FreshItems ==
  ASSUME NEW S, NEW items \in Seq(S), NEW effects
  PROVE  /\ Fresh(items, effects) \in Seq(S)
         /\ \A e \in ToSet(items) :
              Palette[e] # <<>> => e \in ToSet(Fresh(items, effects)) \cup ToSet(effects)
<1>. DEFINE I == {i \in DOMAIN items : /\ Palette[items[i]] # <<>>
                                       /\ items[i] \notin ToSet(effects)
                                       /\ \A j \in 1 .. i - 1 : items[j] # items[i]}
<1>1. I \in SUBSET (DOMAIN items) /\ Fresh(items, effects) = Chosen(items, I)
  BY DEF Fresh
<1>2. DOMAIN items = 1 .. Len(items) /\ Len(items) \in Nat
  OBVIOUS
<1>3. ASSUME NEW e \in ToSet(items), Palette[e] # <<>>, e \notin ToSet(effects)
      PROVE  \E i \in I : items[i] = e
  <2>. DEFINE J == {i \in DOMAIN items : items[i] = e}
  <2>1. J # {} /\ J \in SUBSET (DOMAIN items)
    BY DEF ToSet
  <2>2. PICK m \in J : \A i \in J : m <= i
    BY <2>1, FirstPlace
  <2>3. ASSUME NEW j \in 1 .. m - 1 PROVE items[j] # items[m]
    BY <1>2, <2>2
  <2>. QED
    BY <1>3, <2>2, <2>3
<1>. HIDE DEF I
<1>. QED
  BY <1>1, <1>3, ChosenInOrder

\* Deduped leaves one effect of each name and palette.
LEMMA DedupedTwins ==
  ASSUME NEW S, NEW effects \in Seq(S)
  PROVE  /\ Deduped(effects) \in Seq(S)
         /\ ToSet(Deduped(effects)) \subseteq ToSet(effects)
         /\ \A e \in ToSet(effects) : \E d \in ToSet(Deduped(effects)) : SameScene(d, e)
         /\ \A k, l \in DOMAIN Deduped(effects) :
              k < l => ~ SameScene(Deduped(effects)[k], Deduped(effects)[l])
<1>. DEFINE I == {i \in DOMAIN effects : \A j \in 1 .. i - 1 : ~ SameScene(effects[j], effects[i])}
<1>1. I \in SUBSET (DOMAIN effects) /\ Deduped(effects) = Chosen(effects, I)
  BY DEF Deduped
<1>2. DOMAIN effects = 1 .. Len(effects) /\ Len(effects) \in Nat
  OBVIOUS
<1>3. ASSUME NEW e \in ToSet(effects) PROVE \E i \in I : SameScene(effects[i], e)
  <2>. DEFINE J == {i \in DOMAIN effects : SameScene(effects[i], e)}
  <2>1. J # {} /\ J \in SUBSET (DOMAIN effects)
    BY DEF ToSet, SameScene
  <2>2. PICK m \in J : \A i \in J : m <= i
    BY <2>1, FirstPlace
  <2>3. ASSUME NEW j \in 1 .. m - 1 PROVE ~ SameScene(effects[j], effects[m])
    <3>1. j \in DOMAIN effects /\ j \notin J
      BY <1>2, <2>2
    <3>. QED
      BY <2>2, <3>1 DEF SameScene
  <2>. QED
    BY <2>2, <2>3
<1>4. ASSUME NEW i \in I, NEW j \in I, i < j PROVE ~ SameScene(effects[i], effects[j])
  <2>1. i \in 1 .. j - 1
    BY <1>2, <1>4
  <2>. QED
    BY <2>1
<1>. HIDE DEF I
<1>5. /\ Chosen(effects, I) \in Seq(S)
      /\ ToSet(Chosen(effects, I)) = {effects[i] : i \in I}
      /\ \A k, l \in DOMAIN Chosen(effects, I) :
           k < l => \E i, j \in I : /\ i < j
                                    /\ Chosen(effects, I)[k] = effects[i]
                                    /\ Chosen(effects, I)[l] = effects[j]
  BY <1>1, ChosenInOrder
<1>6. ToSet(Chosen(effects, I)) \subseteq ToSet(effects)
  BY <1>1, <1>5 DEF ToSet
<1>7. \A e \in ToSet(effects) : \E d \in ToSet(Chosen(effects, I)) : SameScene(d, e)
  BY <1>3, <1>5
<1>8. \A k, l \in DOMAIN Chosen(effects, I) :
        k < l => ~ SameScene(Chosen(effects, I)[k], Chosen(effects, I)[l])
  BY <1>4, <1>5
<1>. QED
  BY <1>1, <1>5, <1>6, <1>7, <1>8

\* Names have places in their order.
LEMMA ByNameIsOrder ==
  ASSUME NEW effects \in Seq(Effects)
  PROVE  StrictOrder(DOMAIN effects, ByName(effects))
<1>. DEFINE Rank(i) == Folded[EffectName[effects[i]]]
<1>1. \A i \in DOMAIN effects : Rank(i) \in Nat
  BY PaletteAssumption, CatalogueAssumption DEF PaletteAssumption, CatalogueAssumption
<1>2. DOMAIN effects \subseteq Nat
  OBVIOUS
<1>3. ByName(effects) = {p \in (DOMAIN effects) \X (DOMAIN effects) :
        Rank(p[1]) < Rank(p[2]) \/ (Rank(p[1]) = Rank(p[2]) /\ p[1] < p[2])}
  BY DEF ByName
<1>. HIDE DEF Rank
<1>4. \A i, j \in DOMAIN effects :
        <<i, j>> \in ByName(effects) <=> Rank(i) < Rank(j) \/ (Rank(i) = Rank(j) /\ i < j)
  BY <1>3
<1>. QED
  BY <1>1, <1>2, <1>4 DEF StrictOrder

\* Sorted has the same effects, in the order of their names.
LEMMA SortedByName ==
  ASSUME NEW S \in SUBSET Effects, NEW effects \in Seq(S)
  PROVE  /\ Sorted(effects) \in Seq(S)
         /\ ToSet(Sorted(effects)) = ToSet(effects)
         /\ \A k, l \in DOMAIN Sorted(effects) :
              k < l => /\ Folded[EffectName[Sorted(effects)[k]]] <= Folded[EffectName[Sorted(effects)[l]]]
                       /\ \E i, j \in DOMAIN effects :
                            i # j /\ Sorted(effects)[k] = effects[i] /\ Sorted(effects)[l] = effects[j]
<1>. DEFINE D == DOMAIN effects
            R == ByName(effects)
            At(k) == Nth(D, R, k)
            Rank(i) == Folded[EffectName[effects[i]]]
            r == Sorted(effects)
<1>1. effects \in Seq(Effects) /\ D = 1 .. Len(effects) /\ Len(effects) \in Nat
      /\ \A i \in D : effects[i] \in S
  OBVIOUS
<1>2. IsFiniteSet(D) /\ Cardinality(D) = Len(effects)
  BY <1>1, FS_Interval
<1>3. /\ \A k \in D : At(k) \in D
      /\ \A i \in D : \E k \in D : At(k) = i
      /\ \A k, l \in D : k < l => <<At(k), At(l)>> \in R
  <2>1. StrictOrder(D, R)
    BY <1>1, ByNameIsOrder
  <2>. HIDE DEF R
  <2>2. LET n == Cardinality(D)
        IN  /\ \A k \in 1 .. n : At(k) \in D
            /\ \A i \in D : \E k \in 1 .. n : At(k) = i
            /\ \A k, l \in 1 .. n : k < l => <<At(k), At(l)>> \in R
    BY <1>2, <2>1, NthInOrder
  <2>. HIDE DEF At
  <2>. QED
    BY <1>1, <1>2, <2>2
<1>4. StrictOrder(D, R)
  BY <1>1, ByNameIsOrder
<1>5. \A i, j \in D : <<i, j>> \in R => Rank(i) <= Rank(j) /\ i # j
  <2>1. SUFFICES ASSUME NEW i \in D, NEW j \in D, <<i, j>> \in R PROVE Rank(i) <= Rank(j) /\ i # j
    OBVIOUS
  <2>2. Rank(i) \in Nat /\ Rank(j) \in Nat
    BY <1>1, PaletteAssumption, CatalogueAssumption DEF PaletteAssumption, CatalogueAssumption
  <2>3. Rank(i) < Rank(j) \/ (Rank(i) = Rank(j) /\ i < j)
    BY <2>1 DEF ByName
  <2>4. i # j
    BY <1>4, <2>1 DEF StrictOrder
  <2>. QED
    BY <2>2, <2>3, <2>4
<1>6. r = [k \in D |-> effects[At(k)]]
  BY DEF Sorted
<1>. HIDE DEF At, R, r
<1>7. r \in [1 .. Len(effects) -> S]
  BY <1>1, <1>3, <1>6
<1>8. r \in Seq(S) /\ DOMAIN r = D
  BY <1>1, <1>7, SeqDef
<1>9. ToSet(r) = ToSet(effects)
  BY <1>3, <1>6, <1>8 DEF ToSet
<1>10. ASSUME NEW k \in DOMAIN r, NEW l \in DOMAIN r, k < l
       PROVE  /\ Folded[EffectName[r[k]]] <= Folded[EffectName[r[l]]]
              /\ \E i, j \in D : i # j /\ r[k] = effects[i] /\ r[l] = effects[j]
  <2>1. At(k) \in D /\ At(l) \in D /\ <<At(k), At(l)>> \in R
    BY <1>3, <1>8, <1>10
  <2>2. r[k] = effects[At(k)] /\ r[l] = effects[At(l)]
    BY <1>6, <1>8, <1>10
  <2>3. Rank(At(k)) <= Rank(At(l)) /\ At(k) # At(l)
    BY <1>5, <2>1
  <2>. QED
    BY <2>1, <2>2, <2>3
<1>. QED
  BY <1>8, <1>9, <1>10 DEF r

\* What is left of all that the cloud has, sorted, is complete.
LEMMA FinalComplete ==
  ASSUME Online \subseteq Effects, NEW effects \in Seq(Online),
         \A e \in Online : Palette[e] # <<>> => e \in ToSet(effects)
  PROVE  Complete(Sorted(Deduped(effects)))
<1>. DEFINE d == Deduped(effects)
            r == Sorted(d)
<1>1. /\ d \in Seq(Online)
      /\ \A e \in ToSet(effects) : \E x \in ToSet(d) : SameScene(x, e)
      /\ \A k, l \in DOMAIN d : k < l => ~ SameScene(d[k], d[l])
  BY DedupedTwins
<1>. HIDE DEF d
<1>2. /\ r \in Seq(Online)
      /\ ToSet(r) = ToSet(d)
      /\ \A k, l \in DOMAIN r :
           k < l => /\ Folded[EffectName[r[k]]] <= Folded[EffectName[r[l]]]
                    /\ \E i, j \in DOMAIN d : i # j /\ r[k] = d[i] /\ r[l] = d[j]
  BY <1>1, SortedByName
<1>. HIDE DEF r
<1>3. ToSet(r) \subseteq Online
  BY <1>2 DEF ToSet
<1>4. \A e \in Online : Palette[e] # <<>> => \E x \in ToSet(r) : Twins(x, e)
  BY <1>1, <1>2 DEF SameScene, Twins
<1>5. \A i, j \in DOMAIN d : i # j => ~ Twins(d[i], d[j])
  <2>1. DOMAIN d \subseteq Nat
    BY <1>1
  <2>2. SUFFICES ASSUME NEW i \in DOMAIN d, NEW j \in DOMAIN d, i # j PROVE ~ Twins(d[i], d[j])
    OBVIOUS
  <2>3. i < j \/ j < i
    BY <2>1, <2>2
  <2>. QED
    BY <1>1, <2>3 DEF SameScene, Twins
<1>6. \A k, l \in DOMAIN r :
        k < l => ~ Twins(r[k], r[l]) /\ Folded[EffectName[r[k]]] <= Folded[EffectName[r[l]]]
  BY <1>2, <1>5
<1>. QED
  BY <1>3, <1>4, <1>6 DEF Complete, d, r

-----------------------------------------------------------------------------
(* A download.                                                              *)

\* A download, and the catalogue, in their types.
DownloadType ==
  [at : {"idle", "fetch", "open", "write", "written"}, list : 1 .. 5, page : Nat \ {0},
   attempt : 1 .. max_retries, effects : Seq(Online), raced : BOOLEAN]

CatTyped ==
  /\ file \in [state : {"absent", "torn", "good"}, effects : Seq(Effects)]
  /\ dl \in [Writers -> DownloadType]
  /\ downloads \in 0 .. MaxDownloads
  /\ upsets \in 0 .. MaxUpsets

\* A download that has come to its list and its page has what was there before,
\* and, with the page in its hands, what is on it.
Had(d, l, p) ==
  \/ l < d.list
  \/ l = d.list /\ p < d.page
  \/ l = d.list /\ p = d.page /\ d.at \in {"open", "write"}
Holds(d, l, p) == \A e \in ToSet(Pages[l][p]) : Palette[e] # <<>> => e \in ToSet(d.effects)
Gathered(d) ==
  /\ d.at = "fetch" => d.list <= 4
  /\ d.at = "written" => d.list = 5
  /\ d.list <= 4 => \A l \in 1 .. 4 : \A p \in DOMAIN Pages[l] : Had(d, l, p) => Holds(d, l, p)
  /\ d.list = 5 => Complete(d.effects)

\* Downloads at the same time know of it, and what was written by one that was
\* alone is in the file.
Busy(w) == ~ Doing(w, "idle")
AloneInv == \A v, w \in Writers : v # w /\ Busy(v) /\ Busy(w) => dl[w].raced
FileInv ==
  \A w \in Writers : Doing(w, "written") /\ ~ dl[w].raced => file = [state |-> "good", effects |-> dl[w].effects]
GatherInv == \A w \in Writers : Gathered(dl[w])
CatInv == CatTyped /\ GatherInv /\ AloneInv /\ FileInv

\* The cloud has effects, on pages that are not empty.
LEMMA CloudTyped ==
  /\ DOMAIN Pages = 1 .. 4 /\ Len(Pages) = 4
  /\ \A l \in 1 .. 4 : /\ Pages[l] \in Seq(Seq(Effects))
                       /\ Len(Pages[l]) \in Nat /\ DOMAIN Pages[l] = 1 .. Len(Pages[l])
                       /\ \A p \in DOMAIN Pages[l] : Pages[l][p] \in Seq(Online)
  /\ Online \subseteq Effects
  /\ \A e \in Online : \E l \in 1 .. 4 : \E p \in DOMAIN Pages[l] : e \in ToSet(Pages[l][p])
<1>1. Pages \in Seq(Seq(Seq(Effects) \ {<<>>})) /\ Len(Pages) = 4
  BY CatalogueAssumption DEF CatalogueAssumption
<1>2. DOMAIN Pages = 1 .. 4 /\ \A l \in 1 .. 4 : Pages[l] \in Seq(Seq(Effects) \ {<<>>})
  <2>. DEFINE Effected == Seq(Seq(Effects) \ {<<>>})
  <2>1. Pages \in Seq(Effected)
    BY <1>1
  <2>. HIDE DEF Effected
  <2>2. DOMAIN Pages = 1 .. 4 /\ \A l \in 1 .. 4 : Pages[l] \in Effected
    BY <1>1, <2>1, LenProperties, ElementOfSeq
  <2>. QED
    BY <2>2 DEF Effected
<1>3. ASSUME NEW l \in 1 .. 4
      PROVE  /\ Pages[l] \in Seq(Seq(Effects))
             /\ Len(Pages[l]) \in Nat /\ DOMAIN Pages[l] = 1 .. Len(Pages[l])
             /\ \A p \in DOMAIN Pages[l] : Pages[l][p] \in Seq(Effects)
  <2>1. Pages[l] \in Seq(Seq(Effects) \ {<<>>})
    BY <1>2
  <2>2. Pages[l] \in Seq(Seq(Effects))
    BY <2>1, SeqMonotonic
  <2>. QED
    BY <2>2
<1>4. ASSUME NEW e
      PROVE  e \in Online <=> (\E l \in 1 .. 4 : \E p \in DOMAIN Pages[l] : e \in ToSet(Pages[l][p]))
  <2>1. ASSUME NEW page PROVE page \in UNION {ToSet(Pages[l]) : l \in 1 .. 4}
                                <=> (\E l \in 1 .. 4 : \E p \in DOMAIN Pages[l] : page = Pages[l][p])
    BY DEF ToSet
  <2>. DEFINE All == UNION {ToSet(Pages[l]) : l \in DOMAIN Pages}
  <2>2. \A page : page \in All <=> (\E l \in 1 .. 4 : \E p \in DOMAIN Pages[l] : page = Pages[l][p])
    BY <1>2, <2>1
  <2>3. Online = UNION {ToSet(page) : page \in All}
    BY DEF Online
  <2>. HIDE DEF All
  <2>4. e \in Online <=> (\E page \in All : e \in ToSet(page))
    BY <2>3
  <2>. QED
    BY <2>2, <2>4
<1>5. ASSUME NEW l \in 1 .. 4, NEW p \in DOMAIN Pages[l] PROVE Pages[l][p] \in Seq(Online)
  <2>1. Pages[l][p] \in Seq(Effects)
    BY <1>3
  <2>2. \A i \in 1 .. Len(Pages[l][p]) : Pages[l][p][i] \in Online
    BY <1>4, <2>1 DEF ToSet
  <2>. QED
    BY <2>1, <2>2, SeqDef
<1>6. Online \subseteq Effects
  <2>1. SUFFICES ASSUME NEW e \in Online PROVE e \in Effects
    OBVIOUS
  <2>2. PICK l \in 1 .. 4 : \E p \in DOMAIN Pages[l] : e \in ToSet(Pages[l][p])
    BY <1>4
  <2>. QED
    BY <1>3, <2>2 DEF ToSet
<1>. QED
  BY <1>1, <1>2, <1>3, <1>4, <1>5, <1>6

\* After the last page of a list comes the next list, or what is written last.
LEMMA NextListGathers ==
  ASSUME NEW d \in DownloadType, d.list <= 4,
         \A l \in 1 .. 4 : \A p \in DOMAIN Pages[l] : l <= d.list => Holds(d, l, p)
  PROVE  /\ NextList(d) \in DownloadType
         /\ Gathered(NextList(d))
         /\ NextList(d).raced = d.raced
         /\ NextList(d).at \in {"fetch", "open"}
<1>1. /\ d.effects \in Seq(Online) /\ d.list \in 1 .. 4 /\ d.raced \in BOOLEAN
      /\ d.attempt \in 1 .. max_retries
  BY DEF DownloadType
<1>2. Len(Pages) = 4
  BY CloudTyped
<1>3. CASE d.list < 4
  <2>. DEFINE n == [d EXCEPT !.at = "fetch", !.list = @ + 1, !.page = 1]
  <2>1. NextList(d) = n
    BY <1>2, <1>3 DEF NextList
  <2>2. d.list + 1 \in 1 .. 5 /\ 1 \in Nat \ {0}
    BY <1>1
  <2>3. /\ n \in DownloadType /\ n.at = "fetch" /\ n.list = d.list + 1 /\ n.page = 1
        /\ n.effects = d.effects /\ n.raced = d.raced
    BY <2>2 DEF DownloadType
  <2>. HIDE DEF n
  <2>4. n.list \in 1 .. 4
    BY <1>1, <1>3, <2>3
  <2>5. ASSUME NEW l \in 1 .. 4, NEW p \in DOMAIN Pages[l], Had(n, l, p) PROVE Holds(n, l, p)
    <3>1. p \in Nat /\ ~ p < 1
      BY CloudTyped
    <3>2. l <= d.list
      BY <1>1, <2>3, <2>5, <3>1 DEF Had
    <3>3. Holds(d, l, p)
      BY <3>2
    <3>. QED
      BY <2>3, <3>3 DEF Holds
  <2>. QED
    BY <2>1, <2>3, <2>4, <2>5 DEF Gathered
<1>4. CASE d.list = 4
  <2>. DEFINE n == [d EXCEPT !.at = "open", !.list = @ + 1, !.page = 1, !.effects = Sorted(Deduped(@))]
  <2>1. NextList(d) = n
    BY <1>2, <1>4 DEF NextList
  <2>2. ASSUME NEW e \in Online, Palette[e] # <<>> PROVE e \in ToSet(d.effects)
    <3>1. PICK l \in 1 .. 4 : \E p \in DOMAIN Pages[l] : e \in ToSet(Pages[l][p])
      BY CloudTyped
    <3>2. l <= d.list
      BY <1>4
    <3>. QED
      BY <2>2, <3>1, <3>2 DEF Holds
  <2>3. Complete(Sorted(Deduped(d.effects)))
    BY <1>1, <2>2, CloudTyped, FinalComplete
  <2>4. Deduped(d.effects) \in Seq(Online)
    BY <1>1, DedupedTwins
  <2>5. Sorted(Deduped(d.effects)) \in Seq(Online)
    BY <2>4, CloudTyped, SortedByName
  <2>. DEFINE last == Sorted(Deduped(d.effects))
  <2>6. n = [d EXCEPT !.at = "open", !.list = 5, !.page = 1, !.effects = last]
    BY <1>4
  <2>7. last \in Seq(Online)
    BY <2>5
  <2>. HIDE DEF n, last
  <2>8. 5 \in 1 .. 5 /\ 1 \in Nat \ {0}
    OBVIOUS
  <2>9. n \in DownloadType /\ n.at = "open" /\ n.list = 5 /\ n.effects = last /\ n.raced = d.raced
    BY <2>6, <2>7, <2>8 DEF DownloadType
  <2>. QED
    BY <2>1, <2>3, <2>9 DEF Gathered, last
<1>. QED
  BY <1>1, <1>3, <1>4

\* What is joined has the elements of both.
LEMMA ConcatSet ==
  ASSUME NEW S, NEW s \in Seq(S), NEW t \in Seq(S)
  PROVE  s \o t \in Seq(S) /\ ToSet(s) \subseteq ToSet(s \o t) /\ ToSet(t) \subseteq ToSet(s \o t)
<1>1. /\ s \o t \in Seq(S)
      /\ DOMAIN s = 1 .. Len(s) /\ Len(s) \in Nat
      /\ DOMAIN t = 1 .. Len(t) /\ Len(t) \in Nat
      /\ DOMAIN (s \o t) = 1 .. Len(s) + Len(t)
  OBVIOUS
<1>2. \A i \in DOMAIN s : i \in DOMAIN (s \o t) /\ (s \o t)[i] = s[i]
  BY <1>1
<1>3. ASSUME NEW i \in DOMAIN t PROVE i + Len(s) \in DOMAIN (s \o t) /\ (s \o t)[i + Len(s)] = t[i]
  BY <1>1
<1>. QED
  BY <1>1, <1>2, <1>3 DEF ToSet

\* One download goes on, or ends; what it has done is not undone.
Goes(w, d) ==
  /\ dl' = [dl EXCEPT ![w] = d]
  /\ d \in DownloadType
  /\ Gathered(d)
  /\ d.at # "idle" => Busy(w) /\ d.raced = dl[w].raced

\* The steps by which it goes on.
LEMMA PageGoes ==
  ASSUME CatInv, NEW w \in Writers, Page(w)
  PROVE  \E d : Goes(w, d) /\ d.at = "open"
<1>. DEFINE items == IF LastPage(w) THEN <<>> ELSE Pages[dl[w].list][dl[w].page]
            all == dl[w].effects \o Fresh(items, dl[w].effects)
            d == [dl[w] EXCEPT !.at = "open", !.attempt = 1, !.effects = all]
<1>1. /\ dl[w] \in DownloadType /\ dl[w].at = "fetch" /\ dl[w].list \in 1 .. 4 /\ dl[w].page \in Nat \ {0}
      /\ dl[w].effects \in Seq(Online) /\ Gathered(dl[w])
  BY DEF CatInv, CatTyped, GatherInv, Gathered, Page, Doing, DownloadType
<1>2. items \in Seq(Online)
        /\ \A l \in 1 .. 4 : \A p \in DOMAIN Pages[l] : l = dl[w].list /\ p = dl[w].page => items = Pages[l][p]
  <2>1. /\ Len(Pages[dl[w].list]) \in Nat
        /\ DOMAIN Pages[dl[w].list] = 1 .. Len(Pages[dl[w].list])
        /\ \A p \in DOMAIN Pages[dl[w].list] : Pages[dl[w].list][p] \in Seq(Online)
    BY <1>1, CloudTyped
  <2>2. CASE LastPage(w)
    <3>1. dl[w].page \notin DOMAIN Pages[dl[w].list]
      BY <1>1, <2>1, <2>2 DEF LastPage
    <3>2. items = <<>> /\ <<>> \in Seq(Online)
      BY <2>2
    <3>. QED
      BY <3>1, <3>2
  <2>3. CASE ~ LastPage(w)
    <3>1. dl[w].page \in DOMAIN Pages[dl[w].list]
      BY <1>1, <2>1, <2>3 DEF LastPage
    <3>2. items = Pages[dl[w].list][dl[w].page]
      BY <2>3
    <3>. QED
      BY <2>1, <3>1, <3>2
  <2>. QED
    BY <2>2, <2>3
<1>. HIDE DEF items
<1>3. Fresh(items, dl[w].effects) \in Seq(Online)
      /\ \A e \in ToSet(items) :
           Palette[e] # <<>> => e \in ToSet(Fresh(items, dl[w].effects)) \cup ToSet(dl[w].effects)
  BY <1>2, FreshItems
<1>4. /\ all \in Seq(Online)
      /\ ToSet(dl[w].effects) \subseteq ToSet(all)
      /\ \A e \in ToSet(items) : Palette[e] # <<>> => e \in ToSet(all)
  BY <1>1, <1>3, ConcatSet
<1>5. dl' = [dl EXCEPT ![w] = [dl[w] EXCEPT !.at = "open", !.attempt = 1, !.effects = all]]
  <2>1. dl' = [dl EXCEPT ![w].at = "open", ![w].attempt = 1, ![w].effects = all]
    BY DEF Page, items
  <2>. HIDE DEF all
  <2>. QED
    BY <2>1 DEF CatInv, CatTyped
<1>. HIDE DEF all
<1>6. 1 \in 1 .. max_retries
  BY DEF max_retries
<1>7. /\ d \in DownloadType /\ d.at = "open" /\ d.list = dl[w].list /\ d.page = dl[w].page
      /\ d.effects = all /\ d.raced = dl[w].raced
  BY <1>1, <1>4, <1>6 DEF DownloadType
<1>. HIDE DEF d
<1>8. ASSUME NEW l \in 1 .. 4, NEW p \in DOMAIN Pages[l], Had(d, l, p) PROVE Holds(d, l, p)
  <2>1. CASE l = dl[w].list /\ p = dl[w].page
    BY <1>2, <1>4, <1>7, <2>1 DEF Holds
  <2>2. CASE Had(dl[w], l, p)
    <3>1. Holds(dl[w], l, p)
      BY <1>1, <2>2 DEF Gathered
    <3>. QED
      BY <1>4, <1>7, <3>1 DEF Holds
  <2>. QED
    BY <1>7, <1>8, <2>1, <2>2 DEF Had
<1>9. Gathered(d)
  BY <1>1, <1>7, <1>8 DEF Gathered
<1>. QED
  BY <1>1, <1>5, <1>7, <1>9 DEF Goes, d, Busy, Doing

\* It is past the last page of its list.
LEMMA ListDone ==
  ASSUME CatInv, NEW w \in Writers, dl[w].list <= 4, LastPage(w)
  PROVE  \A l \in 1 .. 4 : \A p \in DOMAIN Pages[l] : l <= dl[w].list => Holds(dl[w], l, p)
<1>1. dl[w].list \in 1 .. 4 /\ dl[w].page \in Nat /\ Gathered(dl[w])
  BY DEF CatInv, CatTyped, GatherInv, DownloadType
<1>2. SUFFICES ASSUME NEW l \in 1 .. 4, NEW p \in DOMAIN Pages[l], l <= dl[w].list
               PROVE  Had(dl[w], l, p)
  BY <1>1 DEF Gathered
<1>3. p \in Nat /\ p <= Len(Pages[l]) /\ Len(Pages[l]) \in Nat
  BY CloudTyped
<1>4. l = dl[w].list => p < dl[w].page
  BY <1>1, <1>3 DEF LastPage
<1>. QED
  BY <1>1, <1>2, <1>4 DEF Had

\* After the last page the next list begins with its first page, or the file is opened.
LEMMA NoMorePagesGoes ==
  ASSUME CatInv, NEW w \in Writers, NoMorePages(w)
  PROVE  \E d : Goes(w, d) /\ d.at \in {"fetch", "open"}
<1>. DEFINE c == [dl[w] EXCEPT !.attempt = 1]
<1>1. dl[w] \in DownloadType /\ dl[w].at = "fetch" /\ dl[w].list <= 4 /\ LastPage(w)
  BY DEF CatInv, CatTyped, GatherInv, Gathered, NoMorePages, Doing
<1>2. 1 \in 1 .. max_retries
  BY DEF max_retries
<1>3. c \in DownloadType /\ c.list = dl[w].list /\ c.effects = dl[w].effects /\ c.raced = dl[w].raced
  BY <1>1, <1>2 DEF DownloadType
<1>4. dl' = [dl EXCEPT ![w] = NextList(c)]
  BY DEF NoMorePages, CatInv, CatTyped
<1>. HIDE DEF c
<1>5. \A l \in 1 .. 4 : \A p \in DOMAIN Pages[l] : l <= c.list => Holds(c, l, p)
  BY <1>1, <1>3, ListDone DEF Holds
<1>6. /\ NextList(c) \in DownloadType /\ Gathered(NextList(c))
      /\ NextList(c).raced = c.raced /\ NextList(c).at \in {"fetch", "open"}
  BY <1>1, <1>3, <1>5, NextListGathers
<1>. QED
  BY <1>1, <1>3, <1>4, <1>6 DEF Goes, Busy, Doing

\* A download that rests has nothing.
LEMMA RestingGathers == Resting \in DownloadType /\ Gathered(Resting) /\ ~ Resting.raced /\ Resting.at = "idle"
<1>1. Resting \in DownloadType
  BY DEF Resting, DownloadType, max_retries
<1>2. \A l \in 1 .. 4 : \A p \in DOMAIN Pages[l] : ~ Had(Resting, l, p)
  <2>1. \A l \in 1 .. 4 : \A p \in DOMAIN Pages[l] : p \in Nat \ {0}
    BY CloudTyped
  <2>. QED
    BY <2>1 DEF Had, Resting
<1>. QED
  BY <1>1, <1>2 DEF Gathered, Resting

\* A page that fails is asked for again, or the download ends with nothing written.
LEMMA PageFailsGoes ==
  ASSUME CatInv, NEW w \in Writers, PageFails(w)
  PROVE  \E d : Goes(w, d) /\ d.at \in {"idle", "fetch"}
<1>1. dl[w] \in DownloadType /\ dl[w].at = "fetch" /\ Gathered(dl[w])
  BY DEF CatInv, CatTyped, GatherInv, PageFails, Doing
<1>2. CASE dl[w].attempt < max_retries /\ dl' = [dl EXCEPT ![w].attempt = @ + 1]
  <2>. DEFINE d == [dl[w] EXCEPT !.attempt = @ + 1]
  <2>1. dl[w].attempt + 1 \in 1 .. max_retries
    BY <1>1, <1>2 DEF DownloadType, max_retries
  <2>2. /\ d \in DownloadType /\ d.at = "fetch" /\ d.list = dl[w].list /\ d.page = dl[w].page
        /\ d.effects = dl[w].effects /\ d.raced = dl[w].raced
    BY <1>1, <2>1 DEF DownloadType
  <2>3. dl' = [dl EXCEPT ![w] = d]
    BY <1>2 DEF CatInv, CatTyped
  <2>. HIDE DEF d
  <2>4. Gathered(d)
    BY <1>1, <2>2 DEF Gathered, Had, Holds
  <2>. QED
    BY <1>1, <2>2, <2>3, <2>4 DEF Goes, Busy, Doing
<1>3. CASE dl' = [dl EXCEPT ![w] = Resting]
  BY <1>3, RestingGathers DEF Goes
<1>. QED
  BY <1>2, <1>3 DEF PageFails

\* Once the file is open the download has what it had.
LEMMA OpenGoes ==
  ASSUME CatInv, NEW w \in Writers, Open(w)
  PROVE  \E d : Goes(w, d) /\ d.at = "write"
<1>. DEFINE d == [dl[w] EXCEPT !.at = "write"]
<1>1. dl[w] \in DownloadType /\ dl[w].at = "open" /\ Gathered(dl[w])
  BY DEF CatInv, CatTyped, GatherInv, Open, Doing
<1>2. /\ d \in DownloadType /\ d.at = "write" /\ d.list = dl[w].list /\ d.page = dl[w].page
      /\ d.effects = dl[w].effects /\ d.raced = dl[w].raced
  BY <1>1 DEF DownloadType
<1>3. dl' = [dl EXCEPT ![w] = d]
  BY DEF Open, CatInv, CatTyped
<1>. HIDE DEF d
<1>4. Gathered(d)
  BY <1>1, <1>2 DEF Gathered, Had, Holds
<1>. QED
  BY <1>1, <1>2, <1>3, <1>4 DEF Goes, Busy, Doing

\* What is written is what the download has then.
LEMMA WriteGoes ==
  ASSUME CatInv, NEW w \in Writers, Write(w)
  PROVE  \E d : Goes(w, d) /\ d.at # "idle" /\ (d.at = "written" => d.effects = dl[w].effects)
<1>1. /\ dl[w] \in DownloadType /\ dl[w].at = "write" /\ Gathered(dl[w])
      /\ dl[w].list \in 1 .. 5 /\ dl[w].page \in Nat \ {0}
  BY DEF CatInv, CatTyped, GatherInv, Write, Doing, DownloadType
<1>. DEFINE c == CASE dl[w].list > Len(Pages) -> [dl[w] EXCEPT !.at = "written"]
                   [] dl[w].list <= Len(Pages) /\ LastPage(w) -> NextList(dl[w])
                   [] OTHER -> [dl[w] EXCEPT !.at = "fetch", !.page = @ + 1]
<1>2. dl' = [dl EXCEPT ![w] = c] /\ Len(Pages) = 4
  <2>1. Len(Pages) = 4
    BY CloudTyped
  <2>2. dl' = [dl EXCEPT ![w] = c]
    BY DEF Write
  <2>. QED
    BY <2>1, <2>2
<1>3. CASE dl[w].list = 5
  <2>. DEFINE d == [dl[w] EXCEPT !.at = "written"]
  <2>1. c = d
    BY <1>2, <1>3
  <2>2. /\ d \in DownloadType /\ d.at = "written" /\ d.list = 5
        /\ d.effects = dl[w].effects /\ d.raced = dl[w].raced
    BY <1>1, <1>3 DEF DownloadType
  <2>. HIDE DEF d
  <2>3. Gathered(d)
    BY <1>1, <1>3, <2>2 DEF Gathered
  <2>. QED
    BY <1>1, <1>2, <2>1, <2>2, <2>3 DEF Goes, Busy, Doing
<1>4. CASE dl[w].list <= 4 /\ LastPage(w)
  <2>1. c = NextList(dl[w])
    BY <1>1, <1>2, <1>4
  <2>2. /\ NextList(dl[w]) \in DownloadType /\ Gathered(NextList(dl[w]))
        /\ NextList(dl[w]).raced = dl[w].raced /\ NextList(dl[w]).at \in {"fetch", "open"}
    BY <1>1, <1>4, ListDone, NextListGathers
  <2>. QED
    BY <1>1, <1>2, <2>1, <2>2 DEF Goes, Busy, Doing
<1>5. CASE dl[w].list <= 4 /\ ~ LastPage(w)
  <2>. DEFINE d == [dl[w] EXCEPT !.at = "fetch", !.page = @ + 1]
  <2>1. c = d
    BY <1>1, <1>2, <1>5
  <2>2. dl[w].page + 1 \in Nat \ {0}
    BY <1>1
  <2>3. /\ d \in DownloadType /\ d.at = "fetch" /\ d.list = dl[w].list /\ d.page = dl[w].page + 1
        /\ d.effects = dl[w].effects /\ d.raced = dl[w].raced
    BY <1>1, <2>2 DEF DownloadType
  <2>. HIDE DEF d
  <2>4. ASSUME NEW l \in 1 .. 4, NEW p \in DOMAIN Pages[l], Had(d, l, p) PROVE Holds(d, l, p)
    <3>1. p \in Nat
      BY CloudTyped
    <3>2. Had(dl[w], l, p)
      BY <1>1, <2>3, <2>4, <3>1 DEF Had
    <3>3. Holds(dl[w], l, p)
      BY <1>1, <1>5, <3>2 DEF Gathered
    <3>. QED
      BY <2>3, <3>3 DEF Holds
  <2>5. Gathered(d)
    BY <1>5, <2>3, <2>4 DEF Gathered
  <2>. QED
    BY <1>1, <1>2, <2>1, <2>3, <2>5 DEF Goes, Busy, Doing
<1>. QED
  BY <1>1, <1>3, <1>4, <1>5

-----------------------------------------------------------------------------
(* The invariant of the downloads.                                          *)

\* A download that goes on keeps what is said of all.
LEMMA GoesKept ==
  ASSUME CatInv, NEW w \in Writers, NEW d, Goes(w, d)
  PROVE  dl' \in [Writers -> DownloadType] /\ GatherInv' /\ AloneInv'
<1>1. dl \in [Writers -> DownloadType] /\ dl' = [dl EXCEPT ![w] = d] /\ d \in DownloadType
  BY DEF CatInv, CatTyped, Goes
<1>2. dl'[w] = d /\ \A v \in Writers \ {w} : dl'[v] = dl[v]
  BY <1>1
<1>3. GatherInv'
  BY <1>2 DEF CatInv, GatherInv, Goes, Gathered, Had, Holds
<1>4. \A v \in Writers : Busy(v)' => Busy(v) /\ dl'[v].raced = dl[v].raced
  BY <1>2 DEF Busy, Doing, Goes
<1>5. AloneInv'
  BY <1>4 DEF CatInv, AloneInv
<1>. QED
  BY <1>1, <1>3, <1>5

\* A file that nobody who is alone has written is left, or written by another.
LEMMA FileKept ==
  ASSUME CatInv, NEW w \in Writers, NEW d, Goes(w, d),
         d.at # "written",
         Busy(w) \/ file' = file
  PROVE  FileInv'
<1>1. dl'[w] = d /\ \A v \in Writers \ {w} : dl'[v] = dl[v]
  BY DEF CatInv, CatTyped, Goes
<1>2. SUFFICES ASSUME NEW v \in Writers, dl'[v].at = "written", ~ dl'[v].raced
               PROVE  file' = [state |-> "good", effects |-> dl'[v].effects]
  BY DEF FileInv, Doing
<1>3. v # w /\ dl'[v] = dl[v]
  BY <1>1, <1>2
<1>4. ~ Busy(w)
  BY <1>2, <1>3 DEF CatInv, AloneInv, Busy, Doing
<1>. QED
  BY <1>2, <1>3, <1>4 DEF CatInv, FileInv, Doing

\* One more upset, or none.
LEMMA UpsetKept ==
  ASSUME CatInv, Upset
  PROVE  upsets' \in 0 .. MaxUpsets
BY CatalogueAssumption DEF CatInv, CatTyped, Upset, CatalogueAssumption

\* A download begins; those that are under way know of it.
LEMMA DownloadKept == ASSUME CatInv, NEW w \in Writers, Download(w) PROVE CatInv'
<1>. DEFINE busy == {v \in Writers : Busy(v)}
            d == [Resting EXCEPT !.at = "fetch", !.raced = (busy # {})]
            other(v) == [dl[v] EXCEPT !.raced = @ \/ v \in busy]
<1>1. dl \in [Writers -> DownloadType] /\ ~ Busy(w)
  BY DEF CatInv, CatTyped, Download, Busy, Doing
<1>2. dl' = [v \in Writers |-> IF v = w THEN d ELSE other(v)]
  BY DEF Download, Busy
<1>3. /\ d \in DownloadType /\ d.at = "fetch" /\ d.list = 1 /\ d.page = 1 /\ d.effects = <<>>
      /\ d.raced = (busy # {})
  <2>1. (busy # {}) \in BOOLEAN
    OBVIOUS
  <2>. HIDE DEF busy
  <2>2. Resting \in DownloadType /\ Resting.list = 1 /\ Resting.page = 1 /\ Resting.effects = <<>>
    BY RestingGathers DEF Resting
  <2>. QED
    BY <2>1, <2>2 DEF DownloadType
<1>4. ASSUME NEW v \in Writers
      PROVE  /\ other(v) \in DownloadType /\ other(v).at = dl[v].at /\ other(v).list = dl[v].list
             /\ other(v).page = dl[v].page /\ other(v).effects = dl[v].effects
             /\ other(v).raced = (dl[v].raced \/ v \in busy)
  <2>1. (dl[v].raced \/ v \in busy) \in BOOLEAN
    OBVIOUS
  <2>. HIDE DEF busy
  <2>. QED
    BY <1>1, <2>1 DEF DownloadType
<1>. HIDE DEF d, other
<1>5. dl' \in [Writers -> DownloadType]
  BY <1>2, <1>3, <1>4
<1>6. Gathered(d)
  <2>1. \A l \in 1 .. 4 : \A p \in DOMAIN Pages[l] : ~ Had(d, l, p)
    <3>1. \A l \in 1 .. 4 : \A p \in DOMAIN Pages[l] : p \in Nat \ {0}
      BY CloudTyped
    <3>. QED
      BY <1>3, <3>1 DEF Had
  <2>. QED
    BY <1>3, <2>1 DEF Gathered
<1>7. GatherInv'
  <2>1. SUFFICES ASSUME NEW v \in Writers PROVE Gathered(dl'[v])
    BY DEF GatherInv
  <2>2. CASE v = w
    BY <1>2, <1>6, <2>2
  <2>3. CASE v # w
    <3>1. dl'[v] = other(v)
      BY <1>2, <2>3
    <3>2. Gathered(dl[v])
      BY DEF CatInv, GatherInv
    <3>. QED
      BY <1>4, <3>1, <3>2 DEF Gathered, Had, Holds
  <2>. QED
    BY <2>2, <2>3
<1>8. \A v \in Writers \ {w} : /\ Busy(v)' <=> Busy(v)
                               /\ Busy(v) => dl'[v].raced
                               /\ dl'[v].at = dl[v].at /\ dl'[v].effects = dl[v].effects
  BY <1>2, <1>4 DEF Busy, Doing
<1>9. AloneInv'
  BY <1>2, <1>3, <1>8 DEF AloneInv
<1>10. FileInv'
  <2>1. SUFFICES ASSUME NEW v \in Writers, dl'[v].at = "written", ~ dl'[v].raced PROVE FALSE
    BY DEF FileInv, Doing
  <2>2. v # w
    BY <1>2, <1>3, <2>1
  <2>. QED
    BY <1>8, <2>1, <2>2 DEF Busy, Doing
<1>11. file' = file /\ upsets' = upsets /\ downloads' \in 0 .. MaxDownloads
  <2>1. MaxDownloads \in Nat /\ downloads \in 0 .. MaxDownloads
    BY CatalogueAssumption DEF CatInv, CatTyped, CatalogueAssumption
  <2>2. downloads < MaxDownloads /\ downloads' = downloads + 1 /\ file' = file /\ upsets' = upsets
    BY DEF Download
  <2>. QED
    BY <2>1, <2>2
<1>. QED
  BY <1>5, <1>7, <1>9, <1>10, <1>11 DEF CatInv, CatTyped

\* The end of a process ends downloads.
LEMMA StopKept == ASSUME CatInv, NEW w \in Writers, Stop(w) PROVE CatInv'
<1>1. \A v \in Writers : dl'[v] = dl[v] \/ dl'[v] = Resting
  BY DEF Stop
<1>2. dl' \in [Writers -> DownloadType]
  BY RestingGathers DEF Stop, CatInv, CatTyped
<1>3. GatherInv'
  BY <1>1, RestingGathers DEF CatInv, GatherInv
<1>4. AloneInv' /\ FileInv'
  BY <1>1, RestingGathers DEF CatInv, AloneInv, FileInv, Busy, Doing, Stop
<1>. QED
  BY <1>2, <1>3, <1>4, UpsetKept DEF CatInv, CatTyped, Stop

\* What the file holds is an effect for each entry.
LEMMA HeldTyped ==
  ASSUME CatInv, NEW w \in Writers
  PROVE  dl[w].effects \in Seq(Effects)
<1>1. dl[w].effects \in Seq(Online)
  BY DEF CatInv, CatTyped, DownloadType
<1>. QED
  BY <1>1, CloudTyped, SeqMonotonic

\* Writing keeps the invariant: what is written is complete, and nobody else was at it.
LEMMA WriteKept == ASSUME CatInv, NEW w \in Writers, Write(w) PROVE CatInv'
<1>1. PICK d : Goes(w, d) /\ d.at # "idle" /\ (d.at = "written" => d.effects = dl[w].effects)
  BY WriteGoes
<1>2. Busy(w) /\ d.raced = dl[w].raced
  BY <1>1 DEF Goes
<1>3. dl' \in [Writers -> DownloadType] /\ GatherInv' /\ AloneInv'
  BY <1>1, GoesKept
<1>4. \/ file' = [state |-> "good", effects |-> dl[w].effects]
      \/ dl[w].raced /\ file' = [state |-> "torn", effects |-> <<>>]
  BY DEF Write
<1>5. file' \in [state : {"absent", "torn", "good"}, effects : Seq(Effects)]
  <2>1. dl[w].effects \in Seq(Effects) /\ <<>> \in Seq(Effects)
    BY HeldTyped
  <2>2. PICK st \in {"torn", "good"}, e \in Seq(Effects) : file' = [state |-> st, effects |-> e]
    BY <1>4, <2>1
  <2>. QED
    BY <2>2
<1>6. FileInv'
  <2>1. CASE d.at # "written"
    BY <1>1, <1>2, <2>1, FileKept
  <2>2. CASE d.at = "written"
    <3>1. dl'[w] = d /\ \A v \in Writers \ {w} : dl'[v] = dl[v]
      BY <1>1 DEF CatInv, CatTyped, Goes
    <3>2. SUFFICES ASSUME NEW v \in Writers, dl'[v].at = "written", ~ dl'[v].raced
                   PROVE  file' = [state |-> "good", effects |-> dl'[v].effects]
      BY DEF FileInv, Doing
    <3>3. v = w
      BY <1>2, <3>1, <3>2 DEF CatInv, AloneInv, Busy, Doing
    <3>. QED
      BY <1>1, <1>2, <1>4, <2>2, <3>1, <3>2, <3>3
  <2>. QED
    BY <2>1, <2>2
<1>. QED
  BY <1>3, <1>5, <1>6 DEF CatInv, CatTyped, Write

\* The downloads keep the invariant.
LEMMA CatKept == ASSUME CatInv, CatNext PROVE CatInv'
<1>1. ASSUME NEW w \in Writers, Page(w) PROVE CatInv'
  <2>1. PICK d : Goes(w, d) /\ d.at = "open"
    BY <1>1, PageGoes
  <2>2. dl' \in [Writers -> DownloadType] /\ GatherInv' /\ AloneInv'
    BY <2>1, GoesKept
  <2>3. UNCHANGED <<file, downloads, upsets>>
    BY <1>1 DEF Page
  <2>4. FileInv'
    BY <2>1, <2>3, FileKept
  <2>. QED
    BY <2>2, <2>3, <2>4 DEF CatInv, CatTyped
<1>2. ASSUME NEW w \in Writers, NoMorePages(w) PROVE CatInv'
  <2>1. PICK d : Goes(w, d) /\ d.at \in {"fetch", "open"}
    BY <1>2, NoMorePagesGoes
  <2>2. dl' \in [Writers -> DownloadType] /\ GatherInv' /\ AloneInv'
    BY <2>1, GoesKept
  <2>3. UNCHANGED <<file, downloads, upsets>>
    BY <1>2 DEF NoMorePages
  <2>4. FileInv'
    BY <2>1, <2>3, FileKept
  <2>. QED
    BY <2>2, <2>3, <2>4 DEF CatInv, CatTyped
<1>3. ASSUME NEW w \in Writers, PageFails(w) PROVE CatInv'
  <2>1. PICK d : Goes(w, d) /\ d.at \in {"idle", "fetch"}
    BY <1>3, PageFailsGoes
  <2>2. dl' \in [Writers -> DownloadType] /\ GatherInv' /\ AloneInv'
    BY <2>1, GoesKept
  <2>3. UNCHANGED <<file, downloads>> /\ Upset
    BY <1>3 DEF PageFails
  <2>4. FileInv'
    BY <2>1, <2>3, FileKept
  <2>. QED
    BY <2>2, <2>3, <2>4, UpsetKept DEF CatInv, CatTyped
<1>4. ASSUME NEW w \in Writers, Open(w) PROVE CatInv'
  <2>1. PICK d : Goes(w, d) /\ d.at = "write"
    BY <1>4, OpenGoes
  <2>2. dl' \in [Writers -> DownloadType] /\ GatherInv' /\ AloneInv'
    BY <2>1, GoesKept
  <2>3. UNCHANGED <<downloads, upsets>> /\ file' = [state |-> "torn", effects |-> <<>>]
    BY <1>4 DEF Open
  <2>4. FileInv'
    BY <2>1, FileKept DEF Goes
  <2>. QED
    BY <2>2, <2>3, <2>4 DEF CatInv, CatTyped
<1>5. ASSUME NEW w \in Writers, Written(w) PROVE CatInv'
  <2>1. Goes(w, Resting)
    BY <1>5, RestingGathers DEF Written, Goes
  <2>2. dl' \in [Writers -> DownloadType] /\ GatherInv' /\ AloneInv'
    BY <2>1, GoesKept
  <2>3. UNCHANGED <<file, downloads, upsets>>
    BY <1>5 DEF Written
  <2>4. FileInv'
    BY <2>1, <2>3, FileKept, RestingGathers
  <2>. QED
    BY <2>2, <2>3, <2>4 DEF CatInv, CatTyped
<1>6. ASSUME NEW c \in Homes, PollLoads(c) PROVE CatInv'
  BY <1>6 DEF PollLoads, CatInv, CatTyped, GatherInv, AloneInv, FileInv, Busy, Doing
<1>. QED
  BY <1>1, <1>2, <1>3, <1>4, <1>5, <1>6, DownloadKept, WriteKept, StopKept DEF CatNext

\* At first no download runs, and the file is as an earlier one left it.
LEMMA CatInitInv == ASSUME CatInit PROVE CatInv
<1>1. Kept \subseteq Seq(Effects) /\ MaxDownloads \in Nat /\ MaxUpsets \in Nat
  BY CatalogueAssumption DEF CatalogueAssumption
<1>2. file \in [state : {"absent", "torn", "good"}, effects : Seq(Effects)]
  <2>1. <<>> \in Seq(Effects)
    OBVIOUS
  <2>2. PICK st \in {"absent", "torn", "good"}, e \in Kept \cup {<<>>} : file = [state |-> st, effects |-> e]
    BY DEF CatInit
  <2>. QED
    BY <1>1, <2>1, <2>2
<1>3. dl = [w \in Writers |-> Resting] /\ downloads \in {0, MaxDownloads} /\ upsets = 0
  BY DEF CatInit
<1>4. CatTyped
  BY <1>1, <1>2, <1>3, RestingGathers DEF CatTyped
<1>5. \A w \in Writers : dl[w] = Resting
  BY <1>3
<1>. QED
  BY <1>4, <1>5, RestingGathers DEF CatInv, GatherInv, AloneInv, FileInv, Busy, Doing

\* What leaves the downloads alone keeps it.
LEMMA CatRests ==
  ASSUME CatInv, UNCHANGED <<file, dl, downloads>>, upsets' = upsets \/ Upset
  PROVE  CatInv'
<1>1. upsets' \in 0 .. MaxUpsets
  BY UpsetKept DEF CatInv, CatTyped
<1>. QED
  BY <1>1 DEF CatInv, CatTyped, GatherInv, AloneInv, FileInv, Busy, Doing

\* It says what the type invariant says of the downloads.
LEMMA CatTypes == ASSUME CatInv PROVE CatTypeOK
<1>1. file.state \in {"absent", "torn", "good"} /\ file.effects \in Seq(Effects)
  BY DEF CatInv, CatTyped
<1>2. ToSet(file.effects) \subseteq Effects
  BY <1>1 DEF ToSet
<1>3. ASSUME NEW w \in Writers
      PROVE  /\ dl[w].at \in {"idle", "fetch", "open", "write", "written"} /\ dl[w].list \in 1 .. 5
             /\ dl[w].attempt \in 1 .. max_retries /\ dl[w].effects \in Seq(Online)
  BY DEF CatInv, CatTyped, DownloadType
<1>4. \A w \in Writers : ToSet(dl[w].effects) \subseteq Online
  BY <1>3 DEF ToSet
<1>. QED
  BY <1>1, <1>2, <1>3, <1>4 DEF CatTypeOK, CatInv, CatTyped

\* A download that ends without another is in the file, complete.
LEMMA EndsComplete ==
  ASSUME CatInv, NEW w \in Writers, Written(w), ~ dl[w].raced
  PROVE  file.state = "good" /\ Complete(file.effects) /\ (w \in Homes => names'[w] = file.effects)
<1>1. dl[w].at = "written" /\ Gathered(dl[w])
  BY DEF Written, Doing, CatInv, GatherInv
<1>2. file = [state |-> "good", effects |-> dl[w].effects]
  BY <1>1 DEF CatInv, FileInv, Doing
<1>3. Complete(dl[w].effects)
  BY <1>1 DEF Gathered
<1>4. w \in Homes => names'[w] = Known
  BY DEF Written
<1>. QED
  BY <1>2, <1>3, <1>4 DEF Known

-----------------------------------------------------------------------------
(* What is left to do of a command.                                         *)

\* What is joined from sequences of S is one.
LEMMA FlattenTyped ==
  ASSUME NEW S, NEW q \in Seq(Seq(S))
  PROVE  FlattenSeq(q) \in Seq(S)
<1>. DEFINE n == Len(q)
            All(f, k) == f = [i \in 1 .. k |-> IF i = 1 THEN q[i] ELSE f[i - 1] \o q[i]]
            P == {k \in Nat : \E f : All(f, k)}
<1>1. n \in Nat /\ \A i \in 1 .. n : q[i] \in Seq(S)
  OBVIOUS
<1>2. CASE n = 0
  BY <1>2 DEF FlattenSeq
<1>3. CASE n > 0
  <2>1. 0 \in P
    <3>1. All([i \in 1 .. 0 |-> q[1]], 0)
      OBVIOUS
    <3>. QED
      BY <3>1
  <2>2. ASSUME NEW k \in Nat, k \in P PROVE k + 1 \in P
    <3>1. PICK f : All(f, k)
      BY <2>2
    <3>. DEFINE g == [i \in 1 .. k + 1 |->
                        IF i = k + 1 THEN IF i = 1 THEN q[i] ELSE f[i - 1] \o q[i] ELSE f[i]]
    <3>2. ASSUME NEW i \in 1 .. k + 1 PROVE g[i] = IF i = 1 THEN q[i] ELSE g[i - 1] \o q[i]
      <4>1. CASE i = k + 1
        BY <4>1
      <4>2. CASE i # k + 1
        <5>1. i \in 1 .. k /\ (i # 1 => i - 1 \in 1 .. k)
          BY <4>2
        <5>2. g[i] = f[i] /\ (i # 1 => g[i - 1] = f[i - 1])
          BY <4>2, <5>1
        <5>3. f[i] = IF i = 1 THEN q[i] ELSE f[i - 1] \o q[i]
          BY <3>1, <5>1
        <5>. QED
          BY <5>2, <5>3
      <4>. QED
        BY <4>1, <4>2
    <3>3. All(g, k + 1)
      BY <3>2
    <3>. HIDE DEF g, All
    <3>4. \E h : All(h, k + 1)
      BY <3>3
    <3>. QED
      BY <3>4
  <2>3. n \in P
    BY <1>1, <2>1, <2>2, Induction
  <2>. DEFINE flatten == CHOOSE f : All(f, n)
  <2>4. All(flatten, n)
    BY <2>3
  <2>5. FlattenSeq(q) = flatten[n]
    BY <1>3 DEF FlattenSeq
  <2>. HIDE DEF flatten
  <2>6. \A i \in 1 .. n : flatten[i] = IF i = 1 THEN q[i] ELSE flatten[i - 1] \o q[i]
    BY <2>4
  <2>. DEFINE T == {k \in Nat : k \in 1 .. n => flatten[k] \in Seq(S)}
  <2>7. 0 \in T
    OBVIOUS
  <2>8. ASSUME NEW k \in Nat, k \in T PROVE k + 1 \in T
    <3>1. CASE k = 0
      <4>1. 1 \in 1 .. n /\ k + 1 = 1
        BY <1>1, <1>3, <3>1
      <4>2. flatten[1] = q[1] /\ q[1] \in Seq(S)
        BY <1>1, <2>6, <4>1
      <4>3. flatten[k + 1] \in Seq(S)
        BY <4>1, <4>2
      <4>. QED
        BY <4>3
    <3>2. CASE k > 0 /\ k + 1 \in 1 .. n
      <4>1. k \in 1 .. n /\ (k + 1) - 1 = k /\ k + 1 # 1
        BY <1>1, <3>2
      <4>2. flatten[k + 1] = flatten[k] \o q[k + 1]
        BY <2>6, <3>2, <4>1
      <4>3. flatten[k] \in Seq(S) /\ q[k + 1] \in Seq(S)
        BY <1>1, <2>8, <3>2, <4>1
      <4>4. flatten[k + 1] \in Seq(S)
        BY <4>2, <4>3
      <4>. QED
        BY <4>4
    <3>3. CASE k + 1 \notin 1 .. n
      BY <3>3
    <3>. QED
      BY <3>1, <3>2, <3>3
  <2>9. Nat \subseteq T
    <3>. HIDE DEF T
    <3>. QED
      BY <2>7, <2>8, Induction
  <2>10. flatten[n] \in Seq(S)
    BY <1>1, <1>3, <2>9
  <2>. QED
    BY <2>5, <2>10
<1>. QED
  BY <1>1, <1>2, <1>3

\* The steps of a command: those that have to do with the device file, and the others.
FileOps == {"truncate", "put", "unlink", "kex_old", "auth_old", "revoke", "pair", "unpair"}
PlainOps == {"kex", "auth", "info", "light", "list", "current", "gets", "get", "clears", "clear",
             "thread", "play", "identify", "preview", "add", "delete", "probe"}
Ops == PlainOps \cup FileOps
StepType == [op : Ops, slot : Slots \cup {0}]
Plain == [op : PlainOps, slot : Slots \cup {0}]
Files == {"pair", "unpair", "find", "discover"}

\* What the commands that write the device file do, from the first step to the last.
PairScript == <<"kex_old", "auth_old", "revoke", "kex", "pair", "truncate", "put", "truncate", "put">>
UnpairScript(rm) ==
  IF rm THEN <<"kex", "auth", "unpair", "truncate", "put", "unlink">>
  ELSE <<"kex", "auth", "unpair", "truncate", "put">>
FindScript == <<"kex", "probe", "truncate", "put">>
DiscoverScript == <<"truncate", "put">>

\* The last steps of a script are left.
Left(todo, script) ==
  /\ Len(todo) <= Len(script)
  /\ \A i \in DOMAIN todo : todo[i].op = script[Len(script) - Len(todo) + i]

\* A command has these fields and no others.
Fields(j) ==
  j = [cmd |-> j.cmd, todo |-> j.todo, slot |-> j.slot, query |-> j.query, effect |-> j.effect,
       db |-> j.db, compact |-> j.compact, skip |-> j.skip, listed |-> j.listed, seen |-> j.seen,
       text |-> j.text, passed |-> j.passed, raced |-> j.raced]
JobTyped(j) ==
  /\ Fields(j)
  /\ j.todo \in Seq(StepType)
  /\ j.slot \in Slots \cup {0}
  /\ j.text \in 0 .. Tokens
\* What a command has left to do is the end of its script; where it has none it writes no file.
Follows(j) ==
  /\ j.cmd = "pair" => Left(j.todo, PairScript)
  /\ j.cmd = "unpair" => \E rm \in BOOLEAN : Left(j.todo, UnpairScript(rm))
  /\ j.cmd = "find" => Left(j.todo, FindScript)
  /\ j.cmd = "discover" => Left(j.todo, DiscoverScript)
  /\ j.cmd \notin Files => j.todo \in Seq(Plain)
\* What the session of a command may be.
Sessions == {"none", "open", "authed", "corrupted", "expired"}

\* The command at hand, the bulb, and the tokens: one is issued for each pairing at most,
\* and it is the one accepted between the answer and the writing of the file.
JobInv ==
  /\ JobTyped(job) /\ Follows(job)
  /\ session \in Sessions
  /\ job = NoJob => session = "none"
  /\ jobs \in 0 .. MaxJobs
BulbInv == DOMAIN scenes = Slots /\ playing \in Slots \cup {0}
TokenInv ==
  /\ conf.state \in {"absent", "torn", "good"} /\ conf.token \in 0 .. Tokens
  /\ issued \in Nat /\ issued <= 2 + jobs /\ accepted \in 0 .. Tokens
  /\ job.cmd = "pair" /\ Len(job.todo) >= 5 => issued <= 1 + jobs
  /\ job.cmd = "pair" /\ Len(job.todo) = 4 => accepted \in {0, job.text}
  /\ job.cmd = "unpair" /\ Is({"truncate"}) => accepted = 0

\* What is assumed of the slots, of the number of commands and of the tokens.
LEMMA Assumed ==
  /\ Slots \subseteq Nat \ {0} /\ IsFiniteSet(Slots)
  /\ MaxJobs \in Nat /\ Tokens \in Nat /\ Tokens >= 2 + MaxJobs
  /\ 0 \notin Slots
BY CommandLineAssumption DEF CommandLineAssumption

\* A script of m steps of which n are left goes on with its next step.
LEMMA LeftTail ==
  ASSUME NEW script, NEW m \in Nat, Len(script) = m,
         NEW todo \in Seq(StepType), todo # <<>>, NEW n \in Nat, Len(todo) = n,
         Left(todo, script)
  PROVE  /\ 1 <= n /\ n <= m
         /\ Left(Tail(todo), script) /\ Len(Tail(todo)) = n - 1 /\ Tail(todo) \in Seq(StepType)
         /\ Head(todo).op = script[m - n + 1]
<1>1. /\ n >= 1 /\ n <= m /\ DOMAIN todo = 1 .. n /\ Head(todo) = todo[1]
  BY DEF Left
<1>2. /\ Len(Tail(todo)) = n - 1 /\ DOMAIN Tail(todo) = 1 .. n - 1 /\ Tail(todo) \in Seq(StepType)
      /\ \A i \in 1 .. n - 1 : Tail(todo)[i] = todo[i + 1]
  BY <1>1
<1>3. ASSUME NEW i \in 1 .. n - 1
      PROVE  Tail(todo)[i].op = script[m - (n - 1) + i]
  <2>1. i + 1 \in DOMAIN todo
    BY <1>1
  <2>2. todo[i + 1].op = script[m - n + (i + 1)]
    BY <2>1 DEF Left
  <2>3. m - n + (i + 1) = m - (n - 1) + i
    BY <1>1
  <2>. QED
    BY <1>2, <2>2, <2>3
<1>4. Left(Tail(todo), script)
  BY <1>1, <1>2, <1>3 DEF Left
<1>5. Head(todo).op = script[m - n + 1]
  BY <1>1 DEF Left
<1>. QED
  BY <1>1, <1>2, <1>4, <1>5

\* So does a command with such a script.
LEMMA LeftStep ==
  ASSUME NEW script, NEW m \in Nat, Len(script) = m,
         job.todo \in Seq(StepType), job.todo # <<>>, Left(job.todo, script), NEW n \in Nat, Len(job.todo) = n
  PROVE  /\ Left(Tail(job.todo), script) /\ 1 <= n /\ n <= m /\ Len(Tail(job.todo)) = n - 1
         /\ Step.op = script[m - n + 1]
<1>1. PICK todo \in Seq(StepType) : todo = job.todo
  OBVIOUS
<1>2. todo # <<>> /\ Len(todo) = n /\ Left(todo, script)
  BY <1>1
<1>3. /\ 1 <= n /\ n <= m
      /\ Left(Tail(todo), script) /\ Len(Tail(todo)) = n - 1
      /\ Head(todo).op = script[m - n + 1]
  BY <1>2, LeftTail
<1>. QED
  BY <1>1, <1>3 DEF Step

\* Where a pairing is.
LEMMA PairStep ==
  ASSUME JobInv, job.cmd = "pair", job.todo # <<>>, NEW n \in Nat, Len(job.todo) = n
  PROVE  /\ n \in 1 .. 9 /\ Left(Tail(job.todo), PairScript) /\ Len(Tail(job.todo)) = n - 1
         /\ n = 9 => Step.op = "kex_old"
         /\ n = 8 => Step.op = "auth_old"
         /\ n = 7 => Step.op = "revoke"
         /\ n = 6 => Step.op = "kex"
         /\ n = 5 => Step.op = "pair"
         /\ n \in {2, 4} => Step.op = "truncate"
         /\ n \in {1, 3} => Step.op = "put"
         /\ Step.op \in {"kex_old", "auth_old", "revoke"} => n >= 7
         /\ Step.op \in {"kex_old", "auth_old", "revoke", "kex", "pair", "truncate", "put"}
<1>1. Left(job.todo, PairScript) /\ job.todo \in Seq(StepType)
  BY DEF JobInv, Follows, JobTyped
<1>2. PICK m \in Nat : m = 9 /\ Len(PairScript) = m
  BY DEF PairScript
<1>7. m \in Nat /\ Len(PairScript) = m
  BY <1>2
<1>3. /\ Left(Tail(job.todo), PairScript) /\ Len(Tail(job.todo)) = n - 1
      /\ Step.op = PairScript[m - n + 1] /\ 1 <= n /\ n <= m
  BY <1>1, <1>7, LeftTail DEF Step
<1>5. PICK k \in 1 .. 9 : k = m - n + 1 /\ Step.op = PairScript[k]
  BY <1>2, <1>3
<1>4. /\ PairScript[1] = "kex_old" /\ PairScript[2] = "auth_old" /\ PairScript[3] = "revoke"
      /\ PairScript[4] = "kex" /\ PairScript[5] = "pair" /\ PairScript[6] = "truncate"
      /\ PairScript[7] = "put" /\ PairScript[8] = "truncate" /\ PairScript[9] = "put"
  BY DEF PairScript
<1>6. n = 10 - k
  BY <1>2, <1>3, <1>5
<1>8. n \in 1 .. 9
  BY <1>2, <1>3
<1>9. /\ k = 1 => Step.op = "kex_old"
      /\ k = 2 => Step.op = "auth_old"
      /\ k = 3 => Step.op = "revoke"
      /\ k = 4 => Step.op = "kex"
      /\ k = 5 => Step.op = "pair"
      /\ k \in {6, 8} => Step.op = "truncate"
      /\ k \in {7, 9} => Step.op = "put"
  BY <1>4, <1>5
<1>10. Left(Tail(job.todo), PairScript) /\ Len(Tail(job.todo)) = n - 1
  BY <1>3
<1>11. /\ n = 9 => k = 1
       /\ n = 8 => k = 2
       /\ n = 7 => k = 3
       /\ n = 6 => k = 4
       /\ n = 5 => k = 5
       /\ n \in {2, 4} => k \in {6, 8}
       /\ n \in {1, 3} => k \in {7, 9}
  BY <1>6
<1>12. /\ Step.op \in {"kex_old", "auth_old", "revoke"} => k \in {1, 2, 3}
       /\ Step.op \in {"kex_old", "auth_old", "revoke", "kex", "pair", "truncate", "put"}
  <2>1. k \in {1, 2, 3, 4, 5, 6, 7, 8, 9}
    BY <1>5
  <2>. QED
    BY <1>9, <2>1
<1>13. k \in {1, 2, 3} => n >= 7
  BY <1>6
<1>. QED
  BY <1>8, <1>9, <1>10, <1>11, <1>12, <1>13

\* Where an unpairing is.
LEMMA UnpairStep ==
  ASSUME JobInv, job.cmd = "unpair", job.todo # <<>>
  PROVE  /\ \E rm \in BOOLEAN : Left(Tail(job.todo), UnpairScript(rm))
         /\ Step.op \in {"kex", "auth", "unpair", "truncate", "put", "unlink"}
         /\ Tail(job.todo) # <<>> /\ Head(Tail(job.todo)).op = "truncate" => Step.op = "unpair"
<1>1. PICK rm \in BOOLEAN : Left(job.todo, UnpairScript(rm))
  BY DEF JobInv, Follows
<1>. DEFINE script == UnpairScript(rm)
<1>2. job.todo \in Seq(StepType)
  BY DEF JobInv, JobTyped
<1>3. PICK n \in Nat : Len(job.todo) = n
  BY <1>2
<1>4. PICK m \in {5, 6} :
      /\ Len(script) = m
      /\ script[1] = "kex" /\ script[2] = "auth" /\ script[3] = "unpair" /\ script[4] = "truncate"
      /\ script[5] = "put" /\ (m = 6 => script[6] = "unlink")
  BY DEF UnpairScript
<1>5. Left(job.todo, script)
  BY <1>1
<1>. HIDE DEF script
<1>6. /\ Left(Tail(job.todo), script) /\ Len(Tail(job.todo)) = n - 1 /\ 1 <= n /\ n <= m
      /\ Step.op = script[m - n + 1] /\ Tail(job.todo) \in Seq(StepType)
  <2>1. m \in Nat /\ Len(script) = m
    BY <1>4
  <2>2. /\ Left(Tail(job.todo), script) /\ Len(Tail(job.todo)) = n - 1 /\ 1 <= n /\ n <= m
        /\ Head(job.todo).op = script[m - n + 1]
    BY <1>2, <1>3, <1>5, <2>1, LeftTail
  <2>3. Tail(job.todo) \in Seq(StepType)
    BY <1>2
  <2>. QED
    BY <2>2, <2>3 DEF Step
<1>7. Step.op \in {"kex", "auth", "unpair", "truncate", "put", "unlink"}
  BY <1>4, <1>6
<1>8. ASSUME Tail(job.todo) # <<>>, Head(Tail(job.todo)).op = "truncate" PROVE Step.op = "unpair"
  <2>1. PICK l \in Nat : l = n - 1 /\ Len(Tail(job.todo)) = l
    BY <1>3, <1>6
  <2>5. /\ l \in Nat /\ Len(Tail(job.todo)) = l /\ m \in Nat /\ Len(script) = m
        /\ Tail(job.todo) \in Seq(StepType) /\ Tail(job.todo) # <<>> /\ Left(Tail(job.todo), script)
    BY <1>4, <1>6, <1>8, <2>1
  <2>2. /\ Head(Tail(job.todo)).op = script[m - l + 1] /\ 1 <= l /\ l <= m
    BY <2>5, LeftTail
  <2>3. m - l + 1 = 4
    <3>1. PICK k \in 1 .. 6 : k = m - l + 1 /\ k <= m
      BY <1>4, <2>2
    <3>2. script[k] = "truncate"
      BY <1>8, <2>2, <3>1
    <3>3. k # 1 /\ k # 2 /\ k # 3 /\ k # 5
      BY <1>4, <3>2
    <3>4. k # 6
      BY <1>4, <3>1, <3>2
    <3>. QED
      BY <3>1, <3>3, <3>4
  <2>4. m - n + 1 = 3
    BY <1>4, <2>1, <2>3
  <2>. QED
    BY <1>4, <1>6, <2>4
<1>. QED
  BY <1>6, <1>7, <1>8 DEF script

\* Where `find` and `discover` are.
LEMMA FindStep ==
  ASSUME JobInv, job.cmd = "find", job.todo # <<>>
  PROVE  Left(Tail(job.todo), FindScript) /\ Step.op \in {"kex", "probe", "truncate", "put"}
<1>1. Left(job.todo, FindScript) /\ job.todo \in Seq(StepType)
  BY DEF JobInv, Follows, JobTyped
<1>2. PICK n \in Nat : Len(job.todo) = n
  BY <1>1
<1>3. PICK m \in Nat : m = 4 /\ Len(FindScript) = m
  BY DEF FindScript
<1>4. /\ FindScript[1] = "kex" /\ FindScript[2] = "probe"
      /\ FindScript[3] = "truncate" /\ FindScript[4] = "put"
  BY DEF FindScript
<1>5. m \in Nat /\ Len(FindScript) = m
  BY <1>3
<1>6. /\ Left(Tail(job.todo), FindScript) /\ 1 <= n /\ n <= m
      /\ Step.op = FindScript[m - n + 1]
  BY <1>1, <1>2, <1>5, LeftStep
<1>7. PICK k \in 1 .. 4 : Step.op = FindScript[k]
  BY <1>3, <1>6
<1>. QED
  BY <1>4, <1>6, <1>7

\* The next step of a discovery, and that it writes the file after truncating it.
LEMMA DiscoverStep ==
  ASSUME JobInv, job.cmd = "discover", job.todo # <<>>
  PROVE  /\ Left(Tail(job.todo), DiscoverScript) /\ Step.op \in {"truncate", "put"}
         /\ Step.op = "truncate" => Tail(job.todo) # <<>>
<1>1. Left(job.todo, DiscoverScript) /\ job.todo \in Seq(StepType)
  BY DEF JobInv, Follows, JobTyped
<1>2. PICK n \in Nat : Len(job.todo) = n
  BY <1>1
<1>3. PICK m \in Nat : m = 2 /\ Len(DiscoverScript) = m
  BY DEF DiscoverScript
<1>4. /\ DiscoverScript[1] = "truncate" /\ DiscoverScript[2] = "put"
  BY DEF DiscoverScript
<1>5. m \in Nat /\ Len(DiscoverScript) = m
  BY <1>3
<1>6. /\ Left(Tail(job.todo), DiscoverScript) /\ 1 <= n /\ n <= m /\ Len(Tail(job.todo)) = n - 1
      /\ Step.op = DiscoverScript[m - n + 1]
  BY <1>1, <1>2, <1>5, LeftStep
<1>9. m = 2 /\ 1 <= n /\ n <= m
  BY <1>3, <1>6
<1>7. PICK k \in 1 .. 2 : k = m - n + 1 /\ Step.op = DiscoverScript[k]
  BY <1>6, <1>9
<1>8. k = 1 => Tail(job.todo) # <<>>
  <2>1. k = 1 => n - 1 > 0
    BY <1>7, <1>9
  <2>2. Len(Tail(job.todo)) = n - 1
    BY <1>6
  <2>3. Len(<<>>) = 0
    OBVIOUS
  <2>4. k = 1 => n - 1 # 0
    BY <2>1
  <2>. QED
    BY <2>2, <2>3, <2>4
<1>. QED
  BY <1>4, <1>6, <1>7, <1>8

\* A step that touches neither the file nor the token belongs to any other command.
LEMMA OtherStep ==
  ASSUME JobInv, job.cmd \notin Files, job.todo # <<>>
  PROVE  /\ job.todo \in Seq(Plain) /\ Tail(job.todo) \in Seq(Plain)
         /\ Step \in Plain /\ Step.op \notin FileOps
<1>1. job.todo \in Seq(Plain)
  BY DEF JobInv, Follows
<1>2. Tail(job.todo) \in Seq(Plain) /\ Head(job.todo) \in Plain
  BY <1>1
<1>. QED
  BY <1>1, <1>2 DEF Step, Plain, PlainOps, FileOps

\* A command that its next step leads to: of the same kind, with these steps left.
Becomes(j, todo) ==
  /\ Fields(j)
  /\ j.cmd = job.cmd /\ j.slot = job.slot /\ j.text \in 0 .. Tokens
  /\ j.todo = todo

\* No command is one with nothing left to do.
LEMMA NoJobFine == JobTyped(NoJob) /\ Follows(NoJob) /\ NoJob.todo = <<>> /\ NoJob.cmd = "none"
<1>1. NoJob.cmd = "none" /\ NoJob.todo = <<>> /\ NoJob.slot = 0 /\ NoJob.text = 0
  BY DEF NoJob
<1>2. <<>> \in Seq(StepType) /\ <<>> \in Seq(Plain)
  OBVIOUS
<1>3. 0 \in 0 .. Tokens
  BY Assumed
<1>4. JobTyped(NoJob)
  BY <1>1, <1>2, <1>3 DEF JobTyped, NoJob, Fields
<1>. QED
  BY <1>1, <1>2, <1>4 DEF Follows

\* However a command goes on, it is over or has steps left.
LEMMA GoOnFine ==
  ASSUME NEW j, JobTyped(j), Follows(j), NEW s \in Sessions, GoOn(j, s)
  PROVE  /\ JobTyped(job') /\ Follows(job')
         /\ session' \in Sessions
         /\ job' = NoJob => session' = "none"
         /\ job' = NoJob \/ (job' = j /\ j.todo # <<>>)
<1>1. CASE j.todo = <<>>
  BY <1>1, NoJobFine DEF GoOn, AtEnd, Sessions
<1>2. CASE j.todo # <<>>
  BY <1>2, NoJobFine DEF GoOn
<1>. QED
  BY <1>1, <1>2

\* What is left of a command is fine, one step on.
LEMMA TailFine ==
  ASSUME JobInv, job.todo # <<>>, NEW j, Becomes(j, Tail(job.todo))
  PROVE  JobTyped(j) /\ Follows(j)
<1>1. job.todo \in Seq(StepType) /\ job.slot \in Slots \cup {0}
  BY DEF JobInv, JobTyped
<1>2. Tail(job.todo) \in Seq(StepType)
  BY <1>1
<1>3. JobTyped(j)
  BY <1>1, <1>2 DEF Becomes, JobTyped
<1>4. j.cmd = job.cmd /\ j.todo = Tail(job.todo)
  BY DEF Becomes
<1>5. PICK n \in Nat : Len(job.todo) = n
  BY <1>1
<1>6. Follows(j)
  BY <1>4, <1>5, PairStep, UnpairStep, FindStep, DiscoverStep, OtherStep DEF Follows
<1>. QED
  BY <1>3, <1>6

\* Nothing left is the end of every script.
LEMMA LeftNothing == ASSUME NEW script, Len(script) \in Nat PROVE Left(<<>>, script)
<1>1. Len(<<>>) = 0 /\ DOMAIN <<>> = {}
  OBVIOUS
<1>. QED
  BY <1>1 DEF Left

\* A command that gives up has nothing left.
LEMMA NothingLeftFine ==
  ASSUME JobInv, NEW j, Becomes(j, <<>>)
  PROVE  JobTyped(j) /\ Follows(j)
<1>1. job.slot \in Slots \cup {0} /\ <<>> \in Seq(StepType) /\ <<>> \in Seq(Plain)
  BY DEF JobInv, JobTyped
<1>2. Len(PairScript) \in Nat /\ Len(FindScript) \in Nat /\ Len(DiscoverScript) \in Nat /\ Len(UnpairScript(TRUE)) \in Nat
  BY DEF PairScript, FindScript, DiscoverScript, UnpairScript
<1>3. /\ Left(<<>>, PairScript) /\ Left(<<>>, FindScript) /\ Left(<<>>, DiscoverScript)
      /\ Left(<<>>, UnpairScript(TRUE))
  BY <1>2, LeftNothing
<1>. QED
  BY <1>1, <1>3 DEF Becomes, JobTyped, Follows

\* Any other command goes on with any steps of its kind.
LEMMA PlainFine ==
  ASSUME JobInv, job.cmd \notin Files, NEW todo \in Seq(Plain), NEW j, Becomes(j, todo)
  PROVE  JobTyped(j) /\ Follows(j)
<1>1. job.slot \in Slots \cup {0}
  BY DEF JobInv, JobTyped
<1>2. Plain \subseteq StepType
  BY DEF Plain, StepType, Ops
<1>3. todo \in Seq(StepType)
  BY <1>2
<1>. QED
  BY <1>1, <1>3 DEF Becomes, JobTyped, Follows, Files

\* Some of the slots are asked for, one after another.
LEMMA ForEachPlain ==
  ASSUME NEW op \in PlainOps, NEW S \in SUBSET Slots
  PROVE  ForEach(op, S) \in Seq(Plain)
<1>1. IsFiniteSet(S) /\ S \in SUBSET Nat
  <2>1. IsFiniteSet(Slots) /\ Slots \subseteq Nat
    BY Assumed
  <2>. QED
    BY <2>1, FS_Subset
<1>2. StrictOrder(S, Ascending(S))
  BY <1>1, AscendingIsOrder
<1>3. /\ Cardinality(S) \in Nat
      /\ \A k \in 1 .. Cardinality(S) : Nth(S, Ascending(S), k) \in S
  BY <1>1, <1>2, NthInOrder
<1>4. \A k \in 1 .. Cardinality(S) : [op |-> op, slot |-> Nth(S, Ascending(S), k)] \in Plain
  BY <1>3 DEF Plain, StepType, Ops
<1>. QED
  BY <1>3, <1>4 DEF ForEach

\* Steps that write nothing.
LEMMA StepsPlain ==
  ASSUME NEW ops \in Seq(PlainOps)
  PROVE  Steps(ops) \in Seq(Plain)
<1>1. \A i \in 1 .. Len(ops) : [op |-> ops[i], slot |-> 0] \in Plain
  BY DEF Plain, StepType, Ops
<1>2. DOMAIN ops = 1 .. Len(ops) /\ Len(ops) \in Nat
  OBVIOUS
<1>. QED
  BY <1>1, <1>2 DEF Steps

\* A single step at the bulb.
LEMMA DoPlain == ASSUME NEW op \in PlainOps PROVE Do(op) \in Seq(Plain)
<1>1. [op |-> op, slot |-> 0] \in Plain
  BY DEF Plain, StepType, Ops
<1>. QED
  BY <1>1 DEF Do

\* The handshake writes no file.
LEMMA OpeningPlain == Opening \in Seq(Plain)
<1>1. "kex" \in PlainOps /\ "auth" \in PlainOps
  BY DEF PlainOps
<1>2. <<"kex", "auth">> \in Seq(PlainOps)
  BY <1>1
<1>. QED
  BY <1>2, StepsPlain DEF Opening

\* After a failure as well a command goes on as one of its kind.
LEMMA AfterFailureFine ==
  ASSUME JobInv, job.todo # <<>>, NEW j, Becomes(j, AfterFailure)
  PROVE  /\ JobTyped(j) /\ Follows(j)
         /\ job.cmd = "unpair" => j.todo = <<>>
         /\ job.cmd = "pair" => j.todo = <<>> \/ (Len(job.todo) >= 7 /\ Len(j.todo) = 6)
<1>. DEFINE revoking == Is({"kex_old", "auth_old", "revoke"})
            tail == Is(Tolerated) \/ (Is({"current"}) /\ job.cmd # "current")
<1>1. job.todo \in Seq(StepType) /\ job.slot \in Slots \cup {0}
  BY DEF JobInv, JobTyped
<1>7. \/ tail /\ AfterFailure = Tail(job.todo)
      \/ revoking /\ AfterFailure = SubSeq(job.todo, Len(job.todo) - 5, Len(job.todo))
      \/ job.cmd = "observe" /\ AfterFailure = Opening \o Do("light")
      \/ AfterFailure = <<>>
  <2>. DEFINE t1 == Tail(job.todo)
              t2 == SubSeq(job.todo, Len(job.todo) - 5, Len(job.todo))
              t3 == Opening \o Do("light")
  <2>1. AfterFailure = CASE tail -> t1 [] revoking -> t2 [] job.cmd = "observe" -> t3 [] OTHER -> <<>>
    BY DEF AfterFailure
  <2>. HIDE DEF t1, t2, t3, tail, revoking
  <2>2. \/ tail /\ AfterFailure = t1
        \/ revoking /\ AfterFailure = t2
        \/ job.cmd = "observe" /\ AfterFailure = t3
        \/ AfterFailure = <<>>
    BY <2>1
  <2>. QED
    BY <2>2 DEF t1, t2, t3, tail, revoking
<1>2. PICK n \in Nat : Len(job.todo) = n
  BY <1>1
<1>3. CASE tail /\ AfterFailure = Tail(job.todo)
  <2>1. Becomes(j, Tail(job.todo))
    BY <1>3
  <2>2. job.cmd # "pair"
    <3>1. Step.op \in {"get", "clear", "thread", "probe", "current"}
      BY <1>3 DEF Is, Tolerated
    <3>. QED
      BY <1>2, <3>1, PairStep
  <2>3. job.cmd # "unpair"
    <3>1. Step.op \in {"get", "clear", "thread", "probe", "current"}
      BY <1>3 DEF Is, Tolerated
    <3>. QED
      BY <3>1, UnpairStep
  <2>. QED
    BY <2>1, <2>2, <2>3, TailFine
<1>4. CASE revoking /\ AfterFailure = SubSeq(job.todo, Len(job.todo) - 5, Len(job.todo))
  <2>1. Step.op \in {"kex_old", "auth_old", "revoke"}
    BY <1>4 DEF Is
  <2>2. job.cmd = "pair"
    BY <2>1, UnpairStep, FindStep, DiscoverStep, OtherStep DEF Files, FileOps
  <2>3. n \in 7 .. 9
    <3>1. n \in 1 .. 9 /\ n >= 7
      BY <1>2, <2>1, <2>2, PairStep
    <3>. QED
      BY <3>1
  <2>. DEFINE rest == SubSeq(job.todo, n - 5, n)
  <2>4. Becomes(j, rest)
    BY <1>2, <1>4
  <2>5. /\ rest \in Seq(StepType) /\ Len(rest) = 6 /\ DOMAIN rest = 1 .. 6
        /\ \A i \in 1 .. 6 : rest[i] = job.todo[n - 6 + i]
    BY <1>1, <1>2, <2>3
  <2>6. Left(rest, PairScript)
    <3>1. /\ \A i \in 1 .. n : job.todo[i].op = PairScript[9 - n + i]
      <4>1. Left(job.todo, PairScript) /\ DOMAIN job.todo = 1 .. n
        BY <1>1, <1>2, <2>2 DEF JobInv, Follows
      <4>2. Len(PairScript) = 9
        BY DEF PairScript
      <4>. QED
        BY <1>2, <4>1, <4>2 DEF Left
    <3>2. \A i \in 1 .. 6 : rest[i].op = PairScript[3 + i]
      <4>1. SUFFICES ASSUME NEW i \in 1 .. 6 PROVE rest[i].op = PairScript[3 + i]
        OBVIOUS
      <4>2. n - 6 + i \in 1 .. n
        BY <2>3
      <4>3. 9 - n + (n - 6 + i) = 3 + i
        BY <2>3
      <4>. QED
        BY <2>5, <3>1, <4>2, <4>3
    <3>3. Len(PairScript) = 9
      BY DEF PairScript
    <3>. HIDE DEF rest
    <3>. QED
      BY <2>5, <3>2, <3>3 DEF Left
  <2>. HIDE DEF rest
  <2>7. JobTyped(j)
    BY <1>1, <2>4, <2>5 DEF Becomes, JobTyped
  <2>8. Follows(j)
    BY <2>2, <2>4, <2>6 DEF Becomes, Follows, Files
  <2>9. Len(job.todo) >= 7
    BY <1>2, <2>3
  <2>10. Len(j.todo) = 6
    BY <2>4, <2>5 DEF Becomes
  <2>. QED
    BY <2>2, <2>7, <2>8, <2>9, <2>10
<1>5. CASE job.cmd = "observe" /\ AfterFailure = Opening \o Do("light")
  <2>1. Becomes(j, Opening \o Do("light"))
    BY <1>5
  <2>2. "light" \in PlainOps /\ job.cmd \notin Files
    BY <1>5 DEF PlainOps, Files
  <2>3. Opening \o Do("light") \in Seq(Plain)
    BY <2>2, OpeningPlain, DoPlain
  <2>. QED
    BY <2>1, <2>2, <2>3, PlainFine DEF Files
<1>6. CASE AfterFailure = <<>>
  <2>1. Becomes(j, <<>>)
    BY <1>6
  <2>2. j.todo = <<>>
    BY <2>1 DEF Becomes
  <2>. QED
    BY <2>1, <2>2, NothingLeftFine
<1>. QED
  BY <1>3, <1>4, <1>5, <1>6, <1>7

\* All that is true of the commands.
CmdInv == JobInv /\ BulbInv /\ TokenInv

\* Where a step may lead a command, when the bulb then accepts token a.
Onward(j, a) ==
  \/ j.todo = <<>>
  \/ /\ j.cmd = job.cmd /\ job.todo # <<>> /\ j.todo = Tail(job.todo)
     /\ Step.op \notin {"pair", "unpair"} \/ a = 0
  \/ j.cmd = job.cmd /\ j.cmd \notin {"pair", "unpair"}
  \/ j.cmd = job.cmd /\ j.cmd = "pair" /\ Len(job.todo) >= 7 /\ Len(j.todo) = 6
  \/ j.cmd = job.cmd /\ j.todo = job.todo /\ j.text = job.text

\* The tokens stay in order when the bulb gets no new one.
LEMMA TokensOnward ==
  ASSUME CmdInv, Onward(job', accepted') \/ job' = NoJob,
         conf'.state \in {"absent", "torn", "good"}, conf'.token \in 0 .. Tokens,
         issued' = issued, accepted' \in {accepted, 0}, jobs' = jobs
  PROVE  TokenInv'
<1>1. /\ issued \in Nat /\ issued <= 2 + jobs /\ accepted \in 0 .. Tokens /\ jobs \in Nat
      /\ job.todo \in Seq(StepType)
  BY DEF CmdInv, TokenInv, JobInv, JobTyped
<1>2. accepted' \in 0 .. Tokens
  BY <1>1, Assumed
<1>3. CASE job'.todo = <<>>
  <2>1. Len(job'.todo) = 0 /\ ~ Is({"truncate"})'
    BY <1>3 DEF Is
  <2>. QED
    BY <1>1, <1>2, <2>1 DEF TokenInv
<1>4. CASE /\ job'.cmd = job.cmd /\ job.todo # <<>> /\ job'.todo = Tail(job.todo)
           /\ Step.op \notin {"pair", "unpair"} \/ accepted' = 0
  <2>1. PICK n \in Nat : Len(job.todo) = n
    BY <1>1
  <2>2. ASSUME job.cmd = "pair"
        PROVE  /\ Len(job'.todo) >= 5 => issued <= 1 + jobs
               /\ Len(job'.todo) = 4 => accepted' = 0
    <3>1. /\ Len(job'.todo) = n - 1 /\ n \in 1 .. 9
          /\ n = 5 => Step.op = "pair"
      BY <1>4, <2>1, <2>2, PairStep DEF CmdInv
    <3>2. n >= 5 => issued <= 1 + jobs
      BY <2>1, <2>2 DEF CmdInv, TokenInv
    <3>3. Len(job'.todo) >= 5 => issued <= 1 + jobs
      BY <3>1, <3>2
    <3>4. Len(job'.todo) = 4 => n = 5
      <4>1. PICK l \in Int : l = n - 1
        OBVIOUS
      <4>2. Len(job'.todo) = l
        BY <3>1, <4>1
      <4>3. l = 4 => n = 5
        BY <4>1
      <4>. QED
        BY <4>2, <4>3
    <3>. QED
      BY <1>4, <3>1, <3>3, <3>4
  <2>3. ASSUME job.cmd = "unpair", Is({"truncate"})'
        PROVE  accepted' = 0
    <3>1. Tail(job.todo) # <<>> /\ Head(Tail(job.todo)).op = "truncate"
      BY <1>4, <2>3 DEF Is, Step
    <3>2. Step.op = "unpair"
      BY <1>4, <2>3, <3>1, UnpairStep DEF CmdInv
    <3>. QED
      BY <1>4, <3>2
  <2>. QED
    BY <1>1, <1>2, <1>4, <2>2, <2>3 DEF TokenInv
<1>5. CASE job'.cmd = job.cmd /\ job'.cmd \notin {"pair", "unpair"}
  BY <1>1, <1>2, <1>5 DEF TokenInv
<1>6. CASE job'.cmd = job.cmd /\ job'.cmd = "pair" /\ Len(job.todo) >= 7 /\ Len(job'.todo) = 6
  <2>1. issued <= 1 + jobs
    <3>1. PICK n \in Nat : Len(job.todo) = n
      BY <1>1
    <3>2. n >= 5
      BY <1>6, <3>1
    <3>. QED
      BY <1>6, <3>1, <3>2 DEF CmdInv, TokenInv
  <2>. QED
    BY <1>1, <1>2, <1>6, <2>1 DEF TokenInv
<1>7. CASE job'.cmd = job.cmd /\ job'.todo = job.todo /\ job'.text = job.text
  <2>1. Is({"truncate"})' => Is({"truncate"})
    BY <1>7 DEF Is, Step
  <2>. QED
    BY <1>1, <1>2, <1>7, <2>1 DEF CmdInv, TokenInv
<1>8. job' = NoJob => job'.todo = <<>>
  BY NoJobFine
<1>. QED
  BY <1>3, <1>4, <1>5, <1>6, <1>7, <1>8 DEF Onward

\* A step of a command, for which the bulb issues no token, keeps the invariant.
LEMMA GoesOn ==
  ASSUME CmdInv, NEW j, JobTyped(j), Follows(j), Onward(j, accepted'), NEW s \in Sessions, GoOn(j, s),
         conf'.state \in {"absent", "torn", "good"}, conf'.token \in 0 .. Tokens,
         issued' = issued, accepted' \in {accepted, 0}, jobs' = jobs, BulbInv'
  PROVE  CmdInv'
<1>1. /\ JobTyped(job') /\ Follows(job') /\ session' \in Sessions
      /\ job' = NoJob => session' = "none"
      /\ job' = NoJob \/ job' = j
  BY GoOnFine
<1>2. JobInv'
  <2>1. jobs' \in 0 .. MaxJobs
    BY DEF CmdInv, JobInv
  <2>2. JobTyped(job)' /\ Follows(job)'
    BY <1>1 DEF JobTyped, Follows
  <2>. QED
    BY <1>1, <2>1, <2>2 DEF JobInv, Sessions
<1>3. Onward(job', accepted') \/ job' = NoJob
  BY <1>1
<1>4. TokenInv'
  BY <1>3, TokensOnward
<1>. QED
  BY <1>2, <1>4 DEF CmdInv

\* A command that exits keeps the invariant.
LEMMA ExitKept ==
  ASSUME CmdInv, Exit, UNCHANGED <<bulb, conf, jobs>>
  PROVE  CmdInv'
<1>1. NoJob.todo = <<>> /\ JobTyped(NoJob) /\ Follows(NoJob) /\ session \in Sessions /\ Onward(NoJob, accepted')
  BY NoJobFine DEF CmdInv, JobInv, Sessions, Onward
<1>2. BulbInv' /\ conf'.state \in {"absent", "torn", "good"} /\ conf'.token \in 0 .. Tokens
  BY DEF CmdInv, BulbInv, TokenInv, bulb
<1>. QED
  BY <1>1, <1>2, GoesOn DEF Exit, bulb

\* The command with some fields changed and these steps left.
LEMMA BecomesTodo ==
  ASSUME CmdInv, NEW todo
  PROVE  Becomes([job EXCEPT !.todo = todo], todo)
<1>1. PICK j : j = [job EXCEPT !.todo = todo]
  OBVIOUS
<1>2. Fields(job) /\ job.text \in 0 .. Tokens
  BY DEF CmdInv, JobInv, JobTyped
<1>3. /\ j.cmd = job.cmd /\ j.todo = todo /\ j.slot = job.slot /\ j.text = job.text
      /\ Fields(j)
  BY <1>1, <1>2 DEF Fields
<1>. QED
  BY <1>1, <1>2, <1>3 DEF Becomes

\* The next step, of a command that neither pairs nor unpairs with this one.
LEMMA AheadKept ==
  ASSUME CmdInv, job.todo # <<>>, NEW s \in Sessions, Ahead(s),
         Step.op \notin {"pair", "unpair"} \/ accepted' = 0,
         conf'.state \in {"absent", "torn", "good"}, conf'.token \in 0 .. Tokens,
         issued' = issued, accepted' \in {accepted, 0}, jobs' = jobs, BulbInv'
  PROVE  CmdInv'
<1>. DEFINE j == [job EXCEPT !.todo = Tail(job.todo)]
<1>1. Becomes(j, Tail(job.todo)) /\ GoOn(j, s)
  BY BecomesTodo DEF Ahead
<1>. HIDE DEF j
<1>2. JobTyped(j) /\ Follows(j)
  BY <1>1, TailFine DEF CmdInv
<1>3. Onward(j, accepted')
  BY <1>1 DEF Becomes, Onward
<1>. QED
  BY <1>1, <1>2, <1>3, GoesOn

\* A command that goes on as one of its kind does after a failure keeps it.
LEMMA FailsOn ==
  ASSUME CmdInv, job.todo # <<>>, NEW j, Becomes(j, AfterFailure), NEW s \in Sessions, GoOn(j, s),
         UNCHANGED <<conf, jobs>>, issued' = issued, accepted' \in {accepted, 0}, BulbInv'
  PROVE  CmdInv'
<1>1. /\ JobTyped(j) /\ Follows(j)
      /\ job.cmd = "unpair" => j.todo = <<>>
      /\ job.cmd = "pair" => j.todo = <<>> \/ (Len(job.todo) >= 7 /\ Len(j.todo) = 6)
  BY AfterFailureFine DEF CmdInv
<1>2. Onward(j, accepted')
  BY <1>1 DEF Becomes, Onward
<1>3. conf'.state \in {"absent", "torn", "good"} /\ conf'.token \in 0 .. Tokens
  BY DEF CmdInv, TokenInv
<1>. QED
  BY <1>1, <1>2, <1>3, GoesOn

\* A step that fails keeps it: the command ends, or goes on with what it does then.
LEMMA FailKept ==
  ASSUME CmdInv, job.todo # <<>>, NEW s \in Sessions, Fail(s),
         UNCHANGED <<conf, jobs>>, issued' = issued, accepted' \in {accepted, 0}, BulbInv'
  PROVE  CmdInv'
<1>. DEFINE j == [job EXCEPT !.todo = AfterFailure]
<1>1. Becomes(j, AfterFailure) /\ GoOn(j, s)
  BY BecomesTodo DEF Fail
<1>. HIDE DEF j
<1>. QED
  BY <1>1, FailsOn

\* The key exchange keeps the invariant.
LEMMA KexKept == ASSUME CmdInv, Kex PROVE CmdInv'
<1>1. job.todo # <<>> /\ Step.op \notin {"pair", "unpair"} /\ Ahead("open") /\ UNCHANGED <<bulb, conf, jobs>>
  BY DEF Kex, Is
<1>2. BulbInv' /\ conf'.state \in {"absent", "torn", "good"} /\ conf'.token \in 0 .. Tokens
  BY <1>1 DEF CmdInv, BulbInv, TokenInv, bulb
<1>3. "open" \in Sessions
  BY DEF Sessions
<1>. QED
  BY <1>1, <1>2, <1>3, AheadKept DEF bulb

\* Authentication keeps it, when the bulb accepts the token and when it does not.
LEMMA AuthKept == ASSUME CmdInv, Auth PROVE CmdInv'
<1>1. job.todo # <<>> /\ Step.op \notin {"pair", "unpair"} /\ UNCHANGED <<bulb, conf, jobs>>
  BY DEF Auth, Is
<1>2. BulbInv' /\ conf'.state \in {"absent", "torn", "good"} /\ conf'.token \in 0 .. Tokens
  BY <1>1 DEF CmdInv, BulbInv, TokenInv, bulb
<1>3. "open" \in Sessions /\ "authed" \in Sessions
  BY DEF Sessions
<1>4. Ahead("authed") \/ Fail("open")
  BY DEF Auth
<1>. QED
  BY <1>1, <1>2, <1>3, <1>4, AheadKept, FailKept DEF bulb

\* A slot of the bulb, or none.
LEMMA TargetTyped ==
  ASSUME CmdInv, Is({"play"})
  PROVE  Target \in Slots \cup {0}
<1>1. Step \in StepType /\ job.slot \in Slots \cup {0}
  <2>1. job.todo \in Seq(StepType) /\ job.slot \in Slots \cup {0} /\ job.todo # <<>>
    BY DEF CmdInv, JobInv, JobTyped, Is
  <2>. QED
    BY <2>1 DEF Step
<1>2. Step.slot \in Slots \cup {0}
  BY <1>1 DEF StepType
<1>. DEFINE named == IF job.query = None THEN job.slot
                     ELSE IF Ambiguous THEN 0 ELSE CHOOSE s \in Matched : TRUE
            adding == Step.slot = 0 /\ Is({"add"}) /\ job.cmd = "add"
            free == IF job.slot # 0 THEN job.slot
                    ELSE IF Slots \subseteq job.listed THEN 0 ELSE Min(Slots \ job.listed)
            aimed == Step.slot = 0 /\ (Is({"play", "delete"}) \/ job.cmd = "replace")
<1>3. Target = CASE Step.slot # 0 -> Step.slot [] aimed -> named [] adding -> free [] OTHER -> 0
  BY DEF Target
<1>4. ~ adding
  BY DEF Is
<1>5. named \in Slots \cup {0}
  <2>1. CASE job.query # None /\ ~ Ambiguous
    <3>1. Cardinality(Matched) = 1
      BY <2>1 DEF Ambiguous
    <3>2. Matched \subseteq Slots
      BY DEF Matched
    <3>3. Matched # {}
      BY <3>1, FS_EmptySet
    <3>. QED
      BY <2>1, <3>2, <3>3
  <2>. QED
    BY <1>1, <2>1
<1>. HIDE DEF named, adding, free, aimed
<1>6. Target = Step.slot \/ Target = named \/ (adding /\ Target = free) \/ Target = 0
  BY <1>3
<1>. QED
  BY <1>2, <1>4, <1>5, <1>6

\* What a request does to the bulb's tokens and scenes.
LEMMA ExecuteBulb ==
  ASSUME CmdInv, Execute
  PROVE  /\ BulbInv'
         /\ job.todo # <<>>
         /\ Step.op # "pair" => issued' = issued /\ accepted' \in {accepted, 0}
         /\ Step.op = "pair" => issued' = issued + 1 /\ accepted' = issued'
         /\ Step.op = "unpair" => accepted' = 0
<1>. USE DEF Is, BulbInv
<1>1. CASE delete_scene
  BY <1>1 DEF delete_scene, CmdInv
<1>2. CASE add_scene
  BY <1>2 DEF add_scene, CmdInv
<1>3. CASE play_scene
  <2>1. Target \in Slots \cup {0}
    BY <1>3, TargetTyped DEF play_scene
  <2>. QED
    BY <1>3, <2>1 DEF play_scene, CmdInv
<1>4. CASE delete_token
  BY <1>4 DEF delete_token, CmdInv
<1>5. CASE pair
  BY <1>5 DEF pair, CmdInv
<1>6. CASE list_scenes \/ get_scene \/ query
  BY <1>6 DEF list_scenes, get_scene, query, CmdInv, bulb
<1>. QED
  BY <1>1, <1>2, <1>3, <1>4, <1>5, <1>6 DEF Execute

\* Only `pair` pairs, and no command that writes the file lists or reads scenes.
LEMMA WhoseStep ==
  ASSUME CmdInv, job.todo # <<>>
  PROVE  /\ Step.op = "pair" => job.cmd = "pair"
         /\ Step.op \in {"list", "get", "current", "light"} => job.cmd \notin Files
<1>1. PICK n \in Nat : Len(job.todo) = n
  BY DEF CmdInv, JobInv, JobTyped
<1>2. Step.op = "pair" => job.cmd \in Files
  BY OtherStep DEF FileOps, CmdInv
<1>3. Step.op = "pair" => job.cmd \notin {"unpair", "find", "discover"}
  BY UnpairStep, FindStep, DiscoverStep DEF CmdInv
<1>4. Step.op \in {"list", "get", "current", "light"} => job.cmd \notin {"unpair", "find", "discover"}
  BY UnpairStep, FindStep, DiscoverStep DEF CmdInv
<1>5. Step.op \in {"list", "get", "current", "light"} => job.cmd # "pair"
  BY <1>1, PairStep DEF CmdInv
<1>. QED
  BY <1>2, <1>3, <1>4, <1>5 DEF Files

\* The bulb is asked for every scene, or told to delete each, where the command says so.
LEMMA ListedPlain ==
  ASSUME NEW H \in SUBSET Slots, NEW rest \in Seq(Plain), NEW q, q = [i \in DOMAIN rest |-> q[i]],
         \A i \in DOMAIN rest : q[i] \in {ForEach("get", H), ForEach("clear", H), <<rest[i]>>}
  PROVE  FlattenSeq(q) \in Seq(Plain)
<1>1. "get" \in PlainOps /\ "clear" \in PlainOps
  BY DEF PlainOps
<1>2. ForEach("get", H) \in Seq(Plain) /\ ForEach("clear", H) \in Seq(Plain)
  BY <1>1, ForEachPlain
<1>3. DOMAIN rest = 1 .. Len(rest) /\ Len(rest) \in Nat /\ \A i \in DOMAIN rest : rest[i] \in Plain
  OBVIOUS
<1>4. \A i \in DOMAIN rest : <<rest[i]>> \in Seq(Plain)
  BY <1>3
<1>5. \A i \in DOMAIN rest : q[i] \in Seq(Plain)
  BY <1>2, <1>4
<1>6. q \in Seq(Seq(Plain))
  BY <1>3, <1>5
<1>. QED
  BY <1>6, FlattenTyped

\* The answer to a listing keeps it, whatever it adds to what the command has to do.
LEMMA ListedKept ==
  ASSUME CmdInv, Is({"list"}), NEW H \in SUBSET Slots, Listed(H), BulbInv', UNCHANGED <<conf, jobs>>, issued' = issued,
         accepted' \in {accepted, 0}
  PROVE  CmdInv'
<1>. DEFINE Each(step) == CASE step.op = "gets" -> ForEach("get", H)
                            [] step.op = "clears" -> ForEach("clear", H)
                            [] OTHER -> <<step>>
            rest == Tail(job.todo)
            q == [i \in DOMAIN rest |-> Each(rest[i])]
            todo == FlattenSeq(q)
<1>1. /\ job.todo # <<>> /\ Step.op = "list" /\ session \in Sessions
      /\ conf'.state \in {"absent", "torn", "good"} /\ conf'.token \in 0 .. Tokens
  BY DEF Is, CmdInv, JobInv, Sessions, TokenInv
<1>2. job.cmd \notin Files
  BY <1>1, WhoseStep
<1>3. Tail(job.todo) \in Seq(Plain)
  BY <1>1, <1>2, OtherStep DEF CmdInv
<1>4. todo \in Seq(Plain)
  <2>1. \A x : Each(x) \in {ForEach("get", H), ForEach("clear", H), <<x>>}
    OBVIOUS
  <2>. HIDE DEF Each
  <2>2. /\ \A i \in DOMAIN rest : q[i] \in {ForEach("get", H), ForEach("clear", H), <<rest[i]>>}
        /\ q = [i \in DOMAIN rest |-> q[i]]
    BY <2>1
  <2>3. rest \in Seq(Plain)
    BY <1>3
  <2>. HIDE DEF q, rest
  <2>. QED
    BY <2>2, <2>3, ListedPlain
<1>9. PICK j : j = [job EXCEPT !.listed = H, !.raced = FALSE, !.todo = todo]
  OBVIOUS
<1>5. Exit \/ GoOn(j, session)
  BY <1>9 DEF Listed
<1>6. ASSUME Exit PROVE CmdInv'
  <2>1. NoJob.todo = <<>> /\ JobTyped(NoJob) /\ Follows(NoJob) /\ Onward(NoJob, accepted')
    BY NoJobFine DEF Onward
  <2>. QED
    BY <1>1, <1>6, <2>1, GoesOn DEF Exit
<1>. HIDE DEF todo
<1>7. Becomes(j, todo)
  <2>1. Fields(job) /\ job.text \in 0 .. Tokens
    BY DEF CmdInv, JobInv, JobTyped
  <2>2. /\ j.cmd = job.cmd /\ j.todo = todo /\ j.slot = job.slot /\ j.text = job.text
        /\ Fields(j)
    BY <1>9, <2>1 DEF Fields
  <2>. QED
    BY <2>1, <2>2 DEF Becomes
<1>8. JobTyped(j) /\ Follows(j) /\ Onward(j, accepted')
  <2>1. JobTyped(j) /\ Follows(j)
    BY <1>2, <1>4, <1>7, PlainFine DEF CmdInv
  <2>. QED
    BY <1>2, <1>7, <2>1 DEF Onward, Becomes, Files
<1>. QED
  BY <1>1, <1>5, <1>6, <1>8, GoesOn

\* The answer to the question for one scene keeps it.
LEMMA GotKept ==
  ASSUME CmdInv, Is({"get"}), Got, BulbInv', UNCHANGED <<conf, jobs>>, issued' = issued,
         accepted' \in {accepted, 0}
  PROVE  CmdInv'
<1>1. /\ job.todo # <<>> /\ Step.op = "get" /\ session \in Sessions
      /\ conf'.state \in {"absent", "torn", "good"} /\ conf'.token \in 0 .. Tokens
  BY DEF Is, CmdInv, JobInv, Sessions, TokenInv
<1>2. PICK p : \/ Exit
               \/ GoOn([job EXCEPT !.seen[Step.slot] = IF job.query = None THEN @ ELSE p,
                                   !.todo = Tail(@)], session)
  BY DEF Got
<1>7. PICK j : j = [job EXCEPT !.seen[Step.slot] = IF job.query = None THEN @ ELSE p, !.todo = Tail(@)]
  OBVIOUS
<1>3. ASSUME Exit PROVE CmdInv'
  <2>1. NoJob.todo = <<>> /\ JobTyped(NoJob) /\ Follows(NoJob) /\ Onward(NoJob, accepted')
    BY NoJobFine DEF Onward
  <2>. QED
    BY <1>1, <1>3, <2>1, GoesOn DEF Exit
<1>4. Becomes(j, Tail(job.todo))
  <2>1. Fields(job) /\ job.text \in 0 .. Tokens
    BY DEF CmdInv, JobInv, JobTyped
  <2>2. /\ j.cmd = job.cmd /\ j.todo = Tail(job.todo) /\ j.slot = job.slot /\ j.text = job.text
        /\ Fields(j)
    BY <1>7, <2>1 DEF Fields
  <2>. QED
    BY <2>1, <2>2 DEF Becomes
<1>5. JobTyped(j) /\ Follows(j) /\ Onward(j, accepted')
  <2>1. JobTyped(j) /\ Follows(j)
    BY <1>1, <1>4, TailFine DEF CmdInv
  <2>. QED
    BY <1>1, <1>4, <2>1 DEF Onward, Becomes
<1>6. Exit \/ GoOn(j, session)
  BY <1>2, <1>7
<1>. QED
  BY <1>1, <1>3, <1>5, <1>6, GoesOn

\* The bulb has issued a token, which the command is to write.
LEMMA PairedKept ==
  ASSUME CmdInv, job.todo # <<>>, Step.op = "pair", issued' = issued + 1, accepted' = issued',
         GoOn([job EXCEPT !.text = issued', !.todo = Tail(@)], session),
         BulbInv', UNCHANGED <<conf, jobs>>
  PROVE  CmdInv'
<1>8. PICK j : j = [job EXCEPT !.text = issued', !.todo = Tail(@)]
  OBVIOUS
<1>1. /\ session \in Sessions /\ issued \in Nat /\ jobs \in 0 .. MaxJobs /\ job.todo \in Seq(StepType)
      /\ conf'.state \in {"absent", "torn", "good"} /\ conf'.token \in 0 .. Tokens
  BY DEF CmdInv, JobInv, JobTyped, Sessions, TokenInv
<1>2. job.cmd = "pair"
  BY WhoseStep
<1>3. PICK n \in Nat : Len(job.todo) = n
  BY <1>1
<1>4. n = 5 /\ Len(Tail(job.todo)) = n - 1
  <2>1. n \in 1 .. 9 /\ Len(Tail(job.todo)) = n - 1
    BY <1>2, <1>3, PairStep DEF CmdInv
  <2>2. /\ n = 9 => Step.op = "kex_old"
        /\ n = 8 => Step.op = "auth_old"
        /\ n = 7 => Step.op = "revoke"
        /\ n = 6 => Step.op = "kex"
        /\ n \in {2, 4} => Step.op = "truncate"
        /\ n \in {1, 3} => Step.op = "put"
    BY <1>2, <1>3, PairStep DEF CmdInv
  <2>3. n \notin {9, 8, 7, 6, 2, 4, 1, 3}
    BY <2>2
  <2>. QED
    BY <2>1, <2>3
<1>5. issued <= 1 + jobs
  BY <1>2, <1>3, <1>4 DEF CmdInv, TokenInv
<1>6. issued' \in 0 .. Tokens /\ issued' \in Nat /\ issued' <= 2 + jobs'
  BY <1>1, <1>5, Assumed
<1>7. Becomes(j, Tail(job.todo)) /\ j.text = issued'
  <2>1. Fields(job) /\ job.text \in 0 .. Tokens
    BY DEF CmdInv, JobInv, JobTyped
  <2>2. /\ j.cmd = job.cmd /\ j.todo = Tail(job.todo) /\ j.slot = job.slot /\ j.text = issued'
        /\ Fields(j)
    BY <1>8, <2>1 DEF Fields
  <2>. QED
    BY <1>6, <2>2 DEF Becomes
<1>13. GoOn(j, session)
  BY <1>8
<1>9. JobTyped(j) /\ Follows(j)
  BY <1>7, TailFine DEF CmdInv
<1>10. /\ JobTyped(job') /\ Follows(job') /\ session' \in Sessions
       /\ job' = NoJob => session' = "none"
       /\ job' = NoJob \/ job' = j
  BY <1>1, <1>9, <1>13, GoOnFine
<1>11. JobInv'
  <2>1. JobTyped(job)' /\ Follows(job)'
    BY <1>10 DEF JobTyped, Follows
  <2>. QED
    BY <1>1, <1>10, <2>1 DEF JobInv, Sessions
<1>12. TokenInv'
  <2>1. CASE job' = NoJob
    <3>1. job'.cmd = "none"
      BY <2>1, NoJobFine
    <3>. QED
      BY <1>1, <1>6, <3>1 DEF TokenInv
  <2>2. CASE job' = j
    <3>1. job'.cmd = "pair" /\ job'.text = accepted'
      BY <1>2, <1>7, <2>2 DEF Becomes
    <3>2. ~ (Len(job'.todo) >= 5)
      <4>1. Len(job'.todo) = Len(Tail(job.todo))
        BY <1>7, <2>2 DEF Becomes
      <4>2. PICK l \in Int : l = n - 1 /\ l = 4
        BY <1>4
      <4>3. Len(job'.todo) = l
        BY <1>4, <4>1, <4>2
      <4>4. ~ (l >= 5)
        BY <4>2
      <4>. QED
        BY <4>3, <4>4
    <3>. QED
      BY <1>1, <1>6, <3>1, <3>2 DEF TokenInv
  <2>. QED
    BY <1>10, <2>1, <2>2
<1>. QED
  BY <1>11, <1>12 DEF CmdInv

\* An answered step keeps it, whichever it was.
LEMMA AnsweredKept == ASSUME CmdInv, Answered PROVE CmdInv'
<1>1. /\ Execute /\ UNCHANGED <<catVars, conf, jobs>> /\ session \in Sessions
      /\ conf'.state \in {"absent", "torn", "good"} /\ conf'.token \in 0 .. Tokens
  BY DEF Answered, CmdInv, JobInv, TokenInv, Sessions
<1>2. /\ BulbInv' /\ job.todo # <<>>
      /\ Step.op # "pair" => issued' = issued /\ accepted' \in {accepted, 0}
      /\ Step.op = "pair" => issued' = issued + 1 /\ accepted' = issued'
      /\ Step.op = "unpair" => accepted' = 0
  BY <1>1, ExecuteBulb
<1>. DEFINE looping == Is({"current"}) /\ job.cmd = "current" /\ playing # 0
            goes == GoOn([job EXCEPT !.todo = ForEach("get", {playing})], session)
            observing == Is({"light"}) /\ job.cmd = "observe"
            stays == UNCHANGED <<job, session>>
            paired == GoOn([job EXCEPT !.text = issued', !.todo = Tail(@)], session)
            next == Ahead(session)
            lists == \E old \in SUBSET (Slots \ Occupied) : Listed(Occupied \cup old)
<1>3. (CASE Is({"list"}) -> lists
         [] Is({"get"}) -> Got
         [] looping -> goes
         [] observing -> stays
         [] Is({"pair"}) -> paired
         [] OTHER -> next)
  BY DEF Answered
<1>. HIDE DEF looping, goes, observing, stays, paired, next, lists
<1>4. \/ Is({"list"}) /\ lists
      \/ Is({"get"}) /\ Got
      \/ looping /\ goes
      \/ observing /\ stays
      \/ Is({"pair"}) /\ paired
      \/ ~ Is({"pair"}) /\ next
  BY <1>3
<1>5. ASSUME Is({"list"}), lists PROVE CmdInv'
  <2>1. Step.op # "pair"
    BY <1>5 DEF Is
  <2>2. PICK H \in SUBSET Slots : Listed(H)
    BY <1>5 DEF lists, Occupied
  <2>. QED
    BY <1>1, <1>2, <1>5, <2>1, <2>2, ListedKept
<1>6. ASSUME Is({"get"}), Got PROVE CmdInv'
  <2>1. Step.op # "pair"
    BY <1>6 DEF Is
  <2>. QED
    BY <1>1, <1>2, <1>6, <2>1, GotKept
<1>7. ASSUME looping, goes PROVE CmdInv'
  <2>1. Step.op = "current" /\ playing # 0
    BY <1>7 DEF Is, looping
  <2>2. job.cmd \notin Files
    BY <1>2, <2>1, WhoseStep
  <2>3. ForEach("get", {playing}) \in Seq(Plain)
    <3>1. {playing} \in SUBSET Slots /\ "get" \in PlainOps
      BY <2>1 DEF CmdInv, BulbInv, PlainOps
    <3>. QED
      BY <3>1, ForEachPlain
  <2>4. PICK j : j = [job EXCEPT !.todo = ForEach("get", {playing})]
    OBVIOUS
  <2>5. Becomes(j, ForEach("get", {playing})) /\ GoOn(j, session)
    BY <1>7, <2>4, BecomesTodo DEF goes
  <2>6. JobTyped(j) /\ Follows(j)
    BY <2>2, <2>3, <2>5, PlainFine DEF CmdInv
  <2>7. Onward(j, accepted')
    BY <2>2, <2>5 DEF Onward, Becomes, Files
  <2>. QED
    BY <1>1, <1>2, <2>1, <2>5, <2>6, <2>7, GoesOn
<1>8. ASSUME observing, stays PROVE CmdInv'
  <2>1. Step.op # "pair" /\ job.todo # <<>> /\ job' = job /\ session' = session
    BY <1>8 DEF Is, observing, stays
  <2>2. JobInv'
    <3>1. JobTyped(job)' /\ Follows(job)'
      BY <2>1 DEF CmdInv, JobInv, JobTyped, Follows
    <3>. QED
      BY <1>1, <2>1, <3>1 DEF CmdInv, JobInv
  <2>3. Onward(job', accepted')
    BY <2>1 DEF Onward
  <2>4. TokenInv'
    BY <1>1, <1>2, <2>1, <2>3, TokensOnward
  <2>. QED
    BY <1>2, <2>2, <2>4 DEF CmdInv
<1>9. ASSUME Is({"pair"}), paired PROVE CmdInv'
  <2>1. Step.op = "pair"
    BY <1>9 DEF Is
  <2>. QED
    BY <1>1, <1>2, <1>9, <2>1, PairedKept DEF paired
<1>10. ASSUME ~ Is({"pair"}), next PROVE CmdInv'
  <2>1. Step.op # "pair"
    BY <1>2, <1>10 DEF Is
  <2>2. Step.op \notin {"pair", "unpair"} \/ accepted' = 0
    BY <1>2, <2>1
  <2>. QED
    BY <1>1, <1>2, <1>10, <2>1, <2>2, AheadKept DEF next
<1>. QED
  BY <1>4, <1>5, <1>6, <1>7, <1>8, <1>9, <1>10

\* A command that passes a scene over changes in nothing else.
LEMMA PassedOver ==
  ASSUME CmdInv, NEW todo
  PROVE  Becomes(PassOver([job EXCEPT !.todo = todo]), todo)
<1>1. PICK k : k = [job EXCEPT !.todo = todo]
  OBVIOUS
<1>2. PICK j : j = [k EXCEPT !.passed = @ \cup {Step.slot}]
  OBVIOUS
<1>3. Becomes(k, todo)
  BY <1>1, BecomesTodo
<1>4. Becomes(j, todo)
  <2>1. /\ j.cmd = k.cmd /\ j.todo = k.todo /\ j.slot = k.slot /\ j.text = k.text
        /\ Fields(j)
    BY <1>2, <1>3 DEF Fields, Becomes
  <2>. QED
    BY <1>3, <2>1 DEF Becomes
<1>. QED
  BY <1>1, <1>2, <1>3, <1>4 DEF PassOver

\* A refused step keeps it.
LEMMA RefusedKept == ASSUME CmdInv, Refused PROVE CmdInv'
<1>1. job.todo # <<>> /\ UNCHANGED <<bulb, conf, jobs>> /\ session \in Sessions
  BY DEF Refused, Reaches, Is, CmdInv, JobInv, Sessions
<1>2. BulbInv'
  BY <1>1 DEF CmdInv, BulbInv, bulb
<1>3. PICK j : j = PassOver([job EXCEPT !.todo = AfterFailure])
  OBVIOUS
<1>4. GoOn(j, session)
  BY <1>3 DEF Refused
<1>5. Becomes(j, AfterFailure)
  BY <1>3, PassedOver
<1>. QED
  BY <1>1, <1>2, <1>4, <1>5, FailsOn DEF bulb

\* A pairing whose answer is lost ends the command, though the bulb has issued a token.
LEMMA LostPairing ==
  ASSUME CmdInv, job.todo # <<>>, Step.op = "pair", NEW s \in Sessions, Fail(s),
         issued' = issued + 1, accepted' = issued', BulbInv', UNCHANGED <<conf, jobs>>
  PROVE  CmdInv'
<1>1. /\ issued \in Nat /\ jobs \in 0 .. MaxJobs /\ job.todo \in Seq(StepType)
      /\ conf'.state \in {"absent", "torn", "good"} /\ conf'.token \in 0 .. Tokens
  BY DEF CmdInv, JobInv, JobTyped, TokenInv
<1>2. job.cmd = "pair"
  BY WhoseStep
<1>3. PICK n \in Nat : Len(job.todo) = n
  BY <1>1
<1>4. n = 5
  <2>1. n \in 1 .. 9
    BY <1>2, <1>3, PairStep DEF CmdInv
  <2>2. /\ n = 9 => Step.op = "kex_old"
        /\ n = 8 => Step.op = "auth_old"
        /\ n = 7 => Step.op = "revoke"
        /\ n = 6 => Step.op = "kex"
        /\ n \in {2, 4} => Step.op = "truncate"
        /\ n \in {1, 3} => Step.op = "put"
    BY <1>2, <1>3, PairStep DEF CmdInv
  <2>3. n \notin {9, 8, 7, 6, 2, 4, 1, 3}
    BY <2>2
  <2>. QED
    BY <2>1, <2>3
<1>5. issued <= 1 + jobs
  BY <1>2, <1>3, <1>4 DEF CmdInv, TokenInv
<1>6. issued' \in 0 .. Tokens /\ issued' \in Nat /\ issued' <= 2 + jobs'
  BY <1>1, <1>5, Assumed
<1>7. PICK j : j = [job EXCEPT !.todo = AfterFailure]
  OBVIOUS
<1>8. Becomes(j, AfterFailure) /\ GoOn(j, s)
  BY <1>7, BecomesTodo DEF Fail
<1>9. JobTyped(j) /\ Follows(j) /\ j.todo = <<>>
  <2>1. JobTyped(j) /\ Follows(j) /\ (j.todo = <<>> \/ Len(job.todo) >= 7)
    BY <1>2, <1>8, AfterFailureFine DEF CmdInv
  <2>2. ~ (n >= 7)
    BY <1>4
  <2>. QED
    BY <1>3, <2>1, <2>2
<1>10. /\ JobTyped(job') /\ Follows(job') /\ session' \in Sessions
       /\ job' = NoJob => session' = "none"
       /\ job' = NoJob
  BY <1>8, <1>9, GoOnFine
<1>11. JobInv'
  <2>1. JobTyped(job)' /\ Follows(job)'
    BY <1>10 DEF JobTyped, Follows
  <2>. QED
    BY <1>1, <1>10, <2>1 DEF JobInv, Sessions
<1>12. TokenInv'
  <2>1. job'.cmd = "none"
    BY <1>10, NoJobFine
  <2>. QED
    BY <1>1, <1>6, <2>1 DEF TokenInv
<1>. QED
  BY <1>11, <1>12 DEF CmdInv

\* A step whose answer is lost keeps it, executed by the bulb or not.
LEMMA LostKept == ASSUME CmdInv, Lost PROVE CmdInv'
<1>1. /\ UNCHANGED bulb \/ Execute
      /\ UNCHANGED <<conf, jobs>> /\ job.todo # <<>>
      /\ Fail("none") \/ Fail("corrupted")
      /\ "none" \in Sessions /\ "corrupted" \in Sessions
  BY DEF Lost, Reaches, Is, Sessions
<1>2. CASE UNCHANGED bulb
  <2>1. BulbInv'
    BY <1>2 DEF CmdInv, BulbInv, bulb
  <2>. QED
    BY <1>1, <1>2, <2>1, FailKept DEF bulb
<1>3. CASE Execute
  <2>1. /\ BulbInv'
        /\ Step.op # "pair" => issued' = issued /\ accepted' \in {accepted, 0}
        /\ Step.op = "pair" => issued' = issued + 1 /\ accepted' = issued'
    BY <1>3, ExecuteBulb
  <2>2. CASE Step.op = "pair"
    BY <1>1, <2>1, <2>2, LostPairing
  <2>3. CASE Step.op # "pair"
    BY <1>1, <2>1, <2>3, FailKept
  <2>. QED
    BY <2>2, <2>3
<1>. QED
  BY <1>1, <1>2, <1>3

\* The command at hand stays as it is.
LEMMA JobRests ==
  ASSUME CmdInv, BulbInv', job' = job, session' \in Sessions, job = NoJob => session' = "none",
         UNCHANGED <<conf, jobs>>, issued' = issued, accepted' \in {accepted, 0}
  PROVE  CmdInv'
<1>1. JobInv'
  <2>1. JobTyped(job)' /\ Follows(job)'
    BY DEF CmdInv, JobInv, JobTyped, Follows
  <2>. QED
    BY <2>1 DEF CmdInv, JobInv, Sessions
<1>2. Onward(job', accepted')
  BY DEF Onward
<1>3. conf'.state \in {"absent", "torn", "good"} /\ conf'.token \in 0 .. Tokens
  BY DEF CmdInv, TokenInv
<1>4. TokenInv'
  BY <1>2, <1>3, TokensOnward
<1>. QED
  BY <1>1, <1>4 DEF CmdInv

\* A step after the session has expired keeps it.
LEMMA ExpiredKept == ASSUME CmdInv, Expired PROVE CmdInv'
<1>1. job.todo # <<>> /\ UNCHANGED <<bulb, conf, jobs>> /\ "expired" \in Sessions
  BY DEF Expired, Reaches, Is, Sessions
<1>2. BulbInv'
  BY <1>1 DEF CmdInv, BulbInv, bulb
<1>3. CASE Fail("expired")
  BY <1>1, <1>2, <1>3, FailKept DEF bulb
<1>4. CASE UNCHANGED <<job, session>>
  BY <1>1, <1>2, <1>4, JobRests DEF bulb, CmdInv, JobInv, Sessions
<1>. QED
  BY <1>3, <1>4 DEF Expired

\* A step on a session that is of no use keeps it.
LEMMA DeadKept == ASSUME CmdInv, Dead PROVE CmdInv'
<1>1. job.todo # <<>> /\ Fail(session) /\ UNCHANGED <<bulb, conf, jobs>> /\ session \in Sessions
  BY DEF Dead, CmdInv, JobInv, Sessions
<1>2. BulbInv'
  BY <1>1 DEF CmdInv, BulbInv, bulb
<1>. QED
  BY <1>1, <1>2, FailKept DEF bulb

\* Writing the device file, or removing it, keeps it.
LEMMA PutKept == ASSUME CmdInv, Put \/ Unlink PROVE CmdInv'
<1>1. /\ job.todo # <<>> /\ Step.op \notin {"pair", "unpair"} /\ Ahead(session) /\ UNCHANGED <<bulb, jobs>>
      /\ conf'.state \in {"good", "absent"} /\ conf'.token \in {job.text, 0}
  BY DEF Put, Unlink, Is
<1>2. BulbInv' /\ session \in Sessions /\ job.text \in 0 .. Tokens
  BY <1>1 DEF CmdInv, BulbInv, bulb, JobInv, JobTyped, Sessions
<1>3. conf'.state \in {"absent", "torn", "good"} /\ conf'.token \in 0 .. Tokens
  BY <1>1, <1>2, Assumed
<1>. QED
  BY <1>1, <1>2, <1>3, AheadKept DEF bulb

\* Truncating the device file keeps it.
LEMMA TruncateKept == ASSUME CmdInv, Truncate PROVE CmdInv'
<1>. DEFINE new == job.cmd = "pair" /\ Len(job.todo) = 4
            gone == job.cmd \in {"find", "unpair"}
            text == CASE new -> job.text [] gone -> 0 [] OTHER -> conf.token
<1>1. /\ job.todo # <<>> /\ Step.op = "truncate" /\ UNCHANGED <<bulb, jobs>> /\ session \in Sessions
      /\ conf' = [state |-> "torn", token |-> 0]
      /\ GoOn([job EXCEPT !.todo = Tail(@), !.text = text], session)
  BY DEF Truncate, Is, CmdInv, JobInv, Sessions
<1>2. text \in 0 .. Tokens
  <2>. HIDE DEF new, gone
  <2>1. text \in {job.text, 0, conf.token}
    OBVIOUS
  <2>. QED
    BY <2>1, Assumed DEF CmdInv, JobInv, JobTyped, TokenInv
<1>. HIDE DEF text
<1>3. PICK j : j = [job EXCEPT !.todo = Tail(@), !.text = text]
  OBVIOUS
<1>4. Becomes(j, Tail(job.todo))
  <2>1. Fields(job)
    BY DEF CmdInv, JobInv, JobTyped
  <2>2. /\ j.cmd = job.cmd /\ j.todo = Tail(job.todo) /\ j.slot = job.slot /\ j.text = text
        /\ Fields(j)
    BY <1>3, <2>1 DEF Fields
  <2>. QED
    BY <1>2, <2>2 DEF Becomes
<1>5. JobTyped(j) /\ Follows(j)
  BY <1>1, <1>4, TailFine DEF CmdInv
<1>6. Onward(j, accepted')
  BY <1>1, <1>4 DEF Onward, Becomes
<1>7. BulbInv' /\ conf'.state \in {"absent", "torn", "good"} /\ conf'.token \in 0 .. Tokens
  BY <1>1, Assumed DEF CmdInv, BulbInv, bulb
<1>. QED
  BY <1>1, <1>3, <1>5, <1>6, <1>7, GoesOn DEF bulb

\* A command that gives up, or is interrupted, keeps it.
LEMMA ExitsKept == ASSUME CmdInv, GiveUp \/ Interrupt PROVE CmdInv'
BY ExitKept DEF GiveUp, Interrupt

\* Every step of the command at hand keeps it.
LEMMA ProgressKept == ASSUME CmdInv, Progress PROVE CmdInv'
BY KexKept, AuthKept, AnsweredKept, RefusedKept, LostKept, ExpiredKept, DeadKept, ExitsKept,
   TruncateKept, PutKept DEF Progress

\* Another client's change is only noted in the command at hand.
LEMMA RacesKept ==
  ASSUME CmdInv, Races, DOMAIN scenes' = DOMAIN scenes,
         UNCHANGED <<accepted, issued, playing, conf, session, jobs>>
  PROVE  CmdInv'
<1>1. BulbInv'
  BY DEF CmdInv, BulbInv
<1>2. CASE job' = job
  <2>1. session' \in Sessions /\ (job = NoJob => session' = "none")
    BY DEF CmdInv, JobInv, Sessions
  <2>. QED
    BY <1>1, <1>2, <2>1, JobRests
<1>3. CASE job # NoJob /\ job' = [job EXCEPT !.raced = TRUE]
  <2>1. PICK j : j = [job EXCEPT !.raced = TRUE] /\ job' = j
    BY <1>3
  <2>2. /\ Fields(job) /\ JobTyped(job) /\ Follows(job)
        /\ session \in Sessions /\ jobs \in 0 .. MaxJobs
    BY DEF CmdInv, JobInv, JobTyped, Sessions
  <2>3. /\ j.cmd = job.cmd /\ j.todo = job.todo /\ j.slot = job.slot /\ j.text = job.text
        /\ Fields(j) /\ j.raced = TRUE
    BY <2>1, <2>2 DEF Fields
  <2>4. JobTyped(j) /\ Follows(j) /\ Onward(j, accepted')
    <3>1. JobTyped(j)
      BY <2>2, <2>3 DEF JobTyped
    <3>2. Follows(j)
      BY <2>2, <2>3 DEF Follows
    <3>. QED
      BY <2>3, <3>1, <3>2 DEF Onward
  <2>5. j # NoJob
    BY <2>3 DEF NoJob
  <2>6. JobInv'
    <3>1. JobTyped(job)' /\ Follows(job)'
      BY <2>1, <2>4 DEF JobTyped, Follows
    <3>. QED
      BY <2>1, <2>2, <2>5, <3>1 DEF JobInv, Sessions
  <2>7. TokenInv'
    <3>1. conf'.state \in {"absent", "torn", "good"} /\ conf'.token \in 0 .. Tokens
      BY DEF CmdInv, TokenInv
    <3>. QED
      BY <2>1, <2>4, <3>1, TokensOnward
  <2>. QED
    BY <1>1, <2>6, <2>7 DEF CmdInv
<1>. QED
  BY <1>2, <1>3 DEF Races

\* What another client does to the bulb keeps it.
LEMMA AppKept == ASSUME CmdInv, App PROVE CmdInv'
<1>1. ASSUME NEW s \in Slots, NEW e \in AppEffects, AppSaves(s, e) PROVE CmdInv'
  <2>1. DOMAIN scenes' = DOMAIN scenes
    BY <1>1 DEF AppSaves
  <2>. QED
    BY <1>1, <2>1, RacesKept DEF AppSaves
<1>2. ASSUME NEW s \in Slots, AppDeletes(s) PROVE CmdInv'
  <2>1. DOMAIN scenes' = DOMAIN scenes
    BY <1>2 DEF AppDeletes
  <2>. QED
    BY <1>2, <2>1, RacesKept DEF AppDeletes
<1>3. ASSUME Reset PROVE CmdInv'
  <2>1. BulbInv' /\ session' \in Sessions /\ (job = NoJob => session' = "none")
    BY <1>3 DEF Reset, CmdInv, BulbInv, JobInv, Sessions
  <2>. QED
    BY <1>3, <2>1, JobRests DEF Reset
<1>. QED
  BY <1>1, <1>2, <1>3 DEF App

\* What leaves command, bulb and device file alone keeps it.
LEMMA OthersKept == ASSUME CmdInv, UNCHANGED cliVars PROVE CmdInv'
<1>1. BulbInv' /\ session' \in Sessions /\ (job = NoJob => session' = "none")
  BY DEF cliVars, CmdInv, BulbInv, JobInv, Sessions
<1>. QED
  BY <1>1, JobRests DEF cliVars

\* A command may begin with any of these steps.
LEMMA BeginKept ==
  ASSUME CmdInv, NEW j, JobTyped(j), Follows(j), Begin(j),
         j.cmd = "pair" => Len(j.todo) \in {6, 9},
         j.cmd = "unpair" => j.todo # <<>> /\ Head(j.todo).op = "kex"
  PROVE  CmdInv'
<1>1. /\ job = NoJob /\ session = "none" /\ jobs \in 0 .. MaxJobs /\ jobs < MaxJobs /\ jobs' = jobs + 1
      /\ job' = j /\ UNCHANGED <<bulb, conf, session>> /\ MaxJobs \in Nat
  BY Assumed DEF Begin, CmdInv, JobInv
<1>2. JobInv'
  <2>1. JobTyped(job)' /\ Follows(job)'
    BY <1>1 DEF JobTyped, Follows
  <2>2. jobs' \in 0 .. MaxJobs
    BY <1>1
  <2>. QED
    BY <1>1, <2>1, <2>2 DEF JobInv, Sessions
<1>3. BulbInv'
  BY <1>1 DEF CmdInv, BulbInv, bulb
<1>4. TokenInv'
  <2>1. /\ issued \in Nat /\ issued <= 2 + jobs
        /\ conf.state \in {"absent", "torn", "good"} /\ conf.token \in 0 .. Tokens /\ accepted \in 0 .. Tokens
    BY DEF CmdInv, TokenInv
  <2>2. issued' = issued /\ accepted' = accepted /\ conf' = conf
    BY <1>1 DEF bulb
  <2>3. issued' <= 1 + jobs' /\ issued' <= 2 + jobs'
    BY <1>1, <2>1, <2>2
  <2>4. job'.cmd = "pair" => ~ (Len(job'.todo) = 4)
    BY <1>1
  <2>5. job'.cmd = "unpair" => ~ Is({"truncate"})'
    BY <1>1 DEF Is, Step
  <2>. QED
    BY <2>1, <2>2, <2>3, <2>4, <2>5 DEF TokenInv
<1>. QED
  BY <1>2, <1>3, <1>4 DEF CmdInv

\* A command that writes no file.
Ordinary(j) ==
  /\ Fields(j) /\ j.cmd \notin Files /\ j.todo \in Seq(Plain) /\ j.slot \in Slots \cup {0} /\ j.text = 0

\* A command that writes no file may begin at any time.
LEMMA OrdinaryKept ==
  ASSUME CmdInv, NEW j, Ordinary(j), Begin(j)
  PROVE  CmdInv'
<1>1. Plain \subseteq StepType
  BY DEF Plain, StepType, Ops
<1>2. j.todo \in Seq(StepType)
  BY <1>1 DEF Ordinary
<1>3. JobTyped(j) /\ Follows(j)
  BY <1>2, Assumed DEF Ordinary, JobTyped, Follows, Files
<1>. QED
  BY <1>3, BeginKept DEF Ordinary, Files

\* A command made of steps at the bulb writes no file.
LEMMA CommandOrdinary ==
  ASSUME NEW cmd, cmd \notin Files, NEW ops \in Seq(PlainOps)
  PROVE  Ordinary(Command(cmd, ops))
<1>1. PICK c : c = Command(cmd, ops)
  OBVIOUS
<1>2. c.cmd = cmd /\ c.todo = Opening \o Steps(ops) /\ c.slot = 0 /\ c.text = 0 /\ Fields(c)
  BY <1>1 DEF Command, NoJob, Fields
<1>3. Opening \o Steps(ops) \in Seq(Plain)
  BY OpeningPlain, StepsPlain
<1>. QED
  BY <1>1, <1>2, <1>3 DEF Ordinary

\* Nor does one that first looks for its scene.
LEMMA AimedOrdinary ==
  ASSUME NEW cmd, cmd \notin Files, NEW ops \in Seq(PlainOps), NEW s \in Slots \cup {0}, NEW q
  PROVE  Ordinary(Aimed(cmd, ops, s, q))
<1>. DEFINE all == <<"list">> \o (IF q = None THEN <<>> ELSE <<"gets">>) \o ops
<1>1. all \in Seq(PlainOps)
  <2>1. "list" \in PlainOps /\ "gets" \in PlainOps
    BY DEF PlainOps
  <2>2. <<"list">> \in Seq(PlainOps) /\ <<"gets">> \in Seq(PlainOps) /\ <<>> \in Seq(PlainOps)
    BY <2>1
  <2>. QED
    BY <2>2
<1>. HIDE DEF all
<1>2. Ordinary(Command(cmd, all))
  BY <1>1, CommandOrdinary
<1>3. PICK c : c = Command(cmd, all)
  OBVIOUS
<1>4. PICK j : j = [c EXCEPT !.slot = s, !.query = q, !.db = Known]
  OBVIOUS
<1>5. Fields(c)
  BY <1>2, <1>3 DEF Ordinary
<1>6. j.cmd = c.cmd /\ j.todo = c.todo /\ j.slot = s /\ j.text = c.text /\ Fields(j)
  BY <1>4, <1>5 DEF Fields
<1>7. Ordinary(j)
  BY <1>2, <1>3, <1>6 DEF Ordinary
<1>8. j = Aimed(cmd, ops, s, q)
  BY <1>3, <1>4 DEF Aimed, all
<1>. QED
  BY <1>7, <1>8

\* Whatever else it is about, a command writes no file.
LEMMA OrdinaryStill ==
  ASSUME NEW c, Ordinary(c), NEW e, NEW sk, NEW co
  PROVE  /\ Ordinary([c EXCEPT !.effect = e])
         /\ Ordinary([c EXCEPT !.effect = e, !.skip = sk, !.compact = co])
         /\ Ordinary([c EXCEPT !.effect = e, !.compact = co])
         /\ \A s \in Slots : Ordinary([c EXCEPT !.slot = s])
<1>1. Fields(c)
  BY DEF Ordinary
<1>2. ASSUME NEW j, j = [c EXCEPT !.effect = e] PROVE Ordinary(j)
  <2>1. j.cmd = c.cmd /\ j.todo = c.todo /\ j.slot = c.slot /\ j.text = c.text /\ Fields(j)
    BY <1>1, <1>2 DEF Fields
  <2>. QED
    BY <2>1 DEF Ordinary
<1>3. ASSUME NEW j, j = [c EXCEPT !.effect = e, !.skip = sk, !.compact = co] PROVE Ordinary(j)
  <2>1. j.cmd = c.cmd /\ j.todo = c.todo /\ j.slot = c.slot /\ j.text = c.text /\ Fields(j)
    BY <1>1, <1>3 DEF Fields
  <2>. QED
    BY <2>1 DEF Ordinary
<1>4. ASSUME NEW j, j = [c EXCEPT !.effect = e, !.compact = co] PROVE Ordinary(j)
  <2>1. j.cmd = c.cmd /\ j.todo = c.todo /\ j.slot = c.slot /\ j.text = c.text /\ Fields(j)
    BY <1>1, <1>4 DEF Fields
  <2>. QED
    BY <2>1 DEF Ordinary
<1>5. ASSUME NEW s \in Slots, NEW j, j = [c EXCEPT !.slot = s] PROVE Ordinary(j)
  <2>1. j.cmd = c.cmd /\ j.todo = c.todo /\ j.slot = s /\ j.text = c.text /\ Fields(j)
    BY <1>1, <1>5 DEF Fields
  <2>. QED
    BY <2>1 DEF Ordinary
<1>. QED
  BY <1>2, <1>3, <1>4, <1>5

\* The commands that write no file keep the invariant as they begin.
LEMMA UsualKept ==
  ASSUME CmdInv, \/ Info \/ Fw \/ Observe \/ List \/ Current \/ DeleteAll
                 \/ \E s \in Slots : Set(s)
                 \/ \E t \in Targets : Play(t[1], t[2]) \/ Delete(t[1], t[2])
                 \/ \E want \in Queries \cup Effects :
                      \/ Preview(want)
                      \/ \E s \in Slots \cup {0}, opt \in {"plain", "skip", "compact", "dry"} : Add(want, s, opt)
                      \/ \E t \in Targets, opt \in {"plain", "compact", "dry"} : Replace(t[1], t[2], want, opt)
  PROVE  CmdInv'
<1>0. /\ "info" \in PlainOps /\ "light" \in PlainOps /\ "list" \in PlainOps /\ "current" \in PlainOps
      /\ "gets" \in PlainOps /\ "thread" \in PlainOps /\ "play" \in PlainOps /\ "identify" \in PlainOps
      /\ "clears" \in PlainOps /\ "delete" \in PlainOps /\ "add" \in PlainOps /\ "preview" \in PlainOps
  BY DEF PlainOps
<1>1. CASE Info
  <2>1. <<"info", "light", "list", "current", "gets", "thread">> \in Seq(PlainOps) /\ "info" \notin Files
    BY <1>0 DEF Files
  <2>. QED
    BY <1>1, <2>1, CommandOrdinary, OrdinaryKept DEF Info
<1>2. CASE Fw
  <2>1. <<"info">> \in Seq(PlainOps) /\ "fw" \notin Files
    BY <1>0 DEF Files
  <2>. QED
    BY <1>2, <2>1, CommandOrdinary, OrdinaryKept DEF Fw
<1>3. CASE Observe
  <2>1. <<"light">> \in Seq(PlainOps) /\ "observe" \notin Files
    BY <1>0 DEF Files
  <2>. QED
    BY <1>3, <2>1, CommandOrdinary, OrdinaryKept DEF Observe
<1>4. CASE List
  <2>1. <<"list", "current", "gets">> \in Seq(PlainOps) /\ "list" \notin Files
    BY <1>0 DEF Files
  <2>. QED
    BY <1>4, <2>1, CommandOrdinary, OrdinaryKept DEF List
<1>5. CASE Current
  <2>1. <<"current">> \in Seq(PlainOps) /\ "current" \notin Files
    BY <1>0 DEF Files
  <2>. QED
    BY <1>5, <2>1, CommandOrdinary, OrdinaryKept DEF Current
<1>6. CASE DeleteAll
  <2>1. <<"list", "clears">> \in Seq(PlainOps) /\ "delete_all" \notin Files
    BY <1>0 DEF Files
  <2>. QED
    BY <1>6, <2>1, CommandOrdinary, OrdinaryKept DEF DeleteAll
<1>7. ASSUME NEW s \in Slots, Set(s) PROVE CmdInv'
  <2>1. <<"light", "list", "play", "identify">> \in Seq(PlainOps) /\ "set" \notin Files
    BY <1>0 DEF Files
  <2>2. Ordinary([Command("set", <<"light", "list", "play", "identify">>) EXCEPT !.slot = s])
    BY <2>1, CommandOrdinary, OrdinaryStill
  <2>. QED
    BY <1>7, <2>2, OrdinaryKept DEF Set
<1>8. \A t \in Targets : t[1] \in Slots \cup {0}
  BY DEF Targets
<1>9. ASSUME NEW t \in Targets, Play(t[1], t[2]) \/ Delete(t[1], t[2]) PROVE CmdInv'
  <2>1. <<"play">> \in Seq(PlainOps) /\ <<"delete">> \in Seq(PlainOps) /\ "play" \notin Files /\ "delete" \notin Files
    BY <1>0 DEF Files
  <2>2. Ordinary(Aimed("play", <<"play">>, t[1], t[2])) /\ Ordinary(Aimed("delete", <<"delete">>, t[1], t[2]))
    BY <1>8, <2>1, AimedOrdinary
  <2>. QED
    BY <1>9, <2>2, OrdinaryKept DEF Play, Delete
<1>10. ASSUME NEW want, Preview(want) PROVE CmdInv'
  <2>1. <<"preview">> \in Seq(PlainOps) /\ "preview" \notin Files
    BY <1>0 DEF Files
  <2>2. Ordinary([Command("preview", <<"preview">>) EXCEPT !.effect = Found(want)])
    BY <2>1, CommandOrdinary, OrdinaryStill
  <2>. QED
    BY <1>10, <2>2, OrdinaryKept DEF Preview
<1>11. ASSUME NEW want, NEW s \in Slots \cup {0}, NEW opt, Add(want, s, opt) PROVE CmdInv'
  <2>. DEFINE ops == CASE opt = "dry" -> <<>> [] opt = "skip" -> <<"gets", "add">> [] OTHER -> <<"add">>
              j == [Aimed("add", ops, s, None) EXCEPT !.effect = Found(want),
                      !.skip = (opt = "skip"), !.compact = (opt = "compact")]
  <2>1. ops \in Seq(PlainOps) /\ "add" \notin Files
    <3>1. <<>> \in Seq(PlainOps) /\ <<"gets", "add">> \in Seq(PlainOps) /\ <<"add">> \in Seq(PlainOps)
      BY <1>0
    <3>. QED
      BY <3>1 DEF Files
  <2>2. Begin(j)
    BY <1>11 DEF Add
  <2>. HIDE DEF ops
  <2>3. Ordinary(j)
    BY <2>1, AimedOrdinary, OrdinaryStill
  <2>. QED
    BY <2>2, <2>3, OrdinaryKept
<1>12. ASSUME NEW t \in Targets, NEW want, NEW opt, Replace(t[1], t[2], want, opt) PROVE CmdInv'
  <2>. DEFINE ops == IF opt = "dry" THEN <<>> ELSE <<"delete", "add">>
              j == [Aimed("replace", ops, t[1], t[2]) EXCEPT !.effect = Found(want), !.compact = (opt = "compact")]
  <2>1. ops \in Seq(PlainOps) /\ "replace" \notin Files
    <3>1. <<>> \in Seq(PlainOps) /\ <<"delete", "add">> \in Seq(PlainOps)
      BY <1>0
    <3>. QED
      BY <3>1 DEF Files
  <2>2. Begin(j)
    BY <1>12 DEF Replace
  <2>. HIDE DEF ops
  <2>3. Ordinary(j)
    BY <1>8, <2>1, AimedOrdinary, OrdinaryStill
  <2>. QED
    BY <2>2, <2>3, OrdinaryKept
<1>. QED
  BY <1>1, <1>2, <1>3, <1>4, <1>5, <1>6, <1>7, <1>9, <1>10, <1>11, <1>12

\* Operations made into steps, as many and in their order.
LEMMA StepsTyped ==
  ASSUME NEW ops \in Seq(Ops)
  PROVE  /\ Steps(ops) \in Seq(StepType) /\ Len(Steps(ops)) = Len(ops) /\ DOMAIN Steps(ops) = 1 .. Len(ops)
         /\ \A i \in 1 .. Len(ops) : Steps(ops)[i].op = ops[i]
<1>1. DOMAIN ops = 1 .. Len(ops) /\ Len(ops) \in Nat /\ \A i \in 1 .. Len(ops) : ops[i] \in Ops
  OBVIOUS
<1>2. \A i \in 1 .. Len(ops) : [op |-> ops[i], slot |-> 0] \in StepType
  BY <1>1 DEF StepType
<1>. QED
  BY <1>1, <1>2 DEF Steps

\* The steps of a script, all or the last of them, are left of it.
LEMMA ScriptLeft ==
  ASSUME NEW m \in Nat, NEW script, Len(script) = m, NEW n \in 0 .. m,
         NEW ops \in Seq(Ops), Len(ops) = n,
         \A i \in 1 .. n : ops[i] = script[m - n + i]
  PROVE  Left(Steps(ops), script) /\ Steps(ops) \in Seq(StepType) /\ Len(Steps(ops)) = n
<1>1. /\ Steps(ops) \in Seq(StepType) /\ Len(Steps(ops)) = n /\ DOMAIN Steps(ops) = 1 .. n
      /\ \A i \in 1 .. n : Steps(ops)[i].op = ops[i]
  BY StepsTyped
<1>. QED
  BY <1>1 DEF Left

\* One sequence behind another.
LEMMA Behind ==
  ASSUME NEW S, NEW s \in Seq(S), NEW t \in Seq(S), NEW n \in Nat, Len(s) = n, NEW m \in Nat, Len(t) = m
  PROVE  /\ s \o t \in Seq(S) /\ Len(s \o t) = n + m
         /\ \A i \in 1 .. n : (s \o t)[i] = s[i]
         /\ \A i \in 1 .. m : (s \o t)[n + i] = t[i]
OBVIOUS

\* A command that writes the file.
LEMMA FilingKept ==
  ASSUME CmdInv, NEW cmd \in Files, NEW todo \in Seq(StepType),
         Begin([NoJob EXCEPT !.cmd = cmd, !.todo = todo]),
         cmd = "pair" => Left(todo, PairScript) /\ Len(todo) \in {6, 9},
         cmd = "unpair" => (\E rm \in BOOLEAN : Left(todo, UnpairScript(rm))) /\ todo # <<>> /\ Head(todo).op = "kex",
         cmd = "find" => Left(todo, FindScript),
         cmd = "discover" => Left(todo, DiscoverScript)
  PROVE  CmdInv'
<1>1. PICK j : j = [NoJob EXCEPT !.cmd = cmd, !.todo = todo]
  OBVIOUS
<1>2. j.cmd = cmd /\ j.todo = todo /\ j.slot = 0 /\ j.text = 0 /\ Fields(j)
  BY <1>1 DEF NoJob, Fields
<1>3. JobTyped(j)
  BY <1>2, Assumed DEF JobTyped
<1>4. Follows(j)
  BY <1>2 DEF Follows
<1>5. Begin(j)
  BY <1>1
<1>. QED
  BY <1>2, <1>3, <1>4, <1>5, BeginKept

\* The scripts, and the parts the code puts them together from, are sequences of operations.
LEMMA ScriptsTyped ==
  /\ FindScript \in Seq(Ops) /\ DiscoverScript \in Seq(Ops)
  /\ <<"kex_old", "auth_old", "revoke">> \in Seq(Ops)
  /\ <<"kex", "pair", "truncate", "put", "truncate", "put">> \in Seq(Ops)
  /\ <<"kex", "auth">> \in Seq(Ops) /\ <<"unpair", "truncate", "put">> \in Seq(Ops)
  /\ <<"unlink">> \in Seq(Ops) /\ <<>> \in Seq(Ops)
<1>1. /\ "kex" \in Ops /\ "auth" \in Ops /\ "probe" \in Ops /\ "truncate" \in Ops /\ "put" \in Ops
      /\ "unlink" \in Ops /\ "unpair" \in Ops /\ "pair" \in Ops /\ "kex_old" \in Ops
      /\ "auth_old" \in Ops /\ "revoke" \in Ops
  BY DEF PlainOps, FileOps, Ops
<1>2. FindScript \in Seq(Ops)
  BY <1>1 DEF FindScript
<1>3. DiscoverScript \in Seq(Ops)
  BY <1>1 DEF DiscoverScript
<1>4. <<"kex_old", "auth_old", "revoke">> \in Seq(Ops)
  BY <1>1
<1>5. <<"kex", "pair", "truncate", "put", "truncate", "put">> \in Seq(Ops)
  BY <1>1
<1>6. <<"kex", "auth">> \in Seq(Ops) /\ <<"unpair", "truncate", "put">> \in Seq(Ops)
  BY <1>1
<1>7. <<"unlink">> \in Seq(Ops) /\ <<>> \in Seq(Ops)
  BY <1>1
<1>. QED
  BY <1>2, <1>3, <1>4, <1>5, <1>6, <1>7

\* The commands that write the file keep the invariant as they begin.
LEMMA FilesKept ==
  ASSUME CmdInv, Pair \/ Find \/ Discover \/ \E rm \in BOOLEAN : Unpair(rm)
  PROVE  CmdInv'
<1>1. ASSUME Pair PROVE CmdInv'
  <2>1. PICK old, late : /\ old = <<"kex_old", "auth_old", "revoke">>
                         /\ late = <<"kex", "pair", "truncate", "put", "truncate", "put">>
    OBVIOUS
  <2>2. PICK three \in Nat, six \in Nat, nine \in Nat :
          three = 3 /\ six = 6 /\ nine = 9 /\ Len(old) = three /\ Len(late) = six /\ Len(PairScript) = nine
    BY <2>1 DEF PairScript
  <2>3. three \in Nat /\ six \in Nat /\ nine \in Nat /\ Len(old) = three /\ Len(late) = six /\ Len(PairScript) = nine
    BY <2>2
  <2>4. late \in Seq(Ops) /\ old \in Seq(Ops)
    BY <2>1, ScriptsTyped
  <2>5. /\ PairScript[1] = old[1] /\ PairScript[2] = old[2] /\ PairScript[3] = old[3]
        /\ PairScript[4] = late[1] /\ PairScript[5] = late[2] /\ PairScript[6] = late[3]
        /\ PairScript[7] = late[4] /\ PairScript[8] = late[5] /\ PairScript[9] = late[6]
    BY <2>1 DEF PairScript
  <2>6. \A i \in 1 .. six : late[i] = PairScript[nine - six + i]
    <3>1. \A i \in 1 .. six : i \in {1, 2, 3, 4, 5, 6}
      BY <2>2
    <3>2. \A i \in 1 .. six : late[i] = PairScript[3 + i]
      BY <2>5, <3>1
    <3>3. \A i \in 1 .. six : nine - six + i = 3 + i
      BY <2>2
    <3>. QED
      BY <3>2, <3>3
  <2>7. \A i \in 1 .. three : old[i] = PairScript[i]
    <3>1. \A i \in 1 .. three : i \in {1, 2, 3}
      BY <2>2
    <3>. QED
      BY <2>5, <3>1
  <2>8. PICK ops : ops = (IF conf.token # 0 THEN old ELSE <<>>) \o late
    OBVIOUS
  <2>9. PICK n \in {six, nine} : /\ ops \in Seq(Ops) /\ Len(ops) = n
                                 /\ \A i \in 1 .. n : ops[i] = PairScript[nine - n + i]
    <3>1. CASE conf.token # 0
      <4>1. /\ ops \in Seq(Ops) /\ Len(ops) = three + six
            /\ \A i \in 1 .. three : ops[i] = old[i]
            /\ \A i \in 1 .. six : ops[three + i] = late[i]
        BY <2>3, <2>4, <2>8, <3>1, Behind
      <4>2. three + six = nine
        BY <2>2
      <4>3. ASSUME NEW i \in 1 .. nine PROVE ops[i] = PairScript[i]
        <5>1. CASE i \in 1 .. three
          BY <2>7, <4>1, <5>1
        <5>2. CASE i \notin 1 .. three
          <6>1. PICK k \in 1 .. six : i = three + k
            <7>1. i - three \in 1 .. six
              BY <2>2, <5>2
            <7>2. i = three + (i - three)
              BY <2>2
            <7>. QED
              BY <7>1, <7>2
          <6>2. nine - six + k = i
            BY <2>2, <6>1
          <6>. QED
            BY <2>6, <4>1, <6>1, <6>2
        <5>. QED
          BY <5>1, <5>2
      <4>4. \A i \in 1 .. nine : nine - nine + i = i
        BY <2>2
      <4>. QED
        BY <4>1, <4>2, <4>3, <4>4
    <3>2. CASE conf.token = 0
      <4>1. ops = late
        BY <2>4, <2>8, <3>2
      <4>. QED
        BY <2>3, <2>4, <2>6, <4>1
    <3>. QED
      BY <3>1, <3>2
  <2>10. Begin([NoJob EXCEPT !.cmd = "pair", !.todo = Steps(ops)])
    BY <1>1, <2>1, <2>8 DEF Pair
  <2>11. n \in 0 .. nine /\ n \in {6, 9}
    BY <2>2, <2>9
  <2>12. Left(Steps(ops), PairScript) /\ Steps(ops) \in Seq(StepType) /\ Len(Steps(ops)) = n
    BY <2>3, <2>9, <2>11, ScriptLeft
  <2>. QED
    BY <2>10, <2>11, <2>12, FilingKept DEF Files
<1>5. ASSUME NEW script, script \in Seq(Ops) PROVE Left(Steps(script), script) /\ Steps(script) \in Seq(StepType)
  <2>1. PICK m \in Nat : Len(script) = m
    BY <1>5
  <2>2. \A i \in 1 .. m : m - m + i = i
    OBVIOUS
  <2>3. \A i \in 1 .. m : script[i] = script[m - m + i]
    BY <2>2
  <2>4. m \in 0 .. m
    BY <2>1
  <2>. QED
    BY <1>5, <2>1, <2>3, <2>4, ScriptLeft
<1>2. ASSUME Find PROVE CmdInv'
  <2>1. FindScript \in Seq(Ops)
    BY ScriptsTyped
  <2>2. Begin([NoJob EXCEPT !.cmd = "find", !.todo = Steps(FindScript)])
    BY <1>2 DEF Find, FindScript
  <2>. QED
    BY <1>5, <2>1, <2>2, FilingKept DEF Files
<1>3. ASSUME Discover PROVE CmdInv'
  <2>1. DiscoverScript \in Seq(Ops)
    BY ScriptsTyped
  <2>2. Begin([NoJob EXCEPT !.cmd = "discover", !.todo = Steps(DiscoverScript)])
    BY <1>3 DEF Discover, DiscoverScript
  <2>. QED
    BY <1>5, <2>1, <2>2, FilingKept DEF Files
<1>4. ASSUME NEW rm \in BOOLEAN, Unpair(rm) PROVE CmdInv'
  <2>1. PICK open, late, more : /\ open = <<"kex", "auth">>
                                /\ late = <<"unpair", "truncate", "put">>
                                /\ more = IF rm THEN <<"unlink">> ELSE <<>>
    OBVIOUS
  <2>2. PICK script : script = UnpairScript(rm)
    OBVIOUS
  <2>3. PICK two \in Nat, three \in Nat, last \in Nat :
          /\ last \in {0, 1} /\ two = 2 /\ three = 3 /\ (last = 1 <=> rm)
          /\ Len(open) = two /\ Len(late) = three /\ Len(more) = last
    BY <2>1
  <2>4. two \in Nat /\ three \in Nat /\ last \in Nat /\ Len(open) = two /\ Len(late) = three /\ Len(more) = last
    BY <2>3
  <2>5. open \in Seq(Ops) /\ late \in Seq(Ops) /\ more \in Seq(Ops)
    BY <2>1, ScriptsTyped
  <2>6. PICK n \in Nat : n = 5 + last /\ Len(script) = n
    BY <2>2, <2>3 DEF UnpairScript
  <2>7. /\ script[1] = open[1] /\ script[2] = open[2]
        /\ script[3] = late[1] /\ script[4] = late[2] /\ script[5] = late[3] /\ (rm => script[6] = more[1])
        /\ script[1] = "kex"
    BY <2>1, <2>2 DEF UnpairScript
  <2>8. PICK rest : rest = late \o more
    OBVIOUS
  <2>9. /\ rest \in Seq(Ops) /\ Len(rest) = three + last
        /\ \A i \in 1 .. three : rest[i] = late[i]
        /\ \A i \in 1 .. last : rest[three + i] = more[i]
    <3>1. /\ late \in Seq(Ops) /\ more \in Seq(Ops) /\ three \in Nat /\ last \in Nat
          /\ Len(late) = three /\ Len(more) = last
      BY <2>4, <2>5
    <3>2. /\ late \o more \in Seq(Ops) /\ Len(late \o more) = three + last
          /\ \A i \in 1 .. three : (late \o more)[i] = late[i]
      BY <3>1, Behind
    <3>3. \A i \in 1 .. last : (late \o more)[three + i] = more[i]
      BY <3>1
    <3>. QED
      BY <2>8, <3>2, <3>3
  <2>10. /\ Steps(open) \in Seq(StepType) /\ Len(Steps(open)) = two
         /\ \A i \in 1 .. two : Steps(open)[i].op = open[i]
    BY <2>4, <2>5, StepsTyped
  <2>11. PICK k \in Nat : k = three + last /\ Len(rest) = k
    BY <2>4, <2>9
  <2>12. /\ Steps(rest) \in Seq(StepType) /\ Len(Steps(rest)) = k
         /\ \A i \in 1 .. k : Steps(rest)[i].op = rest[i]
    BY <2>9, <2>11, StepsTyped
  <2>13. PICK todo : todo = Steps(open) \o Steps(rest)
    OBVIOUS
  <2>14. /\ todo \in Seq(StepType) /\ Len(todo) = two + k
         /\ \A i \in 1 .. two : todo[i] = Steps(open)[i]
         /\ \A i \in 1 .. k : todo[two + i] = Steps(rest)[i]
    <3>1. /\ Steps(open) \in Seq(StepType) /\ Steps(rest) \in Seq(StepType) /\ two \in Nat /\ k \in Nat
          /\ Len(Steps(open)) = two /\ Len(Steps(rest)) = k
      BY <2>4, <2>10, <2>11, <2>12
    <3>2. /\ Steps(open) \o Steps(rest) \in Seq(StepType) /\ Len(Steps(open) \o Steps(rest)) = two + k
          /\ \A i \in 1 .. two : (Steps(open) \o Steps(rest))[i] = Steps(open)[i]
          /\ \A i \in 1 .. k : (Steps(open) \o Steps(rest))[two + i] = Steps(rest)[i]
      BY <3>1, Behind
    <3>. QED
      BY <2>13, <3>2
  <2>15. two + k = n /\ Len(todo) = n /\ DOMAIN todo = 1 .. n
    <3>1. two + k = n
      BY <2>3, <2>6, <2>11
    <3>. QED
      BY <2>14, <3>1
  <2>16. \A i \in 1 .. n : todo[i].op = script[i]
    <3>1. /\ \A i \in 1 .. two : todo[i].op = open[i]
          /\ \A i \in 1 .. k : todo[two + i].op = rest[i]
      BY <2>10, <2>12, <2>14
    <3>2. 1 \in 1 .. two /\ 2 \in 1 .. two
      BY <2>3
    <3>3. /\ 1 \in 1 .. k /\ 2 \in 1 .. k /\ 3 \in 1 .. k /\ (rm => 4 \in 1 .. k)
          /\ two + 1 = 3 /\ two + 2 = 4 /\ two + 3 = 5 /\ two + 4 = 6
          /\ 1 \in 1 .. three /\ 2 \in 1 .. three /\ 3 \in 1 .. three /\ (rm => 1 \in 1 .. last) /\ three + 1 = 4
      BY <2>3, <2>11
    <3>4. todo[1].op = open[1] /\ todo[2].op = open[2]
      BY <3>1, <3>2
    <3>5. todo[3].op = rest[1] /\ todo[4].op = rest[2] /\ todo[5].op = rest[3] /\ (rm => todo[6].op = rest[4])
      BY <3>1, <3>3
    <3>6. rest[1] = late[1] /\ rest[2] = late[2] /\ rest[3] = late[3] /\ (rm => rest[4] = more[1])
      BY <2>9, <3>3
    <3>7. \A i \in 1 .. n : i \in {1, 2, 3, 4, 5} \/ (rm /\ i = 6)
      BY <2>3, <2>6
    <3>. QED
      BY <2>7, <3>4, <3>5, <3>6, <3>7
  <2>17. Left(todo, script)
    <3>1. \A i \in 1 .. n : n - n + i = i
      BY <2>6
    <3>. QED
      BY <2>6, <2>15, <2>16, <3>1 DEF Left
  <2>18. todo # <<>> /\ Head(todo).op = "kex"
    <3>1. 1 \in 1 .. n
      BY <2>6
    <3>. QED
      BY <2>7, <2>14, <2>15, <2>16, <3>1
  <2>19. Begin([NoJob EXCEPT !.cmd = "unpair", !.todo = todo])
    BY <1>4, <2>1, <2>8, <2>13 DEF Unpair, Command, Opening
  <2>. QED
    BY <2>2, <2>14, <2>17, <2>18, <2>19, FilingKept DEF Files
<1>. QED
  BY <1>1, <1>2, <1>3, <1>4

\* At first there is no command, and the bulb and the device file are in any state.
LEMMA CmdInitInv == ASSUME Init PROVE CmdInv
<1>1. /\ job = NoJob /\ session = "none" /\ playing = 0 /\ issued = 2
      /\ jobs = IF downloads = 0 THEN MaxJobs ELSE 0
      /\ \/ /\ conf \in [state : {"absent", "torn"}, token : {0}] \cup [state : {"good"}, token : {0, 1}]
            /\ accepted \in 0 .. 2
            /\ scenes \in [Slots -> {<<>>} \cup {Stored(e) : e \in AppEffects}]
         \/ /\ conf = [state |-> "absent", token |-> 0]
            /\ accepted = 0
            /\ scenes = Nothing
  BY DEF Init
<1>2. jobs \in 0 .. MaxJobs
  BY <1>1, Assumed
<1>3. JobInv
  BY <1>1, <1>2, NoJobFine DEF JobInv, Sessions
<1>4. BulbInv
  BY <1>1 DEF BulbInv, Nothing
<1>5. /\ conf.state \in {"absent", "torn", "good"} /\ conf.token \in 0 .. Tokens /\ accepted \in 0 .. Tokens
  <2>1. 0 \in 0 .. Tokens /\ 1 \in 0 .. Tokens /\ 0 .. 2 \subseteq 0 .. Tokens
    BY Assumed
  <2>. QED
    BY <1>1, <2>1
<1>6. TokenInv
  BY <1>1, <1>2, <1>5, NoJobFine DEF TokenInv
<1>. QED
  BY <1>3, <1>4, <1>6 DEF CmdInv

\* Every step keeps the invariant of the commands.
LEMMA CmdKept == ASSUME CmdInv, Next PROVE CmdInv'
<1>1. CASE Commands
  BY <1>1, UsualKept, FilesKept DEF Commands
<1>2. CASE Progress
  BY <1>2, ProgressKept
<1>3. CASE App
  BY <1>3, AppKept
<1>4. CASE OtherWriters
  BY <1>4, OthersKept DEF OtherWriters
<1>. QED
  BY <1>1, <1>2, <1>3, <1>4 DEF Next

\* Commands read the catalogue and leave it as it is.
LEMMA FileReads ==
  ASSUME CatInv, Commands \/ Progress \/ App
  PROVE  CatInv'
<1>1. /\ UNCHANGED <<file, dl, names, downloads>>
      /\ upsets' = upsets \/ Upset
  BY DEF Commands, Progress, App, Info, Fw, Observe, Set, List, Current, DeleteAll, Unpair, Play, Delete,
         Preview, Add, Replace, Pair, Find, Discover, Begin, Kex, Auth, Answered, Refused, Lost, Expired, Dead, GiveUp,
         Truncate, Put, Unlink, Interrupt, AppSaves, AppDeletes, Reset, catVars
<1>. QED
  BY <1>1, CatRests

-----------------------------------------------------------------------------
(* Sequences whose elements are in order.                                  *)

\* Each element comes before those that follow it, in the sense of R.
InOrder(s, R) == \A i, j \in DOMAIN s : i < j => <<s[i], s[j]>> \in R

\* One sequence behind another has the elements of both, and their order.
LEMMA ConcatOrder ==
  ASSUME NEW S, NEW s \in Seq(S), NEW t \in Seq(S), NEW R, InOrder(s, R), InOrder(t, R),
         \A a \in ToSet(s), b \in ToSet(t) : <<a, b>> \in R
  PROVE  InOrder(s \o t, R) /\ ToSet(s \o t) = ToSet(s) \cup ToSet(t)
<1>1. PICK n \in Nat, m \in Nat : n = Len(s) /\ m = Len(t)
  OBVIOUS
<1>2. /\ s \o t \in Seq(S) /\ DOMAIN s = 1 .. n /\ DOMAIN t = 1 .. m /\ DOMAIN (s \o t) = 1 .. n + m
      /\ \A i \in 1 .. n : (s \o t)[i] = s[i]
      /\ \A i \in 1 .. m : (s \o t)[n + i] = t[i]
  BY <1>1
<1>3. \A i \in 1 .. n + m : i \in 1 .. n \/ (i - n \in 1 .. m /\ n + (i - n) = i)
  BY <1>1
<1>. DEFINE c == s \o t
<1>4. DOMAIN c = 1 .. n + m /\ (\A i \in 1 .. n : c[i] = s[i]) /\ \A i \in 1 .. m : c[n + i] = t[i]
  BY <1>2
<1>. HIDE DEF c
<1>5. ASSUME NEW i \in 1 .. n + m, NEW j \in 1 .. n + m, i < j PROVE <<c[i], c[j]>> \in R
  <2>1. CASE i \in 1 .. n /\ j \in 1 .. n
    BY <1>2, <1>4, <1>5, <2>1 DEF InOrder
  <2>2. CASE i \in 1 .. n /\ j - n \in 1 .. m
    <3>1. c[i] = s[i] /\ c[j] = t[j - n]
      BY <1>3, <1>4, <2>2
    <3>2. c[i] \in ToSet(s) /\ c[j] \in ToSet(t)
      BY <1>2, <2>2, <3>1 DEF ToSet
    <3>. QED
      BY <3>2
  <2>3. CASE i - n \in 1 .. m /\ j - n \in 1 .. m
    <3>1. c[i] = t[i - n] /\ c[j] = t[j - n] /\ i - n < j - n
      BY <1>1, <1>4, <1>5, <2>3
    <3>. QED
      BY <1>2, <2>3, <3>1 DEF InOrder
  <2>. QED
    BY <1>1, <1>3, <1>5, <2>1, <2>2, <2>3
<1>6. InOrder(c, R)
  BY <1>4, <1>5 DEF InOrder
<1>7. ToSet(c) = ToSet(s) \cup ToSet(t)
  <2>1. ASSUME NEW i \in 1 .. n + m PROVE c[i] \in ToSet(s) \cup ToSet(t)
    <3>1. CASE i \in 1 .. n
      BY <1>2, <1>4, <3>1 DEF ToSet
    <3>2. CASE i - n \in 1 .. m
      <4>1. c[i] = t[i - n]
        BY <1>3, <1>4, <3>2
      <4>. QED
        BY <1>2, <3>2, <4>1 DEF ToSet
    <3>. QED
      BY <1>3, <3>1, <3>2
  <2>2. ASSUME NEW i \in 1 .. n PROVE s[i] \in ToSet(c)
    <3>1. i \in 1 .. n + m /\ c[i] = s[i]
      BY <1>1, <1>4
    <3>. QED
      BY <1>4, <3>1 DEF ToSet
  <2>3. ASSUME NEW i \in 1 .. m PROVE t[i] \in ToSet(c)
    <3>1. n + i \in 1 .. n + m /\ c[n + i] = t[i]
      BY <1>1, <1>4
    <3>. QED
      BY <1>4, <3>1 DEF ToSet
  <2>4. ToSet(c) \subseteq ToSet(s) \cup ToSet(t)
    BY <1>4, <2>1 DEF ToSet
  <2>5. ToSet(s) \subseteq ToSet(c) /\ ToSet(t) \subseteq ToSet(c)
    BY <1>2, <2>2, <2>3 DEF ToSet
  <2>. QED
    BY <2>4, <2>5
<1>. QED
  BY <1>6, <1>7 DEF c

\* A sequence of sequences is flattened from the front.
LEMMA FlattenSteps ==
  ASSUME NEW S, NEW q \in Seq(Seq(S)), NEW n \in Nat \ {0}, Len(q) = n
  PROVE  \E f : /\ \A i \in 1 .. n : f[i] = IF i = 1 THEN q[i] ELSE f[i - 1] \o q[i]
                /\ FlattenSeq(q) = f[n]
<1>. DEFINE All(f, k) == f = [i \in 1 .. k |-> IF i = 1 THEN q[i] ELSE f[i - 1] \o q[i]]
            P == {k \in Nat : \E f : All(f, k)}
<1>1. 0 \in P
  <2>1. All([i \in 1 .. 0 |-> q[1]], 0)
    OBVIOUS
  <2>. QED
    BY <2>1
<1>2. ASSUME NEW k \in Nat, k \in P PROVE k + 1 \in P
  <2>1. PICK f : All(f, k)
    BY <1>2
  <2>. DEFINE g == [i \in 1 .. k + 1 |->
                      IF i = k + 1 THEN IF i = 1 THEN q[i] ELSE f[i - 1] \o q[i] ELSE f[i]]
  <2>2. ASSUME NEW i \in 1 .. k + 1 PROVE g[i] = IF i = 1 THEN q[i] ELSE g[i - 1] \o q[i]
    <3>1. CASE i = k + 1
      BY <3>1
    <3>2. CASE i # k + 1
      <4>1. i \in 1 .. k /\ (i # 1 => i - 1 \in 1 .. k)
        BY <3>2
      <4>2. g[i] = f[i] /\ (i # 1 => g[i - 1] = f[i - 1])
        BY <3>2, <4>1
      <4>3. f[i] = IF i = 1 THEN q[i] ELSE f[i - 1] \o q[i]
        BY <2>1, <4>1
      <4>. QED
        BY <4>2, <4>3
    <3>. QED
      BY <3>1, <3>2
  <2>3. All(g, k + 1)
    BY <2>2
  <2>. HIDE DEF g, All
  <2>4. \E h : All(h, k + 1)
    BY <2>3
  <2>. QED
    BY <2>4
<1>3. n \in P
  BY <1>1, <1>2, Induction
<1>. DEFINE flatten == CHOOSE f : All(f, n)
<1>4. All(flatten, n)
  BY <1>3
<1>5. FlattenSeq(q) = flatten[n]
  BY DEF FlattenSeq
<1>. HIDE DEF flatten
<1>6. \A i \in 1 .. n : flatten[i] = IF i = 1 THEN q[i] ELSE flatten[i - 1] \o q[i]
  BY <1>4
<1>. QED
  BY <1>5, <1>6

\* Flattened, it has the elements of its parts, and their order if the parts are in order.
LEMMA FlattenOrder ==
  ASSUME NEW S, NEW R, NEW q \in Seq(Seq(S)),
         \A i \in DOMAIN q : InOrder(q[i], R),
         \A i, j \in DOMAIN q : i < j => \A a \in ToSet(q[i]), b \in ToSet(q[j]) : <<a, b>> \in R
  PROVE  /\ FlattenSeq(q) \in Seq(S) /\ InOrder(FlattenSeq(q), R)
         /\ ToSet(FlattenSeq(q)) = UNION {ToSet(q[i]) : i \in DOMAIN q}
<1>1. PICK n \in Nat : n = Len(q)
  OBVIOUS
<1>2. DOMAIN q = 1 .. n /\ \A i \in 1 .. n : q[i] \in Seq(S)
  BY <1>1
<1>3. CASE n = 0
  <2>1. FlattenSeq(q) = <<>> /\ DOMAIN q = {}
    BY <1>1, <1>2, <1>3 DEF FlattenSeq
  <2>2. <<>> \in Seq(S) /\ InOrder(<<>>, R) /\ ToSet(<<>>) = {}
    BY DEF InOrder, ToSet
  <2>. QED
    BY <2>1, <2>2
<1>4. CASE n # 0
  <2>5. n \in Nat \ {0} /\ Len(q) = n
    BY <1>1, <1>4
  <2>1. PICK f : /\ \A i \in 1 .. n : f[i] = IF i = 1 THEN q[i] ELSE f[i - 1] \o q[i]
                 /\ FlattenSeq(q) = f[n]
    BY <2>5, FlattenSteps
  <2>. DEFINE Has(k) == UNION {ToSet(q[i]) : i \in 1 .. k}
              T == {k \in Nat : k \in 1 .. n => f[k] \in Seq(S) /\ InOrder(f[k], R) /\ ToSet(f[k]) = Has(k)}
  <2>2. 0 \in T
    OBVIOUS
  <2>3. ASSUME NEW k \in Nat, k \in T PROVE k + 1 \in T
    <3>1. CASE k = 0
      <4>1. 1 \in 1 .. n /\ 1 .. 1 = {1}
        BY <1>4
      <4>2. f[1] = q[1]
        BY <2>1, <4>1
      <4>3. f[1] \in Seq(S) /\ InOrder(f[1], R) /\ ToSet(f[1]) = Has(1)
        BY <1>2, <4>1, <4>2
      <4>. QED
        BY <3>1, <4>3
    <3>2. CASE k # 0 /\ k + 1 \in 1 .. n
      <4>1. k \in 1 .. n /\ (k + 1) - 1 = k /\ k + 1 # 1 /\ 1 .. k + 1 = (1 .. k) \cup {k + 1}
        BY <3>2
      <4>2. f[k + 1] = f[k] \o q[k + 1]
        BY <2>1, <3>2, <4>1
      <4>3. /\ f[k] \in Seq(S) /\ InOrder(f[k], R) /\ ToSet(f[k]) = Has(k)
            /\ q[k + 1] \in Seq(S) /\ InOrder(q[k + 1], R)
        BY <1>2, <2>3, <3>2, <4>1
      <4>4. ASSUME NEW a \in ToSet(f[k]), NEW b \in ToSet(q[k + 1]) PROVE <<a, b>> \in R
        <5>1. PICK i \in 1 .. k : a \in ToSet(q[i])
          BY <4>3
        <5>2. i < k + 1 /\ i \in DOMAIN q /\ k + 1 \in DOMAIN q
          BY <1>2, <3>2, <4>1
        <5>. QED
          BY <5>1, <5>2
      <4>7. PICK a, b : a = f[k] /\ b = q[k + 1]
        OBVIOUS
      <4>8. a \o b \in Seq(S) /\ InOrder(a \o b, R) /\ ToSet(a \o b) = ToSet(a) \cup ToSet(b)
        <5>1. a \in Seq(S) /\ b \in Seq(S) /\ InOrder(a, R) /\ InOrder(b, R)
          BY <4>3, <4>7
        <5>2. \A c \in ToSet(a), d \in ToSet(b) : <<c, d>> \in R
          BY <4>4, <4>7
        <5>3. a \o b \in Seq(S)
          BY <5>1
        <5>. QED
          BY <5>1, <5>2, <5>3, ConcatOrder
      <4>5. /\ f[k] \o q[k + 1] \in Seq(S) /\ InOrder(f[k] \o q[k + 1], R)
            /\ ToSet(f[k] \o q[k + 1]) = ToSet(f[k]) \cup ToSet(q[k + 1])
        BY <4>7, <4>8
      <4>6. Has(k + 1) = Has(k) \cup ToSet(q[k + 1])
        BY <4>1
      <4>9. f[k + 1] \in Seq(S) /\ InOrder(f[k + 1], R) /\ ToSet(f[k + 1]) = Has(k + 1)
        BY <4>2, <4>3, <4>5, <4>6
      <4>. QED
        BY <4>9
    <3>3. CASE k + 1 \notin 1 .. n
      BY <3>3
    <3>. QED
      BY <3>1, <3>2, <3>3
  <2>4. n \in T
    <3>. HIDE DEF T
    <3>. QED
      BY <2>2, <2>3, Induction
  <2>. QED
    BY <1>2, <1>4, <2>1, <2>4
<1>. QED
  BY <1>3, <1>4

\* One element more.
LEMMA OneMore ==
  ASSUME NEW S, NEW k \in Nat, NEW a \in Seq(S), Len(a) = k, NEW b \in Seq(S), Len(b) = 1
  PROVE  /\ a \o b \in Seq(S) /\ Len(a \o b) = k + 1
         /\ \A i \in 1 .. k : (a \o b)[i] = a[i]
         /\ (a \o b)[k + 1] = b[1]
<1>1. PICK one \in Nat : one = 1
  OBVIOUS
<1>2. Len(b) = one
  BY <1>1
<1>3. /\ a \o b \in Seq(S) /\ Len(a \o b) = k + one
      /\ \A i \in 1 .. k : (a \o b)[i] = a[i]
      /\ \A i \in 1 .. one : (a \o b)[k + i] = b[i]
  BY <1>2, Behind
<1>. QED
  BY <1>1, <1>3

\* One element each, flattened, are those elements.
LEMMA FlattenOnes ==
  ASSUME NEW S, NEW s \in Seq(S)
  PROVE  FlattenSeq([i \in DOMAIN s |-> [j \in 1 .. 1 |-> s[i]]]) = s
<1>. DEFINE q == [i \in DOMAIN s |-> [j \in 1 .. 1 |-> s[i]]]
<1>. SUFFICES FlattenSeq(q) = s
  OBVIOUS
<1>1. PICK n \in Nat : n = Len(s)
  OBVIOUS
<1>2. DOMAIN s = 1 .. n /\ \A i \in 1 .. n : s[i] \in S
  BY <1>1
<1>3. ASSUME NEW i \in 1 .. n PROVE q[i] \in Seq(S) /\ Len(q[i]) = 1 /\ q[i][1] = s[i]
  BY <1>2
<1>4. q \in Seq(Seq(S)) /\ Len(q) = n
  BY <1>2, <1>3
<1>. HIDE DEF q
<1>5. CASE n = 0
  <2>1. Len(q) = 0 /\ q \in Seq(Seq(S)) /\ Len(s) = 0
    BY <1>1, <1>4, <1>5
  <2>2. q = <<>> /\ s = <<>>
    BY <2>1, EmptySeq
  <2>3. FlattenSeq(q) = q
    BY <2>1 DEF FlattenSeq
  <2>. QED
    BY <2>2, <2>3
<1>6. CASE n # 0
  <2>9. n \in Nat \ {0} /\ Len(q) = n
    BY <1>1, <1>4, <1>6
  <2>1. PICK f : /\ \A i \in 1 .. n : f[i] = IF i = 1 THEN q[i] ELSE f[i - 1] \o q[i]
                 /\ FlattenSeq(q) = f[n]
    BY <1>4, <2>9, FlattenSteps
  <2>. DEFINE Ones(k) == f[k] \in Seq(S) /\ Len(f[k]) = k /\ \A i \in 1 .. k : f[k][i] = s[i]
              T == {k \in Nat : k \in 1 .. n => Ones(k)}
  <2>2. 0 \in T
    OBVIOUS
  <2>3. ASSUME NEW k \in Nat, k = 0 \/ Ones(k), k + 1 \in 1 .. n PROVE Ones(k + 1)
    <3>1. PICK b \in Seq(S) : b = q[k + 1] /\ Len(b) = 1 /\ b[1] = s[k + 1]
      BY <1>3, <2>3
    <3>2. CASE k = 0
      <4>1. f[1] = b
        BY <2>1, <2>3, <3>1, <3>2
      <4>. QED
        BY <3>1, <3>2, <4>1
    <3>3. CASE k # 0 /\ Ones(k)
      <4>1. (k + 1) - 1 = k /\ k + 1 # 1
        BY <3>3
      <4>2. PICK a \in Seq(S) : a = f[k]
        BY <3>3
      <4>3. Len(a) = k /\ \A i \in 1 .. k : a[i] = s[i]
        BY <3>3, <4>2
      <4>4. f[k + 1] = a \o b
        BY <2>1, <2>3, <3>1, <4>1, <4>2
      <4>5. /\ a \o b \in Seq(S) /\ Len(a \o b) = k + 1
            /\ \A i \in 1 .. k : (a \o b)[i] = a[i]
            /\ (a \o b)[k + 1] = b[1]
        BY <3>1, <4>3, OneMore
      <4>6. ASSUME NEW i \in 1 .. k + 1 PROVE (a \o b)[i] = s[i]
        <5>1. i \in 1 .. k \/ i = k + 1
          OBVIOUS
        <5>. QED
          BY <3>1, <4>3, <4>5, <5>1
      <4>. QED
        BY <4>4, <4>5, <4>6
    <3>. QED
      BY <2>3, <3>2, <3>3
  <2>4. ASSUME NEW k \in Nat, k \in T PROVE k + 1 \in T
    <3>1. k + 1 \in 1 .. n => k = 0 \/ k \in 1 .. n
      OBVIOUS
    <3>2. k + 1 \in Nat
      OBVIOUS
    <3>. HIDE DEF Ones
    <3>. QED
      BY <2>3, <2>4, <3>1, <3>2
  <2>5. n \in T
    <3>. HIDE DEF T
    <3>. QED
      BY <2>2, <2>4, Induction
  <2>6. n \in 1 .. n
    BY <1>6
  <2>7. Ones(n)
    <3>. HIDE DEF Ones
    <3>. QED
      BY <2>5, <2>6
  <2>8. f[n] = s
    <3>1. PICK g \in Seq(S) : g = f[n] /\ Len(g) = n /\ \A i \in 1 .. n : g[i] = s[i]
      BY <2>7
    <3>. QED
      BY <1>1, <3>1
  <2>. QED
    BY <2>1, <2>8
<1>. QED
  BY <1>5, <1>6

-----------------------------------------------------------------------------
(* Numbers, and what is chosen from sequences by them.                     *)

\* The numbers up to n.
LEMMA UpTo ==
  /\ \A n \in Nat : IsFiniteSet(1 .. n) /\ Cardinality(1 .. n) = n
  /\ \A n \in Nat \ {0} : IsFiniteSet(1 .. n - 1) /\ Cardinality(1 .. n - 1) = n - 1
<1>1. ASSUME NEW n \in Nat PROVE IsFiniteSet(1 .. n) /\ Cardinality(1 .. n) = n
  <2>1. 1 \in Int /\ n \in Int
    OBVIOUS
  <2>2. IsFiniteSet(1 .. n) /\ Cardinality(1 .. n) = IF 1 > n THEN 0 ELSE n - 1 + 1
    BY <2>1, FS_Interval
  <2>3. (IF 1 > n THEN 0 ELSE n - 1 + 1) = n
    OBVIOUS
  <2>. QED
    BY <2>2, <2>3
<1>2. \A n \in Nat \ {0} : n - 1 \in Nat
  OBVIOUS
<1>. QED
  BY <1>1, <1>2

\* What begins with the first k numbers has the k-th at place k.
LEMMA NthFirst ==
  ASSUME NEW I \in SUBSET (Nat \ {0}), IsFiniteSet(I), NEW k \in Nat \ {0}, 1 .. k \subseteq I
  PROVE  Nth(I, Ascending(I), k) = k
<1>. DEFINE Under(i) == {j \in I : <<j, i>> \in Ascending(I)}
<1>0. \A i \in I : i \in Nat \ {0}
  OBVIOUS
<1>. DEFINE Below(i) == {j \in I : j < i}
<1>1. \A i \in I : Under(i) = Below(i)
  BY DEF Ascending
<1>6. ASSUME NEW i \in Nat \ {0}, i <= k PROVE Below(i) = 1 .. i - 1
  <2>1. ASSUME NEW j \in I, j < i PROVE j \in 1 .. i - 1
    BY <1>0, <1>6, <2>1
  <2>2. ASSUME NEW j \in 1 .. i - 1 PROVE j \in I /\ j < i
    <3>1. j \in 1 .. k /\ j < i
      BY <1>6
    <3>. QED
      BY <3>1
  <2>. QED
    BY <2>1, <2>2
<1>2. k \in I
  OBVIOUS
<1>3. Cardinality(Under(k)) = k - 1
  <2>1. Under(k) = 1 .. k - 1
    BY <1>1, <1>2, <1>6
  <2>. HIDE DEF Under
  <2>2. Cardinality(1 .. k - 1) = k - 1
    BY UpTo
  <2>. QED
    BY <2>1, <2>2
<1>4. ASSUME NEW i \in I, Cardinality(Under(i)) = k - 1 PROVE i = k
  <2>1. CASE i < k
    <3>1. Under(i) = 1 .. i - 1
      BY <1>0, <1>1, <1>6, <2>1
    <3>. HIDE DEF Under
    <3>2. i \in Nat \ {0} /\ Cardinality(1 .. i - 1) = i - 1
      BY <1>0, UpTo
    <3>. QED
      BY <1>4, <2>1, <3>1, <3>2
  <2>2. CASE i > k
    <3>1. 1 .. k \subseteq Under(i) /\ Under(i) \subseteq I
      BY <1>0, <1>1, <2>2
    <3>. HIDE DEF Under
    <3>2. IsFiniteSet(Under(i))
      BY <3>1, FS_Subset
    <3>3. Cardinality(1 .. k) <= Cardinality(Under(i))
      BY <3>1, <3>2, FS_Subset
    <3>4. Cardinality(1 .. k) = k
      BY UpTo
    <3>. QED
      BY <1>4, <3>3, <3>4
  <2>. QED
    BY <1>0, <2>1, <2>2
<1>. HIDE DEF Under
<1>5. (CHOOSE i \in I : Cardinality(Under(i)) = k - 1) = k
  BY <1>2, <1>3, <1>4
<1>. QED
  BY <1>5 DEF Nth, Under

\* The smaller of two numbers.
LEMMA MinTwo ==
  ASSUME NEW a \in Nat, NEW b \in Nat
  PROVE  Min({a, b}) = IF a <= b THEN a ELSE b
<1>1. \E x \in {a, b} : \A y \in {a, b} : x =< y
  OBVIOUS
<1>2. Min({a, b}) \in {a, b} /\ \A y \in {a, b} : Min({a, b}) =< y
  BY <1>1 DEF Min
<1>. QED
  BY <1>2

\* Places of a sequence whose first n are all chosen.
LEMMA ChosenFirst ==
  ASSUME NEW S, NEW s \in Seq(S), NEW I \in SUBSET (DOMAIN s), NEW n \in Nat, 1 .. n \subseteq I
  PROVE  /\ Cardinality(I) \in Nat /\ n <= Cardinality(I) /\ Cardinality(I) <= Len(s)
         /\ Chosen(s, I) \in Seq(S) /\ Len(Chosen(s, I)) = Cardinality(I)
         /\ \A k \in 1 .. n : Chosen(s, I)[k] = s[k]
<1>1. PICK m \in Nat : m = Len(s)
  OBVIOUS
<1>2. DOMAIN s = 1 .. m
  BY <1>1
<1>3. IsFiniteSet(1 .. m) /\ Cardinality(1 .. m) = m /\ Cardinality(1 .. n) = n
  BY UpTo
<1>4. IsFiniteSet(I) /\ Cardinality(I) <= m /\ n <= Cardinality(I)
  <2>1. IsFiniteSet(I) /\ Cardinality(I) <= m
    BY <1>2, <1>3, FS_Subset
  <2>. QED
    BY <1>3, <2>1, FS_Subset
<1>5. PICK c \in Nat : c = Cardinality(I)
  BY <1>4, FS_CardinalityType
<1>6. Chosen(s, I) \in Seq(S)
  BY ChosenInOrder
<1>7. Len(Chosen(s, I)) = c /\ \A k \in 1 .. c : Chosen(s, I)[k] = s[Nth(I, Ascending(I), k)]
  <2>1. Chosen(s, I) = [k \in 1 .. c |-> s[Nth(I, Ascending(I), k)]]
    BY <1>5 DEF Chosen
  <2>. QED
    BY <1>6, <2>1
<1>8. ASSUME NEW k \in 1 .. n PROVE Chosen(s, I)[k] = s[k]
  <2>1. I \subseteq Nat \ {0} /\ k \in Nat \ {0} /\ 1 .. k \subseteq I
    BY <1>2
  <2>2. Nth(I, Ascending(I), k) = k
    BY <1>4, <2>1, NthFirst
  <2>3. k \in 1 .. c
    BY <1>4, <1>5
  <2>. QED
    BY <1>7, <2>2, <2>3
<1>. QED
  BY <1>1, <1>4, <1>5, <1>6, <1>7, <1>8

-----------------------------------------------------------------------------
(* Palettes.                                                               *)

\* The colours of scenes as they are in the catalogue and as the bulb has them.
RgbColors == {FromHsb(k) : k \in [hue : Nat, sat : Nat, bri : Nat]}
HsbColors == {ToHsb(c) : c \in RgbColors}

\* A palette of the catalogue.
LEMMA PaletteTyped == ASSUME NEW e \in Effects PROVE Palette[e] \in Seq(RgbColors)
<1>. DEFINE H == [hue : Nat, sat : Nat, bri : Nat]
            ks == EffectColors[e]
<1>1. ks \in Seq(H)
  BY PaletteAssumption DEF PaletteAssumption
<1>2. Palette[e] = [i \in DOMAIN ks |-> FromHsb(ks[i])]
  BY DEF Palette, palette_to_hex
<1>. HIDE DEF ks
<1>3. PICK n \in Nat : DOMAIN ks = 1 .. n /\ \A i \in 1 .. n : ks[i] \in H
  <2>1. PICK n \in Nat : n = Len(ks)
    BY <1>1
  <2>2. DOMAIN ks = 1 .. n /\ \A i \in 1 .. n : ks[i] \in H
    <3>. HIDE DEF H
    <3>. QED
      BY <1>1, <2>1
  <2>. QED
    BY <2>2
<1>4. \A i \in 1 .. n : FromHsb(ks[i]) \in RgbColors
  BY <1>3 DEF RgbColors
<1>. HIDE DEF H
<1>. QED
  BY <1>2, <1>3, <1>4

\* What is shown of a palette, and that it is what is left of its first colours if these are lit.
LEMMA ShownTyped ==
  ASSUME NEW p \in Seq(RgbColors), NEW max \in Nat
  PROVE  /\ Shown(p, max) \in Seq(HsbColors) /\ Len(Shown(p, max)) <= max /\ Len(Shown(p, max)) <= Len(p)
         /\ \A n \in Nat : n <= Len(p) /\ n <= max /\ (\A i \in 1 .. n : ToHsb(p[i]).bri > 0)
              => /\ n <= Len(Shown(p, max))
                 /\ \A i \in 1 .. n : Shown(p, max)[i] = ToHsb(p[i])
<1>. DEFINE ks == decode_palette_hex(p)
            I == {i \in DOMAIN ks : ks[i].bri > 0}
            lit == Chosen(ks, I)
<1>1. PICK m \in Nat : m = Len(p) /\ DOMAIN p = 1 .. m /\ \A i \in 1 .. m : p[i] \in RgbColors
  OBVIOUS
<1>2. ks \in Seq(HsbColors) /\ DOMAIN ks = 1 .. m /\ Len(ks) = m /\ \A i \in 1 .. m : ks[i] = ToHsb(p[i])
  <2>1. ks = [i \in 1 .. m |-> ToHsb(p[i])]
    BY <1>1 DEF decode_palette_hex
  <2>2. \A i \in 1 .. m : ToHsb(p[i]) \in HsbColors
    BY <1>1 DEF HsbColors
  <2>. HIDE DEF ks
  <2>. QED
    BY <2>1, <2>2
<1>3. Shown(p, max) = SubSeq(lit, 1, Min({Len(lit), max}))
  BY DEF Shown, Lit
<1>. HIDE DEF ks
<1>4. I \in SUBSET (DOMAIN ks)
  OBVIOUS
<1>5. PICK c \in Nat : Len(lit) = c /\ c <= m /\ lit \in Seq(HsbColors)
  <2>1. 1 .. 0 \subseteq I
    OBVIOUS
  <2>2. Cardinality(I) \in Nat /\ Cardinality(I) <= Len(ks) /\ lit \in Seq(HsbColors) /\ Len(lit) = Cardinality(I)
    <3>. HIDE DEF I
    <3>. QED
      BY <1>2, <1>4, <2>1, ChosenFirst
  <2>. QED
    BY <1>2, <2>2
<1>6. ASSUME NEW n \in Nat, n <= m, \A i \in 1 .. n : ToHsb(p[i]).bri > 0
      PROVE  n <= c /\ \A i \in 1 .. n : lit[i] = ToHsb(p[i])
  <2>1. 1 .. n \subseteq I
    BY <1>2, <1>6
  <2>2. n <= Cardinality(I) /\ Len(lit) = Cardinality(I) /\ \A k \in 1 .. n : lit[k] = ks[k]
    <3>. HIDE DEF I
    <3>. QED
      BY <1>2, <1>4, <2>1, ChosenFirst
  <2>. QED
    BY <1>2, <1>5, <1>6, <2>2
<1>. HIDE DEF lit
<1>7. PICK t \in Nat : t = Min({c, max}) /\ t = IF c <= max THEN c ELSE max
  BY MinTwo
<1>8. t <= c /\ t <= max
  BY <1>7
<1>9. /\ Shown(p, max) \in Seq(HsbColors) /\ Len(Shown(p, max)) = t
      /\ \A i \in 1 .. t : Shown(p, max)[i] = lit[i]
  <2>1. Shown(p, max) = SubSeq(lit, 1, t)
    BY <1>3, <1>5, <1>7
  <2>2. \A i \in 1 .. t : i \in 1 .. c
    BY <1>8
  <2>3. SubSeq(lit, 1, t) \in Seq(HsbColors) /\ Len(SubSeq(lit, 1, t)) = t
    BY <1>5, <1>8
  <2>4. \A i \in 1 .. t : SubSeq(lit, 1, t)[i] = lit[i]
    BY <1>5, <1>8
  <2>. QED
    BY <2>1, <2>3, <2>4
<1>. HIDE DEF I
<1>10. t <= m
  BY <1>5, <1>8
<1>11. ASSUME NEW n \in Nat, n <= m, n <= max, \A i \in 1 .. n : ToHsb(p[i]).bri > 0
       PROVE  n <= t /\ \A i \in 1 .. n : Shown(p, max)[i] = ToHsb(p[i])
  <2>1. n <= c /\ \A i \in 1 .. n : lit[i] = ToHsb(p[i])
    BY <1>6, <1>11
  <2>2. n <= t
    BY <1>7, <1>11, <2>1
  <2>3. \A i \in 1 .. n : i \in 1 .. t
    BY <2>2
  <2>. QED
    BY <1>9, <2>1, <2>2, <2>3
<1>. QED
  BY <1>1, <1>8, <1>9, <1>10, <1>11

\* Without compact repeats each colour shown has an entry of its own.
LEMMA EncodePlain ==
  ASSUME NEW p \in Seq(RgbColors), NEW max \in Nat
  PROVE  encode_palette_bytes(p, max, FALSE)
           = [n \in DOMAIN Shown(p, max) |-> [color |-> Shown(p, max)[n], count |-> 1]]
<1>. DEFINE ks == Shown(p, max)
            heads == {i \in DOMAIN ks : FALSE /\ i > 1 => ks[i] # ks[i - 1]}
            Run(i) == {j \in i .. Len(ks) : (i + 1 .. j) \cap heads = {}}
<1>1. ks \in Seq(HsbColors)
  BY ShownTyped
<1>2. encode_palette_bytes(p, max, FALSE)
        = [n \in 1 .. Cardinality(heads) |->
             [color |-> ks[Nth(heads, Ascending(heads), n)],
              count |-> Cardinality(Run(Nth(heads, Ascending(heads), n)))]]
  BY DEF encode_palette_bytes, Packed
<1>. HIDE DEF ks
<1>3. PICK m \in Nat : m = Len(ks) /\ DOMAIN ks = 1 .. m
  BY <1>1
<1>4. heads = 1 .. m
  BY <1>3
<1>5. Cardinality(heads) = m
  BY <1>4, UpTo
<1>6. ASSUME NEW n \in 1 .. m PROVE Nth(heads, Ascending(heads), n) = n /\ Cardinality(Run(n)) = 1
  <2>1. Run(n) = {n}
    <3>1. ASSUME NEW j \in n .. m PROVE (n + 1 .. j) \cap (1 .. m) = {} <=> j = n
      <4>1. j # n => n + 1 \in (n + 1 .. j) \cap (1 .. m)
        OBVIOUS
      <4>. QED
        BY <4>1
    <3>. HIDE DEF heads
    <3>. QED
      BY <1>3, <1>4, <3>1
  <2>2. Nth(1 .. m, Ascending(1 .. m), n) = n
    <3>1. IsFiniteSet(1 .. m) /\ 1 .. m \subseteq Nat \ {0} /\ n \in Nat \ {0} /\ 1 .. n \subseteq 1 .. m
      BY UpTo
    <3>. QED
      BY <3>1, NthFirst
  <2>. HIDE DEF heads, Run
  <2>. QED
    BY <1>4, <2>1, <2>2, FS_Singleton
<1>. HIDE DEF heads, Run
<1>7. encode_palette_bytes(p, max, FALSE) = [n \in 1 .. m |-> [color |-> ks[n], count |-> 1]]
  BY <1>2, <1>5, <1>6
<1>. QED
  BY <1>3, <1>7 DEF ks

\* What is written without compact repeats is read back as it would be shown.
LEMMA ParsePlain ==
  ASSUME NEW p \in Seq(RgbColors), NEW max \in Nat
  PROVE  parse_scene_palette(encode_palette_bytes(p, max, FALSE)) = normalize_scene_palette(p, max)
<1>. DEFINE ks == Shown(p, max)
            es == encode_palette_bytes(p, max, FALSE)
<1>1. ks \in Seq(HsbColors) /\ es = [n \in DOMAIN ks |-> [color |-> ks[n], count |-> 1]]
  BY ShownTyped, EncodePlain
<1>2. /\ parse_scene_palette(es)
           = palette_to_hex(FlattenSeq([i \in DOMAIN es |-> [j \in 1 .. Times(es[i]) |-> es[i].color]]))
      /\ normalize_scene_palette(p, max) = palette_to_hex(ks)
  BY DEF parse_scene_palette, normalize_scene_palette
<1>. HIDE DEF ks, es
<1>3. DOMAIN es = DOMAIN ks /\ \A i \in DOMAIN ks : es[i].color = ks[i] /\ Times(es[i]) = 1
  BY <1>1 DEF Times
<1>4. [i \in DOMAIN es |-> [j \in 1 .. Times(es[i]) |-> es[i].color]] = [i \in DOMAIN ks |-> [j \in 1 .. 1 |-> ks[i]]]
  BY <1>3
<1>5. FlattenSeq([i \in DOMAIN ks |-> [j \in 1 .. 1 |-> ks[i]]]) = ks
  BY <1>1, FlattenOnes
<1>. QED
  BY <1>2, <1>4, <1>5 DEF es

-----------------------------------------------------------------------------
(* What a bulb has stored, and what is read of it.                          *)

\* An entry of the bulb.
Entry == [color : HsbColors, count : Nat]

\* What is written to it is a sequence of entries.
LEMMA EncodeTyped ==
  ASSUME NEW p \in Seq(RgbColors), NEW max \in Nat, NEW compact \in BOOLEAN
  PROVE  encode_palette_bytes(p, max, compact) \in Seq(Entry)
<1>. DEFINE ks == Shown(p, max)
            heads == {i \in DOMAIN ks : compact /\ i > 1 => ks[i] # ks[i - 1]}
            Run(i) == {j \in i .. Len(ks) : (i + 1 .. j) \cap heads = {}}
            At(k) == Nth(heads, Ascending(heads), k)
            n == Cardinality(heads)
<1>1. ks \in Seq(HsbColors)
  BY ShownTyped
<1>2. encode_palette_bytes(p, max, compact)
        = [k \in 1 .. n |-> [color |-> ks[At(k)], count |-> Cardinality(Run(At(k)))]]
  BY DEF encode_palette_bytes, Packed
<1>. HIDE DEF ks
<1>3. PICK m \in Nat : m = Len(ks) /\ DOMAIN ks = 1 .. m /\ \A i \in 1 .. m : ks[i] \in HsbColors
  BY <1>1
<1>4. heads \subseteq 1 .. m /\ IsFiniteSet(1 .. m)
  BY <1>3, UpTo
<1>5. \A i \in 1 .. m : Run(i) \subseteq 1 .. m
  BY <1>3
<1>6. \A i \in 1 .. m : Cardinality(Run(i)) \in Nat
  <2>. HIDE DEF Run
  <2>. QED
    BY <1>4, <1>5, FS_Subset, FS_CardinalityType
<1>. HIDE DEF Run, heads
<1>7. n \in Nat /\ \A k \in 1 .. n : At(k) \in 1 .. m
  <2>1. IsFiniteSet(heads) /\ heads \in SUBSET Nat
    <3>1. IsFiniteSet(heads)
      BY <1>4, FS_Subset
    <3>2. 1 .. m \subseteq Nat
      OBVIOUS
    <3>. QED
      BY <1>4, <3>1, <3>2
  <2>2. StrictOrder(heads, Ascending(heads))
    BY <2>1, AscendingIsOrder
  <2>3. n \in Nat /\ \A k \in 1 .. n : At(k) \in heads
    BY <2>1, <2>2, NthInOrder
  <2>. QED
    BY <1>4, <2>3
<1>. HIDE DEF At
<1>8. \A k \in 1 .. n : [color |-> ks[At(k)], count |-> Cardinality(Run(At(k)))] \in Entry
  BY <1>3, <1>6, <1>7 DEF Entry
<1>. HIDE DEF n
<1>. QED
  BY <1>2, <1>7, <1>8

\* A scene that is there has colours to be read.
LEMMA ReadNonempty ==
  ASSUME NEW es \in Seq(Entry), es # <<>>
  PROVE  parse_scene_palette(es) # <<>>
<1>. DEFINE q == [i \in DOMAIN es |-> [j \in 1 .. Times(es[i]) |-> es[i].color]]
            All == HsbColors \X HsbColors
<1>1. PICK n \in Nat : n = Len(es) /\ n # 0 /\ DOMAIN es = 1 .. n /\ \A i \in 1 .. n : es[i] \in Entry
  <2>1. PICK n \in Nat : n = Len(es)
    OBVIOUS
  <2>2. n # 0 /\ DOMAIN es = 1 .. n
    BY <2>1
  <2>3. \A i \in 1 .. n : es[i] \in Entry
    BY <2>1
  <2>. QED
    BY <2>1, <2>2, <2>3
<1>2. ASSUME NEW i \in 1 .. n PROVE q[i] \in Seq(HsbColors) /\ es[i].color \in ToSet(q[i])
  <2>1. es[i].color \in HsbColors /\ es[i].count \in Nat
    BY <1>1 DEF Entry
  <2>2. PICK t \in Nat : t = Times(es[i]) /\ t # 0
    BY <2>1 DEF Times
  <2>3. q[i] = [j \in 1 .. t |-> es[i].color]
    BY <1>1, <2>2
  <2>. HIDE DEF q
  <2>4. 1 \in 1 .. t
    BY <2>2
  <2>5. PICK c : c = es[i].color
    OBVIOUS
  <2>6. q[i] = [j \in 1 .. t |-> c] /\ c \in HsbColors
    BY <2>1, <2>3, <2>5
  <2>7. q[i] \in Seq(HsbColors)
    BY <2>6
  <2>8. q[i][1] = c /\ DOMAIN q[i] = 1 .. t
    BY <2>4, <2>6
  <2>. QED
    BY <2>4, <2>5, <2>7, <2>8 DEF ToSet
<1>3. q \in Seq(Seq(HsbColors)) /\ DOMAIN q = 1 .. n
  <2>1. q = [i \in 1 .. n |-> q[i]]
    BY <1>1
  <2>. HIDE DEF q
  <2>. QED
    BY <1>2, <2>1
<1>. HIDE DEF q
<1>4. ASSUME NEW s \in Seq(HsbColors) PROVE ToSet(s) \subseteq HsbColors
  BY DEF ToSet
<1>5. \A i \in DOMAIN q : InOrder(q[i], All)
  BY <1>2, <1>3 DEF InOrder
<1>6. \A i, j \in DOMAIN q : i < j => \A a \in ToSet(q[i]), b \in ToSet(q[j]) : <<a, b>> \in All
  BY <1>2, <1>3, <1>4
<1>. HIDE DEF All
<1>7. ToSet(FlattenSeq(q)) = UNION {ToSet(q[i]) : i \in DOMAIN q}
  BY <1>3, <1>5, <1>6, FlattenOrder
<1>8. 1 \in 1 .. n
  BY <1>1
<1>9. es[1].color \in ToSet(FlattenSeq(q))
  BY <1>2, <1>3, <1>7, <1>8
<1>10. DOMAIN FlattenSeq(q) # {}
  BY <1>9 DEF ToSet
<1>11. DOMAIN parse_scene_palette(es) = DOMAIN FlattenSeq(q)
  BY DEF parse_scene_palette, palette_to_hex, q
<1>. QED
  BY <1>10, <1>11

-----------------------------------------------------------------------------
(* Commands that look for a scene.                                          *)

\* The steps of a command that looks for a scene, and their order.
Aims == {"play", "delete", "replace", "add"}
Rank == [kex |-> 1, auth |-> 2, list |-> 3, gets |-> 4, get |-> 4, play |-> 5, delete |-> 5, add |-> 6]
SceneStep == [op : DOMAIN Rank \ {"get"}, slot : {0}] \cup [op : {"get"}, slot : Slots]
Before ==
  {p \in SceneStep \X SceneStep :
     Rank[p[1].op] < Rank[p[2].op]
       \/ (p[1].op = "get" /\ p[2].op = "get" /\ p[1].slot # p[2].slot)}

\* What a command has yet to do.
Yet(j, op) == \E x \in ToSet(j.todo) : x.op = op

\* Of a scene it has yet to ask for it knows nothing, nor has the bulb refused it.
Unread(j) ==
  \A s \in Slots : [op |-> "get", slot |-> s] \in ToSet(j.todo) => j.seen[s] = <<>> /\ s \notin j.passed

\* Such a command reads the scenes it is to know of after it has listed them and before
\* it changes any.
Scenic(j) ==
  /\ j.todo \in Seq(SceneStep) /\ InOrder(j.todo, Before)
  /\ Yet(j, "kex") \/ Yet(j, "auth") \/ Yet(j, "gets") => Yet(j, "list")
  /\ Yet(j, "list") /\ (j.query # None \/ j.skip) => Yet(j, "gets")
  /\ Yet(j, "list") => j.seen = Nothing /\ j.passed = {}
  /\ Unread(j)
  /\ Yet(j, "add") => j.cmd \in {"add", "replace"}
  /\ j.cmd \in {"add", "replace"} => j.effect \in ToSet(j.db)
  /\ j.skip => j.cmd = "add" /\ j.query = None /\ ~ j.compact /\ ~ Yet(j, "play") /\ ~ Yet(j, "delete")
  /\ j.db \in Seq(Effects) /\ DOMAIN j.seen = Slots /\ j.compact \in BOOLEAN

AimInv ==
  /\ job.cmd \in Aims => Scenic(job)
  /\ job.cmd \notin Aims => job.query = None /\ ~ job.skip /\ ~ Yet(job, "add")

\* A palette is that of an effect, as the bulb would show both.
Duplicate(e, p) ==
  LET there == normalize_scene_palette(p, MaxColors)
  IN there # <<>> /\ there = normalize_scene_palette(Palette[e], MaxColors)

\* What a command knows of a slot is true: it is empty, or is going to be read, or the
\* bulb has refused to show it, or it has been read.
Knows(j, stored, s) ==
  \/ stored[s] = <<>> /\ j.seen[s] = <<>>
  \/ stored[s] # <<>> /\ [op |-> "get", slot |-> s] \in ToSet(j.todo)
  \/ stored[s] # <<>> /\ s \in j.passed /\ j.seen[s] = <<>>
  \/ /\ stored[s] # <<>> /\ s \notin j.passed
     /\ j.query # None => j.seen[s] = parse_scene_palette(stored[s])
     /\ j.skip => ~ Duplicate(j.effect, parse_scene_palette(stored[s]))

\* Whether it matters.
Asks(j) == \/ j.query # None /\ (Yet(j, "play") \/ Yet(j, "delete"))
           \/ j.skip /\ Yet(j, "add")
KnowInv ==
  job.cmd \in Aims /\ ~ Yet(job, "list") /\ session = "authed" /\ ~ job.raced /\ Asks(job)
    => \A s \in Slots : Knows(job, scenes, s)

\* The scenes of the bulb are entries.
StoredInv == \A s \in Slots : scenes[s] \in Seq(Entry)

\* The invariant of the scenes, and of what commands know of them.
SceneInv == AimInv /\ KnowInv /\ StoredInv

\* A sequence is its first element and then the rest, which comes after it.
LEMMA HeadTail ==
  ASSUME NEW S, NEW s \in Seq(S), s # <<>>
  PROVE  /\ Head(s) \in S /\ Tail(s) \in Seq(S) /\ ToSet(s) = {Head(s)} \cup ToSet(Tail(s))
         /\ \A R : InOrder(s, R) => InOrder(Tail(s), R) /\ \A b \in ToSet(Tail(s)) : <<Head(s), b>> \in R
<1>1. PICK n \in Nat : n = Len(s) /\ n # 0 /\ DOMAIN s = 1 .. n
  <2>1. PICK n \in Nat : n = Len(s)
    OBVIOUS
  <2>. QED
    BY <2>1
<1>2. PICK t, h : t = Tail(s) /\ h = Head(s)
  OBVIOUS
<1>3. h \in S /\ t \in Seq(S) /\ h = s[1] /\ DOMAIN t = 1 .. n - 1
  BY <1>1, <1>2
<1>4. \A i \in 1 .. n - 1 : t[i] = s[i + 1]
  BY <1>1, <1>2
<1>5. \A i \in 1 .. n : i = 1 \/ (i - 1 \in 1 .. n - 1 /\ (i - 1) + 1 = i)
  BY <1>1
<1>6. \A i \in 1 .. n - 1 : i + 1 \in 1 .. n /\ 1 < i + 1
  BY <1>1
<1>7. ToSet(s) = {h} \cup ToSet(t)
  <2>1. ASSUME NEW i \in 1 .. n PROVE s[i] \in {h} \cup ToSet(t)
    <3>1. CASE i = 1
      BY <1>3, <3>1
    <3>2. CASE i - 1 \in 1 .. n - 1 /\ (i - 1) + 1 = i
      <4>1. s[i] = t[i - 1]
        BY <1>4, <3>2
      <4>. QED
        BY <1>3, <3>2, <4>1 DEF ToSet
    <3>. QED
      BY <1>5, <3>1, <3>2
  <2>2. ASSUME NEW i \in 1 .. n - 1 PROVE t[i] \in ToSet(s)
    BY <1>1, <1>4, <1>6 DEF ToSet
  <2>3. h \in ToSet(s)
    <3>1. 1 \in 1 .. n
      BY <1>1
    <3>. QED
      BY <1>1, <1>3, <3>1 DEF ToSet
  <2>4. ToSet(s) \subseteq {h} \cup ToSet(t)
    BY <1>1, <2>1 DEF ToSet
  <2>5. ToSet(t) \subseteq ToSet(s)
    BY <1>3, <2>2 DEF ToSet
  <2>. QED
    BY <2>3, <2>4, <2>5
<1>8. ASSUME NEW R, InOrder(s, R) PROVE InOrder(t, R) /\ \A b \in ToSet(t) : <<h, b>> \in R
  <2>1. \A i, j \in 1 .. n : i < j => <<s[i], s[j]>> \in R
    BY <1>1, <1>8 DEF InOrder
  <2>2. ASSUME NEW i \in 1 .. n - 1, NEW j \in 1 .. n - 1, i < j PROVE <<t[i], t[j]>> \in R
    <3>1. i + 1 < j + 1 /\ i + 1 \in 1 .. n /\ j + 1 \in 1 .. n
      BY <1>6, <2>2
    <3>2. <<s[i + 1], s[j + 1]>> \in R
      BY <2>1, <3>1
    <3>. QED
      BY <1>4, <3>2
  <2>3. ASSUME NEW i \in 1 .. n - 1 PROVE <<h, t[i]>> \in R
    <3>1. 1 \in 1 .. n /\ i + 1 \in 1 .. n /\ 1 < i + 1
      BY <1>1, <1>6
    <3>2. <<s[1], s[i + 1]>> \in R
      BY <2>1, <3>1
    <3>. QED
      BY <1>3, <1>4, <3>2
  <2>4. InOrder(t, R)
    BY <1>3, <2>2 DEF InOrder
  <2>5. \A b \in ToSet(t) : <<h, b>> \in R
    BY <1>3, <2>3 DEF ToSet
  <2>. QED
    BY <2>4, <2>5
<1>. QED
  BY <1>2, <1>3, <1>7, <1>8

\* Each slot in its turn.
LEMMA ForEachSteps ==
  ASSUME NEW op, NEW S \in SUBSET Slots, NEW T, \A s \in S : [op |-> op, slot |-> s] \in T
  PROVE  /\ ForEach(op, S) \in Seq(T) /\ ToSet(ForEach(op, S)) = {[op |-> op, slot |-> s] : s \in S}
         /\ \A i, j \in DOMAIN ForEach(op, S) : i < j => ForEach(op, S)[i].slot # ForEach(op, S)[j].slot
<1>. DEFINE n == Cardinality(S)
            At(k) == Nth(S, Ascending(S), k)
            f == ForEach(op, S)
<1>1. IsFiniteSet(S) /\ S \in SUBSET Nat
  <2>1. IsFiniteSet(Slots) /\ Slots \subseteq Nat
    BY Assumed
  <2>. QED
    BY <2>1, FS_Subset
<1>2. StrictOrder(S, Ascending(S))
  BY <1>1, AscendingIsOrder
<1>8. \A k, l \in 1 .. n : k < l => <<At(k), At(l)>> \in Ascending(S)
  BY <1>1, <1>2, NthInOrder
<1>9. \A k, l \in 1 .. n : k < l => At(k) # At(l)
  <2>1. \A k \in 1 .. n : At(k) \in S
    BY <1>1, <1>2, NthInOrder
  <2>. QED
    BY <1>2, <1>8, <2>1 DEF StrictOrder
<1>3. n \in Nat /\ (\A k \in 1 .. n : At(k) \in S) /\ \A s \in S : \E k \in 1 .. n : At(k) = s
  BY <1>1, <1>2, NthInOrder
<1>4. f = [k \in 1 .. n |-> [op |-> op, slot |-> At(k)]]
  BY DEF ForEach
<1>. HIDE DEF n, At, f
<1>5. f \in Seq(T)
  BY <1>3, <1>4
<1>6. DOMAIN f = 1 .. n /\ \A k \in 1 .. n : f[k] = [op |-> op, slot |-> At(k)]
  BY <1>4
<1>7. ToSet(f) = {[op |-> op, slot |-> s] : s \in S}
  BY <1>3, <1>6 DEF ToSet
<1>10. \A i, j \in DOMAIN f : i < j => f[i].slot # f[j].slot
  BY <1>6, <1>9
<1>. QED
  BY <1>5, <1>7, <1>10 DEF f

\* The fields of a command that no step of it changes.
Same(j) ==
  /\ j.cmd = job.cmd /\ j.slot = job.slot /\ j.query = job.query /\ j.effect = job.effect
  /\ j.db = job.db /\ j.compact = job.compact /\ j.skip = job.skip

-----------------------------------------------------------------------------
(* What becomes of the steps of commands.                                  *)

\* What a step of a command becomes when these scenes are listed.
Spelled(H, step) ==
  CASE step.op = "gets" -> ForEach("get", H)
    [] step.op = "clears" -> ForEach("clear", H)
    [] OTHER -> <<step>>
Unrolled(H, rest) == FlattenSeq([i \in DOMAIN rest |-> Spelled(H, rest[i])])

\* The steps, unrolled, are in order if their parts are.
LEMMA UnrolledSteps ==
  ASSUME NEW H, NEW T, NEW rest \in Seq(T), NEW R,
         \A x \in ToSet(rest) : Spelled(H, x) \in Seq(T) /\ InOrder(Spelled(H, x), R),
         \A x, y \in ToSet(rest) : <<x, y>> \in R =>
            \A a \in ToSet(Spelled(H, x)), b \in ToSet(Spelled(H, y)) : <<a, b>> \in R,
         InOrder(rest, R)
  PROVE  /\ Unrolled(H, rest) \in Seq(T) /\ InOrder(Unrolled(H, rest), R)
         /\ ToSet(Unrolled(H, rest)) = UNION {ToSet(Spelled(H, x)) : x \in ToSet(rest)}
<1>. DEFINE q == [i \in DOMAIN rest |-> Spelled(H, rest[i])]
<1>1. PICK n \in Nat : n = Len(rest) /\ DOMAIN rest = 1 .. n
  OBVIOUS
<1>2. DOMAIN q = 1 .. n /\ \A i \in 1 .. n : rest[i] \in ToSet(rest) /\ q[i] = Spelled(H, rest[i])
  BY <1>1 DEF ToSet
<1>3. q = [i \in 1 .. n |-> q[i]]
  BY <1>1
<1>4. Unrolled(H, rest) = FlattenSeq(q)
  BY DEF Unrolled
<1>. HIDE DEF q
<1>5. q \in Seq(Seq(T))
  BY <1>2, <1>3
<1>6. \A i \in DOMAIN q : InOrder(q[i], R)
  BY <1>2
<1>7. ASSUME NEW i \in DOMAIN q, NEW j \in DOMAIN q, i < j
      PROVE  \A a \in ToSet(q[i]), b \in ToSet(q[j]) : <<a, b>> \in R
  <2>1. <<rest[i], rest[j]>> \in R
    BY <1>1, <1>2, <1>7 DEF InOrder
  <2>. QED
    BY <1>2, <1>7, <2>1
<1>8. /\ FlattenSeq(q) \in Seq(T) /\ InOrder(FlattenSeq(q), R)
      /\ ToSet(FlattenSeq(q)) = UNION {ToSet(q[i]) : i \in DOMAIN q}
  BY <1>5, <1>6, <1>7, FlattenOrder
<1>9. UNION {ToSet(q[i]) : i \in DOMAIN q} = UNION {ToSet(Spelled(H, x)) : x \in ToSet(rest)}
  <2>1. {q[i] : i \in DOMAIN q} = {Spelled(H, x) : x \in ToSet(rest)}
    BY <1>1, <1>2 DEF ToSet
  <2>. QED
    BY <2>1
<1>. QED
  BY <1>4, <1>8, <1>9

\* What is left after a listing adds a scene only if it did before.
LEMMA UnrolledAdds ==
  ASSUME NEW H \in SUBSET Slots, NEW rest \in Seq(Plain), NEW x \in ToSet(Unrolled(H, rest)), x.op = "add"
  PROVE  \E y \in ToSet(rest) : y.op = "add"
<1>. DEFINE All == Plain \X Plain
<1>1. \A s \in Seq(Plain) : ToSet(s) \subseteq Plain
  BY DEF ToSet
<1>2. \A s \in Seq(Plain) : InOrder(s, All)
  BY DEF InOrder
<1>3. /\ ForEach("get", H) \in Seq(Plain)
      /\ ToSet(ForEach("get", H)) = {[op |-> "get", slot |-> s] : s \in H}
      /\ ForEach("clear", H) \in Seq(Plain)
      /\ ToSet(ForEach("clear", H)) = {[op |-> "clear", slot |-> s] : s \in H}
  <2>1. \A s \in H : [op |-> "get", slot |-> s] \in Plain /\ [op |-> "clear", slot |-> s] \in Plain
    BY DEF Plain, PlainOps
  <2>. QED
    BY <2>1, ForEachSteps
<1>4. ASSUME NEW y \in Plain PROVE <<y>> \in Seq(Plain) /\ ToSet(<<y>>) = {y}
  BY <1>4 DEF ToSet
<1>5. ASSUME NEW y \in Plain
      PROVE  /\ Spelled(H, y) \in Seq(Plain)
             /\ \A z \in ToSet(Spelled(H, y)) : z.op = "add" => y.op = "add"
  <2>1. CASE y.op = "gets"
    BY <1>3, <2>1 DEF Spelled
  <2>2. CASE y.op = "clears"
    BY <1>3, <2>2 DEF Spelled
  <2>3. CASE y.op \notin {"gets", "clears"}
    BY <1>4, <2>3 DEF Spelled
  <2>. QED
    BY <2>1, <2>2, <2>3
<1>6. ToSet(rest) \subseteq Plain /\ InOrder(rest, All)
  BY <1>1, <1>2
<1>7. \A y \in ToSet(rest) : Spelled(H, y) \in Seq(Plain) /\ InOrder(Spelled(H, y), All)
  BY <1>2, <1>5, <1>6
<1>8. \A y, z \in ToSet(rest) : <<y, z>> \in All =>
        \A a \in ToSet(Spelled(H, y)), b \in ToSet(Spelled(H, z)) : <<a, b>> \in All
  BY <1>1, <1>7
<1>. HIDE DEF All
<1>9. ToSet(Unrolled(H, rest)) = UNION {ToSet(Spelled(H, y)) : y \in ToSet(rest)}
  BY <1>6, <1>7, <1>8, UnrolledSteps
<1>. QED
  BY <1>5, <1>6, <1>9

\* Commands that write the device file add no scene.
LEMMA FilesNoAdd ==
  ASSUME NEW j, JobTyped(j), Follows(j), j.cmd \in Files
  PROVE  ~ Yet(j, "add")
<1>. DEFINE N == Ops \ {"add"}
<1>1. PICK n \in Nat : n = Len(j.todo) /\ DOMAIN j.todo = 1 .. n
  BY DEF JobTyped
<1>2. ASSUME NEW script \in Seq(N), Left(j.todo, script) PROVE ~ Yet(j, "add")
  <2>1. PICK m \in Nat : m = Len(script) /\ \A i \in 1 .. m : script[i] \in N
    <3>1. PICK m \in Nat : m = Len(script)
      BY <1>2
    <3>2. \A i \in 1 .. m : script[i] \in N
      BY <1>2, <3>1
    <3>. QED
      BY <3>1, <3>2
  <2>2. n <= m /\ \A i \in 1 .. n : j.todo[i].op = script[m - n + i]
    BY <1>1, <1>2, <2>1 DEF Left
  <2>3. \A i \in 1 .. n : m - n + i \in 1 .. m
    BY <2>2
  <2>4. \A i \in 1 .. n : j.todo[i].op # "add"
    BY <2>1, <2>2, <2>3
  <2>. QED
    BY <1>1, <2>4 DEF Yet, ToSet
<1>3. /\ PairScript \in Seq(N) /\ FindScript \in Seq(N) /\ DiscoverScript \in Seq(N)
      /\ \A rm \in BOOLEAN : UnpairScript(rm) \in Seq(N)
  <2>1. /\ "kex_old" \in N /\ "auth_old" \in N /\ "revoke" \in N /\ "kex" \in N /\ "pair" \in N
        /\ "truncate" \in N /\ "put" \in N /\ "auth" \in N /\ "unpair" \in N /\ "unlink" \in N /\ "probe" \in N
    BY DEF Ops, FileOps, PlainOps
  <2>. HIDE DEF N
  <2>2. PairScript \in Seq(N)
    BY <2>1 DEF PairScript
  <2>3. FindScript \in Seq(N) /\ DiscoverScript \in Seq(N)
    BY <2>1 DEF FindScript, DiscoverScript
  <2>4. UnpairScript(TRUE) \in Seq(N) /\ UnpairScript(FALSE) \in Seq(N)
    BY <2>1 DEF UnpairScript
  <2>. QED
    BY <2>2, <2>3, <2>4
<1>. HIDE DEF N
<1>. QED
  BY <1>2, <1>3 DEF Follows, Files

\* A step of a command leaves what it is about, and what it adds, as it is.
Stays(j) == Same(j) /\ (job.cmd \notin Files /\ Yet(j, "add") => Yet(job, "add"))

\* Wherever it goes, with what is left to do, text, listing, palettes or scenes passed over changed.
LEMMA GoesSame ==
  ASSUME Fields(job), NEW j, NEW todo, NEW listed, NEW seen, NEW text, NEW raced, NEW passed, NEW s,
         \/ j = [job EXCEPT !.todo = todo]
         \/ j = [[job EXCEPT !.todo = todo] EXCEPT !.passed = passed]
         \/ j = [job EXCEPT !.todo = todo, !.text = text]
         \/ j = [job EXCEPT !.text = text, !.todo = todo]
         \/ j = [job EXCEPT !.listed = listed, !.raced = raced, !.todo = todo]
         \/ j = [job EXCEPT !.seen = seen, !.todo = todo],
         GoOn(j, s),
         job.cmd \notin Files => \A x \in ToSet(todo) : x.op = "add" => Yet(job, "add")
  PROVE  job' = NoJob \/ Stays(job')
<1>1. Same(j) /\ j.todo = todo
  BY DEF Fields, Same
<1>2. Stays(j)
  BY <1>1 DEF Stays, Yet
<1>. QED
  BY <1>2 DEF GoOn

\* The rest of a command adds no more than all of it.
LEMMA TailAdds ==
  ASSUME CmdInv, job.todo # <<>>
  PROVE  \A x \in ToSet(Tail(job.todo)) : x.op = "add" => Yet(job, "add")
<1>1. job.todo \in Seq(StepType)
  BY DEF CmdInv, JobInv, JobTyped
<1>2. ToSet(Tail(job.todo)) \subseteq ToSet(job.todo)
  BY <1>1, HeadTail
<1>. QED
  BY <1>2 DEF Yet

\* Nor does what is left after a failure.
LEMMA FailSame ==
  ASSUME CmdInv, job.todo # <<>>, Refused \/ \E s : Fail(s)
  PROVE  job' = NoJob \/ Stays(job')
<1>1. ASSUME job.cmd \notin Files, NEW x \in ToSet(AfterFailure), x.op = "add" PROVE Yet(job, "add")
  <2>1. ~ Is({"kex_old", "auth_old", "revoke"})
    <3>1. Step.op \notin FileOps
      BY <1>1, OtherStep DEF CmdInv
    <3>. QED
      BY <3>1 DEF Is, FileOps
  <2>2. AfterFailure \in {Tail(job.todo), Opening \o Do("light"), <<>>}
    BY <2>1 DEF AfterFailure
  <2>3. CASE AfterFailure = Tail(job.todo)
    BY <1>1, <2>3, TailAdds
  <2>4. CASE AfterFailure = Opening \o Do("light")
    <3>1. PICK a, b, c : a = [op |-> "kex", slot |-> 0] /\ b = [op |-> "auth", slot |-> 0] /\ c = [op |-> "light", slot |-> 0]
      OBVIOUS
    <3>2. Opening = <<a, b>>
      BY <3>1 DEF Opening, Steps
    <3>3. Do("light") = <<c>>
      BY <3>1 DEF Do
    <3>4. DOMAIN <<a, b>> = {1, 2} /\ <<a, b>>[1] = a /\ <<a, b>>[2] = b
      OBVIOUS
    <3>5. ToSet(Opening) = {a, b} /\ ToSet(Do("light")) = {c}
      BY <3>2, <3>3, <3>4 DEF ToSet
    <3>7. ToSet(Opening \o Do("light")) = ToSet(Opening) \cup ToSet(Do("light"))
      <4>1. Opening \in Seq(Plain) /\ Do("light") \in Seq(Plain)
        BY OpeningPlain, DoPlain DEF PlainOps
      <4>. DEFINE All == Plain \X Plain
      <4>2. \A r \in Seq(Plain) : ToSet(r) \subseteq Plain /\ InOrder(r, All)
        BY DEF ToSet, InOrder
      <4>3. \A y \in ToSet(Opening), z \in ToSet(Do("light")) : <<y, z>> \in All
        BY <4>1, <4>2
      <4>. HIDE DEF All
      <4>. QED
        BY <4>1, <4>2, <4>3, ConcatOrder
    <3>6. x \in {a, b, c}
      BY <1>1, <2>4, <3>5, <3>7
    <3>. QED
      BY <1>1, <3>1, <3>6
  <2>5. CASE AfterFailure = <<>>
    BY <1>1, <2>5 DEF ToSet
  <2>. QED
    BY <2>2, <2>3, <2>4, <2>5
<1>2. Fields(job)
  BY DEF CmdInv, JobInv, JobTyped
<1>3. PICK j, s : /\ GoOn(j, s)
                  /\ \/ j = [job EXCEPT !.todo = AfterFailure]
                     \/ \E p : j = [[job EXCEPT !.todo = AfterFailure] EXCEPT !.passed = p]
  <2>1. CASE Refused
    <3>1. PICK k : k = [job EXCEPT !.todo = AfterFailure]
      OBVIOUS
    <3>2. GoOn(PassOver(k), session)
      BY <2>1, <3>1 DEF Refused
    <3>3. PassOver(k) = k \/ \E p : PassOver(k) = [k EXCEPT !.passed = p]
      BY DEF PassOver
    <3>. QED
      BY <3>1, <3>2, <3>3
  <2>2. CASE \E s : Fail(s)
    BY <2>2 DEF Fail
  <2>. QED
    BY <2>1, <2>2
<1>. QED
  BY <1>1, <1>2, <1>3, GoesSame

\* Nor what is left when a step is done.
LEMMA AheadSame ==
  ASSUME CmdInv, job.todo # <<>>, NEW s, Ahead(s)
  PROVE  job' = NoJob \/ Stays(job')
<1>1. Fields(job)
  BY DEF CmdInv, JobInv, JobTyped
<1>2. PICK j : j = [job EXCEPT !.todo = Tail(job.todo)]
  OBVIOUS
<1>3. GoOn(j, s)
  BY <1>2 DEF Ahead
<1>. QED
  BY <1>1, <1>2, <1>3, TailAdds, GoesSame

\* A command that has ended is none.
LEMMA ExitNone == ASSUME Exit PROVE job' = NoJob
BY DEF Exit, GoOn, NoJob

\* What a listing leads to.
LEMMA ListedGoes ==
  ASSUME NEW H, Listed(H)
  PROVE  \/ Exit
         \/ GoOn([job EXCEPT !.listed = H, !.raced = FALSE, !.todo = Unrolled(H, Tail(job.todo))], session)
BY DEF Listed, Unrolled, Spelled

\* What an answer leads to, by the step it answers.
LEMMA AnsweredGoes ==
  ASSUME CmdInv, Answered
  PROVE  /\ job.todo # <<>>
         /\ \/ Step.op = "list" /\ \E H \in SUBSET Slots : Occupied \subseteq H /\ Listed(H)
            \/ Step.op = "get" /\ Got
            \/ Step.op = "current" /\ playing # 0 /\ GoOn([job EXCEPT !.todo = ForEach("get", {playing})], session)
            \/ Step.op = "light" /\ UNCHANGED <<job, session>>
            \/ Step.op = "pair" /\ GoOn([job EXCEPT !.text = issued', !.todo = Tail(@)], session)
            \/ Step.op \notin {"list", "get"} /\ Ahead(session)
<1>. DEFINE looping == Is({"current"}) /\ job.cmd = "current" /\ playing # 0
            goes == GoOn([job EXCEPT !.todo = ForEach("get", {playing})], session)
            observing == Is({"light"}) /\ job.cmd = "observe"
            stays == UNCHANGED <<job, session>>
            paired == GoOn([job EXCEPT !.text = issued', !.todo = Tail(@)], session)
            next == Ahead(session)
            lists == \E old \in SUBSET (Slots \ Occupied) : Listed(Occupied \cup old)
<1>1. (CASE Is({"list"}) -> lists
         [] Is({"get"}) -> Got
         [] looping -> goes
         [] observing -> stays
         [] Is({"pair"}) -> paired
         [] OTHER -> next)
  BY DEF Answered
<1>. HIDE DEF looping, goes, observing, stays, paired, next, lists
<1>2. \/ Is({"list"}) /\ lists
      \/ Is({"get"}) /\ Got
      \/ looping /\ goes
      \/ observing /\ stays
      \/ Is({"pair"}) /\ paired
      \/ ~ Is({"list"}) /\ ~ Is({"get"}) /\ next
  BY <1>1
<1>3. job.todo # <<>>
  BY DEF Answered, Reaches, Is
<1>4. \A op : Is({op}) <=> Step.op = op
  BY <1>3 DEF Is
<1>5. lists => \E H \in SUBSET Slots : Occupied \subseteq H /\ Listed(H)
  BY DEF lists, Occupied
<1>. QED
  BY <1>2, <1>3, <1>4, <1>5 DEF looping, goes, observing, stays, paired, next

\* A step of a command leaves what it is about as it is, and adds no scene that was not to be added.
LEMMA ProgressSame ==
  ASSUME CmdInv, Progress
  PROVE  job' = NoJob \/ job' = job \/ Stays(job')
<1>0. Fields(job) /\ job.todo \in Seq(StepType)
  BY DEF CmdInv, JobInv, JobTyped
<1>1. CASE Kex
  BY <1>1, AheadSame DEF Kex, Is
<1>2. CASE Auth
  BY <1>2, AheadSame, FailSame DEF Auth, Is
<1>3. ASSUME Answered PROVE job' = NoJob \/ job' = job \/ Stays(job')
  <2>1. /\ job.todo # <<>>
        /\ \/ Step.op = "list" /\ \E H \in SUBSET Slots : Listed(H)
           \/ Step.op = "get" /\ Got
           \/ Step.op = "current" /\ playing # 0 /\ GoOn([job EXCEPT !.todo = ForEach("get", {playing})], session)
           \/ UNCHANGED <<job, session>>
           \/ GoOn([job EXCEPT !.text = issued', !.todo = Tail(@)], session)
           \/ Ahead(session)
    BY <1>3, AnsweredGoes
  <2>2. ASSUME Step.op = "list", NEW H \in SUBSET Slots, Listed(H) PROVE job' = NoJob \/ Stays(job')
    <3>1. job.cmd \notin Files /\ Tail(job.todo) \in Seq(Plain)
      BY <2>1, <2>2, WhoseStep, OtherStep DEF CmdInv
    <3>2. PICK t : t = Unrolled(H, Tail(job.todo))
      OBVIOUS
    <3>3. \A x \in ToSet(t) : x.op = "add" => Yet(job, "add")
      BY <2>1, <3>1, <3>2, UnrolledAdds, TailAdds
    <3>4. PICK j : j = [job EXCEPT !.listed = H, !.raced = FALSE, !.todo = t]
      OBVIOUS
    <3>5. Exit \/ GoOn(j, session)
      BY <2>2, <3>2, <3>4, ListedGoes
    <3>6. GoOn(j, session) => job' = NoJob \/ Stays(job')
      BY <1>0, <3>3, <3>4, GoesSame
    <3>. QED
      BY <3>5, <3>6, ExitNone
  <2>3. ASSUME Got PROVE job' = NoJob \/ Stays(job')
    <3>1. PICK p : \/ Exit
                   \/ GoOn([job EXCEPT !.seen[Step.slot] = IF job.query = None THEN @ ELSE p,
                                       !.todo = Tail(@)], session)
      BY <2>3 DEF Got
    <3>2. PICK e : e = [job.seen EXCEPT ![Step.slot] = IF job.query = None THEN @ ELSE p]
      OBVIOUS
    <3>3. PICK j : j = [job EXCEPT !.seen = e, !.todo = Tail(job.todo)]
      OBVIOUS
    <3>4. j = [job EXCEPT !.seen[Step.slot] = IF job.query = None THEN @ ELSE p, !.todo = Tail(@)]
      BY <1>0, <3>2, <3>3 DEF Fields
    <3>5. Exit \/ GoOn(j, session)
      BY <3>1, <3>4
    <3>6. GoOn(j, session) => job' = NoJob \/ Stays(job')
      BY <1>0, <2>1, <3>3, TailAdds, GoesSame
    <3>. QED
      BY <3>5, <3>6, ExitNone
  <2>4. ASSUME playing # 0, GoOn([job EXCEPT !.todo = ForEach("get", {playing})], session)
        PROVE  job' = NoJob \/ Stays(job')
    <3>1. {playing} \in SUBSET Slots
      BY <2>4 DEF CmdInv, BulbInv
    <3>2. PICK t : t = ForEach("get", {playing})
      OBVIOUS
    <3>3. PICK T : T = {[op |-> "get", slot |-> s] : s \in {playing}}
      OBVIOUS
    <3>4. \A s \in {playing} : [op |-> "get", slot |-> s] \in T
      BY <3>3
    <3>5. ToSet(t) = T
      BY <3>1, <3>2, <3>3, <3>4, ForEachSteps
    <3>6. \A x \in ToSet(t) : x.op # "add"
      BY <3>3, <3>5
    <3>7. PICK j : j = [job EXCEPT !.todo = t]
      OBVIOUS
    <3>8. GoOn(j, session)
      BY <2>4, <3>2, <3>7
    <3>. QED
      BY <1>0, <3>6, <3>7, <3>8, GoesSame
  <2>5. ASSUME GoOn([job EXCEPT !.text = issued', !.todo = Tail(@)], session) PROVE job' = NoJob \/ Stays(job')
    <3>1. PICK x : x = issued'
      OBVIOUS
    <3>2. PICK j : j = [job EXCEPT !.text = x, !.todo = Tail(job.todo)]
      OBVIOUS
    <3>3. GoOn(j, session)
      BY <2>5, <3>1, <3>2
    <3>. QED
      BY <1>0, <2>1, <3>2, <3>3, TailAdds, GoesSame
  <2>. QED
    BY <2>1, <2>2, <2>3, <2>4, <2>5, AheadSame
<1>4. CASE Refused \/ Lost \/ Dead
  <2>1. job.todo # <<>> /\ (Refused \/ \E s : Fail(s))
    BY <1>4 DEF Refused, Lost, Dead, Reaches, Is
  <2>. QED
    BY <2>1, FailSame
<1>5. CASE Expired
  <2>1. job.todo # <<>> /\ (job' = job \/ Fail("expired"))
    BY <1>5 DEF Expired, Reaches, Is
  <2>. QED
    BY <2>1, FailSame
<1>6. CASE GiveUp \/ Interrupt
  BY <1>6, ExitNone DEF GiveUp, Interrupt
<1>7. ASSUME Truncate PROVE job' = NoJob \/ Stays(job')
  <2>1. PICK x : GoOn([job EXCEPT !.todo = Tail(@), !.text = x], session)
    BY <1>7 DEF Truncate
  <2>2. PICK j : j = [job EXCEPT !.todo = Tail(job.todo), !.text = x]
    OBVIOUS
  <2>3. GoOn(j, session) /\ job.todo # <<>>
    BY <1>7, <2>1, <2>2 DEF Truncate, Is
  <2>. QED
    BY <1>0, <2>2, <2>3, TailAdds, GoesSame
<1>8. CASE Put \/ Unlink
  BY <1>8, AheadSame DEF Put, Unlink, Is
<1>. QED
  BY <1>1, <1>2, <1>3, <1>4, <1>5, <1>6, <1>7, <1>8 DEF Progress

-----------------------------------------------------------------------------
(* What a command that looks for a scene has yet to do, step by step.      *)

\* Which steps come before which.
LEMMA Ordered ==
  ASSUME NEW x, NEW y, <<x, y>> \in Before
  PROVE  /\ x \in SceneStep /\ y \in SceneStep
         /\ y.op # "kex" /\ x.op # "add"
         /\ y.op = "auth" => x.op = "kex"
         /\ y.op = "list" => x.op \in {"kex", "auth"}
         /\ y.op = "gets" => x.op \in {"kex", "auth", "list"}
         /\ y.op \in {"play", "delete"} => x.op \in {"kex", "auth", "list", "gets", "get"}
         /\ x.op = "get" /\ y.op = "get" => x.slot # y.slot
<1>1. /\ x \in SceneStep /\ y \in SceneStep
      /\ Rank[x.op] < Rank[y.op] \/ (x.op = "get" /\ y.op = "get" /\ x.slot # y.slot)
  BY DEF Before
<1>2. x.op \in DOMAIN Rank /\ y.op \in DOMAIN Rank
  BY <1>1 DEF SceneStep, Rank
<1>. QED
  BY <1>1, <1>2 DEF Rank

\* A command that has had its scenes listed is still one that looks for a scene, a step on.
LEMMA ScenicTail ==
  ASSUME Scenic(job), job.todo # <<>>, Step.op # "list", NEW j, Same(j), j.todo = Tail(job.todo),
         DOMAIN j.seen = Slots,
         \/ j.seen = job.seen /\ j.passed = job.passed
         \/ /\ Step.op = "get"
            /\ \A s \in Slots \ {Step.slot} : j.seen[s] = job.seen[s] /\ (s \in j.passed => s \in job.passed)
  PROVE  Scenic(j)
<1>1. PICK h, t, d : h = Step /\ t = Tail(job.todo) /\ d = job.todo
  OBVIOUS
<1>2. d \in Seq(SceneStep) /\ InOrder(d, Before) /\ d # <<>>
  BY <1>1 DEF Scenic
<1>3. /\ t \in Seq(SceneStep) /\ InOrder(t, Before) /\ ToSet(d) = {h} \cup ToSet(t)
      /\ \A b \in ToSet(t) : <<h, b>> \in Before
  <2>1. h = Head(d) /\ t = Tail(d)
    BY <1>1 DEF Step
  <2>. QED
    BY <1>2, <2>1, HeadTail
<1>4. \A op : Yet(job, op) <=> h.op = op \/ \E x \in ToSet(t) : x.op = op
  BY <1>1, <1>3 DEF Yet
<1>5. \A op : Yet(j, op) <=> \E x \in ToSet(t) : x.op = op
  BY <1>1 DEF Yet
<1>6. \A op : Yet(j, op) => Yet(job, op)
  BY <1>4, <1>5
<1>7. Yet(job, "list") => Yet(j, "list")
  BY <1>1, <1>4, <1>5
<1>8. Yet(j, "list") => h.op \in {"kex", "auth"}
  BY <1>3, <1>5, Ordered
<1>9. Yet(j, "kex") \/ Yet(j, "auth") \/ Yet(j, "gets") => Yet(j, "list")
  BY <1>6, <1>7 DEF Scenic
<1>10. Yet(j, "list") /\ (j.query # None \/ j.skip) => Yet(j, "gets")
  BY <1>4, <1>5, <1>6, <1>8 DEF Scenic, Same
<1>11. Yet(j, "list") => j.seen = Nothing /\ j.passed = {}
  BY <1>1, <1>6, <1>8 DEF Scenic
<1>12. Unread(j)
  <2>1. ASSUME NEW s \in Slots, [op |-> "get", slot |-> s] \in ToSet(t)
        PROVE  j.seen[s] = <<>> /\ s \notin j.passed
    <3>1. h.op = "get" => h.slot # s
      BY <1>3, <2>1, Ordered
    <3>2. job.seen[s] = <<>> /\ s \notin job.passed
      BY <1>1, <1>3, <2>1 DEF Scenic, Unread
    <3>. QED
      BY <1>1, <3>1, <3>2
  <2>. QED
    BY <1>1, <2>1 DEF Unread
<1>. QED
  BY <1>1, <1>3, <1>6, <1>9, <1>10, <1>11, <1>12 DEF Scenic, Same

\* What such a step becomes when the scenes are listed.
LEMMA SpelledScenic ==
  ASSUME NEW H \in SUBSET Slots, NEW x \in SceneStep
  PROVE  /\ Spelled(H, x) \in Seq(SceneStep) /\ InOrder(Spelled(H, x), Before)
         /\ x.op = "gets" => ToSet(Spelled(H, x)) = {[op |-> "get", slot |-> s] : s \in H}
         /\ x.op # "gets" => ToSet(Spelled(H, x)) = {x}
<1>1. CASE x.op = "gets"
  <2>1. PICK f : f = ForEach("get", H)
    OBVIOUS
  <2>2. Spelled(H, x) = f
    BY <1>1, <2>1 DEF Spelled
  <2>3. PICK G : G = {[op |-> "get", slot |-> s] : s \in H}
    OBVIOUS
  <2>5. \A s \in H : [op |-> "get", slot |-> s] \in SceneStep
    BY DEF SceneStep
  <2>6. /\ f \in Seq(SceneStep) /\ ToSet(f) = G
        /\ \A k, l \in DOMAIN f : k < l => f[k].slot # f[l].slot
    BY <2>1, <2>3, <2>5, ForEachSteps
  <2>7. \A a, b \in G : a.slot # b.slot => <<a, b>> \in Before
    BY <2>3, <2>5 DEF Before
  <2>8. InOrder(f, Before)
    BY <2>6, <2>7 DEF InOrder, ToSet
  <2>. QED
    BY <1>1, <2>2, <2>3, <2>6, <2>8
<1>2. CASE x.op # "gets"
  <2>1. x.op # "clears"
    BY DEF SceneStep, Rank
  <2>2. Spelled(H, x) = <<x>>
    BY <1>2, <2>1 DEF Spelled
  <2>3. <<x>> \in Seq(SceneStep) /\ DOMAIN <<x>> = {1} /\ <<x>>[1] = x
    OBVIOUS
  <2>4. InOrder(<<x>>, Before) /\ ToSet(<<x>>) = {x}
    BY <2>3 DEF InOrder, ToSet
  <2>. QED
    BY <1>2, <2>2, <2>3, <2>4
<1>. QED
  BY <1>1, <1>2

\* A command that looks for a scene has it listed, and is to read those that are there.
LEMMA ScenicListed ==
  ASSUME Scenic(job), job.todo # <<>>, Step.op = "list", NEW H \in SUBSET Slots, NEW j, Same(j),
         j.todo = Unrolled(H, Tail(job.todo)), j.seen = job.seen, j.passed = job.passed
  PROVE  /\ Scenic(j) /\ ~ Yet(j, "list") /\ j.seen = Nothing
         /\ j.query # None \/ j.skip => \A s \in H : [op |-> "get", slot |-> s] \in ToSet(j.todo)
<1>1. PICK h, t, d, u : h = Step /\ t = Tail(job.todo) /\ d = job.todo /\ u = Unrolled(H, t)
  OBVIOUS
<1>2. d \in Seq(SceneStep) /\ InOrder(d, Before) /\ d # <<>>
  BY <1>1 DEF Scenic
<1>3. /\ t \in Seq(SceneStep) /\ InOrder(t, Before) /\ ToSet(d) = {h} \cup ToSet(t)
      /\ \A b \in ToSet(t) : <<h, b>> \in Before
  <2>1. h = Head(d) /\ t = Tail(d)
    BY <1>1 DEF Step
  <2>. QED
    BY <1>2, <2>1, HeadTail
<1>4. \A x \in ToSet(t) : x \in SceneStep /\ x.op \notin {"kex", "auth", "list"}
  <2>1. h.op = "list"
    BY <1>1
  <2>. QED
    BY <1>3, <2>1, Ordered
<1>5. ASSUME NEW x \in ToSet(t), NEW y \in ToSet(t), <<x, y>> \in Before
      PROVE  \A a \in ToSet(Spelled(H, x)), b \in ToSet(Spelled(H, y)) : <<a, b>> \in Before
  <2>1. ASSUME NEW z \in SceneStep, NEW a \in ToSet(Spelled(H, z))
        PROVE  a \in SceneStep /\ Rank[a.op] = Rank[z.op] /\ (z.op = "get" => a = z)
    <3>1. CASE z.op = "gets"
      <4>1. PICK s \in H : a = [op |-> "get", slot |-> s]
        BY <2>1, <3>1, SpelledScenic
      <4>2. a \in SceneStep /\ a.op = "get"
        BY <4>1 DEF SceneStep
      <4>. QED
        BY <3>1, <4>2 DEF Rank
    <3>2. CASE z.op # "gets"
      <4>1. a = z
        BY <2>1, <3>2, SpelledScenic
      <4>. QED
        BY <4>1
    <3>. QED
      BY <3>1, <3>2
  <2>2. ASSUME NEW a \in ToSet(Spelled(H, x)), NEW b \in ToSet(Spelled(H, y)) PROVE <<a, b>> \in Before
    <3>1. /\ a \in SceneStep /\ Rank[a.op] = Rank[x.op] /\ (x.op = "get" => a = x)
          /\ b \in SceneStep /\ Rank[b.op] = Rank[y.op] /\ (y.op = "get" => b = y)
      BY <1>4, <2>1, <2>2
    <3>2. Rank[x.op] < Rank[y.op] \/ (x.op = "get" /\ y.op = "get" /\ x.slot # y.slot)
      BY <1>5 DEF Before
    <3>. QED
      BY <3>1, <3>2 DEF Before
  <2>. QED
    BY <2>2
<1>6. \A x \in ToSet(t) : Spelled(H, x) \in Seq(SceneStep) /\ InOrder(Spelled(H, x), Before)
  BY <1>4, SpelledScenic
<1>7. /\ u \in Seq(SceneStep) /\ InOrder(u, Before)
      /\ ToSet(u) = UNION {ToSet(Spelled(H, x)) : x \in ToSet(t)}
  BY <1>1, <1>3, <1>5, <1>6, UnrolledSteps
<1>8. ASSUME NEW a \in ToSet(u) PROVE a.op = "get" \/ (a \in ToSet(t) /\ a.op # "gets")
  <2>1. PICK x \in ToSet(t) : a \in ToSet(Spelled(H, x))
    BY <1>7, <1>8
  <2>. QED
    BY <1>4, <2>1, SpelledScenic
<1>9. \A op : Yet(j, op) => op = "get" \/ (op # "gets" /\ \E x \in ToSet(t) : x.op = op)
  BY <1>1, <1>8 DEF Yet
<1>10. \A op : (\E x \in ToSet(t) : x.op = op) => Yet(job, op)
  BY <1>1, <1>3 DEF Yet
<1>11. ~ Yet(j, "kex") /\ ~ Yet(j, "auth") /\ ~ Yet(j, "list") /\ ~ Yet(j, "gets")
  BY <1>4, <1>9
<1>12. /\ Yet(j, "add") => Yet(job, "add")
       /\ Yet(j, "play") => Yet(job, "play")
       /\ Yet(j, "delete") => Yet(job, "delete")
  BY <1>9, <1>10
<1>13. Yet(job, "list") /\ job.seen = Nothing /\ job.passed = {}
  <2>1. Yet(job, "list")
    BY <1>1, <1>3 DEF Yet
  <2>. QED
    BY <2>1 DEF Scenic
<1>16. Unread(j)
  BY <1>13 DEF Unread, Nothing
<1>14. Scenic(j)
  BY <1>1, <1>7, <1>11, <1>12, <1>16 DEF Scenic, Same
<1>15. ASSUME j.query # None \/ j.skip, NEW s \in H PROVE [op |-> "get", slot |-> s] \in ToSet(j.todo)
  <2>1. PICK x \in ToSet(t) : x.op = "gets"
    <3>1. Yet(job, "gets")
      BY <1>13, <1>15 DEF Scenic, Same
    <3>. QED
      BY <1>1, <1>3, <3>1 DEF Yet
  <2>2. [op |-> "get", slot |-> s] \in ToSet(Spelled(H, x))
    BY <1>4, <2>1, SpelledScenic
  <2>. QED
    BY <1>1, <1>7, <2>1, <2>2
<1>. QED
  BY <1>11, <1>13, <1>14, <1>15

\* No command looks for no scene.
LEMMA OverFine == ASSUME job' = NoJob PROVE AimInv' /\ KnowInv'
<1>1. job'.cmd = "none" /\ job'.query = None /\ job'.skip = FALSE /\ job'.todo = <<>>
  BY DEF NoJob
<1>2. ~ Yet(job', "add")
  BY <1>1 DEF Yet, ToSet
<1>3. job'.cmd \notin Aims
  BY <1>1 DEF Aims
<1>4. AimInv'
  BY <1>1, <1>2, <1>3 DEF AimInv
<1>. QED
  BY <1>3, <1>4 DEF KnowInv

\* Wherever a command that looks for a scene goes, it is over, or what it knows is to be true.
LEMMA AimedGoes ==
  ASSUME job.cmd \in Aims, NEW j, Same(j), Scenic(j), NEW s, GoOn(j, s),
         s = "authed" /\ ~ Yet(j, "list") /\ ~ j.raced /\ Asks(j) => \A i \in Slots : Knows(j, scenes', i)
  PROVE  AimInv' /\ KnowInv'
<1>1. CASE job' = NoJob
  BY <1>1, OverFine
<1>2. CASE job' = j /\ session' = s
  <2>1. j.cmd \in Aims
    BY DEF Same
  <2>2. AimInv'
    <3>1. Scenic(job')
      BY <1>2
    <3>. QED
      BY <1>2, <2>1, <3>1 DEF AimInv
  <2>3. KnowInv'
    BY <1>2 DEF KnowInv
  <2>. QED
    BY <2>2, <2>3
<1>. QED
  BY <1>1, <1>2 DEF GoOn

\* The step at hand of a command that looks for a scene, and the steps behind it.
LEMMA AimedStep ==
  ASSUME Scenic(job), job.todo # <<>>
  PROVE  /\ Step \in SceneStep /\ Step.op # "gets"
         /\ ToSet(job.todo) = {Step} \cup ToSet(Tail(job.todo))
         /\ \A x \in ToSet(Tail(job.todo)) : <<Step, x>> \in Before
         /\ Step.op = "get" => Step.slot \in Slots /\ Step = [op |-> "get", slot |-> Step.slot] /\ ~ Yet(job, "list")
         /\ Step.op # "get" => Step.slot = 0
         /\ Step.op \in {"play", "delete", "add"} =>
              ~ Yet(job, "list") /\ ~ Yet(job, "gets") /\ ~ Yet(job, "get")
<1>1. PICK h, t, d : h = Step /\ t = Tail(job.todo) /\ d = job.todo
  OBVIOUS
<1>2. d \in Seq(SceneStep) /\ InOrder(d, Before) /\ d # <<>>
  BY <1>1 DEF Scenic
<1>3. /\ h \in SceneStep /\ ToSet(d) = {h} \cup ToSet(t)
      /\ \A b \in ToSet(t) : <<h, b>> \in Before
  <2>1. h = Head(d) /\ t = Tail(d)
    BY <1>1 DEF Step
  <2>. QED
    BY <1>2, <2>1, HeadTail
<1>4. \A op : Yet(job, op) <=> h.op = op \/ \E x \in ToSet(t) : x.op = op
  BY <1>1, <1>3 DEF Yet
<1>5. /\ h.op = "get" => h.slot \in Slots /\ h = [op |-> "get", slot |-> h.slot]
      /\ h.op # "get" => h.slot = 0
  BY <1>3 DEF SceneStep
<1>6. Yet(job, "list") => h.op \in {"kex", "auth", "list"}
  BY <1>3, <1>4, Ordered
<1>7. h.op # "gets"
  BY <1>4, <1>6 DEF Scenic
<1>8. h.op \in {"play", "delete", "add"} => ~ Yet(job, "list") /\ ~ Yet(job, "gets")
  BY <1>6 DEF Scenic
<1>9. h.op \in {"play", "delete", "add"} => ~ Yet(job, "get")
  <2>1. SUFFICES ASSUME h.op \in {"play", "delete", "add"}, NEW x \in ToSet(t), x.op = "get" PROVE FALSE
    BY <1>4
  <2>2. Rank[h.op] < Rank[x.op]
    BY <1>3, <2>1 DEF Before
  <2>. QED
    BY <2>1, <2>2 DEF Rank
<1>. QED
  BY <1>1, <1>3, <1>5, <1>6, <1>7, <1>8, <1>9

\* What is left of it after a failure: when the session is still in use, a scene that it
\* failed to read is one that the bulb has refused to show.
LEMMA AimedFail ==
  ASSUME CmdInv, AimInv, KnowInv, job.cmd \in Aims, job.todo # <<>>, NEW s,
         NEW j, Same(j), j.todo = AfterFailure, j.seen = job.seen, j.raced = job.raced, GoOn(j, s),
         \/ s # "authed" /\ j.passed = job.passed
         \/ /\ s = session /\ scenes' = scenes
            /\ Step.op = "get" => j.passed = job.passed \cup {Step.slot}
  PROVE  AimInv' /\ KnowInv'
<1>1. Scenic(job)
  BY DEF AimInv
<1>2. Step \in SceneStep /\ ToSet(job.todo) = {Step} \cup ToSet(Tail(job.todo))
  BY <1>1, AimedStep
<1>3. Step.op \in DOMAIN Rank /\ job.cmd # "observe"
  BY <1>2 DEF SceneStep, Aims, Rank
<1>4. CASE Step.op # "get"
  <2>1. ~ Is(Tolerated) /\ ~ Is({"current"}) /\ ~ Is({"kex_old", "auth_old", "revoke"})
    BY <1>3, <1>4 DEF Is, Tolerated, Rank
  <2>2. j.todo = <<>>
    BY <1>3, <2>1 DEF AfterFailure
  <2>. QED
    BY <2>2, OverFine DEF GoOn
<1>5. CASE Step.op = "get"
  <2>1. Is(Tolerated) /\ ~ Is({"kex_old", "auth_old", "revoke"})
    BY <1>5 DEF Is, Tolerated
  <2>2. j.todo = Tail(job.todo)
    BY <1>3, <2>1 DEF AfterFailure
  <2>3. /\ ~ Yet(job, "list") /\ Step.slot \in Slots /\ Step = [op |-> "get", slot |-> Step.slot]
        /\ Step \in ToSet(job.todo)
    BY <1>1, <1>2, <1>5, AimedStep
  <2>4. \A i \in Slots \ {Step.slot} : i \in j.passed <=> i \in job.passed
    BY <1>5
  <2>5. Scenic(j)
    <3>1. DOMAIN j.seen = Slots /\ \A i \in Slots \ {Step.slot} : j.seen[i] = job.seen[i]
      BY <1>1 DEF Scenic
    <3>. QED
      BY <1>1, <1>5, <2>2, <2>4, <3>1, ScenicTail
  <2>6. ASSUME s = "authed", ~ Yet(j, "list"), ~ j.raced, Asks(j), NEW i \in Slots PROVE Knows(j, scenes', i)
    <3>1. Asks(job)
      BY <1>2, <2>2, <2>6 DEF Asks, Yet, Same
    <3>2. Knows(job, scenes, i) /\ scenes' = scenes /\ j.passed = job.passed \cup {Step.slot}
      BY <1>5, <2>3, <2>6, <3>1 DEF KnowInv
    <3>3. CASE i = Step.slot
      <4>1. job.seen[i] = <<>>
        BY <1>1, <2>3, <3>3 DEF Scenic, Unread
      <4>. QED
        BY <3>2, <3>3, <4>1 DEF Knows
    <3>4. CASE i # Step.slot
      <4>1. [op |-> "get", slot |-> i] # Step
        BY <2>3, <3>4
      <4>2. [op |-> "get", slot |-> i] \in ToSet(job.todo) => [op |-> "get", slot |-> i] \in ToSet(j.todo)
        BY <1>2, <2>2, <4>1
      <4>3. i \in j.passed <=> i \in job.passed
        BY <2>4, <3>4
      <4>. QED
        BY <3>2, <4>2, <4>3 DEF Knows, Same
    <3>. QED
      BY <3>3, <3>4
  <2>. QED
    BY <2>5, <2>6, AimedGoes
<1>. QED
  BY <1>4, <1>5

\* What is left of it when the session is of no more use.
LEMMA AimedLoses ==
  ASSUME CmdInv, AimInv, KnowInv, job.cmd \in Aims, job.todo # <<>>, NEW s, s # "authed", Fail(s)
  PROVE  AimInv' /\ KnowInv'
<1>1. Fields(job)
  BY DEF CmdInv, JobInv, JobTyped
<1>2. PICK t : t = AfterFailure
  OBVIOUS
<1>3. PICK j : j = [job EXCEPT !.todo = t]
  OBVIOUS
<1>4. /\ Same(j) /\ j.todo = AfterFailure /\ j.seen = job.seen /\ j.raced = job.raced
      /\ j.passed = job.passed
  BY <1>1, <1>2, <1>3 DEF Fields, Same
<1>5. GoOn(j, s)
  BY <1>2, <1>3 DEF Fail
<1>. QED
  BY <1>4, <1>5, AimedFail

\* What is left of it when the bulb refuses a request.
LEMMA AimedRefused ==
  ASSUME CmdInv, AimInv, KnowInv, job.cmd \in Aims, Refused
  PROVE  AimInv' /\ KnowInv'
<1>1. Fields(job) /\ job.todo # <<>> /\ scenes' = scenes
  BY DEF CmdInv, JobInv, JobTyped, Refused, Reaches, Is, bulb
<1>2. PICK t : t = AfterFailure
  OBVIOUS
<1>3. PICK k : k = [job EXCEPT !.todo = t]
  OBVIOUS
<1>4. PICK i : i = [k EXCEPT !.passed = @ \cup {Step.slot}]
  OBVIOUS
<1>5. /\ Same(k) /\ k.todo = AfterFailure /\ k.seen = job.seen /\ k.raced = job.raced
      /\ k.passed = job.passed /\ Fields(k)
  BY <1>1, <1>2, <1>3 DEF Fields, Same
<1>6. /\ Same(i) /\ i.todo = AfterFailure /\ i.seen = job.seen /\ i.raced = job.raced
      /\ i.passed = job.passed \cup {Step.slot}
  BY <1>4, <1>5 DEF Fields, Same
<1>7. PICK j : j = PassOver(k)
  OBVIOUS
<1>8. j = IF Step.op = "get" THEN i ELSE k
  BY <1>1, <1>4, <1>7 DEF PassOver, Is
<1>9. GoOn(j, session)
  BY <1>2, <1>3, <1>7 DEF Refused
<1>. QED
  BY <1>1, <1>5, <1>6, <1>8, <1>9, AimedFail

\* What is left of it when a step is done that reads no scene.
LEMMA AimedAhead ==
  ASSUME CmdInv, AimInv, job.cmd \in Aims, job.todo # <<>>, NEW s, Ahead(s), Step.op \notin {"list", "get"}
  PROVE  AimInv' /\ KnowInv'
<1>1. Scenic(job) /\ Fields(job)
  BY DEF AimInv, CmdInv, JobInv, JobTyped
<1>2. /\ Step \in SceneStep /\ ToSet(job.todo) = {Step} \cup ToSet(Tail(job.todo)) /\ Step.op # "gets"
      /\ \A x \in ToSet(Tail(job.todo)) : <<Step, x>> \in Before
  BY <1>1, AimedStep
<1>3. PICK j : j = [job EXCEPT !.todo = Tail(job.todo)]
  OBVIOUS
<1>4. Same(j) /\ j.todo = Tail(job.todo) /\ j.seen = job.seen /\ j.passed = job.passed
  BY <1>1, <1>3 DEF Fields, Same
<1>5. GoOn(j, s)
  BY <1>3 DEF Ahead
<1>6. Scenic(j)
  BY <1>1, <1>4, ScenicTail DEF Scenic
<1>7. ASSUME ~ Yet(j, "list"), Asks(j) PROVE FALSE
  <2>1. ~ Yet(job, "list")
    BY <1>2, <1>4, <1>7 DEF Yet
  <2>2. ~ Yet(job, "kex") /\ ~ Yet(job, "auth")
    BY <1>1, <2>1 DEF Scenic
  <2>3. Yet(job, Step.op)
    BY <1>2 DEF Yet
  <2>4. Step.op \in {"play", "delete", "add"}
    <3>1. Step.op \in DOMAIN Rank
      BY <1>2 DEF SceneStep, Rank
    <3>. QED
      BY <1>2, <2>1, <2>2, <2>3, <3>1 DEF Rank
  <2>5. ~ Yet(j, "play") /\ ~ Yet(j, "delete") /\ (Step.op = "add" => ~ Yet(j, "add"))
    BY <1>2, <1>4, <2>4, Ordered DEF Yet
  <2>6. job.skip /\ Yet(j, "add")
    BY <1>4, <1>7, <2>5 DEF Asks, Same
  <2>7. Step.op = "add"
    BY <1>1, <2>3, <2>4, <2>6 DEF Scenic
  <2>. QED
    BY <2>5, <2>6, <2>7
<1>. QED
  BY <1>4, <1>5, <1>6, <1>7, AimedGoes

\* What is left of it when the scenes have been listed.
LEMMA AimedListed ==
  ASSUME CmdInv, AimInv, job.cmd \in Aims, job.todo # <<>>, Step.op = "list",
         NEW H \in SUBSET Slots, Occupied \subseteq H, Listed(H), scenes' = scenes
  PROVE  AimInv' /\ KnowInv'
<1>1. Scenic(job) /\ Fields(job)
  BY DEF AimInv, CmdInv, JobInv, JobTyped
<1>2. PICK j : j = [job EXCEPT !.listed = H, !.raced = FALSE, !.todo = Unrolled(H, Tail(job.todo))]
  OBVIOUS
<1>3. Same(j) /\ j.todo = Unrolled(H, Tail(job.todo)) /\ j.seen = job.seen /\ j.passed = job.passed
  BY <1>1, <1>2 DEF Fields, Same
<1>4. Exit \/ GoOn(j, session)
  BY <1>2, ListedGoes
<1>5. /\ Scenic(j) /\ j.seen = Nothing
      /\ j.query # None \/ j.skip => \A s \in H : [op |-> "get", slot |-> s] \in ToSet(j.todo)
  BY <1>1, <1>3, ScenicListed
<1>6. ASSUME Asks(j), NEW i \in Slots PROVE Knows(j, scenes', i)
  <2>1. j.query # None \/ j.skip
    BY <1>6 DEF Asks
  <2>2. CASE scenes[i] = <<>>
    <3>1. j.seen[i] = <<>>
      BY <1>5 DEF Nothing
    <3>. QED
      BY <2>2, <3>1 DEF Knows
  <2>3. CASE scenes[i] # <<>>
    <3>1. i \in H
      BY <2>3 DEF Occupied
    <3>. QED
      BY <1>5, <2>1, <2>3, <3>1 DEF Knows
  <2>. QED
    BY <2>2, <2>3
<1>. QED
  BY <1>3, <1>4, <1>5, <1>6, ExitNone, OverFine, AimedGoes

\* What is left of it when a scene has been read.
LEMMA AimedGot ==
  ASSUME CmdInv, AimInv, KnowInv, job.cmd \in Aims, job.todo # <<>>, Step.op = "get", Got,
         scenes' = scenes, scenes[Step.slot] # <<>>
  PROVE  AimInv' /\ KnowInv'
<1>1. Scenic(job) /\ Fields(job)
  BY DEF AimInv, CmdInv, JobInv, JobTyped
<1>2. /\ ToSet(job.todo) = {Step} \cup ToSet(Tail(job.todo)) /\ ~ Yet(job, "list")
      /\ Step.slot \in Slots /\ Step = [op |-> "get", slot |-> Step.slot]
  BY <1>1, AimedStep
<1>3. PICK p : p = parse_scene_palette(scenes[Step.slot])
  OBVIOUS
<1>4. PICK e : e = [job.seen EXCEPT ![Step.slot] = IF job.query = None THEN @ ELSE p]
  OBVIOUS
<1>5. PICK j : j = [job EXCEPT !.seen = e, !.todo = Tail(job.todo)]
  OBVIOUS
<1>6. j = [job EXCEPT !.seen[Step.slot] = IF job.query = None THEN @ ELSE p, !.todo = Tail(@)]
  BY <1>1, <1>4, <1>5 DEF Fields
<1>7. \/ Exit
      \/ ~ (job.cmd = "add" /\ Skips(p)) /\ GoOn(j, session)
  BY <1>3, <1>6 DEF Got
<1>8. /\ Same(j) /\ j.todo = Tail(job.todo) /\ j.seen = e /\ j.raced = job.raced
      /\ j.passed = job.passed
  BY <1>1, <1>5 DEF Fields, Same
<1>9. /\ DOMAIN e = Slots
      /\ \A i \in Slots : i # Step.slot => e[i] = job.seen[i]
      /\ job.query # None => e[Step.slot] = p
  BY <1>1, <1>2, <1>4 DEF Scenic
<1>10. Scenic(j)
  BY <1>1, <1>8, <1>9, ScenicTail
<1>13. Step.slot \notin job.passed
  BY <1>1, <1>2 DEF Scenic, Unread
<1>11. ASSUME ~ (job.cmd = "add" /\ Skips(p)), session = "authed", ~ j.raced, Asks(j), NEW i \in Slots
       PROVE  Knows(j, scenes', i)
  <2>1. CASE i = Step.slot
    <3>1. job.skip => ~ Duplicate(job.effect, p)
      BY <1>1, <1>11 DEF Scenic, Skips, Duplicate
    <3>. QED
      BY <1>3, <1>8, <1>9, <1>13, <2>1, <3>1 DEF Knows, Same
  <2>2. CASE i # Step.slot
    <3>1. Asks(job)
      BY <1>2, <1>8, <1>11 DEF Asks, Yet, Same
    <3>2. Knows(job, scenes, i)
      BY <1>2, <1>8, <1>11, <3>1 DEF KnowInv
    <3>3. [op |-> "get", slot |-> i] # Step
      BY <1>2, <2>2
    <3>4. [op |-> "get", slot |-> i] \in ToSet(job.todo) => [op |-> "get", slot |-> i] \in ToSet(j.todo)
      BY <1>2, <1>8, <3>3
    <3>. QED
      BY <1>8, <1>9, <2>2, <3>2, <3>4 DEF Knows, Same
  <2>. QED
    BY <2>1, <2>2
<1>12. ASSUME ~ (job.cmd = "add" /\ Skips(p)), GoOn(j, session) PROVE AimInv' /\ KnowInv'
  BY <1>8, <1>10, <1>11, <1>12, AimedGoes
<1>. QED
  BY <1>7, <1>12, ExitNone, OverFine

\* The bulb keeps its scenes while they are asked for.
LEMMA ReadsOnly ==
  ASSUME job.todo # <<>>, Step.op \notin {"delete", "clear", "add"}, Execute
  PROVE  scenes' = scenes
BY DEF Execute, delete_scene, add_scene, play_scene, delete_token, pair, list_scenes, get_scene, query, bulb, Is

\* Every step of a command that looks for a scene keeps what it knows true.
LEMMA AimedProgress ==
  ASSUME CmdInv, AimInv, KnowInv, job.cmd \in Aims, Progress
  PROVE  AimInv' /\ KnowInv'
<1>0. Scenic(job)
  BY DEF AimInv
<1>1. ASSUME job.todo # <<>>
      PROVE  Step \in SceneStep /\ Step.op \in DOMAIN Rank /\ Step.op # "gets"
  BY <1>0, <1>1, AimedStep DEF SceneStep, Rank
<1>2. ASSUME Kex PROVE AimInv' /\ KnowInv'
  <2>1. job.todo # <<>> /\ Step.op \notin {"list", "get"} /\ Ahead("open")
    BY <1>2 DEF Kex, Is
  <2>. QED
    BY <2>1, AimedAhead
<1>3. ASSUME Auth PROVE AimInv' /\ KnowInv'
  <2>1. job.todo # <<>> /\ Step.op \notin {"list", "get"} /\ (Ahead("authed") \/ Fail("open"))
    BY <1>3 DEF Auth, Is
  <2>. QED
    BY <2>1, AimedAhead, AimedLoses
<1>4. ASSUME Answered PROVE AimInv' /\ KnowInv'
  <2>1. /\ job.todo # <<>>
        /\ \/ Step.op = "list" /\ \E H \in SUBSET Slots : Occupied \subseteq H /\ Listed(H)
           \/ Step.op = "get" /\ Got
           \/ Step.op \in {"current", "light", "pair"}
           \/ Step.op \notin {"list", "get"} /\ Ahead(session)
    BY <1>4, AnsweredGoes
  <2>2. Execute /\ ~ Refuses
    BY <1>4 DEF Answered
  <2>3. Step.op \notin {"current", "light", "pair"}
    BY <1>1, <2>1 DEF Rank
  <2>4. CASE Step.op = "list" /\ \E H \in SUBSET Slots : Occupied \subseteq H /\ Listed(H)
    BY <2>1, <2>2, <2>4, ReadsOnly, AimedListed
  <2>5. CASE Step.op = "get" /\ Got
    <3>1. Step.slot # 0
      BY <1>0, <2>1, <2>5, AimedStep, Assumed
    <3>2. Target = Step.slot
      BY <3>1 DEF Target
    <3>3. scenes[Step.slot] # <<>>
      BY <2>1, <2>2, <2>5, <3>2 DEF Refuses, Is
    <3>. QED
      BY <2>1, <2>2, <2>5, <3>3, ReadsOnly, AimedGot
  <2>6. CASE Step.op \notin {"list", "get"} /\ Ahead(session)
    BY <2>1, <2>6, AimedAhead
  <2>. QED
    BY <2>1, <2>3, <2>4, <2>5, <2>6
<1>5. CASE Refused
  BY <1>5, AimedRefused
<1>6. ASSUME Lost \/ Expired \/ Dead PROVE AimInv' /\ KnowInv'
  <2>1. /\ job.todo # <<>>
        /\ \/ \E s : s # "authed" /\ Fail(s)
           \/ Is({"light"})
    BY <1>6 DEF Lost, Expired, Dead, Reaches, Is
  <2>2. ~ Is({"light"})
    BY <1>1, <2>1 DEF Is, Rank
  <2>. QED
    BY <2>1, <2>2, AimedLoses
<1>7. CASE GiveUp \/ Interrupt
  BY <1>7, ExitNone, OverFine DEF GiveUp, Interrupt
<1>8. CASE Truncate \/ Put \/ Unlink
  <2>1. job.todo # <<>> /\ Step.op \in {"truncate", "put", "unlink"}
    BY <1>8 DEF Truncate, Put, Unlink, Is
  <2>. QED
    BY <1>1, <2>1 DEF Rank
<1>. QED
  BY <1>2, <1>3, <1>4, <1>5, <1>6, <1>7, <1>8 DEF Progress

-----------------------------------------------------------------------------
(* Commands as they begin.                                                 *)

\* The operations of a command that looks for a scene, as the steps they are made into.
SceneOps == DOMAIN Rank \ {"get"}
Earlier == {p \in SceneOps \X SceneOps : Rank[p[1]] < Rank[p[2]]}

\* Operations in order make steps in order.
LEMMA StepsInOrder ==
  ASSUME NEW ops \in Seq(SceneOps), InOrder(ops, Earlier)
  PROVE  /\ Steps(ops) \in Seq(SceneStep) /\ InOrder(Steps(ops), Before)
         /\ \A op : (\E x \in ToSet(Steps(ops)) : x.op = op) <=> op \in ToSet(ops)
<1>1. PICK n \in Nat : n = Len(ops) /\ DOMAIN ops = 1 .. n
  OBVIOUS
<1>2. \A i \in 1 .. n : ops[i] \in SceneOps
  BY <1>1
<1>3. PICK d : d = Steps(ops)
  OBVIOUS
<1>4. d = [i \in 1 .. n |-> [op |-> ops[i], slot |-> 0]]
  BY <1>1, <1>3 DEF Steps
<1>5. \A i \in 1 .. n : d[i].op = ops[i] /\ d[i] \in SceneStep
  BY <1>2, <1>4 DEF SceneStep, SceneOps
<1>6. d \in Seq(SceneStep) /\ DOMAIN d = 1 .. n
  BY <1>4, <1>5
<1>7. ASSUME NEW i \in 1 .. n, NEW k \in 1 .. n, i < k PROVE <<d[i], d[k]>> \in Before
  <2>1. <<ops[i], ops[k]>> \in Earlier
    BY <1>1, <1>7 DEF InOrder
  <2>2. Rank[ops[i]] < Rank[ops[k]]
    BY <2>1 DEF Earlier
  <2>3. d[i].op = ops[i] /\ d[k].op = ops[k]
    BY <1>5
  <2>. QED
    BY <1>5, <2>2, <2>3 DEF Before
<1>8. InOrder(d, Before)
  BY <1>6, <1>7 DEF InOrder
<1>9. \A op : (\E x \in ToSet(d) : x.op = op) <=> op \in ToSet(ops)
  BY <1>1, <1>5, <1>6 DEF ToSet
<1>. QED
  BY <1>3, <1>6, <1>8, <1>9

\* One operation, or two.
LEMMA FewInOrder ==
  /\ \A a \in SceneOps : <<a>> \in Seq(SceneOps) /\ InOrder(<<a>>, Earlier) /\ ToSet(<<a>>) = {a}
  /\ \A a, b \in SceneOps : Rank[a] < Rank[b] =>
       <<a, b>> \in Seq(SceneOps) /\ InOrder(<<a, b>>, Earlier) /\ ToSet(<<a, b>>) = {a, b}
  /\ <<>> \in Seq(SceneOps) /\ InOrder(<<>>, Earlier) /\ ToSet(<<>>) = {}
<1>1. ASSUME NEW a \in SceneOps PROVE <<a>> \in Seq(SceneOps) /\ InOrder(<<a>>, Earlier) /\ ToSet(<<a>>) = {a}
  <2>1. PICK s : s = <<a>>
    OBVIOUS
  <2>2. s \in Seq(SceneOps) /\ DOMAIN s = {1} /\ s[1] = a
    BY <2>1
  <2>. QED
    BY <2>1, <2>2 DEF InOrder, ToSet
<1>2. ASSUME NEW a \in SceneOps, NEW b \in SceneOps, Rank[a] < Rank[b]
      PROVE  <<a, b>> \in Seq(SceneOps) /\ InOrder(<<a, b>>, Earlier) /\ ToSet(<<a, b>>) = {a, b}
  <2>1. PICK s : s = <<a, b>>
    OBVIOUS
  <2>2. s \in Seq(SceneOps) /\ DOMAIN s = {1, 2} /\ s[1] = a /\ s[2] = b
    BY <2>1
  <2>3. <<a, b>> \in Earlier
    BY <1>2 DEF Earlier
  <2>4. InOrder(s, Earlier)
    <3>1. \A i, k \in {1, 2} : i < k => i = 1 /\ k = 2
      OBVIOUS
    <3>. QED
      BY <2>2, <2>3, <3>1 DEF InOrder
  <2>5. ToSet(s) = {a, b}
    BY <2>2 DEF ToSet
  <2>. QED
    BY <2>1, <2>2, <2>4, <2>5
<1>3. <<>> \in Seq(SceneOps) /\ InOrder(<<>>, Earlier) /\ ToSet(<<>>) = {}
  BY DEF InOrder, ToSet
<1>. QED
  BY <1>1, <1>2, <1>3

\* A command that looks for a scene, as it begins.
LEMMA AimedScenic ==
  ASSUME NEW cmd, NEW q, NEW ops \in Seq(SceneOps), InOrder(ops, Earlier),
         NEW late, ToSet(ops) = late, late \subseteq {"gets", "play", "delete", "add"},
         q # None => "gets" \notin late,
         "add" \in late => cmd \in {"add", "replace"},
         NEW s, NEW j, j.cmd = cmd, j.todo = Aimed(cmd, ops, s, q).todo, j.query = q,
         j.seen = Nothing, j.passed = {}, j.db = Known, j.compact \in BOOLEAN, Known \in Seq(Effects),
         cmd \in {"add", "replace"} => j.effect \in ToSet(Known),
         j.skip => cmd = "add" /\ q = None /\ ~ j.compact /\ late = {"gets", "add"}
  PROVE  Scenic(j) /\ Yet(j, "list")
<1>1. PICK g, l, o : g = (IF q = None THEN <<>> ELSE <<"gets">>) /\ l = <<"list">> /\ o = <<"kex", "auth">>
  OBVIOUS
<1>2. PICK gs : gs = ToSet(g)
  OBVIOUS
<1>3. /\ "list" \in SceneOps /\ "gets" \in SceneOps /\ "kex" \in SceneOps /\ "auth" \in SceneOps
      /\ Rank["kex"] < Rank["auth"]
  BY DEF SceneOps, Rank
<1>4. /\ l \in Seq(SceneOps) /\ InOrder(l, Earlier) /\ ToSet(l) = {"list"}
      /\ o \in Seq(SceneOps) /\ InOrder(o, Earlier) /\ ToSet(o) = {"kex", "auth"}
      /\ g \in Seq(SceneOps) /\ InOrder(g, Earlier) /\ gs = (IF q = None THEN {} ELSE {"gets"})
  BY <1>1, <1>2, <1>3, FewInOrder
<1>5. \A op \in late : op \in SceneOps
  BY DEF SceneOps, Rank
<1>6. PICK lg : lg = l \o g
  OBVIOUS
<1>7. lg \in Seq(SceneOps) /\ InOrder(lg, Earlier) /\ ToSet(lg) = {"list"} \cup gs
  <2>1. \A a \in ToSet(l), b \in ToSet(g) : <<a, b>> \in Earlier
    BY <1>2, <1>3, <1>4 DEF Earlier, Rank
  <2>2. l \o g \in Seq(SceneOps)
    BY <1>4
  <2>3. InOrder(l \o g, Earlier) /\ ToSet(l \o g) = ToSet(l) \cup ToSet(g)
    BY <1>4, <2>1, ConcatOrder
  <2>. QED
    BY <1>2, <1>4, <1>6, <2>2, <2>3
<1>8. PICK all : all = lg \o ops
  OBVIOUS
<1>9. all \in Seq(SceneOps) /\ InOrder(all, Earlier) /\ ToSet(all) = {"list"} \cup gs \cup late
  <2>1. \A a \in ToSet(lg), b \in ToSet(ops) : <<a, b>> \in Earlier
    <3>1. ASSUME NEW a \in {"list"} \cup gs, NEW b \in late PROVE <<a, b>> \in Earlier
      <4>1. a \in SceneOps /\ b \in SceneOps
        BY <1>3, <1>4, <1>5, <3>1
      <4>2. a = "list" \/ (a = "gets" /\ b \in {"play", "delete", "add"})
        BY <1>4, <3>1
      <4>3. b \in {"gets", "play", "delete", "add"}
        BY <3>1
      <4>4. Rank[a] < Rank[b]
        BY <4>2, <4>3 DEF Rank
      <4>. QED
        BY <4>1, <4>4 DEF Earlier
    <3>. QED
      BY <1>7, <3>1
  <2>2. lg \o ops \in Seq(SceneOps)
    BY <1>7
  <2>3. InOrder(lg \o ops, Earlier) /\ ToSet(lg \o ops) = ToSet(lg) \cup ToSet(ops)
    BY <1>7, <2>1, ConcatOrder
  <2>. QED
    BY <1>7, <1>8, <2>2, <2>3
<1>10. PICK so, sa, d : so = Steps(o) /\ sa = Steps(all) /\ d = so \o sa
  OBVIOUS
<1>11. /\ so \in Seq(SceneStep) /\ InOrder(so, Before)
       /\ \A op : (\E x \in ToSet(so) : x.op = op) <=> op \in ToSet(o)
  BY <1>4, <1>10, StepsInOrder
<1>12. /\ sa \in Seq(SceneStep) /\ InOrder(sa, Before)
       /\ \A op : (\E x \in ToSet(sa) : x.op = op) <=> op \in ToSet(all)
  BY <1>9, <1>10, StepsInOrder
<1>13. d \in Seq(SceneStep) /\ InOrder(d, Before) /\ ToSet(d) = ToSet(so) \cup ToSet(sa)
  <2>1. ASSUME NEW a \in ToSet(so), NEW b \in ToSet(sa) PROVE <<a, b>> \in Before
    <3>1. a \in SceneStep /\ b \in SceneStep
      BY <1>11, <1>12, <2>1 DEF ToSet
    <3>2. a.op \in {"kex", "auth"}
      BY <1>4, <1>11, <2>1
    <3>3. b.op \in {"list"} \cup gs \cup late
      BY <1>9, <1>12, <2>1
    <3>4. b.op \in {"list", "gets", "play", "delete", "add"}
      BY <1>4, <3>3
    <3>5. Rank[a.op] < Rank[b.op]
      BY <3>2, <3>4 DEF Rank
    <3>. QED
      BY <3>1, <3>5 DEF Before
  <2>2. d \in Seq(SceneStep)
    BY <1>10, <1>11, <1>12
  <2>3. InOrder(so \o sa, Before) /\ ToSet(so \o sa) = ToSet(so) \cup ToSet(sa)
    BY <1>11, <1>12, <2>1, ConcatOrder
  <2>. QED
    BY <1>10, <2>2, <2>3
<1>15. j.todo = d
  <2>1. PICK c : c = Command(cmd, all)
    OBVIOUS
  <2>2. c.todo = d
    BY <1>1, <1>10, <2>1 DEF Command, NoJob, Opening
  <2>3. Aimed(cmd, ops, s, q) = [c EXCEPT !.slot = s, !.query = q, !.db = Known]
    BY <1>1, <1>6, <1>8, <2>1 DEF Aimed
  <2>4. c = [cmd |-> c.cmd, todo |-> c.todo, slot |-> c.slot, query |-> c.query, effect |-> c.effect,
             db |-> c.db, compact |-> c.compact, skip |-> c.skip, listed |-> c.listed, seen |-> c.seen,
             text |-> c.text, passed |-> c.passed, raced |-> c.raced]
    BY <2>1 DEF Command, NoJob
  <2>. QED
    BY <2>2, <2>3, <2>4
<1>14. \A op : Yet(j, op) <=> op \in {"kex", "auth"} \cup {"list"} \cup gs \cup late
  <2>2. \A op : Yet(j, op) <=> op \in ToSet(o) \/ op \in ToSet(all)
    BY <1>11, <1>12, <1>13, <1>15 DEF Yet
  <2>. QED
    BY <1>4, <1>9, <2>2
<1>. QED
  <2>2. Yet(j, "list") /\ ~ Yet(j, "gets") => q = None /\ ~ j.skip
    BY <1>4, <1>14
  <2>3. Yet(j, "list")
    BY <1>14
  <2>4. Yet(j, "add") => cmd \in {"add", "replace"}
    BY <1>4, <1>14
  <2>5. ASSUME j.skip PROVE ~ Yet(j, "play") /\ ~ Yet(j, "delete")
    <3>1. gs = {} /\ late = {"gets", "add"}
      BY <1>4, <2>5
    <3>. QED
      BY <1>14, <3>1
  <2>6. DOMAIN j.seen = Slots /\ Unread(j)
    BY DEF Nothing, Unread
  <2>. QED
    BY <1>13, <1>15, <2>2, <2>3, <2>4, <2>5, <2>6 DEF Scenic

\* A command that looks for a scene may begin.
LEMMA AimedBegins ==
  ASSUME NEW j, Begin(j), j.cmd \in Aims, Scenic(j), Yet(j, "list")
  PROVE  AimInv' /\ KnowInv'
<1>1. job' = j
  BY DEF Begin
<1>2. Scenic(job') /\ Yet(job', "list") /\ job'.cmd \in Aims
  BY <1>1
<1>3. AimInv'
  BY <1>2 DEF AimInv
<1>. QED
  BY <1>2, <1>3 DEF KnowInv

\* And so may one that looks for none and adds none.
LEMMA OtherFine ==
  ASSUME NEW j, job' = j, j.cmd \notin Aims, j.query = None, ~ j.skip, ~ Yet(j, "add")
  PROVE  AimInv' /\ KnowInv'
<1>1. job'.cmd \notin Aims /\ job'.query = None /\ ~ job'.skip /\ ~ Yet(job', "add")
  OBVIOUS
<1>2. AimInv'
  BY <1>1 DEF AimInv
<1>. QED
  BY <1>1, <1>2 DEF KnowInv

\* The fields of a command as it begins.
LEMMA CommandFields ==
  ASSUME NEW cmd, NEW ops
  PROVE  /\ Fields(Command(cmd, ops)) /\ Command(cmd, ops).cmd = cmd
         /\ Command(cmd, ops).todo = Opening \o Steps(ops)
         /\ Command(cmd, ops).query = None /\ ~ Command(cmd, ops).skip
         /\ Command(cmd, ops).compact \in BOOLEAN /\ Command(cmd, ops).seen = Nothing
         /\ Command(cmd, ops).passed = {}
<1>1. PICK c : c = Command(cmd, ops)
  OBVIOUS
<1>2. PICK t : t = Opening \o Steps(ops)
  OBVIOUS
<1>3. c = [NoJob EXCEPT !.cmd = cmd, !.todo = t]
  BY <1>1, <1>2 DEF Command
<1>4. /\ Fields(c) /\ c.cmd = cmd /\ c.todo = t /\ c.query = None /\ ~ c.skip
      /\ c.compact \in BOOLEAN /\ c.seen = Nothing /\ c.passed = {}
  BY <1>3 DEF NoJob, Fields
<1>. QED
  BY <1>1, <1>2, <1>4

\* And of one that looks for a scene.
LEMMA AimedFields ==
  ASSUME NEW cmd, NEW ops, NEW s, NEW q
  PROVE  /\ Fields(Aimed(cmd, ops, s, q)) /\ Aimed(cmd, ops, s, q).cmd = cmd
         /\ Aimed(cmd, ops, s, q).todo
              = Opening \o Steps(<<"list">> \o (IF q = None THEN <<>> ELSE <<"gets">>) \o ops)
         /\ Aimed(cmd, ops, s, q).query = q /\ ~ Aimed(cmd, ops, s, q).skip
         /\ Aimed(cmd, ops, s, q).compact \in BOOLEAN /\ Aimed(cmd, ops, s, q).seen = Nothing
         /\ Aimed(cmd, ops, s, q).db = Known /\ Aimed(cmd, ops, s, q).passed = {}
<1>1. PICK all : all = <<"list">> \o (IF q = None THEN <<>> ELSE <<"gets">>) \o ops
  OBVIOUS
<1>2. PICK b : b = Command(cmd, all)
  OBVIOUS
<1>3. /\ Fields(b) /\ b.cmd = cmd /\ b.todo = Opening \o Steps(all) /\ ~ b.skip
      /\ b.compact \in BOOLEAN /\ b.seen = Nothing /\ b.passed = {}
  BY <1>2, CommandFields
<1>4. PICK c : c = Aimed(cmd, ops, s, q)
  OBVIOUS
<1>5. c = [b EXCEPT !.slot = s, !.query = q, !.db = Known]
  BY <1>1, <1>2, <1>4 DEF Aimed
<1>6. /\ Fields(c) /\ c.cmd = cmd /\ c.todo = b.todo /\ c.query = q /\ ~ c.skip
      /\ c.compact \in BOOLEAN /\ c.seen = Nothing /\ c.db = Known /\ c.passed = {}
  BY <1>3, <1>5 DEF Fields
<1>. QED
  BY <1>1, <1>3, <1>4, <1>6

\* A command that looks for none may begin.
LEMMA CommandBegins ==
  ASSUME NEW cmd, cmd \notin Aims, NEW ops \in Seq(PlainOps \ {"add"}), NEW j, Begin(j),
         j.cmd = cmd, j.todo = Command(cmd, ops).todo, j.query = None, ~ j.skip
  PROVE  AimInv' /\ KnowInv'
<1>. DEFINE T == {x \in [op : PlainOps, slot : {0}] : x.op # "add"}
<1>1. PICK d : d = Opening \o Steps(ops)
  OBVIOUS
<1>2. Steps(ops) \in Seq(T)
  <2>1. PICK n \in Nat : n = Len(ops) /\ DOMAIN ops = 1 .. n
    OBVIOUS
  <2>2. \A i \in 1 .. n : ops[i] \in PlainOps \ {"add"}
    BY <2>1
  <2>3. \A i \in 1 .. n : [op |-> ops[i], slot |-> 0] \in T
    BY <2>2
  <2>. HIDE DEF T
  <2>. QED
    BY <2>1, <2>3 DEF Steps
<1>3. Opening \in Seq(T)
  <2>1. PICK a, b : a = [op |-> "kex", slot |-> 0] /\ b = [op |-> "auth", slot |-> 0]
    OBVIOUS
  <2>2. a \in T /\ b \in T
    BY <2>1 DEF PlainOps
  <2>3. Opening = <<a, b>>
    BY <2>1 DEF Opening, Steps
  <2>. HIDE DEF T
  <2>. QED
    BY <2>2, <2>3
<1>4. ToSet(d) \subseteq T
  <2>. HIDE DEF T
  <2>1. d \in Seq(T)
    BY <1>1, <1>2, <1>3
  <2>. QED
    BY <2>1 DEF ToSet
<1>5. j.todo = d
  BY <1>1, CommandFields
<1>9. ~ Yet(j, "add")
  BY <1>4, <1>5 DEF Yet
<1>10. job' = j
  BY DEF Begin
<1>. QED
  BY <1>9, <1>10, OtherFine

\* The commands that have to do with the device file.
LEMMA FilesBegin ==
  ASSUME CmdInv', NEW cmd \in Files, NEW todo, Begin([NoJob EXCEPT !.cmd = cmd, !.todo = todo])
  PROVE  AimInv' /\ KnowInv'
<1>1. PICK j : j = [NoJob EXCEPT !.cmd = cmd, !.todo = todo]
  OBVIOUS
<1>2. j.cmd = cmd /\ j.query = None /\ j.skip = FALSE
  BY <1>1 DEF NoJob
<1>3. job' = j
  BY <1>1 DEF Begin
<1>4. JobTyped(j) /\ Follows(j)
  <2>1. JobTyped(job)' /\ Follows(job)'
    BY DEF CmdInv, JobInv
  <2>. QED
    BY <1>3, <2>1 DEF JobTyped, Follows, Fields
<1>5. ~ Yet(j, "add")
  BY <1>2, <1>4, FilesNoAdd
<1>6. j.cmd \notin Aims
  BY <1>2 DEF Files, Aims
<1>. QED
  BY <1>2, <1>3, <1>5, <1>6, OtherFine

\* What the catalogue has of what is asked for.
LEMMA KnownFound ==
  ASSUME CatTyped
  PROVE  /\ Known \in Seq(Effects)
         /\ \A want : Found(want) # None /\ want \in Queries \cup Effects => Found(want) \in ToSet(Known)
<1>1. file.effects \in Seq(Effects)
  BY DEF CatTyped
<1>2. Known \in Seq(Effects)
  BY <1>1 DEF Known
<1>3. ASSUME NEW want, Found(want) # None PROVE Found(want) \in ToSet(Known)
  <2>1. file.state = "good" /\ Known = file.effects
    BY <1>3 DEF Found, Known
  <2>2. PICK db \in Seq(Effects) : db = file.effects
    BY <1>1
  <2>. DEFINE Only(I) == IF Cardinality(I) = 1 THEN db[CHOOSE i \in I : TRUE] ELSE None
              exact == {i \in DOMAIN db : EffectName[db[i]] \in Equal[want]}
              part == {i \in DOMAIN db : EffectName[db[i]] \in Part[want]}
  <2>3. Found(want) = find_scene_effect(db, want)
    BY <2>1, <2>2 DEF Found
  <2>4. find_scene_effect(db, want)
          = CASE want \in ToSet(db) -> want
              [] want \notin ToSet(db) /\ exact # {} -> Only(exact)
              [] OTHER -> Only(part)
    BY DEF find_scene_effect
  <2>5. ASSUME NEW I \in SUBSET (DOMAIN db) PROVE Only(I) = None \/ Only(I) \in ToSet(db)
    <3>1. CASE Cardinality(I) = 1
      <4>1. I # {}
        <5>1. Cardinality({}) = 0
          BY FS_EmptySet
        <5>. QED
          BY <3>1, <5>1
      <4>2. PICK i : i = CHOOSE k \in I : TRUE
        OBVIOUS
      <4>3. i \in I
        BY <4>1, <4>2
      <4>4. Only(I) = db[i]
        BY <3>1, <4>2
      <4>. HIDE DEF Only
      <4>. QED
        BY <4>3, <4>4 DEF ToSet
    <3>2. CASE Cardinality(I) # 1
      BY <3>2
    <3>. QED
      BY <3>1, <3>2
  <2>6. exact \in SUBSET (DOMAIN db) /\ part \in SUBSET (DOMAIN db)
    OBVIOUS
  <2>. HIDE DEF Only, exact, part
  <2>7. find_scene_effect(db, want) = None \/ find_scene_effect(db, want) \in ToSet(db)
    BY <2>4, <2>5, <2>6
  <2>. QED
    BY <1>3, <2>1, <2>2, <2>3, <2>7
<1>. QED
  BY <1>2, <1>3

\* Every command may begin.
LEMMA CommandsScenic ==
  ASSUME CatTyped, CmdInv', Commands
  PROVE  AimInv' /\ KnowInv'
<1>. DEFINE P == PlainOps \ {"add"}
<1>0. /\ "info" \in P /\ "light" \in P /\ "list" \in P /\ "current" \in P
      /\ "gets" \in P /\ "thread" \in P /\ "play" \in P /\ "identify" \in P
      /\ "clears" \in P /\ "preview" \in P
  BY DEF PlainOps
<1>. HIDE DEF P
<1>a. ASSUME NEW cmd, cmd \notin Aims, NEW ops \in Seq(P), Begin(Command(cmd, ops)) PROVE AimInv' /\ KnowInv'
  <2>1. PICK j : j = Command(cmd, ops)
    OBVIOUS
  <2>2. /\ Command(cmd, ops).cmd = cmd
        /\ Command(cmd, ops).query = None /\ ~ Command(cmd, ops).skip
    BY CommandFields
  <2>3. j.cmd = cmd /\ j.todo = Command(cmd, ops).todo /\ j.query = None /\ ~ j.skip
    BY <2>1, <2>2
  <2>4. Begin(j) /\ ops \in Seq(PlainOps \ {"add"})
    BY <1>a, <2>1 DEF P
  <2>. QED
    BY <1>a, <2>3, <2>4, CommandBegins
<1>1. CASE Info
  <2>1. <<"info", "light", "list", "current", "gets", "thread">> \in Seq(P) /\ "info" \notin Aims
    BY <1>0 DEF Aims
  <2>. QED
    BY <1>1, <1>a, <2>1 DEF Info
<1>2. CASE Fw
  <2>1. <<"info">> \in Seq(P) /\ "fw" \notin Aims
    BY <1>0 DEF Aims
  <2>. QED
    BY <1>2, <1>a, <2>1 DEF Fw
<1>3. CASE Observe
  <2>1. <<"light">> \in Seq(P) /\ "observe" \notin Aims
    BY <1>0 DEF Aims
  <2>. QED
    BY <1>3, <1>a, <2>1 DEF Observe
<1>4. CASE List
  <2>1. <<"list", "current", "gets">> \in Seq(P) /\ "list" \notin Aims
    BY <1>0 DEF Aims
  <2>. QED
    BY <1>4, <1>a, <2>1 DEF List
<1>5. CASE Current
  <2>1. <<"current">> \in Seq(P) /\ "current" \notin Aims
    BY <1>0 DEF Aims
  <2>. QED
    BY <1>5, <1>a, <2>1 DEF Current
<1>6. CASE DeleteAll
  <2>1. <<"list", "clears">> \in Seq(P) /\ "delete_all" \notin Aims
    BY <1>0 DEF Aims
  <2>. QED
    BY <1>6, <1>a, <2>1 DEF DeleteAll
<1>7. ASSUME NEW s, Set(s) PROVE AimInv' /\ KnowInv'
  <2>1. PICK ops : ops = <<"light", "list", "play", "identify">>
    OBVIOUS
  <2>2. ops \in Seq(P) /\ "set" \notin Aims
    BY <1>0, <2>1 DEF Aims
  <2>3. PICK j : j = [Command("set", ops) EXCEPT !.slot = s]
    OBVIOUS
  <2>4. Begin(j)
    BY <1>7, <2>1, <2>3 DEF Set
  <2>9. /\ Fields(Command("set", ops)) /\ Command("set", ops).cmd = "set"
        /\ Command("set", ops).query = None /\ ~ Command("set", ops).skip
    BY CommandFields
  <2>10. PICK b : b = Command("set", ops)
    OBVIOUS
  <2>7. /\ b = Command("set", ops) /\ Fields(b) /\ b.cmd = "set" /\ b.query = None /\ ~ b.skip
    BY <2>9, <2>10
  <2>8. j = [b EXCEPT !.slot = s]
    BY <2>3, <2>7
  <2>5. j.cmd = "set" /\ j.todo = b.todo /\ j.query = None /\ ~ j.skip
    BY <2>7, <2>8 DEF Fields
  <2>6. ops \in Seq(PlainOps \ {"add"})
    BY <2>2 DEF P
  <2>. QED
    BY <2>2, <2>4, <2>5, <2>6, <2>7, CommandBegins
<1>8. ASSUME NEW want, Preview(want) PROVE AimInv' /\ KnowInv'
  <2>1. PICK ops : ops = <<"preview">>
    OBVIOUS
  <2>2. ops \in Seq(P) /\ "preview" \notin Aims
    BY <1>0, <2>1 DEF Aims
  <2>3. PICK j, e : e = Found(want) /\ j = [Command("preview", ops) EXCEPT !.effect = e]
    OBVIOUS
  <2>4. Begin(j)
    BY <1>8, <2>1, <2>3 DEF Preview
  <2>9. /\ Fields(Command("preview", ops)) /\ Command("preview", ops).cmd = "preview"
        /\ Command("preview", ops).query = None /\ ~ Command("preview", ops).skip
    BY CommandFields
  <2>10. PICK b : b = Command("preview", ops)
    OBVIOUS
  <2>7. /\ b = Command("preview", ops) /\ Fields(b) /\ b.cmd = "preview" /\ b.query = None /\ ~ b.skip
    BY <2>9, <2>10
  <2>8. j = [b EXCEPT !.effect = e]
    BY <2>3, <2>7
  <2>5. j.cmd = "preview" /\ j.todo = b.todo /\ j.query = None /\ ~ j.skip
    BY <2>7, <2>8 DEF Fields
  <2>6. ops \in Seq(PlainOps \ {"add"})
    BY <2>2 DEF P
  <2>. QED
    BY <2>2, <2>4, <2>5, <2>6, <2>7, CommandBegins
<1>9. ASSUME Pair PROVE AimInv' /\ KnowInv'
  BY <1>9, FilesBegin DEF Pair, Files
<1>10. ASSUME Find PROVE AimInv' /\ KnowInv'
  BY <1>10, FilesBegin DEF Find, Files
<1>11. ASSUME Discover PROVE AimInv' /\ KnowInv'
  BY <1>11, FilesBegin DEF Discover, Files
<1>12. ASSUME NEW rm \in BOOLEAN, Unpair(rm) PROVE AimInv' /\ KnowInv'
  <2>1. PICK ops : ops = <<"unpair", "truncate", "put">> \o IF rm THEN <<"unlink">> ELSE <<>>
    OBVIOUS
  <2>2. PICK t : t = Opening \o Steps(ops)
    OBVIOUS
  <2>3. Command("unpair", ops) = [NoJob EXCEPT !.cmd = "unpair", !.todo = t]
    BY <2>2 DEF Command
  <2>4. Begin([NoJob EXCEPT !.cmd = "unpair", !.todo = t])
    BY <1>12, <2>1, <2>3 DEF Unpair
  <2>. QED
    BY <2>4, FilesBegin DEF Files
<1>13. \A t \in Targets : t[1] \in Slots \cup {0}
  BY DEF Targets
<1>14. Known \in Seq(Effects)
  BY KnownFound
<1>16. /\ "play" \in SceneOps /\ "delete" \in SceneOps /\ "add" \in SceneOps /\ "gets" \in SceneOps
       /\ Rank["delete"] < Rank["add"] /\ Rank["gets"] < Rank["add"]
  BY DEF SceneOps, Rank
<1>17. ASSUME NEW cmd \in {"play", "delete"}, NEW s, NEW q, Begin(Aimed(cmd, <<cmd>>, s, q)) PROVE AimInv' /\ KnowInv'
  <2>1. PICK ops, late : ops = <<cmd>> /\ late = {cmd}
    OBVIOUS
  <2>2. ops \in Seq(SceneOps) /\ InOrder(ops, Earlier) /\ ToSet(ops) = late
    BY <1>16, <2>1, FewInOrder
  <2>3. PICK j : j = Aimed(cmd, ops, s, q)
    OBVIOUS
  <2>4. cmd \in Aims /\ cmd \notin {"add", "replace"}
    BY DEF Aims
  <2>9. LET a == Aimed(cmd, ops, s, q)
        IN /\ a.cmd = cmd /\ a.query = q
           /\ a.seen = Nothing /\ a.passed = {} /\ a.db = Known /\ a.compact \in BOOLEAN /\ ~ a.skip
    BY AimedFields
  <2>5. /\ j.cmd = cmd /\ j.todo = Aimed(cmd, ops, s, q).todo /\ j.query = q
        /\ j.seen = Nothing /\ j.passed = {} /\ j.db = Known /\ j.compact \in BOOLEAN /\ ~ j.skip
    BY <2>3, <2>9
  <2>6. late \subseteq {"gets", "play", "delete", "add"} /\ "gets" \notin late /\ "add" \notin late
    BY <2>1
  <2>7. Scenic(j) /\ Yet(j, "list")
    BY <1>14, <2>2, <2>4, <2>5, <2>6, AimedScenic
  <2>8. Begin(j)
    BY <1>17, <2>1, <2>3
  <2>. QED
    BY <2>4, <2>5, <2>7, <2>8, AimedBegins
<1>18. ASSUME NEW t \in Targets, Play(t[1], t[2]) \/ Delete(t[1], t[2]) PROVE AimInv' /\ KnowInv'
  BY <1>17, <1>18 DEF Play, Delete
<1>19. ASSUME NEW want \in Queries \cup Effects, NEW s, NEW opt, Add(want, s, opt) PROVE AimInv' /\ KnowInv'
  <2>1. PICK ops, late :
          \/ ops = <<>> /\ late = {} /\ opt = "dry"
          \/ ops = <<"gets", "add">> /\ late = {"gets", "add"} /\ opt = "skip"
          \/ ops = <<"add">> /\ late = {"add"} /\ opt \notin {"dry", "skip"}
    OBVIOUS
  <2>2. ops \in Seq(SceneOps) /\ InOrder(ops, Earlier) /\ ToSet(ops) = late
    BY <1>16, <2>1, FewInOrder
  <2>10. PICK sk \in BOOLEAN, co \in BOOLEAN : sk = (opt = "skip") /\ co = (opt = "compact")
    OBVIOUS
  <2>11. PICK e, c : e = Found(want) /\ c = Aimed("add", ops, s, None)
    OBVIOUS
  <2>3. PICK j : j = [c EXCEPT !.effect = e, !.skip = sk, !.compact = co]
    OBVIOUS
  <2>4. "add" \in Aims /\ "add" \in {"add", "replace"} /\ sk \in BOOLEAN /\ co \in BOOLEAN
    BY <2>10 DEF Aims
  <2>5. /\ j.cmd = "add" /\ j.todo = Aimed("add", ops, s, None).todo /\ j.query = None
        /\ j.seen = Nothing /\ j.passed = {} /\ j.db = Known /\ j.compact = co /\ j.skip = sk /\ j.effect = e
    <3>2. LET a == Aimed("add", ops, s, None)
          IN a.cmd = "add" /\ a.seen = Nothing /\ a.passed = {} /\ a.query = None /\ a.db = Known /\ Fields(a)
      BY AimedFields
    <3>1. /\ c.cmd = "add" /\ c.seen = Nothing /\ c.passed = {} /\ c.query = None /\ c.db = Known /\ Fields(c)
      BY <2>11, <3>2
    <3>. QED
      BY <2>3, <2>11, <3>1 DEF Fields
  <2>6. /\ late \subseteq {"gets", "play", "delete", "add"}
        /\ sk => ~ co /\ late = {"gets", "add"}
    BY <2>1, <2>10
  <2>7. e \in ToSet(Known)
    BY <1>19, <2>11, KnownFound DEF Add, Usual
  <2>8. Scenic(j) /\ Yet(j, "list")
    BY <1>14, <2>2, <2>4, <2>5, <2>6, <2>7, AimedScenic
  <2>9. Begin(j)
    <3>1. PICK all : all = CASE opt = "dry" -> <<>> [] opt = "skip" -> <<"gets", "add">> [] OTHER -> <<"add">>
      OBVIOUS
    <3>2. all = ops
      BY <2>1, <3>1
    <3>3. Begin([Aimed("add", all, s, None) EXCEPT !.effect = Found(want),
                   !.skip = (opt = "skip"), !.compact = (opt = "compact")])
      BY <1>19, <3>1 DEF Add
    <3>. QED
      BY <2>3, <2>10, <2>11, <3>2, <3>3
  <2>. QED
    BY <2>4, <2>5, <2>8, <2>9, AimedBegins
<1>20. ASSUME NEW t \in Targets, NEW want \in Queries \cup Effects, NEW opt, Replace(t[1], t[2], want, opt)
       PROVE  AimInv' /\ KnowInv'
  <2>1. PICK ops, late, s, q :
          /\ s = t[1] /\ q = t[2]
          /\ ops = IF opt = "dry" THEN <<>> ELSE <<"delete", "add">>
          /\ late = IF opt = "dry" THEN {} ELSE {"delete", "add"}
    OBVIOUS
  <2>2. ops \in Seq(SceneOps) /\ InOrder(ops, Earlier) /\ ToSet(ops) = late
    BY <1>16, <2>1, FewInOrder
  <2>10. PICK co \in BOOLEAN : co = (opt = "compact")
    OBVIOUS
  <2>11. PICK e, c : e = Found(want) /\ c = Aimed("replace", ops, s, q)
    OBVIOUS
  <2>3. PICK j : j = [c EXCEPT !.effect = e, !.compact = co]
    OBVIOUS
  <2>4. "replace" \in Aims /\ "replace" \in {"add", "replace"} /\ co \in BOOLEAN
    BY <2>10 DEF Aims
  <2>5. /\ j.cmd = "replace" /\ j.todo = Aimed("replace", ops, s, q).todo /\ j.query = q
        /\ j.seen = Nothing /\ j.passed = {} /\ j.db = Known /\ j.compact = co /\ ~ j.skip /\ j.effect = e
    <3>2. LET a == Aimed("replace", ops, s, q)
          IN a.cmd = "replace" /\ a.seen = Nothing /\ a.passed = {} /\ a.query = q /\ a.db = Known /\ ~ a.skip /\ Fields(a)
      BY AimedFields
    <3>1. /\ c.cmd = "replace" /\ c.seen = Nothing /\ c.passed = {} /\ c.query = q /\ c.db = Known /\ ~ c.skip /\ Fields(c)
      BY <2>11, <3>2
    <3>. QED
      BY <2>3, <2>11, <3>1 DEF Fields
  <2>6. late \subseteq {"gets", "play", "delete", "add"} /\ "gets" \notin late
    BY <2>1
  <2>7. e \in ToSet(Known)
    BY <1>20, <2>11, KnownFound DEF Replace, Usual
  <2>8. Scenic(j) /\ Yet(j, "list")
    BY <1>14, <2>2, <2>4, <2>5, <2>6, <2>7, AimedScenic
  <2>9. Begin(j)
    BY <1>20, <2>1, <2>3, <2>10, <2>11 DEF Replace
  <2>. QED
    BY <2>4, <2>5, <2>8, <2>9, AimedBegins
<1>. QED
  BY <1>1, <1>2, <1>3, <1>4, <1>5, <1>6, <1>7, <1>8, <1>9, <1>10, <1>11, <1>12, <1>18, <1>19, <1>20 DEF Commands

-----------------------------------------------------------------------------
(* What the scenes are, and what is known of them, at every step.          *)

\* The steps of a command that looks for no scene.
LEMMA OtherProgress ==
  ASSUME CmdInv, CmdInv', AimInv, job.cmd \notin Aims, Progress
  PROVE  AimInv' /\ KnowInv'
<1>1. job' = NoJob \/ job' = job \/ Stays(job')
  BY ProgressSame
<1>2. job.query = None /\ ~ job.skip /\ ~ Yet(job, "add")
  BY DEF AimInv
<1>3. CASE job' = NoJob
  BY <1>3, OverFine
<1>4. CASE job' = job
  BY <1>2, <1>4, OtherFine
<1>5. ASSUME Stays(job') PROVE AimInv' /\ KnowInv'
  <2>1. PICK j : j = job'
    OBVIOUS
  <2>2. Same(j) /\ (job.cmd \notin Files /\ Yet(j, "add") => Yet(job, "add"))
    BY <1>5, <2>1 DEF Stays
  <2>3. j.cmd = job.cmd /\ j.query = None /\ ~ j.skip
    BY <1>2, <2>2 DEF Same
  <2>4. JobTyped(j) /\ Follows(j)
    <3>1. JobTyped(job)' /\ Follows(job)'
      BY DEF CmdInv, JobInv
    <3>. QED
      BY <2>1, <3>1 DEF JobTyped, Follows, Fields
  <2>5. ~ Yet(j, "add")
    BY <1>2, <2>2, <2>3, <2>4, FilesNoAdd
  <2>. QED
    BY <2>1, <2>3, <2>5, OtherFine
<1>. QED
  BY <1>1, <1>3, <1>4, <1>5

\* What others do to the bulb is either noticed or not looked at.
LEMMA AppFine ==
  ASSUME CmdInv, AimInv, App
  PROVE  AimInv' /\ KnowInv'
<1>1. ASSUME Races PROVE AimInv' /\ KnowInv'
  <2>1. CASE job = NoJob
    BY <1>1, <2>1, OverFine DEF Races
  <2>2. CASE job # NoJob
    <3>1. Fields(job)
      BY DEF CmdInv, JobInv, JobTyped
    <3>2. PICK j : j = [job EXCEPT !.raced = TRUE]
      OBVIOUS
    <3>3. Same(j) /\ j.todo = job.todo /\ j.seen = job.seen /\ j.passed = job.passed /\ j.raced
      BY <3>1, <3>2 DEF Fields, Same
    <3>4. job' = j
      BY <1>1, <2>2, <3>2 DEF Races
    <3>5. j.cmd \in Aims => Scenic(j)
      BY <3>3 DEF AimInv, Same, Scenic, Unread, Yet
    <3>6. j.cmd \notin Aims => j.query = None /\ ~ j.skip /\ ~ Yet(j, "add")
      BY <3>3 DEF AimInv, Same, Yet
    <3>7. AimInv'
      BY <3>4, <3>5, <3>6 DEF AimInv
    <3>8. KnowInv'
      BY <3>3, <3>4 DEF KnowInv
    <3>. QED
      BY <3>7, <3>8
  <2>. QED
    BY <2>1, <2>2
<1>2. ASSUME Reset PROVE AimInv' /\ KnowInv'
  <2>1. job' = job /\ session' # "authed"
    BY <1>2 DEF Reset
  <2>2. AimInv'
    BY <2>1 DEF AimInv, Scenic, Unread, Yet
  <2>3. KnowInv'
    BY <2>1 DEF KnowInv
  <2>. QED
    BY <2>2, <2>3
<1>. QED
  BY <1>1, <1>2 DEF App, AppSaves, AppDeletes

\* A catalogue that changes concerns no command that has begun.
LEMMA OthersFine ==
  ASSUME AimInv, KnowInv, StoredInv, UNCHANGED cliVars
  PROVE  AimInv' /\ KnowInv' /\ StoredInv'
<1>1. UNCHANGED <<job, session, scenes>>
  BY DEF cliVars
<1>2. AimInv'
  BY <1>1 DEF AimInv, Scenic, Unread, Yet
<1>3. KnowInv'
  BY <1>1 DEF KnowInv, Knows, Asks, Yet, Duplicate
<1>4. StoredInv'
  BY <1>1 DEF StoredInv
<1>. QED
  BY <1>2, <1>3, <1>4

\* A scene from the catalogue is stored as entries.
LEMMA StoredTyped ==
  ASSUME NEW e \in Effects, NEW compact \in BOOLEAN
  PROVE  encode_palette_bytes(Palette[e], MaxColors, compact) \in Seq(Entry)
<1>1. Palette[e] \in Seq(RgbColors)
  BY PaletteTyped
<1>2. MaxColors \in Nat
  BY CommandLineAssumption DEF CommandLineAssumption
<1>. QED
  BY <1>1, <1>2, EncodeTyped

\* What is added is an effect of the catalogue.
LEMMA Adding ==
  ASSUME CmdInv, AimInv, Is({"add"})
  PROVE  /\ Scenic(job) /\ job.cmd \in {"add", "replace"} /\ job.cmd \in Aims
         /\ Yet(job, "add") /\ job.effect \in Effects /\ job.effect \in ToSet(job.db)
         /\ job.compact \in BOOLEAN /\ Step.op = "add" /\ job.todo # <<>> /\ Payload \in Seq(Entry)
<1>1. job.todo # <<>> /\ Step.op = "add" /\ job.todo \in Seq(StepType)
  BY DEF Is, CmdInv, JobInv, JobTyped
<1>2. Step \in ToSet(job.todo)
  <2>1. ToSet(job.todo) = {Head(job.todo)} \cup ToSet(Tail(job.todo))
    BY <1>1, HeadTail
  <2>. QED
    BY <2>1 DEF Step
<1>3. Yet(job, "add")
  BY <1>1, <1>2 DEF Yet
<1>4. job.cmd \in Aims /\ Scenic(job)
  BY <1>3 DEF AimInv
<1>5. /\ job.cmd \in {"add", "replace"} /\ job.effect \in ToSet(job.db)
      /\ job.compact \in BOOLEAN /\ job.db \in Seq(Effects)
  BY <1>3, <1>4 DEF Scenic
<1>6. job.effect \in Effects
  BY <1>5 DEF ToSet
<1>7. Payload \in Seq(Entry)
  BY <1>5, <1>6, StoredTyped DEF Payload
<1>. QED
  BY <1>1, <1>3, <1>4, <1>5, <1>6, <1>7

\* Scenes are entries, whoever writes them.
LEMMA StoredKept ==
  ASSUME CmdInv, AimInv, StoredInv, Commands \/ Progress \/ App
  PROVE  StoredInv'
<1>1. ASSUME NEW s, NEW v \in Seq(Entry), scenes' = [scenes EXCEPT ![s] = v] PROVE StoredInv'
  <2>1. DOMAIN scenes = Slots /\ \A i \in Slots : scenes[i] \in Seq(Entry)
    BY DEF CmdInv, BulbInv, StoredInv
  <2>2. \A i \in Slots : scenes'[i] \in Seq(Entry)
    BY <1>1, <2>1
  <2>. QED
    BY <2>2 DEF StoredInv
<1>2. CASE scenes' = scenes
  BY <1>2 DEF StoredInv
<1>3. <<>> \in Seq(Entry)
  OBVIOUS
<1>4. ASSUME Execute PROVE StoredInv'
  <2>1. CASE delete_scene
    BY <1>1, <1>3, <2>1 DEF delete_scene
  <2>2. CASE add_scene
    BY <1>1, <2>2, Adding DEF add_scene
  <2>3. CASE scenes' = scenes
    BY <1>2, <2>3
  <2>. QED
    BY <1>4, <2>1, <2>2, <2>3 DEF Execute, play_scene, delete_token, pair, list_scenes, get_scene, query, bulb
<1>5. CASE Commands
  BY <1>2, <1>5 DEF Commands, Info, Fw, Observe, Set, List, Current, DeleteAll, Unpair, Play, Delete,
         Preview, Add, Replace, Pair, Find, Discover, Begin, bulb
<1>6. CASE Progress
  BY <1>2, <1>4, <1>6 DEF Progress, Kex, Auth, Answered, Refused, Lost, Expired, Dead, GiveUp,
         Truncate, Put, Unlink, Interrupt, bulb
<1>7. ASSUME NEW s \in Slots, NEW e \in AppEffects, AppSaves(s, e) PROVE StoredInv'
  <2>1. e \in Effects
    BY CommandLineAssumption DEF CommandLineAssumption
  <2>2. Stored(e) \in Seq(Entry)
    BY <2>1, StoredTyped DEF Stored
  <2>. QED
    BY <1>1, <1>7, <2>2 DEF AppSaves
<1>8. ASSUME NEW s \in Slots, AppDeletes(s) PROVE StoredInv'
  BY <1>1, <1>3, <1>8 DEF AppDeletes
<1>9. CASE Reset
  BY <1>2, <1>9 DEF Reset
<1>. QED
  BY <1>5, <1>6, <1>7, <1>8, <1>9 DEF App

\* At first there is no command.
LEMMA SceneInitInv == ASSUME Init PROVE SceneInv
<1>1. job = NoJob
  BY DEF Init
<1>2. job.cmd = "none" /\ job.query = None /\ ~ job.skip /\ job.todo = <<>>
  BY <1>1 DEF NoJob
<1>3. job.cmd \notin Aims /\ ~ Yet(job, "add")
  BY <1>2 DEF Aims, Yet, ToSet
<1>4. AimInv /\ KnowInv
  BY <1>2, <1>3 DEF AimInv, KnowInv
<1>5. StoredInv
  <2>1. \A e \in AppEffects : Stored(e) \in Seq(Entry)
    <3>1. AppEffects \subseteq Effects
      BY CommandLineAssumption DEF CommandLineAssumption
    <3>. QED
      BY <3>1, StoredTyped DEF Stored
  <2>2. scenes \in [Slots -> {<<>>} \cup {Stored(e) : e \in AppEffects}] \/ scenes = [s \in Slots |-> <<>>]
    BY DEF Init, Nothing
  <2>3. \A s \in Slots : scenes[s] = <<>> \/ \E e \in AppEffects : scenes[s] = Stored(e)
    BY <2>2
  <2>4. <<>> \in Seq(Entry)
    OBVIOUS
  <2>. QED
    BY <2>1, <2>3, <2>4 DEF StoredInv
<1>. QED
  BY <1>4, <1>5 DEF SceneInv

\* Every step keeps the invariant of the scenes.
LEMMA SceneKept ==
  ASSUME CatInv, CmdInv, CmdInv', SceneInv, Next
  PROVE  SceneInv'
<1>1. AimInv /\ KnowInv /\ StoredInv
  BY DEF SceneInv
<1>2. CASE Commands
  <2>1. CatTyped
    BY DEF CatInv
  <2>2. AimInv' /\ KnowInv'
    BY <1>2, <2>1, CommandsScenic
  <2>. QED
    BY <1>1, <1>2, <2>2, StoredKept DEF SceneInv
<1>3. CASE Progress
  <2>1. AimInv' /\ KnowInv'
    BY <1>1, <1>3, AimedProgress, OtherProgress
  <2>. QED
    BY <1>1, <1>3, <2>1, StoredKept DEF SceneInv
<1>4. CASE App
  <2>1. AimInv' /\ KnowInv'
    BY <1>1, <1>4, AppFine
  <2>. QED
    BY <1>1, <1>4, <2>1, StoredKept DEF SceneInv
<1>5. CASE OtherWriters
  BY <1>1, <1>5, OthersFine DEF OtherWriters, SceneInv
<1>. QED
  BY <1>2, <1>3, <1>4, <1>5 DEF Next

-----------------------------------------------------------------------------
(* What requests do to the bulb.                                           *)

\* A command has an effect on the bulb only by a request that the bulb carries out.
LEMMA EffectRequested ==
  ASSUME Next, Effective
  PROVE  job.todo # <<>> /\ Reaches /\ ~ Refuses /\ Execute
<1>1. job.todo # <<>> /\ ~ Races /\ ~ UNCHANGED <<scenes, playing>>
  BY DEF Effective
<1>2. ~ Commands
  BY <1>1 DEF Commands, Info, Fw, Observe, Set, List, Current, DeleteAll, Unpair, Play, Delete,
         Preview, Add, Replace, Pair, Find, Discover, Begin, bulb
<1>3. ~ App
  BY <1>1 DEF App, AppSaves, AppDeletes, Reset
<1>4. ~ OtherWriters
  BY <1>1 DEF OtherWriters, cliVars
<1>5. Progress
  BY <1>2, <1>3, <1>4 DEF Next
<1>6. Reaches /\ ~ Refuses /\ Execute
  BY <1>1, <1>5 DEF Progress, Kex, Auth, Answered, Refused, Lost, Expired, Dead, GiveUp,
         Truncate, Put, Unlink, Interrupt, bulb
<1>. QED
  BY <1>1, <1>6

\* A palette that is stored without repeats is read back as the colours shown.
LEMMA PayloadRead ==
  ASSUME CmdInv, AimInv, Is({"add"}), ~ job.compact
  PROVE  parse_scene_palette(Payload) = normalize_scene_palette(Palette[job.effect], MaxColors)
<1>1. job.effect \in Effects /\ job.compact = FALSE
  BY Adding
<1>2. Palette[job.effect] \in Seq(RgbColors)
  BY <1>1, PaletteTyped
<1>3. MaxColors \in Nat
  BY CommandLineAssumption DEF CommandLineAssumption
<1>4. Payload = encode_palette_bytes(Palette[job.effect], MaxColors, FALSE)
  BY <1>1 DEF Payload
<1>. QED
  BY <1>2, <1>3, <1>4, ParsePlain

\* A step that has an effect on the scenes, of a command that knows them.
LEMMA Informed ==
  ASSUME CmdInv, AimInv, KnowInv, Reaches, job.cmd \in Aims, ~ job.raced, Is({"play", "delete", "add"}), Asks(job)
  PROVE  /\ ~ Impossible
         /\ \A s \in Slots :
              \/ scenes[s] = <<>> /\ job.seen[s] = <<>>
              \/ scenes[s] # <<>> /\ s \in job.passed /\ job.seen[s] = <<>>
              \/ /\ scenes[s] # <<>> /\ s \notin job.passed
                 /\ job.query # None => job.seen[s] = parse_scene_palette(scenes[s])
                 /\ job.skip => ~ Duplicate(job.effect, parse_scene_palette(scenes[s]))
<1>1. Scenic(job) /\ job.todo # <<>> /\ Step.op \in {"play", "delete", "add"}
  BY DEF AimInv, Is
<1>2. ~ Yet(job, "list") /\ ~ Yet(job, "get")
  BY <1>1, AimedStep
<1>3. session = "authed" /\ ~ Impossible
  BY <1>1 DEF Reaches, Is, Handshake, Local, Usable
<1>4. \A s \in Slots : Knows(job, scenes, s)
  BY <1>2, <1>3 DEF KnowInv
<1>5. \A s \in Slots : [op |-> "get", slot |-> s] \notin ToSet(job.todo)
  BY <1>2 DEF Yet
<1>. QED
  BY <1>3, <1>4, <1>5 DEF Knows

\* A palette that is on the bulb is not added again by a command that skips what is there,
\* except where the bulb has refused to show it.
LEMMA AddsNoTwin ==
  ASSUME CmdInv, SceneInv, Next, SkipsTwins
  PROVE  Duplicates \subseteq job.passed
<1>. DEFINE p == normalize_scene_palette(Palette[job.effect], MaxColors)
<1>8. Effective /\ Is({"add"}) /\ job.skip /\ ~ job.raced /\ normalize_scene_palette(p, MaxColors) = p
  BY DEF SkipsTwins
<1>. HIDE DEF p
<1>1. AimInv /\ KnowInv /\ Reaches
  BY <1>8, EffectRequested DEF SceneInv
<1>2. /\ Scenic(job) /\ job.cmd \in Aims /\ Yet(job, "add") /\ Step.op = "add" /\ job.todo # <<>>
      /\ Payload \in Seq(Entry)
  BY <1>1, <1>8, Adding
<1>3. ~ job.compact
  BY <1>2, <1>8 DEF Scenic
<1>4. parse_scene_palette(Payload) = p
  BY <1>1, <1>3, <1>8, PayloadRead DEF p
<1>5. /\ ~ Impossible
      /\ \A s \in Slots : scenes[s] # <<>> /\ s \notin job.passed
                         => ~ Duplicate(job.effect, parse_scene_palette(scenes[s]))
  <2>1. Asks(job)
    BY <1>2, <1>8 DEF Asks
  <2>2. Is({"play", "delete", "add"})
    BY <1>2 DEF Is
  <2>. QED
    BY <1>1, <1>2, <1>8, <2>1, <2>2, Informed
<1>6. p # <<>>
  <2>1. Payload # <<>>
    BY <1>5, <1>8 DEF Impossible
  <2>. QED
    BY <1>2, <1>4, <2>1, ReadNonempty
<1>7. Duplicate(job.effect, p)
  BY <1>6, <1>8 DEF Duplicate, p
<1>. QED
  BY <1>4, <1>5, <1>7 DEF Occupied, Duplicates

\* A scene that a command takes by its name is the only one of that name, but for those that
\* the bulb has refused to show.
LEMMA TakesUnique ==
  ASSUME CmdInv, SceneInv, Next, TakesNamed
  PROVE  Named \ job.passed = {Target}
<1>. DEFINE Has(p) == LET e == resolve(job.db, p) IN e # None /\ EffectName[e] \in Part[job.query]
<1>0. Effective /\ Is({"play", "delete"}) /\ job.query # None /\ ~ job.raced
  BY DEF TakesNamed
<1>1. AimInv /\ KnowInv /\ StoredInv /\ Reaches
  BY <1>0, EffectRequested DEF SceneInv
<1>2. job.cmd \in Aims /\ Scenic(job) /\ job.todo # <<>> /\ Step.op \in {"play", "delete"}
  BY <1>0, <1>1 DEF AimInv, Is
<1>3. Step.slot = 0 /\ Step \in ToSet(job.todo)
  BY <1>2, AimedStep
<1>4. Asks(job)
  BY <1>0, <1>2, <1>3 DEF Asks, Yet
<1>5. Is({"play", "delete", "add"})
  BY <1>2 DEF Is
<1>6. /\ ~ Impossible
      /\ \A s \in Slots :
           \/ scenes[s] = <<>> /\ job.seen[s] = <<>>
           \/ scenes[s] # <<>> /\ s \in job.passed /\ job.seen[s] = <<>>
           \/ scenes[s] # <<>> /\ s \notin job.passed /\ job.seen[s] = parse_scene_palette(scenes[s])
  BY <1>0, <1>1, <1>2, <1>4, <1>5, Informed
<1>7. \A s \in Slots : scenes[s] # <<>> => parse_scene_palette(scenes[s]) # <<>>
  BY <1>1, ReadNonempty DEF StoredInv
<1>8. Target # 0
  BY <1>5, <1>6 DEF Impossible
<1>9. Target = IF job.query = None THEN job.slot ELSE IF Ambiguous THEN 0 ELSE CHOOSE s \in Matched : TRUE
  <2>1. Step.slot = 0 /\ (Is({"play", "delete"}) \/ job.cmd = "replace")
    BY <1>0, <1>3
  <2>2. ~ Is({"add"})
    BY <1>2 DEF Is
  <2>. QED
    BY <2>1, <2>2 DEF Target
<1>10. Cardinality(Matched) = 1 /\ Target = CHOOSE s \in Matched : TRUE
  BY <1>0, <1>8, <1>9 DEF Ambiguous
<1>11. Matched = {s \in Slots : job.seen[s] # <<>> /\ Has(job.seen[s])}
  BY DEF Matched
<1>12. Named = {s \in Occupied : Has(parse_scene_palette(scenes[s]))}
  BY DEF Named
<1>. HIDE DEF Has
<1>13. Matched = Named \ job.passed
  BY <1>6, <1>7, <1>11, <1>12 DEF Occupied
<1>14. Matched = {Target}
  <2>1. IsFiniteSet(Matched)
    <3>1. Matched \subseteq Slots /\ IsFiniteSet(Slots)
      BY <1>11, Assumed
    <3>. QED
      BY <3>1, FS_Subset
  <2>2. \E s : Matched = {s}
    BY <1>10, <2>1, FS_Singleton
  <2>. QED
    BY <1>10, <2>2
<1>. QED
  BY <1>13, <1>14

-----------------------------------------------------------------------------
(* What a palette is recognised as.                                        *)

\* A set of numbers up to m that is not empty has a greatest and a least one.
LEMMA Extremes ==
  ASSUME NEW m \in Nat, NEW I \in SUBSET (1 .. m), I # {}
  PROVE  Max(I) \in I /\ Min(I) \in I
<1>1. IsFiniteSet(1 .. m)
  BY UpTo
<1>2. I \in SUBSET Nat /\ IsFiniteSet(I)
  <2>1. IsFiniteSet(I)
    BY <1>1, FS_Subset
  <2>2. I \in SUBSET Nat
    OBVIOUS
  <2>. QED
    BY <2>1, <2>2
<1>3. \E x \in I : \A y \in I : x <= y
  BY <1>2, Least
<1>4. Min(I) \in I
  BY <1>3 DEF Min
<1>. DEFINE J == {u \in 1 .. m : \A i \in I : i <= u}
<1>5. J \in SUBSET Nat /\ IsFiniteSet(J)
  BY <1>1, FS_Subset
<1>6. J # {}
  <2>1. PICK i \in I : TRUE
    OBVIOUS
  <2>2. m \in 1 .. m
    BY <2>1
  <2>3. \A k \in I : k <= m
    OBVIOUS
  <2>. QED
    BY <2>2, <2>3
<1>7. PICK u \in J : \A v \in J : u <= v
  BY <1>5, <1>6, Least
<1>8. u \in I
  <2>1. SUFFICES ASSUME u \notin I PROVE FALSE
    OBVIOUS
  <2>2. \A i \in I : i \in 1 .. m /\ i <= u - 1
    BY <2>1
  <2>3. PICK i \in I : TRUE
    OBVIOUS
  <2>4. u - 1 \in 1 .. m
    BY <2>2, <2>3
  <2>5. u - 1 \in J
    BY <2>2, <2>4
  <2>. QED
    BY <1>7, <2>5
<1>9. \E x \in I : \A y \in I : x >= y
  BY <1>7, <1>8
<1>10. Max(I) \in I
  BY <1>9 DEF Max
<1>. QED
  BY <1>4, <1>10

\* Palettes that differ in the order of their colours have as many, and the same ones.
LEMMA SameLength ==
  ASSUME NEW S, NEW s \in Seq(S), NEW t \in Seq(S), SameColors(s, t)
  PROVE  Len(s) <= Len(t) /\ ToSet(s) = ToSet(t)
<1>1. PICK m \in Nat : m = Len(s) /\ DOMAIN s = 1 .. m
  OBVIOUS
<1>2. PICK n \in Nat : n = Len(t) /\ DOMAIN t = 1 .. n
  OBVIOUS
<1>. DEFINE A(v) == {i \in 1 .. m : s[i] = v}
            B(v) == {i \in 1 .. n : t[i] = v}
<1>3. ToBag(s) = [v \in ToSet(s) |-> Cardinality(A(v))] /\ ToBag(t) = [v \in ToSet(t) |-> Cardinality(B(v))]
  BY <1>1, <1>2 DEF ToBag, Range, ToSet
<1>4. ToSet(s) = ToSet(t) /\ \A v \in ToSet(s) : Cardinality(A(v)) = Cardinality(B(v))
  <2>1. ToBag(s) = ToBag(t)
    BY DEF SameColors
  <2>. HIDE DEF A, B
  <2>2. ToSet(s) = DOMAIN ToBag(s) /\ ToSet(t) = DOMAIN ToBag(t)
    BY <1>3
  <2>3. \A v \in ToSet(s) : ToBag(s)[v] = Cardinality(A(v))
    BY <1>3
  <2>4. \A v \in ToSet(t) : ToBag(t)[v] = Cardinality(B(v))
    BY <1>3
  <2>. QED
    BY <2>1, <2>2, <2>3, <2>4
<1>5. ASSUME NEW v \in ToSet(s) PROVE \E f : f \in Bijection(A(v), B(v))
  <2>1. IsFiniteSet(1 .. m) /\ IsFiniteSet(1 .. n)
    BY UpTo
  <2>2. A(v) \in SUBSET (1 .. m) /\ B(v) \in SUBSET (1 .. n)
    OBVIOUS
  <2>. HIDE DEF A, B
  <2>3. IsFiniteSet(A(v)) /\ IsFiniteSet(B(v)) /\ Cardinality(A(v)) = Cardinality(B(v))
    BY <1>4, <2>1, <2>2, FS_Subset
  <2>4. ExistsBijection(A(v), B(v))
    BY <2>3, FS_SameCardinalityBij
  <2>. QED
    BY <2>4 DEF ExistsBijection
<1>6. PICK F : F = [v \in ToSet(s) |-> CHOOSE f : f \in Bijection(A(v), B(v))]
  OBVIOUS
<1>7. ASSUME NEW v \in ToSet(s)
      PROVE  /\ \A i \in A(v) : F[v][i] \in B(v)
             /\ \A i, j \in A(v) : F[v][i] = F[v][j] => i = j
  <2>. HIDE DEF A, B
  <2>1. F[v] \in Bijection(A(v), B(v))
    BY <1>5, <1>6
  <2>. QED
    BY <2>1 DEF Bijection, Injection, IsInjective
<1>8. \A i \in 1 .. m : s[i] \in ToSet(s) /\ i \in A(s[i])
  BY <1>1 DEF ToSet
<1>9. PICK g : g = [i \in 1 .. m |-> F[s[i]][i]]
  OBVIOUS
<1>10. ASSUME NEW i \in 1 .. m PROVE g[i] \in 1 .. n /\ t[g[i]] = s[i]
  <2>1. F[s[i]][i] \in B(s[i])
    BY <1>7, <1>8
  <2>. QED
    BY <1>9, <2>1
<1>11. ASSUME NEW i \in 1 .. m, NEW j \in 1 .. m, g[i] = g[j] PROVE i = j
  <2>1. s[i] = s[j]
    BY <1>10, <1>11
  <2>2. i \in A(s[i]) /\ j \in A(s[i]) /\ s[i] \in ToSet(s)
    BY <1>8, <2>1
  <2>3. F[s[i]][i] = F[s[i]][j]
    BY <1>9, <1>11, <2>1
  <2>. HIDE DEF A
  <2>. QED
    BY <1>7, <2>2, <2>3
<1>12. g \in Injection(1 .. m, 1 .. n)
  BY <1>9, <1>10, <1>11 DEF Injection, IsInjective
<1>13. IsFiniteSet(1 .. n) /\ Cardinality(1 .. m) = m /\ Cardinality(1 .. n) = n
  BY UpTo
<1>14. m <= n
  BY <1>12, <1>13, FS_Injection
<1>. QED
  BY <1>1, <1>2, <1>4, <1>14

\* A scene is recognised if its palette, or one that goes on longer, is in the catalogue.
LEMMA Resolved ==
  ASSUME NEW db \in Seq(Effects), NEW p, NEW k \in Indexed(db),
         Palette[db[k]] = p \/ Extends(Palette[db[k]], p)
  PROVE  /\ resolve(db, p) \in Effects
         /\ \/ Palette[resolve(db, p)] = p
            \/ SameColors(Palette[resolve(db, p)], p)
            \/ Extends(Palette[resolve(db, p)], p) /\ Palette[db[k]] # p
<1>. DEFINE named == Indexed(db)
            exact == {i \in named : Palette[db[i]] = p}
            sorted == {i \in named : SameColors(Palette[db[i]], p)}
            longer == {i \in named : Extends(Palette[db[i]], p)}
<1>1. PICK m \in Nat : DOMAIN db = 1 .. m /\ \A i \in 1 .. m : db[i] \in Effects
  <2>1. PICK m \in Nat : m = Len(db)
    OBVIOUS
  <2>. QED
    BY <2>1
<1>2. named \in SUBSET (1 .. m)
  BY <1>1 DEF Indexed
<1>3. resolve(db, p) = CASE exact # {} -> db[Max(exact)]
                         [] exact = {} /\ sorted # {} -> db[Max(sorted)]
                         [] exact = {} /\ sorted = {} /\ longer # {} -> db[Min(longer)]
                         [] OTHER -> None
  BY DEF resolve
<1>4. exact # {} \/ (longer # {} /\ Palette[db[k]] # p)
  OBVIOUS
<1>5. CASE exact # {}
  <2>1. Max(exact) \in exact
    BY <1>2, <1>5, Extremes
  <2>2. resolve(db, p) = db[Max(exact)]
    BY <1>3, <1>5
  <2>. QED
    BY <1>1, <1>2, <2>1, <2>2
<1>6. CASE exact = {} /\ sorted # {}
  <2>1. Max(sorted) \in sorted
    BY <1>2, <1>6, Extremes
  <2>2. resolve(db, p) = db[Max(sorted)]
    BY <1>3, <1>6
  <2>. QED
    BY <1>1, <1>2, <2>1, <2>2
<1>7. CASE exact = {} /\ sorted = {}
  <2>1. longer # {} /\ Palette[db[k]] # p
    BY <1>4, <1>7
  <2>2. Min(longer) \in longer
    BY <1>2, <2>1, Extremes
  <2>3. resolve(db, p) = db[Min(longer)]
    BY <1>3, <1>7, <2>1
  <2>. QED
    BY <1>1, <1>2, <2>1, <2>2, <2>3
<1>. QED
  BY <1>5, <1>6, <1>7

\* The first n colours of a palette, none of them black, are all it is shown as.
LEMMA FirstShown ==
  ASSUME NEW y \in Seq(RgbColors), NEW max \in Nat, NEW n \in Nat, n <= Len(y), n <= max,
         n = Len(y) \/ n = max, \A i \in 1 .. n : ToHsb(y[i]).bri > 0
  PROVE  normalize_scene_palette(y, max) = [i \in 1 .. n |-> FromHsb(ToHsb(y[i]))]
<1>1. PICK ks : ks = Shown(y, max)
  OBVIOUS
<1>2. /\ ks \in Seq(HsbColors) /\ Len(ks) <= max /\ Len(ks) <= Len(y) /\ n <= Len(ks)
      /\ \A i \in 1 .. n : ks[i] = ToHsb(y[i])
  BY <1>1, ShownTyped
<1>3. DOMAIN ks = 1 .. n
  <2>1. PICK k \in Nat, l \in Nat : k = Len(ks) /\ l = Len(y)
    BY <1>2
  <2>2. k = n
    BY <1>2, <2>1
  <2>3. DOMAIN ks = 1 .. Len(ks)
    BY <1>2
  <2>. QED
    BY <2>1, <2>2, <2>3
<1>4. normalize_scene_palette(y, max) = [i \in DOMAIN ks |-> FromHsb(ks[i])]
  BY <1>1 DEF normalize_scene_palette, palette_to_hex
<1>. QED
  BY <1>2, <1>3, <1>4

\* The beginning of a palette.
LEMMA Begins ==
  ASSUME NEW S, NEW p \in Seq(S), NEW y \in Seq(S), IsPrefix(p, y)
  PROVE  Len(p) <= Len(y) /\ \A i \in 1 .. Len(p) : p[i] = y[i]
<1>1. PICK n \in Nat, l \in Nat : n = Len(p) /\ l = Len(y)
  OBVIOUS
<1>2. n <= l /\ SubSeq(p, 1, n) = SubSeq(y, 1, n)
  BY <1>1 DEF IsPrefix
<1>3. ASSUME NEW i \in 1 .. n PROVE p[i] = y[i]
  <2>1. SubSeq(p, 1, n)[i] = p[i] /\ SubSeq(y, 1, n)[i] = y[i]
    BY <1>1, <1>2
  <2>. QED
    BY <1>2, <2>1
<1>. QED
  BY <1>1, <1>2, <1>3

\* Colours that are shown as they are.
Lasting(c) == ToHsb(c).bri > 0 /\ FromHsb(ToHsb(c)) = c

\* A scene of such colours is shown, wherever it is found, as the bulb has it.
LEMMA Recognised ==
  ASSUME NEW db \in Seq(Effects), NEW k \in Indexed(db), NEW max \in Nat,
         NEW x, x = Palette[db[k]], NEW p \in Seq(RgbColors), p # <<>>, IsPrefix(p, x),
         \A c \in ToSet(p) : Lasting(c), Len(p) <= max, Len(p) = Len(x) \/ Len(p) = max
  PROVE  resolve(db, p) # None /\ SameColors(normalize_scene_palette(Palette[resolve(db, p)], max), p)
<1>1. PICK n \in Nat : n = Len(p) /\ DOMAIN p = 1 .. n
  OBVIOUS
<1>2. db[k] \in Effects /\ x \in Seq(RgbColors)
  <2>1. k \in DOMAIN db
    BY DEF Indexed
  <2>2. db[k] \in Effects
    BY <2>1
  <2>. QED
    BY <2>2, PaletteTyped
<1>3. n <= Len(x) /\ \A i \in 1 .. n : p[i] = x[i]
  BY <1>1, <1>2, Begins
<1>4. p = [i \in 1 .. n |-> p[i]]
  BY <1>1
<1>5. p = x \/ n = max
  <2>1. ASSUME n = Len(x) PROVE p = x
    <3>1. x = [i \in 1 .. n |-> x[i]]
      BY <1>2, <2>1
    <3>. QED
      BY <1>3, <1>4, <3>1
  <2>. QED
    BY <1>1, <2>1
<1>6. x = p \/ Extends(x, p)
  BY DEF Extends, IsStrictPrefix
<1>7. PICK e : e = resolve(db, p)
  OBVIOUS
<1>8. /\ e \in Effects
      /\ \/ Palette[e] = p
         \/ SameColors(Palette[e], p)
         \/ Extends(Palette[e], p) /\ x # p
  BY <1>6, <1>7, Resolved
<1>9. e # None
  BY <1>8, PaletteAssumption DEF PaletteAssumption
<1>10. PICK y \in Seq(RgbColors) : y = Palette[e]
  BY <1>8, PaletteTyped
<1>11. \A i \in 1 .. n : Lasting(p[i])
  BY <1>1 DEF ToSet
<1>12. ASSUME n <= Len(y), \A i \in 1 .. n : Lasting(y[i]), n = Len(y) \/ n = max
       PROVE  normalize_scene_palette(y, max) = [i \in 1 .. n |-> y[i]]
  <2>1. n <= max /\ \A i \in 1 .. n : ToHsb(y[i]).bri > 0
    BY <1>1, <1>12 DEF Lasting
  <2>2. normalize_scene_palette(y, max) = [i \in 1 .. n |-> FromHsb(ToHsb(y[i]))]
    BY <1>12, <2>1, FirstShown
  <2>. QED
    BY <1>12, <2>2 DEF Lasting
<1>13. CASE SameColors(y, p)
  <2>1. SameColors(p, y)
    BY <1>13 DEF SameColors
  <2>2. Len(y) <= Len(p) /\ Len(p) <= Len(y) /\ ToSet(y) = ToSet(p)
    BY <1>13, <2>1, SameLength
  <2>3. Len(y) = n
    <3>1. PICK l \in Nat : l = Len(y)
      OBVIOUS
    <3>. QED
      BY <1>1, <2>2, <3>1
  <2>4. \A i \in 1 .. n : y[i] \in ToSet(y)
    BY <2>3 DEF ToSet
  <2>5. \A i \in 1 .. n : Lasting(y[i])
    BY <2>2, <2>4
  <2>6. y = [i \in 1 .. n |-> y[i]]
    BY <2>3
  <2>7. normalize_scene_palette(y, max) = y
    BY <1>12, <2>3, <2>5, <2>6
  <2>. QED
    BY <1>7, <1>9, <1>10, <1>13, <2>7
<1>14. CASE y = p
  <2>1. SameColors(y, p)
    BY <1>14 DEF SameColors
  <2>. QED
    BY <1>13, <2>1
<1>15. CASE Extends(y, p) /\ x # p
  <2>1. IsPrefix(p, y)
    BY <1>15 DEF Extends, IsStrictPrefix
  <2>2. n <= Len(y) /\ \A i \in 1 .. n : p[i] = y[i]
    BY <1>1, <2>1, Begins
  <2>3. normalize_scene_palette(y, max) = [i \in 1 .. n |-> y[i]]
    BY <1>5, <1>11, <1>12, <1>15, <2>2
  <2>4. normalize_scene_palette(y, max) = p
    BY <1>4, <2>2, <2>3
  <2>5. SameColors(p, p)
    BY DEF SameColors
  <2>. QED
    BY <1>7, <1>9, <1>10, <2>4, <2>5
<1>. QED
  BY <1>8, <1>10, <1>13, <1>14, <1>15

\* A scene that is added is recognised.
LEMMA AddsNamed ==
  ASSUME CmdInv, SceneInv, Next, Effective, Is({"add"}), ~ job.compact, EffectName[job.effect] # NoName,
         NEW x, x = Palette[job.effect], NEW p, p = parse_scene_palette(Payload),
         \A i \in DOMAIN x : ToHsb(x[i]).bri > 0, IsPrefix(normalize_scene_palette(x, MaxColors), x)
  PROVE  LET e == resolve(job.db, p)
         IN e # None /\ SameColors(normalize_scene_palette(Palette[e], MaxColors), p)
<1>1. AimInv /\ Reaches
  BY EffectRequested DEF SceneInv
<1>2. /\ job.effect \in Effects /\ job.effect \in ToSet(job.db) /\ Payload \in Seq(Entry)
      /\ Scenic(job) /\ job.todo # <<>> /\ Step.op = "add"
  BY <1>1, Adding
<1>3. p = normalize_scene_palette(x, MaxColors)
  BY <1>1, PayloadRead
<1>4. p # <<>>
  <2>1. ~ Impossible
    BY <1>2, <1>1 DEF Reaches, Is, Handshake, Local
  <2>2. Payload # <<>>
    BY <2>1 DEF Impossible
  <2>. QED
    BY <1>2, <2>2, ReadNonempty
<1>5. x \in Seq(RgbColors) /\ MaxColors \in Nat
  BY <1>2, PaletteTyped, CommandLineAssumption DEF CommandLineAssumption
<1>6. PICK l \in Nat : l = Len(x) /\ DOMAIN x = 1 .. l
  <2>1. PICK l \in Nat : l = Len(x)
    BY <1>5
  <2>. QED
    BY <1>5, <2>1
<1>7. PICK n \in Nat : n <= l /\ n <= MaxColors /\ (n = l \/ n = MaxColors)
  BY <1>5, <1>6
<1>8. p = [i \in 1 .. n |-> FromHsb(ToHsb(x[i]))]
  <2>1. n <= Len(x) /\ (n = Len(x) \/ n = MaxColors) /\ \A i \in 1 .. n : ToHsb(x[i]).bri > 0
    BY <1>6, <1>7
  <2>. QED
    BY <1>3, <1>5, <1>7, <2>1, FirstShown
<1>9. \A i \in 1 .. n : x[i] \in RgbColors
  BY <1>5, <1>6, <1>7
<1>10. Len(p) = n /\ DOMAIN p = 1 .. n
  BY <1>8
<1>11. p \in Seq(RgbColors) /\ \A i \in 1 .. n : p[i] = x[i]
  <2>1. PICK S : S = RgbColors \cup ToSet(p)
    OBVIOUS
  <2>2. p \in Seq(S)
    BY <1>8, <1>10, <2>1 DEF ToSet
  <2>3. x \in Seq(S)
    <3>1. \A i \in 1 .. l : x[i] \in S
      BY <1>5, <1>6, <2>1
    <3>. QED
      BY <1>5, <1>6, <3>1
  <2>4. \A i \in 1 .. n : p[i] = x[i]
    BY <1>3, <1>10, <2>2, <2>3, Begins
  <2>5. p = [i \in 1 .. n |-> x[i]]
    BY <1>8, <1>10, <2>4
  <2>. QED
    BY <1>9, <2>4, <2>5
<1>12. \A i \in 1 .. n : Lasting(p[i])
  BY <1>6, <1>7, <1>8, <1>11 DEF Lasting
<1>13. \A c \in ToSet(p) : Lasting(c)
  BY <1>10, <1>12 DEF ToSet
<1>14. PICK k \in DOMAIN job.db : job.db[k] = job.effect
  BY <1>2 DEF ToSet
<1>15. k \in Indexed(job.db)
  <2>1. x # <<>>
    BY <1>4, <1>6, <1>7, <1>10
  <2>. QED
    BY <1>14, <2>1 DEF Indexed
<1>16. job.db \in Seq(Effects)
  BY <1>2 DEF Scenic
<1>17. Len(p) <= MaxColors /\ (Len(p) = Len(x) \/ Len(p) = MaxColors) /\ x = Palette[job.db[k]]
  BY <1>6, <1>7, <1>10, <1>14
<1>. QED
  BY <1>3, <1>4, <1>5, <1>11, <1>13, <1>15, <1>16, <1>17, Recognised

-----------------------------------------------------------------------------
(* Theorems of the specification.                                           *)

\* The inductive invariant of the whole.
IInv == CatInv /\ CmdInv /\ SceneInv

\* What is true of the catalogue, of the commands and of what they know of the bulb's
\* scenes at first stays true.
THEOREM Inductive == Spec => []IInv
<1>1. Init => IInv
  BY CatInitInv, CmdInitInv, SceneInitInv DEF Init, IInv
<1>2. IInv /\ [Next]_vars => IInv'
  <2>1. ASSUME IInv, Next PROVE IInv'
    <3>1. CatInv'
      BY <2>1, FileReads, CatKept DEF Next, OtherWriters, IInv
    <3>2. CmdInv'
      BY <2>1, CmdKept DEF IInv
    <3>. QED
      BY <2>1, <3>1, <3>2, SceneKept DEF IInv
  <2>2. ASSUME IInv, UNCHANGED vars PROVE IInv'
    <3>1. CatInv'
      BY <2>2, CatRests DEF IInv, vars, catVars
    <3>2. SceneInv'
      BY <2>2, OthersFine DEF IInv, vars, SceneInv
    <3>. QED
      BY <2>2, <3>1, <3>2, OthersKept DEF IInv, vars
  <2>. QED
    BY <2>1, <2>2
<1>. QED
  BY <1>1, <1>2, PTL DEF Spec

\* TypeOK, the type invariant of the commands and of the catalogue, holds in every
\* reachable state, for any catalogue in the cloud, any slots and any number of commands.
THEOREM TypeCorrect == Spec => []TypeOK
<1>1. IInv => TypeOK
  <2>1. ASSUME IInv PROVE TypeOK
    <3>1. CatTypeOK
      BY <2>1, CatTypes DEF IInv
    <3>2. issued \in 0 .. Tokens
      BY <2>1, Assumed DEF IInv, CmdInv, TokenInv, JobInv
    <3>. QED
      BY <2>1, <3>1, <3>2 DEF IInv, CmdInv, TokenInv, JobInv, BulbInv, Sessions, TypeOK
  <2>. QED
    BY <2>1
<1>. QED
  BY <1>1, Inductive, PTL

\* A download that was alone and has written the file has written, in order of their
\* names, every effect the four lists of the cloud have and can be shown (DownloadComplete):
\* however many pages there are, whatever failed and was tried again.
THEOREM DownloadsComplete == Spec => DownloadComplete
<1>1. IInv /\ [Next]_vars
      => [\A w \in Writers : Written(w) /\ ~ dl[w].raced
            => /\ file.state = "good"
               /\ Complete(file.effects)
               /\ w \in Homes => names'[w] = file.effects]_catVars
  BY EndsComplete DEF IInv
<1>. QED
  BY <1>1, Inductive, PTL DEF Spec, DownloadComplete

\* A command that rewrites the device file while the bulb still accepts the token in it
\* writes that token again (TokenKept): only a search, which asks no bulb, may drop it.
THEOREM KeepsToken == Spec => TokenKept
<1>1. IInv /\ [Next]_vars
      => [Truncate /\ job.cmd # "find" /\ conf.token = accepted /\ accepted # 0
            => job'.text = conf.token]_vars
  <2>1. ASSUME IInv, Truncate, job.cmd # "find", conf.token = accepted, accepted # 0
        PROVE  job'.text = conf.token
    <3>. DEFINE new == job.cmd = "pair" /\ Len(job.todo) = 4
                gone == job.cmd \in {"find", "unpair"}
                text == CASE new -> job.text [] gone -> 0 [] OTHER -> conf.token
    <3>1. /\ JobInv /\ TokenInv /\ CmdInv /\ job.todo # <<>> /\ Step.op = "truncate" /\ Is({"truncate"})
          /\ GoOn([job EXCEPT !.todo = Tail(@), !.text = text], session)
      BY <2>1 DEF IInv, CmdInv, Truncate, Is
    <3>2. PICK n \in Nat : Len(job.todo) = n
      BY <3>1 DEF JobInv, JobTyped
    <3>3. ~ gone
      BY <2>1, <3>1 DEF TokenInv
    <3>4. new => job.text = conf.token
      BY <2>1, <3>1 DEF TokenInv
    <3>5. text = conf.token
      <4>. HIDE DEF new, gone
      <4>. QED
        BY <3>3, <3>4
    <3>. HIDE DEF text
    <3>6. Tail(job.todo) # <<>>
      <4>1. job.cmd \in {"pair", "discover"}
        BY <3>1, <3>3, OtherStep DEF Files, FileOps
      <4>2. CASE job.cmd = "pair"
        <5>1. /\ n \in 1 .. 9 /\ Len(Tail(job.todo)) = n - 1
              /\ n \in {1, 3} => Step.op = "put"
          BY <3>1, <3>2, <4>2, PairStep
        <5>2. n - 1 # 0
          BY <3>1, <5>1
        <5>. QED
          BY <5>1, <5>2
      <4>3. CASE job.cmd = "discover"
        BY <3>1, <4>3, DiscoverStep
      <4>. QED
        BY <4>1, <4>2, <4>3
    <3>7. PICK j : j = [job EXCEPT !.todo = Tail(@), !.text = text]
      OBVIOUS
    <3>8. Fields(job)
      BY <3>1 DEF JobInv, JobTyped
    <3>9. j.todo = Tail(job.todo) /\ j.text = text
      BY <3>7, <3>8 DEF Fields
    <3>10. job' = j
      BY <3>1, <3>6, <3>7, <3>9 DEF GoOn
    <3>. QED
      BY <3>5, <3>9, <3>10
  <2>. QED
    BY <2>1
<1>. QED
  BY <1>1, Inductive, PTL DEF Spec, TokenKept

\* `add --skip-existing` saves no palette a second time (SkipNeverDuplicates), except one in
\* a scene that the bulb answered with an error status: by the time it adds a scene, every
\* scene that the bulb has was read and found to be another, or was refused.
THEOREM AddsOnce == Spec => SkipNeverDuplicates
<1>1. IInv /\ [Next]_vars => [SkipsTwins => Duplicates \subseteq job.passed]_vars
  BY AddsNoTwin DEF IInv
<1>. QED
  BY <1>1, Inductive, PTL DEF Spec, SkipNeverDuplicates

\* A scene played, deleted or replaced by its name is the only one on the bulb of that
\* name (ActsOnUnique), except for scenes that the bulb answered with an error status:
\* whichever requests were refused or lost, and whatever handles the list had.
THEOREM ActsByName == Spec => ActsOnUnique
<1>1. IInv /\ [Next]_vars => [TakesNamed => Named \ job.passed = {Target}]_vars
  BY TakesUnique DEF IInv
<1>. QED
  BY <1>1, Inductive, PTL DEF Spec, ActsOnUnique

\* A scene added from the catalogue, lit and unchanged by its conversion, is recognised
\* when it is read back, as one that shows the same (AddedIsNamed): for any catalogue,
\* and however many of its colours the bulb keeps.
THEOREM AddedAreNamed == Spec => AddedIsNamed
<1>1. IInv /\ [Next]_vars
      => [LET x == Palette[job.effect]
              p == parse_scene_palette(Payload)
              e == resolve(job.db, p)
          IN Effective /\ Is({"add"}) /\ ~ job.compact /\ EffectName[job.effect] # NoName
               /\ (\A i \in DOMAIN x : ToHsb(x[i]).bri > 0)
               /\ IsPrefix(normalize_scene_palette(x, MaxColors), x)
          => e # None /\ SameColors(normalize_scene_palette(Palette[e], MaxColors), p)]_vars
  BY AddsNamed DEF IInv
<1>. QED
  BY <1>1, Inductive, PTL DEF Spec, AddedIsNamed

=============================================================================
