---------------------------- MODULE CommandsProofs ----------------------------
(***************************************************************************)
(* The properties of Commands, proved for all vocabularies, texts and      *)
(* lists of devices.                                                       *)
(*                                                                         *)
(* The first part says what splitting a text into words does: it leaves    *)
(* words alone and goes from left to right.  With it, what Handle sees is  *)
(* compared with what the text means.  The second part is about the loop   *)
(* of resolveTargets: what is selected when the loop is at an argument is  *)
(* what the arguments before it designate (Loop).                          *)
(***************************************************************************)
EXTENDS Commands, FiniteSetTheorems, SequenceTheorems, WellFoundedInduction, TLAPS

\* A set of naturals that is not empty has a least element, which Min finds.
LEMMA MinOfNaturals ==
  ASSUME NEW S \in SUBSET Nat, S # {}
  PROVE  Min(S) \in S /\ \A n \in S : Min(S) <= n
<1> DEFINE Less == {p \in Nat \X Nat : p[1] < p[2]}
<1>1. IsWellFoundedOn(Less, Nat)
  BY NatLessThanWellFounded DEF OpToRel
<1>2. PICK m \in S : \A n \in S : <<n, m>> \notin Less
  BY <1>1, WFMin
<1>3. ASSUME NEW n \in S PROVE m <= n
  <2>1. m \in Nat /\ n \in Nat /\ <<n, m>> \in Nat \X Nat
    OBVIOUS
  <2>2. ~(n < m)
    BY <1>2, <1>3, <2>1
  <2> QED BY <2>1, <2>2
<1> QED BY <1>3 DEF Min

\* The rank of an element grows with it.
LEMMA UpToGrows ==
  ASSUME NEW set \in SUBSET Nat, IsFiniteSet(set), NEW i \in set
  PROVE  /\ IsFiniteSet(upTo(set, i))
         /\ Cardinality(upTo(set, i)) \in 1..Cardinality(set)
         /\ \A k \in set : i < k => Cardinality(upTo(set, i)) < Cardinality(upTo(set, k))
<1>1. upTo(set, i) \in SUBSET set /\ i \in upTo(set, i)
  BY DEF upTo
<1>2. /\ IsFiniteSet(upTo(set, i)) /\ Cardinality(upTo(set, i)) <= Cardinality(set)
      /\ Cardinality(set) \in Nat
  BY <1>1, FS_Subset, FS_CardinalityType
<1>3. Cardinality(upTo(set, i)) \in Nat /\ Cardinality(upTo(set, i)) # 0
  BY <1>1, <1>2, FS_CardinalityType, FS_EmptySet
<1>4. ASSUME NEW k \in set, i < k
      PROVE  Cardinality(upTo(set, i)) < Cardinality(upTo(set, k))
  <2> i \in Nat /\ k \in Nat
    OBVIOUS
  <2>1. upTo(set, i) \in SUBSET upTo(set, k)
    <3> SUFFICES ASSUME NEW j \in set, j <= i PROVE j <= k
      BY DEF upTo
    <3>1. j \in Nat
      OBVIOUS
    <3> QED BY <1>4, <3>1
  <2>2. k \in upTo(set, k) /\ k \notin upTo(set, i)
    BY <1>4 DEF upTo
  <2>3. upTo(set, k) \in SUBSET set
    BY DEF upTo
  <2>4. IsFiniteSet(upTo(set, k)) /\ Cardinality(upTo(set, k)) \in Nat
    BY <2>3, FS_Subset, FS_CardinalityType
  <2>5. /\ Cardinality(upTo(set, i)) <= Cardinality(upTo(set, k))
        /\ Cardinality(upTo(set, k)) # Cardinality(upTo(set, i))
    BY <2>1, <2>2, <2>4, FS_Subset
  <2> QED BY <1>3, <2>4, <2>5
<1> QED BY <1>2, <1>3, <1>4

\* Every rank that a finite set of naturals has belongs to one of its elements.
LEMMA NthOfSet ==
  ASSUME NEW set \in SUBSET Nat, IsFiniteSet(set), NEW n \in 1..Cardinality(set)
  PROVE  nth(set, n) \in set /\ Cardinality(upTo(set, nth(set, n))) = n
<1> DEFINE rank == [i \in set |-> Cardinality(upTo(set, i))]
<1> DEFINE Ranks == 1..Cardinality(set)
<1>1. Cardinality(set) \in Nat
  BY FS_CardinalityType
<1>2. rank \in Injection(set, Ranks)
  <2>1. rank \in [set -> Ranks]
    BY UpToGrows
  <2>2. ASSUME NEW i \in set, NEW k \in set, rank[i] = rank[k] PROVE i = k
    <3>1. /\ Cardinality(upTo(set, i)) = Cardinality(upTo(set, k))
          /\ i \in Nat /\ k \in Nat /\ Cardinality(upTo(set, i)) \in Nat
      BY <1>1, <2>2, UpToGrows
    <3>2. ~(i < k) /\ ~(k < i)
      BY <3>1, UpToGrows
    <3> QED BY <3>1, <3>2
  <2>3. IsInjective(rank)
    BY <2>2 DEF IsInjective
  <2> QED BY <2>1, <2>3 DEF Injection
<1>3. IsFiniteSet(Ranks) /\ Cardinality(Ranks) = Cardinality(set)
  BY <1>1, FS_Interval
<1>4. rank \in Surjection(set, Ranks)
  BY <1>2, <1>3, FS_Injection
<1>5. \E i \in set : Cardinality(upTo(set, i)) = n
  BY <1>4 DEF Surjection
<1> QED BY <1>5 DEF nth

\* Selecting from a list gives a list of its elements, those at the places
\* selected; selecting everything gives the list.
LEMMA SubsequenceOf ==
  ASSUME NEW S, NEW s \in Seq(S), NEW places \in SUBSET DOMAIN s
  PROVE  /\ subsequence(s, places) \in Seq(S)
         /\ DOMAIN subsequence(s, places) = 1..Cardinality(places)
         /\ Cardinality(places) \in Nat
         /\ \A n \in DOMAIN subsequence(s, places) :
              /\ nth(places, n) \in places
              /\ subsequence(s, places)[n] = s[nth(places, n)]
<1>1. DOMAIN s = 1..Len(s) /\ Len(s) \in Nat
  BY LenProperties
<1>2. places \in SUBSET Nat /\ IsFiniteSet(places) /\ Cardinality(places) \in Nat
  <2>1. PICK k \in Nat : DOMAIN s = 1..k
    BY <1>1
  <2>2. IsFiniteSet(1..k) /\ 1..k \in SUBSET Nat
    BY FS_Interval
  <2>3. places \in SUBSET (1..k)
    BY <2>1
  <2>4. IsFiniteSet(places)
    BY <2>2, <2>3, FS_Subset
  <2> QED BY <2>2, <2>3, <2>4, FS_CardinalityType
<1>3. \A n \in 1..Cardinality(places) : nth(places, n) \in places
  BY <1>2, NthOfSet
<1>4. \A n \in 1..Cardinality(places) : s[nth(places, n)] \in S
  BY <1>3
<1>5. subsequence(s, places) \in [1..Cardinality(places) -> S]
  BY <1>4 DEF subsequence
<1>6. subsequence(s, places) \in Seq(S)
  BY <1>2, <1>5
<1> QED BY <1>2, <1>3, <1>6 DEF subsequence

LEMMA SubsequenceWhole ==
  ASSUME NEW S, NEW s \in Seq(S)
  PROVE  subsequence(s, DOMAIN s) = s
<1>1. DOMAIN s = 1..Len(s) /\ Len(s) \in Nat
  BY LenProperties
<1>2. PICK k \in Nat : k = Len(s)
  BY <1>1
<1>3. 1..k \in SUBSET Nat /\ IsFiniteSet(1..k) /\ Cardinality(1..k) = k
  BY FS_Interval
<1>4. ASSUME NEW n \in 1..k PROVE nth(1..k, n) = n
  <2>1. nth(1..k, n) \in 1..k /\ Cardinality(upTo(1..k, nth(1..k, n))) = n
    BY <1>3, NthOfSet
  <2>2. PICK i \in 1..k : i = nth(1..k, n)
    BY <2>1
  <2>3. upTo(1..k, i) = 1..i
    BY DEF upTo
  <2>4. Cardinality(1..i) = i
    BY FS_Interval
  <2> QED BY <2>1, <2>2, <2>3, <2>4
<1>5. subsequence(s, 1..k) = [n \in 1..k |-> s[n]]
  BY <1>3, <1>4 DEF subsequence
<1>6. s = [n \in 1..k |-> s[n]]
  BY <1>1, <1>2
<1> QED BY <1>1, <1>2, <1>5, <1>6

LEMMA NthIs ==
  ASSUME NEW set \in SUBSET Nat, IsFiniteSet(set), NEW i \in set
  PROVE  /\ Cardinality(upTo(set, i)) \in 1..Cardinality(set)
         /\ nth(set, Cardinality(upTo(set, i))) = i
<1>1. PICK n \in 1..Cardinality(set) : n = Cardinality(upTo(set, i))
  BY UpToGrows
<1>2. PICK k \in set : k = nth(set, n) /\ Cardinality(upTo(set, k)) = n
  BY NthOfSet
<1>3. i \in Nat /\ k \in Nat /\ Cardinality(set) \in Nat
  BY FS_CardinalityType
<1>4. ~(i < k) /\ ~(k < i)
  BY <1>1, <1>2, <1>3, UpToGrows
<1> QED BY <1>1, <1>2, <1>3, <1>4

\* A set of places moved by one has as many elements, in the same order.
shift(set) == {i + 1 : i \in set}

LEMMA ShiftOf ==
  ASSUME NEW set \in SUBSET Nat, IsFiniteSet(set)
  PROVE  /\ shift(set) \in SUBSET Nat /\ IsFiniteSet(shift(set))
         /\ Cardinality(shift(set)) = Cardinality(set)
<1> DEFINE f == [i \in set |-> i + 1]
<1>1. \A i \in set : i \in Nat
  OBVIOUS
<1>2. f \in [set -> shift(set)] /\ \A i, k \in set : f[i] = f[k] => i = k
  BY <1>1 DEF shift
<1>3. \A j \in shift(set) : \E i \in set : f[i] = j
  BY DEF shift
<1>4. f \in Bijection(set, shift(set))
  BY <1>2, <1>3 DEF Bijection, Injection, IsInjective, Surjection
<1>5. ExistsBijection(set, shift(set))
  BY <1>4 DEF ExistsBijection
<1>6. shift(set) \in SUBSET Nat
  BY <1>1 DEF shift
<1> QED BY <1>5, <1>6, FS_Bijection

LEMMA NthOfShift ==
  ASSUME NEW set \in SUBSET Nat, IsFiniteSet(set), NEW n \in 1..Cardinality(set)
  PROVE  nth(shift(set), n) = nth(set, n) + 1
<1>1. PICK i \in set : i = nth(set, n) /\ Cardinality(upTo(set, i)) = n
  BY NthOfSet
<1>2. i \in Nat /\ \A j \in set : j \in Nat
  OBVIOUS
<1>3. upTo(shift(set), i + 1) = shift(upTo(set, i))
  BY <1>2 DEF upTo, shift
<1>4. upTo(set, i) \in SUBSET set /\ IsFiniteSet(upTo(set, i))
  BY UpToGrows DEF upTo
<1>5. Cardinality(shift(upTo(set, i))) = n
  BY <1>1, <1>4, ShiftOf
<1>6. i + 1 \in shift(set)
  BY DEF shift
<1>7. PICK k \in shift(set) : k = i + 1
  BY <1>6
<1>8. nth(shift(set), Cardinality(upTo(shift(set), k))) = k
  BY ShiftOf, NthIs
<1> QED BY <1>1, <1>3, <1>5, <1>7, <1>8

\* With 1 in front of them the places move up by one.
LEMMA NthAfterFirst ==
  ASSUME NEW set \in SUBSET (Nat \ {0}), IsFiniteSet(set), NEW all, all = {1} \cup shift(set)
  PROVE  /\ all \in SUBSET Nat /\ IsFiniteSet(all)
         /\ Cardinality(all) = Cardinality(set) + 1
         /\ nth(all, 1) = 1
         /\ \A n \in 1..Cardinality(set) : nth(all, n + 1) = nth(set, n) + 1
<1>1. shift(set) \in SUBSET Nat /\ IsFiniteSet(shift(set))
      /\ Cardinality(shift(set)) = Cardinality(set) /\ Cardinality(set) \in Nat
  BY ShiftOf, FS_CardinalityType
<1>2. \A j \in shift(set) : j \in Nat /\ 1 < j
  BY DEF shift
<1>3. all \in SUBSET Nat /\ IsFiniteSet(all) /\ Cardinality(all) = Cardinality(set) + 1
  <2>1. all = shift(set) \cup {1} /\ 1 \notin shift(set)
    BY <1>2
  <2> QED BY <1>1, <2>1, FS_AddElement
<1>4. nth(all, 1) = 1
  <2>1. upTo(all, 1) = {1}
    BY <1>2 DEF upTo
  <2>2. Cardinality(upTo(all, 1)) = 1 /\ 1 \in all
    BY <2>1, FS_Singleton
  <2>3. PICK k \in all : k = 1
    BY <2>2
  <2>4. nth(all, Cardinality(upTo(all, k))) = k
    BY <1>3, NthIs
  <2> QED BY <2>2, <2>3, <2>4
<1>5. ASSUME NEW n \in 1..Cardinality(set) PROVE nth(all, n + 1) = nth(set, n) + 1
  <2>1. PICK i \in set : i = nth(set, n) /\ Cardinality(upTo(set, i)) = n
    BY NthOfSet
  <2>2. i \in Nat /\ 0 < i /\ \A j \in set : j \in Nat
    OBVIOUS
  <2>3. upTo(all, i + 1) = shift(upTo(set, i)) \cup {1}
    BY <2>2 DEF upTo, shift
  <2>4. upTo(set, i) \in SUBSET Nat /\ IsFiniteSet(upTo(set, i))
    BY <2>2, UpToGrows DEF upTo
  <2>5. IsFiniteSet(shift(upTo(set, i))) /\ Cardinality(shift(upTo(set, i))) = n
    BY <2>1, <2>4, ShiftOf
  <2>6. 1 \notin shift(upTo(set, i))
    BY <2>2 DEF shift, upTo
  <2>7. Cardinality(upTo(all, i + 1)) = n + 1
    BY <2>3, <2>5, <2>6, FS_AddElement
  <2>8. i + 1 \in all
    BY DEF shift
  <2>9. PICK k \in all : k = i + 1
    BY <2>8
  <2>10. nth(all, Cardinality(upTo(all, k))) = k
    BY <1>3, NthIs
  <2> QED BY <2>1, <2>7, <2>9, <2>10
<1> QED BY <1>3, <1>4, <1>5

----------------------------------------------------------------------------
\* Fields: a text is a sequence of words and blanks, and its fields are the
\* words.
Symbols == Words \cup {Space, Line}

kept(t) == {i \in DOMAIN t : t[i] \notin {Space, Line}}

LEMMA KeptPlaces ==
  ASSUME NEW t \in Seq(Symbols)
  PROVE  /\ kept(t) \in SUBSET DOMAIN t /\ kept(t) \in SUBSET (Nat \ {0})
         /\ IsFiniteSet(kept(t)) /\ Cardinality(kept(t)) \in Nat
         /\ Fields(t) = subsequence(t, kept(t))
<1>1. PICK k \in Nat : DOMAIN t = 1..k
  BY LenProperties
<1>2. IsFiniteSet(1..k) /\ kept(t) \in SUBSET (1..k)
  BY <1>1, FS_Interval DEF kept
<1>3. IsFiniteSet(kept(t))
  BY <1>2, FS_Subset
<1>4. kept(t) \in SUBSET DOMAIN t /\ kept(t) \in SUBSET (Nat \ {0})
  BY <1>1, <1>2
<1> QED BY <1>3, <1>4, FS_CardinalityType DEF Fields, kept

LEMMA FieldsAreWords ==
  ASSUME NEW t \in Seq(Symbols)
  PROVE  Fields(t) \in Seq(Words)
<1>1. kept(t) \in SUBSET DOMAIN t /\ Fields(t) = subsequence(t, kept(t))
  BY KeptPlaces
<1>2. /\ Fields(t) \in Seq(Symbols)
      /\ \A n \in DOMAIN Fields(t) : nth(kept(t), n) \in kept(t)
                                     /\ Fields(t)[n] = t[nth(kept(t), n)]
  BY <1>1, SubsequenceOf
<1>3. ASSUME NEW n \in DOMAIN Fields(t) PROVE Fields(t)[n] \in Words
  <2>1. Fields(t)[n] \in Symbols
    BY <1>2
  <2>2. Fields(t)[n] \notin {Space, Line}
    BY <1>2 DEF kept
  <2> QED BY <2>1, <2>2 DEF Symbols
<1>4. PICK k \in Nat : DOMAIN Fields(t) = 1..k
  BY <1>2, LenProperties
<1>5. Fields(t) \in [1..k -> Words]
  BY <1>2, <1>3, <1>4
<1> QED BY <1>5

\* Splitting what has been split changes nothing.
LEMMA FieldsOfWords ==
  ASSUME NEW f \in Seq(Words)
  PROVE  Fields(f) = f
<1>1. \A i \in DOMAIN f : f[i] \in Words
  OBVIOUS
<1>2. {i \in DOMAIN f : f[i] \notin {Space, Line}} = DOMAIN f
  BY <1>1, WordAssumption
<1>3. Fields(f) = subsequence(f, DOMAIN f)
  BY <1>2 DEF Fields
<1> QED BY <1>3, SubsequenceWhole

\* A text is split from left to right.
LEMMA FieldsFromLeft ==
  ASSUME NEW t \in Seq(Symbols), t # <<>>
  PROVE  Fields(t) = IF Head(t) \in {Space, Line} THEN Fields(Tail(t))
                     ELSE <<Head(t)>> \o Fields(Tail(t))
<1>1. PICK r \in Seq(Symbols) : r = Tail(t)
  BY HeadTailProperties
<1>2. /\ Len(r) \in Nat /\ Len(t) = Len(r) + 1
      /\ DOMAIN r = 1..Len(r) /\ DOMAIN t = 1..Len(t)
      /\ \A i \in DOMAIN r : r[i] = t[i + 1]
      /\ Head(t) = t[1]
  BY <1>1, HeadTailProperties, LenProperties
<1>3. /\ kept(r) \in SUBSET Nat /\ kept(r) \in SUBSET (Nat \ {0}) /\ IsFiniteSet(kept(r))
      /\ Cardinality(kept(r)) \in Nat /\ Fields(r) = subsequence(r, kept(r))
      /\ kept(r) \in SUBSET DOMAIN r
      /\ Fields(t) = subsequence(t, kept(t))
  BY KeptPlaces
<1>4. \A i \in DOMAIN t : i = 1 \/ \E j \in DOMAIN r : i = j + 1
  <2> SUFFICES ASSUME NEW i \in DOMAIN t, i # 1 PROVE i - 1 \in DOMAIN r /\ i = (i - 1) + 1
    OBVIOUS
  <2> QED BY <1>2
<1>5. \A j \in DOMAIN r : j + 1 \in DOMAIN t /\ (j + 1 \in kept(t) <=> j \in kept(r))
  BY <1>2 DEF kept
<1>6. 1 \in DOMAIN t
  BY <1>2
<1>7. kept(t) \ {1} = shift(kept(r))
  <2>1. \A i \in kept(t) : i # 1 => i \in shift(kept(r))
    BY <1>4, <1>5 DEF kept, shift
  <2>2. \A j \in kept(r) : j + 1 \in kept(t) /\ j + 1 # 1
    BY <1>3, <1>5
  <2> QED BY <2>1, <2>2 DEF shift
<1>8. \A n \in 1..Cardinality(kept(r)) : nth(kept(r), n) \in kept(r)
  BY <1>3, NthOfSet
<1>9. PICK k \in Nat : k = Cardinality(kept(r))
  BY <1>3
<1>10. Fields(r) = [n \in 1..k |-> r[nth(kept(r), n)]]
  BY <1>3, <1>9 DEF subsequence
<1>11. CASE Head(t) \in {Space, Line}
  <2>1. 1 \notin kept(t)
    BY <1>2, <1>11 DEF kept
  <2>2. kept(t) = shift(kept(r))
    BY <1>7, <2>1
  <2>3. Cardinality(kept(t)) = k
    BY <1>3, <1>9, <2>2, ShiftOf
  <2>4. \A n \in 1..k : nth(kept(t), n) = nth(kept(r), n) + 1
    BY <1>3, <1>9, <2>2, NthOfShift
  <2>5. \A n \in 1..k : t[nth(kept(t), n)] = r[nth(kept(r), n)]
    BY <1>2, <1>3, <1>8, <1>9, <2>4
  <2>6. Fields(t) = [n \in 1..k |-> t[nth(kept(t), n)]]
    BY <1>3, <2>3 DEF subsequence
  <2>7. Fields(t) = Fields(r)
    BY <1>10, <2>5, <2>6
  <2> QED BY <1>1, <1>11, <2>7
<1>12. CASE Head(t) \notin {Space, Line}
  <2>1. 1 \in kept(t)
    BY <1>2, <1>6, <1>12 DEF kept
  <2>2. kept(t) = {1} \cup shift(kept(r))
    BY <1>7, <2>1
  <2>3. /\ Cardinality(kept(t)) = k + 1
        /\ nth(kept(t), 1) = 1
        /\ \A n \in 1..k : nth(kept(t), n + 1) = nth(kept(r), n) + 1
    BY <1>3, <1>9, <2>2, NthAfterFirst
  <2>4. /\ Fields(t) \in Seq(Words) /\ Fields(r) \in Seq(Words)
        /\ Head(t) \in Words
    <3>1. t[1] \in Symbols
      BY <1>6
    <3>2. Head(t) \in Words
      BY <1>2, <1>12, <3>1 DEF Symbols
    <3> QED BY <3>2, FieldsAreWords
  <2>5. Fields(t) = [n \in 1..(k + 1) |-> t[nth(kept(t), n)]]
    BY <1>3, <2>3 DEF subsequence
  <2>6. PICK f, g \in Seq(Words), h \in Words : f = Fields(t) /\ g = Fields(r) /\ h = Head(t)
    BY <2>4
  <2>7. Len(f) = k + 1 /\ Len(g) = k
    BY <1>10, <2>5, <2>6, LenProperties
  <2>8. f[1] = h
    BY <1>2, <2>3, <2>5, <2>6
  <2>9. \A n \in 1..k : f[n + 1] = g[n]
    <3> SUFFICES ASSUME NEW n \in 1..k PROVE f[n + 1] = g[n]
      OBVIOUS
    <3>1. f[n + 1] = t[nth(kept(r), n) + 1]
      BY <2>3, <2>5, <2>6
    <3>2. t[nth(kept(r), n) + 1] = r[nth(kept(r), n)]
      BY <1>2, <1>3, <1>8, <1>9
    <3> QED BY <1>10, <2>6, <3>1, <3>2
  <2>10. f = <<h>> \o g
    <3>1. <<h>> \in Seq(Words) /\ Len(<<h>>) = 1 /\ <<h>>[1] = h
      OBVIOUS
    <3>2. /\ <<h>> \o g \in Seq(Words) /\ Len(<<h>> \o g) = k + 1
          /\ \A n \in 1..(k + 1) : (<<h>> \o g)[n] = IF n <= 1 THEN h ELSE g[n - 1]
      BY <2>7, <3>1, ConcatProperties
    <3>3. \A n \in 1..(k + 1) : f[n] = IF n <= 1 THEN h ELSE g[n - 1]
      <4> SUFFICES ASSUME NEW n \in 1..(k + 1), n # 1 PROVE f[n] = g[n - 1]
        <5>1. \A n \in 1..(k + 1) : n <= 1 <=> n = 1
          OBVIOUS
        <5> QED BY <2>8, <5>1
      <4>1. n - 1 \in 1..k /\ (n - 1) + 1 = n
        OBVIOUS
      <4> QED BY <2>9, <4>1
    <3> QED BY <2>7, <3>2, <3>3, SeqEqual
  <2> QED BY <1>1, <1>12, <2>6, <2>10
<1> QED BY <1>11, <1>12

----------------------------------------------------------------------------
\* What Handle sees against what the text means.
restOf(words) == IF words = <<>> THEN <<>> ELSE Tail(words)

\* The command and the arguments in a list of words, together.
LEMMA CommandAndRest ==
  ASSUME NEW words \in Seq(Words)
  PROVE  <<commandIn(words)>> \o restOf(words) =
           IF words = <<>> THEN <<Help>> ELSE <<Before[Head(words)]>> \o Tail(words)
<1>1. CASE words = <<>>
  BY <1>1, ConcatEmptySeq, WordAssumption DEF commandIn, restOf
<1>2. CASE words # <<>>
  BY <1>2 DEF commandIn, restOf
<1> QED BY <1>1, <1>2

LEMMA TextType ==
  ASSUME NEW t \in Texts
  PROVE  /\ t \in Seq(Symbols)
         /\ \A i \in DOMAIN t : t[i] # Empty
<1>1. t \in Seq((Words \ {Empty}) \cup {Space, Line})
  BY WordAssumption
<1>2. \A i \in DOMAIN t : t[i] \in (Words \ {Empty}) \cup {Space, Line}
  BY <1>1
<1>3. t \in Seq(Symbols)
  <2>1. PICK k \in Nat : DOMAIN t = 1..k /\ t \in [1..k -> (Words \ {Empty}) \cup {Space, Line}]
    BY <1>1
  <2>2. t \in [1..k -> Symbols]
    BY <2>1 DEF Symbols
  <2> QED BY <2>2
<1>4. Empty \notin {Space, Line}
  BY WordAssumption
<1> QED BY <1>2, <1>3, <1>4

\* The words of a text are not empty.
LEMMA FieldsNotEmpty ==
  ASSUME NEW t \in Texts, Fields(t) # <<>>
  PROVE  Head(Fields(t)) \in Words /\ Head(Fields(t)) # Empty
<1>1. kept(t) \in SUBSET DOMAIN t /\ Fields(t) = subsequence(t, kept(t)) /\ t \in Seq(Symbols)
  BY TextType, KeptPlaces
<1>2. \A n \in DOMAIN Fields(t) : nth(kept(t), n) \in DOMAIN t
                                  /\ Fields(t)[n] = t[nth(kept(t), n)]
  BY <1>1, SubsequenceOf
<1>3. Fields(t) \in Seq(Words)
  BY <1>1, FieldsAreWords
<1>4. 1 \in DOMAIN Fields(t) /\ Head(Fields(t)) = Fields(t)[1] /\ Head(Fields(t)) \in Words
  BY <1>3, LenProperties, EmptySeq, HeadTailProperties
<1> QED BY <1>2, <1>4, TextType

\* What a text leaves of its words when a mention before the command is taken
\* away: the words whose command and arguments are meant.
unmentioned(t) ==
    LET f == Fields(t) IN IF f # <<>> /\ isMention(Head(f)) THEN Tail(f) ELSE f

LEMMA MeantWords ==
  ASSUME NEW t \in Texts
  PROVE  /\ unmentioned(t) \in Seq(Words)
         /\ meant(t) = <<commandIn(unmentioned(t))>> \o restOf(unmentioned(t))
<1>1. Fields(t) \in Seq(Words)
  BY TextType, FieldsAreWords
<1>2. unmentioned(t) \in Seq(Words)
  BY <1>1, HeadTailProperties DEF unmentioned
<1>3. meant(t) = IF unmentioned(t) = <<>> THEN <<Help>>
                 ELSE <<Before[Head(unmentioned(t))]>> \o Tail(unmentioned(t))
  BY DEF meant, unmentioned
<1> QED BY <1>2, <1>3, CommandAndRest

LEMMA TelegramMeans ==
  ASSUME NEW t \in Texts, NEW words, words = Fields(normalizeMessageCommand(t))
  PROVE  words \in Seq(Words) /\ <<commandIn(words)>> \o restOf(words) = meant(t)
<1>1. PICK f \in Seq(Words) : f = Fields(t)
  BY TextType, FieldsAreWords
<1>2. CASE f = <<>>
  <2>1. normalizeMessageCommand(t) = f
    BY <1>1, <1>2 DEF normalizeMessageCommand
  <2>2. words = f
    BY <1>1, <2>1, FieldsOfWords
  <2>3. unmentioned(t) = f
    BY <1>1, <1>2 DEF unmentioned
  <2> QED BY <2>2, <2>3, MeantWords
<1>3. CASE f # <<>> /\ Before[Head(f)] = Empty
  <2>1. Tail(f) \in Seq(Words) /\ Head(f) \in Words /\ Head(f) # Empty
    BY <1>1, <1>3, HeadTailProperties, FieldsNotEmpty
  <2>2. words = Tail(f)
    BY <1>1, <1>3, <2>1, FieldsOfWords DEF normalizeMessageCommand
  <2>3. unmentioned(t) = Tail(f)
    BY <1>1, <1>3, <2>1 DEF unmentioned, isMention
  <2> QED BY <2>1, <2>2, <2>3, MeantWords
<1>4. CASE f # <<>> /\ Before[Head(f)] # Empty
  <2>1. PICK h \in Words, r \in Seq(Words) : h = Head(f) /\ r = Tail(f)
    BY <1>1, <1>4, HeadTailProperties
  <2>2. PICK b \in Words : b = Before[h] /\ Before[b] = b
    BY <2>1, WordAssumption
  <2>3. <<b>> \in Seq(Words) /\ Len(<<b>>) = 1 /\ <<b>>[1] = b
    OBVIOUS
  <2>4. /\ <<b>> \o r \in Seq(Words) /\ Len(<<b>> \o r) = 1 + Len(r) /\ Len(r) \in Nat
        /\ (<<b>> \o r)[1] = b
    BY <2>1, <2>3, ConcatProperties, LenProperties
  <2>5. PICK w \in Seq(Words) : w = <<b>> \o r
    BY <2>4
  <2>6. Head(w) = b /\ Tail(w) = r /\ w # <<>>
    BY <2>1, <2>2, <2>4, <2>5
  <2>7. words = w
    <3>1. normalizeMessageCommand(t) = w
      BY <1>1, <1>4, <2>1, <2>2, <2>5 DEF normalizeMessageCommand
    <3> QED BY <2>5, <3>1, FieldsOfWords
  <2>8. unmentioned(t) = f
    BY <1>1, <1>4 DEF unmentioned, isMention
  <2>9. meant(t) = <<b>> \o r
    <3>1. meant(t) = <<Before[Head(f)]>> \o Tail(f)
      BY <1>4, <2>8, MeantWords, CommandAndRest
    <3> QED BY <2>1, <2>2, <3>1
  <2>10. <<commandIn(w)>> \o restOf(w) = <<b>> \o r
    BY <2>2, <2>6, CommandAndRest
  <2> QED BY <2>5, <2>7, <2>9, <2>10
<1> QED BY <1>2, <1>3, <1>4

LEMMA FeishuMeans ==
  ASSUME NEW t \in Texts, NEW words, words = Fields(extractText(t))
  PROVE  /\ words \in Seq(Words)
         /\ <<commandIn(words)>> \o restOf(words) = meant(t) \/ keepsMention(t)
<1>1. t \in Seq(Symbols) /\ Fields(t) \in Seq(Words)
  BY TextType, FieldsAreWords
<1>2. CASE ~(t # <<>> /\ isMention(Head(t)) /\ spacesIn(t) # {})
  <2>1. words = Fields(t)
    BY <1>2 DEF extractText
  <2>2. ASSUME Fields(t) # <<>>, isMention(Head(Fields(t))), ~keepsMention(t) PROVE FALSE
    <3>1. PICK h \in Words : h = Head(Fields(t)) /\ isMention(h)
      BY <1>1, <2>2, HeadTailProperties
    <3>2. IsPrefix(<<h, Space>>, t)
      BY <2>2, <3>1 DEF keepsMention
    <3>3. /\ <<h, Space>> \in Seq(Symbols) /\ Len(<<h, Space>>) = 2
          /\ <<h, Space>>[1] = h /\ <<h, Space>>[2] = Space
      BY DEF Symbols
    <3>4. Len(t) >= 2 /\ t[1] = h /\ t[2] = Space /\ Len(t) \in Nat
      BY <1>1, <3>2, <3>3, LenProperties DEF IsPrefix
    <3>5. t # <<>> /\ Head(t) = h
      BY <1>1, <3>4
    <3>6. spacesIn(t) # {}
      <4>1. 2 \in DOMAIN t
        BY <1>1, <3>4
      <4> QED BY <3>4, <4>1 DEF spacesIn
    <3> QED BY <1>2, <3>1, <3>5, <3>6
  <2>3. CASE keepsMention(t)
    BY <1>1, <2>1, <2>3
  <2>4. CASE ~keepsMention(t)
    <3>1. unmentioned(t) = Fields(t)
      BY <2>2, <2>4 DEF unmentioned
    <3> QED BY <1>1, <2>1, <3>1, MeantWords
  <2> QED BY <2>3, <2>4
<1>3. CASE t # <<>> /\ isMention(Head(t)) /\ spacesIn(t) # {}
  <2>1. PICK r \in Seq(Symbols), h \in Words : r = Tail(t) /\ h = Head(t) /\ t[1] = h
    <3>1. Head(t) = t[1]
      BY <1>1, <1>3
    <3>2. Head(t) \in Words
      BY <1>3 DEF isMention
    <3> QED BY <1>1, <1>3, <3>1, <3>2, HeadTailProperties
  <2>2. /\ Len(t) \in Nat /\ DOMAIN t = 1..Len(t) /\ h \notin {Space, Line}
        /\ Len(r) \in Nat /\ Len(t) = Len(r) + 1 /\ \A i \in 1..Len(r) : r[i] = t[i + 1]
    BY <1>1, <1>3, <2>1, WordAssumption, HeadTailProperties, LenProperties
  <2>3. /\ Fields(t) = <<h>> \o Fields(r) /\ Fields(r) \in Seq(Words)
    BY <1>1, <1>3, <2>1, <2>2, FieldsFromLeft, FieldsAreWords
  <2>4. PICK g \in Seq(Words) : g = Fields(r)
    BY <2>3
  <2>5. Fields(t) # <<>> /\ Head(Fields(t)) = h /\ Tail(Fields(t)) = g
    <3>1. <<h>> \o g # <<>> /\ Head(<<h>> \o g) = h /\ Tail(<<h>> \o g) = g
      OBVIOUS
    <3> QED BY <2>3, <2>4, <3>1
  <2>6. unmentioned(t) = g
    BY <1>3, <2>1, <2>5 DEF unmentioned
  <2>7. /\ spacesIn(t) \in SUBSET Nat /\ Min(spacesIn(t)) \in spacesIn(t)
        /\ \A i \in spacesIn(t) : Min(spacesIn(t)) <= i
    <3>1. spacesIn(t) \in SUBSET Nat
      BY <2>2 DEF spacesIn
    <3> QED BY <1>3, <3>1, MinOfNaturals
  <2>8. CASE Len(t) >= 2 /\ t[2] = Space
    <3>1. 2 \in spacesIn(t) /\ \A i \in spacesIn(t) : 2 <= i
      BY <2>1, <2>2, <2>8 DEF spacesIn
    <3>2. PICK m \in spacesIn(t) : m = Min(spacesIn(t)) /\ m <= 2
      BY <2>7, <3>1
    <3>3. m = 2
      <4>1. m \in Nat
        BY <2>7
      <4> QED BY <3>1, <3>2, <4>1
    <3>4. extractText(t) = SubSeq(t, 3, Len(t))
      BY <1>3, <3>2, <3>3 DEF extractText
    <3>5. r # <<>> /\ Head(r) = Space
      <4>1. 1 \in 1..Len(r) /\ r[1] = t[2]
        BY <2>2, <2>8
      <4>2. r # <<>>
        BY <4>1
      <4>3. Head(r) = r[1]
        BY <2>1, <4>2
      <4> QED BY <2>8, <4>1, <4>2, <4>3
    <3>6. PICK q \in Seq(Symbols) : q = Tail(r)
      BY <2>1, <3>5, HeadTailProperties
    <3>7. q = SubSeq(t, 3, Len(t))
      BY <1>1, <1>3, <2>1, <2>2, <2>8, <3>5, <3>6
    <3>8. Fields(r) = Fields(q)
      BY <2>1, <3>5, <3>6, FieldsFromLeft
    <3>9. words = g
      BY <2>4, <3>4, <3>7, <3>8
    <3> QED BY <2>4, <2>6, <3>9, MeantWords
  <2>9. CASE ~(Len(t) >= 2 /\ t[2] = Space)
    <3>1. ~IsPrefix(<<h, Space>>, t)
      <4>1. /\ <<h, Space>> \in Seq(Symbols) /\ Len(<<h, Space>>) = 2
            /\ <<h, Space>>[1] = h /\ <<h, Space>>[2] = Space
        BY DEF Symbols
      <4> QED BY <1>1, <2>2, <2>9, <4>1 DEF IsPrefix
    <3>2. keepsMention(t)
      BY <1>3, <2>1, <2>5, <3>1 DEF keepsMention
    <3>3. extractText(t) \in Seq(Symbols)
      <4>1. PICK m \in 1..Len(t) : m = Min(spacesIn(t))
        BY <2>2, <2>7 DEF spacesIn
      <4>2. extractText(t) = SubSeq(t, m + 1, Len(t))
        BY <1>3, <4>1 DEF extractText
      <4>3. \A i \in (m + 1)..Len(t) : t[i] \in Symbols
        BY <1>1, <2>2
      <4> QED BY <2>2, <4>2, <4>3, SubSeqProperties
    <3> QED BY <3>2, <3>3, FieldsAreWords
  <2> QED BY <2>8, <2>9
<1> QED BY <1>2, <1>3

\* What the relay sends always asks to wake, its target or everything.
LEMMA ConsProperties ==
  ASSUME NEW S, NEW h \in S, NEW g \in Seq(S)
  PROVE  /\ <<h>> \o g \in Seq(S) /\ <<h>> \o g # <<>>
         /\ Head(<<h>> \o g) = h /\ Tail(<<h>> \o g) = g
OBVIOUS

LEMMA RelayMeans ==
  ASSUME NEW t \in Texts, NEW words, words = Fields(wakeText(t))
  PROVE  /\ words \in Seq(Words)
         /\ commandIn(words) = On
         /\ restOf(words) = IF Fields(t) = <<>> THEN <<AllWord>> ELSE Fields(t)
<1>1. t \in Seq(Symbols) /\ Fields(t) \in Seq(Words)
  BY TextType, FieldsAreWords
<1>2. PICK target \in Seq(Symbols) :
        /\ target = IF Fields(t) = <<>> THEN <<AllWord>> ELSE t
        /\ Fields(target) = IF Fields(t) = <<>> THEN <<AllWord>> ELSE Fields(t)
  <2>1. <<AllWord>> \in Seq(Words) /\ <<AllWord>> \in Seq(Symbols)
    BY WordAssumption DEF Symbols
  <2>2. Fields(<<AllWord>>) = <<AllWord>>
    BY <2>1, FieldsOfWords
  <2> QED BY <1>1, <2>1, <2>2
<1>3. /\ On \in Words /\ On \notin {Space, Line} /\ Before[On] = On
      /\ On \in Symbols /\ Space \in Symbols
  BY WordAssumption DEF Symbols
<1>4. PICK g \in Seq(Words) : g = Fields(target)
  BY FieldsAreWords
<1>5. PICK s \in Seq(Symbols) : s = <<Space>> \o target
  BY <1>3, ConsProperties
<1>6. s # <<>> /\ Head(s) = Space /\ Tail(s) = target
  BY <1>3, <1>5, ConsProperties
<1>7. Fields(s) = g
  BY <1>4, <1>6, FieldsFromLeft
<1>8. PICK u \in Seq(Symbols) : u = <<On>> \o s
  BY <1>3, ConsProperties
<1>9. u # <<>> /\ Head(u) = On /\ Tail(u) = s
  BY <1>3, <1>8, ConsProperties
<1>10. u = <<On, Space>> \o target
  <2>1. <<On>> \in Seq(Symbols) /\ <<Space>> \in Seq(Symbols)
    BY <1>3
  <2>2. <<On>> \o <<Space>> = <<On, Space>>
    <3>1. /\ Len(<<On>>) = 1 /\ Len(<<Space>>) = 1 /\ Len(<<On, Space>>) = 2
          /\ <<On, Space>> \in Seq(Symbols)
      BY <1>3
    <3>2. /\ <<On>> \o <<Space>> \in Seq(Symbols) /\ Len(<<On>> \o <<Space>>) = 2
          /\ (<<On>> \o <<Space>>)[1] = On /\ (<<On>> \o <<Space>>)[2] = Space
      BY <2>1, <3>1, ConcatProperties
    <3>3. PICK a, b \in Seq(Symbols) : a = <<On>> \o <<Space>> /\ b = <<On, Space>>
      BY <3>1, <3>2
    <3>4. Len(a) = 2 /\ Len(b) = 2 /\ a[1] = On /\ a[2] = Space /\ b[1] = On /\ b[2] = Space
      BY <3>1, <3>2, <3>3
    <3>5. \A i \in 1..2 : a[i] = b[i]
      BY <3>4
    <3> QED BY <3>3, <3>4, <3>5, SeqEqual
  <2> QED BY <1>5, <1>8, <2>1, <2>2, ConcatAssociative
<1>11. Fields(u) = <<On>> \o g
  BY <1>3, <1>7, <1>9, FieldsFromLeft
<1>12. words = <<On>> \o g
  BY <1>2, <1>10, <1>11 DEF wakeText
<1>13. /\ <<On>> \o g \in Seq(Words) /\ <<On>> \o g # <<>>
       /\ Head(<<On>> \o g) = On /\ Tail(<<On>> \o g) = g
  BY <1>3, ConsProperties
<1>14. commandIn(words) = On /\ restOf(words) = g
  BY <1>3, <1>12, <1>13 DEF commandIn, restOf
<1> QED BY <1>2, <1>4, <1>12, <1>13, <1>14

----------------------------------------------------------------------------
\* matchDevice against the rules: it finds the one device that a word
\* designates, or the word does not designate one device.
LEMMA MatchIsDesignated ==
  ASSUME devices \in DeviceLists, NEW w, NEW m, m = matchDevice(devices, w)
  PROVE  /\ m.error = "none" => designated(w) = {m.index} /\ m.index \in DOMAIN devices
         /\ m.error # "none" => /\ m.error \in {"no such number", "ambiguous", "unknown"}
                                /\ Cardinality(designated(w)) # 1
<1> DEFINE equal == equalTo(devices, w)
<1> DEFINE part == partOf(devices, w)
<1>1. PICK k \in Nat : DOMAIN devices = 1..k
  BY WordAssumption, LenProperties
<1>2. /\ equal \in SUBSET (1..k) /\ part \in SUBSET (1..k)
      /\ equal \in SUBSET Nat /\ part \in SUBSET Nat
  BY <1>1 DEF equalTo, partOf
<1>3. IsFiniteSet(equal) /\ IsFiniteSet(part)
  <2>1. IsFiniteSet(1..k)
    BY FS_Interval
  <2> HIDE DEF equal, part
  <2> QED BY <1>2, <2>1, FS_Subset
<1>4. Cardinality({}) = 0 /\ \A x : Cardinality({x}) = 1
  BY FS_EmptySet, FS_Singleton
<1>5. CASE w \in Numeral
  <2>1. CASE Number[w] \in DOMAIN devices
    <3>1. designated(w) = {Number[w]}
      BY <1>5, <2>1 DEF designated
    <3> QED BY <1>5, <2>1, <3>1 DEF matchDevice, found
  <2>2. CASE Number[w] \notin DOMAIN devices
    <3>1. designated(w) = {}
      BY <1>5, <2>2 DEF designated
    <3>2. m = notFound("no such number")
      BY <1>5, <2>2 DEF matchDevice
    <3>3. Cardinality(designated(w)) # 1
      BY <1>4, <3>1
    <3>4. notFound("no such number").error = "no such number"
      BY DEF notFound
    <3> QED BY <3>2, <3>3, <3>4
  <2> QED BY <2>1, <2>2
<1>6. CASE w \notin Numeral /\ equal # {}
  <2>1. PICK i \in equal : i = Min(equal) /\ \A j \in equal : i <= j
    BY <1>2, <1>6, MinOfNaturals
  <2>2. m = found(i)
    BY <1>6, <2>1 DEF matchDevice, matchName
  <2>3. designated(w) = {j \in equal : \A l \in equal : j <= l}
    BY <1>6 DEF designated, equalTo, isEqual
  <2>4. {j \in equal : \A l \in equal : j <= l} = {i}
    <3> SUFFICES ASSUME NEW j \in equal, j <= i PROVE j = i
      BY <2>1
    <3> HIDE DEF equal
    <3>1. i <= j /\ i \in Nat /\ j \in Nat
      BY <1>2, <2>1
    <3> QED BY <3>1
  <2> QED BY <1>1, <1>2, <2>2, <2>3, <2>4 DEF found
<1>7. CASE w \notin Numeral /\ equal = {}
  <2>1. designated(w) = part
    BY <1>7 DEF designated, equalTo, isEqual, partOf, isPart
  <2>2. CASE Cardinality(part) = 1
    <3>1. PICK i : part = {i}
      BY <1>3, <2>2, FS_Singleton
    <3>2. Min(part) = i
      BY <1>2, <3>1, MinOfNaturals
    <3>3. m = found(i)
      BY <1>7, <2>2, <3>2 DEF matchDevice, matchName
    <3> QED BY <1>1, <1>2, <2>1, <3>1, <3>3 DEF found
  <2>3. CASE Cardinality(part) # 1
    <3>1. m \in {notFound("ambiguous"), notFound("unknown")}
      BY <1>7, <2>3 DEF matchDevice, matchName
    <3>2. Cardinality(designated(w)) # 1
      BY <2>1, <2>3
    <3>3. m.error \in {"ambiguous", "unknown"}
      BY <3>1 DEF notFound
    <3> QED BY <3>2, <3>3
  <2> QED BY <2>2, <2>3
<1> QED BY <1>5, <1>6, <1>7

----------------------------------------------------------------------------
Outcomes == {"received", "resolving", "not /on", "ok", "no devices",
             "no such number", "ambiguous", "unknown"}

Types ==
    /\ devices \in DeviceLists /\ text \in Texts
    /\ entry \in {"feishu", "telegram", "relay"}
    /\ args \in Seq(Words)
    /\ next \in Nat \ {0}
    /\ selected \in Seq(Nat)
    /\ outcome \in Outcomes
    /\ packets \in Seq(Nat)

\* What Handle has heard, and that it branched on it.
Heard ==
    /\ outcome = "received" => next = 1 /\ selected = <<>>
    /\ outcome # "received" => args = Fields(textFor(entry, text))
    /\ outcome = "not /on" => command # On
    /\ outcome = "no devices" => devices = <<>>

\* The first n arguments designate one device each, and these are selected, in
\* the order in which they are first named.
Resolved(n) ==
    /\ \A k \in 1..n : Cardinality(designated(targets[k])) = 1
    /\ \A i : i \in ToSet(selected) <=> \E k \in 1..n : i \in designated(targets[k])
    /\ \A i, j \in DOMAIN selected : i < j =>
         \E k \in 1..n : /\ selected[i] \in designated(targets[k])
                         /\ \A l \in 1..k : selected[j] \notin designated(targets[l])

Loop ==
    /\ inLoop => next \in 1..(Len(targets) + 1) /\ Resolved(next - 1)
    /\ outcome = "resolving" /\ ~inLoop => selected = <<>> /\ next = 1
    /\ outcome = "ok" => /\ devices # <<>>
                         /\ asksForAll => selected = [i \in DOMAIN devices |-> i]
                         /\ ~asksForAll => Resolved(Len(targets))
    /\ failed => selected = <<>>
    /\ failed /\ devices # <<>> =>
         /\ ~asksForAll
         /\ \E k \in DOMAIN targets : Cardinality(designated(targets[k])) # 1

\* The packets are for the first devices of the selection, once it is complete.
Sends ==
    /\ outcome # "ok" => packets = <<>>
    /\ Len(packets) <= Len(selected)
    /\ \A n \in 1..Len(packets) : packets[n] = selected[n]

\* Which return an answer to /on is of.
Replies ==
    /\ outcome \in {"received", "resolving"} => answer = None
    /\ failed => answer \in {None, resolveFailed}
    /\ outcome = "ok" =>
         \/ answer = None
         \/ answer = sendFailed /\ Len(packets) < Len(selected)
         \/ /\ Len(packets) = Len(selected)
            /\ answer = IF selected = <<>> THEN nothingSelected ELSE allSent
    /\ answer.lines \in {<<>>, listDevices}

Inv == Types /\ Heard /\ Loop /\ Sends /\ Replies

LEMMA EntriesMean ==
  ASSUME Types, NEW words, words = Fields(textFor(entry, text))
  PROVE  /\ words \in Seq(Words)
         /\ entry = "relay" =>
              /\ commandIn(words) = On
              /\ restOf(words) = IF Fields(text) = <<>> THEN <<AllWord>> ELSE Fields(text)
         /\ entry # "relay" => \/ <<commandIn(words)>> \o restOf(words) = meant(text)
                               \/ entry = "feishu" /\ keepsMention(text)
<1>1. text \in Texts /\ entry \in {"feishu", "telegram", "relay"}
  BY DEF Types
<1>2. CASE entry = "feishu"
  <2>1. words = Fields(extractText(text))
    BY <1>2 DEF textFor
  <2> QED BY <1>1, <1>2, <2>1, FeishuMeans
<1>3. CASE entry = "telegram"
  <2>1. words = Fields(normalizeMessageCommand(text))
    BY <1>3 DEF textFor
  <2> QED BY <1>1, <1>3, <2>1, TelegramMeans
<1>4. CASE entry = "relay"
  <2>1. words = Fields(wakeText(text))
    BY <1>4 DEF textFor
  <2> QED BY <1>1, <1>4, <2>1, RelayMeans
<1> QED BY <1>1, <1>2, <1>3, <1>4

\* The arguments are what is left of the words that Handle sees.
LEMMA TargetsAreRest ==
  ASSUME args \in Seq(Words)
  PROVE  targets = restOf(args) /\ targets \in Seq(Words)
BY HeadTailProperties DEF targets, restOf

LEMMA SameMessage ==
  ASSUME UNCHANGED <<message, args>>
  PROVE  /\ UNCHANGED <<devices, entry, text, args>>
         /\ targets' = targets /\ command' = command /\ listDevices' = listDevices
         /\ asksForAll' = asksForAll
         /\ \A w : designated(w)' = designated(w)
<1>1. UNCHANGED <<devices, entry, text, args>>
  BY DEF message
<1>2. targets' = targets /\ command' = command /\ listDevices' = listDevices
  BY <1>1 DEF targets, command, listDevices
<1>3. asksForAll' = asksForAll
  BY <1>2 DEF asksForAll
<1>4. \A w : designated(w)' = designated(w)
  BY <1>1 DEF designated
<1> QED BY <1>1, <1>2, <1>3, <1>4

LEMMA SameResolved ==
  ASSUME UNCHANGED <<message, args, selected>>, NEW n
  PROVE  Resolved(n)' <=> Resolved(n)
BY SameMessage DEF Resolved

LEMMA NothingSent ==
  ASSUME packets' = <<>>, selected' \in Seq(Nat)
  PROVE  Sends'
<1>1. Len(<<>>) = 0 /\ 1..0 = {} /\ Len(selected') \in Nat
  BY LenProperties
<1> QED BY <1>1 DEF Sends

LEMMA InvInit == Init => Inv
<1> SUFFICES ASSUME Init PROVE Inv
  OBVIOUS
<1>1. <<>> \in Seq(Words) /\ <<>> \in Seq(Nat)
  OBVIOUS
<1>2. Types
  <2>1. args \in Seq(Words) /\ selected \in Seq(Nat) /\ next \in Nat \ {0}
    BY <1>1 DEF Init
  <2>2. outcome \in Outcomes /\ packets \in Seq(Nat)
    BY <1>1 DEF Init, Outcomes
  <2> QED BY <2>1, <2>2 DEF Init, Types
<1>3. Sends
  <2>1. Len(<<>>) = 0 /\ 1..0 = {}
    OBVIOUS
  <2> QED BY <2>1 DEF Init, Sends
<1> QED BY <1>2, <1>3 DEF Init, Inv, Heard, Loop, Replies, inLoop, failed, None

LEMMA HandleStep ==
  ASSUME Inv, Handle
  PROVE  Inv'
<1>1. /\ outcome = "received" /\ next = 1 /\ selected = <<>>
      /\ UNCHANGED <<devices, entry, text, next, selected, packets>>
  BY DEF Handle, Inv, Heard, message
<1>2. PICK words \in Seq(Words) : words = args' /\ words = Fields(textFor(entry, text))
  BY EntriesMean DEF Handle, Inv
<1>3. /\ command' = commandIn(words) /\ targets' = restOf(words) /\ restOf(words) \in Seq(Words)
  BY <1>2, HeadTailProperties DEF command, targets, restOf
<1>4. listDevices' = listDevices
  BY <1>1 DEF listDevices
<1>5. answer = None /\ packets = <<>>
  BY <1>1 DEF Inv, Replies, Sends
<1>8. Sends'
  <2>1. packets' = <<>> /\ selected' \in Seq(Nat)
    BY <1>1, <1>5 DEF Inv, Types
  <2> QED BY <2>1, NothingSent
<1>6. CASE commandIn(words) = On
  <2>1. outcome' = "resolving" /\ answer' = answer
    BY <1>2, <1>6 DEF Handle
  <2>2. Types'
    BY <1>1, <1>2, <2>1 DEF Inv, Types, Outcomes
  <2>3. Heard'
    <3>1. textFor(entry, text)' = textFor(entry, text)
      BY <1>1
    <3> QED BY <1>2, <2>1, <3>1 DEF Heard
  <2>4. Resolved(0)'
    <3>1. selected' = <<>> /\ DOMAIN <<>> = {} /\ 1..0 = {}
      BY <1>1
    <3> QED BY <3>1 DEF Resolved, ToSet
  <2>5. Loop'
    <3>1. Len(targets') \in Nat
      BY <1>3, LenProperties
    <3>2. next' - 1 = 0 /\ next' \in 1..(Len(targets') + 1)
      BY <1>1, <3>1
    <3>3. Resolved(next - 1)'
      BY <2>4, <3>2 DEF Resolved
    <3> QED BY <1>1, <2>1, <3>2, <3>3 DEF Loop, failed
  <2>6. Replies'
    BY <1>1, <1>4, <1>5, <2>1 DEF Replies, None, failed
  <2> QED BY <1>8, <2>2, <2>3, <2>5, <2>6 DEF Inv
<1>7. CASE commandIn(words) # On
  <2>1. /\ outcome' = "not /on"
        /\ \E start \in {"text", "unknown"}, lines \in {<<>>, listDevices} :
             answer' = [start |-> start, lines |-> lines]
    BY <1>2, <1>7 DEF Handle
  <2>2. Types'
    BY <1>1, <1>2, <2>1 DEF Inv, Types, Outcomes
  <2>3. Heard'
    <3>1. textFor(entry, text)' = textFor(entry, text)
      BY <1>1
    <3> QED BY <1>2, <1>3, <1>7, <2>1, <3>1 DEF Heard
  <2>4. Loop'
    BY <2>1 DEF Loop, failed, inLoop
  <2>5. Replies'
    <3>1. PICK start \in {"text", "unknown"}, lines \in {<<>>, listDevices} :
            answer' = [start |-> start, lines |-> lines]
      BY <2>1
    <3>2. answer'.lines = lines /\ answer'.start = start
      BY <3>1
    <3> QED BY <1>4, <2>1, <3>2 DEF Replies, failed
  <2> QED BY <1>8, <2>2, <2>3, <2>4, <2>5 DEF Inv
<1> QED BY <1>6, <1>7

LEMMA NoDevicesStep ==
  ASSUME Inv, NoDevices
  PROVE  Inv'
<1>1. /\ outcome = "resolving" /\ devices = <<>> /\ outcome' = "no devices"
      /\ UNCHANGED <<message, args, next, selected, packets, answer>>
      /\ ~inLoop /\ selected = <<>>
  BY DEF NoDevices, inLoop, Inv, Loop
<1>2. /\ UNCHANGED <<devices, entry, text, args>> /\ command' = command
      /\ listDevices' = listDevices /\ textFor(entry, text)' = textFor(entry, text)
  BY <1>1, SameMessage
<1>3. Types'
  BY <1>1, <1>2 DEF Inv, Types, Outcomes
<1>4. Heard' /\ Loop' /\ Replies'
  BY <1>1, <1>2 DEF Inv, Heard, Loop, Replies, inLoop, failed
<1>5. Sends'
  <2>1. packets' = <<>> /\ selected' \in Seq(Nat)
    BY <1>1 DEF Inv, Types, Sends
  <2> QED BY <2>1, NothingSent
<1> QED BY <1>3, <1>4, <1>5 DEF Inv

LEMMA SelectAllStep ==
  ASSUME Inv, SelectAll
  PROVE  Inv'
<1>1. /\ outcome = "resolving" /\ devices # <<>> /\ asksForAll /\ outcome' = "ok"
      /\ selected' = [i \in DOMAIN devices |-> i]
      /\ UNCHANGED <<message, args, next, packets, answer>>
  BY DEF SelectAll
<1>2. /\ UNCHANGED <<devices, entry, text, args>> /\ command' = command
      /\ listDevices' = listDevices /\ textFor(entry, text)' = textFor(entry, text)
      /\ asksForAll'
  BY <1>1, SameMessage
<1>3. selected' \in Seq(Nat)
  <2>1. PICK k \in Nat : DOMAIN devices = 1..k
    BY WordAssumption, LenProperties DEF Inv, Types
  <2>2. selected' \in [1..k -> Nat]
    BY <1>1, <2>1
  <2> QED BY <2>2
<1>4. Types'
  BY <1>1, <1>2, <1>3 DEF Inv, Types, Outcomes
<1>5. Heard' /\ Loop' /\ Replies'
  BY <1>1, <1>2 DEF Inv, Heard, Loop, Replies, inLoop, failed
<1>6. Sends'
  <2>1. packets' = <<>> /\ selected' \in Seq(Nat)
    BY <1>1, <1>3 DEF Inv, Types, Sends
  <2> QED BY <2>1, NothingSent
<1> QED BY <1>4, <1>5, <1>6 DEF Inv

LEMMA FinishStep ==
  ASSUME Inv, Finish
  PROVE  Inv'
<1>1. /\ inLoop /\ outcome = "resolving" /\ next > Len(targets) /\ outcome' = "ok"
      /\ UNCHANGED <<message, args, next, selected, packets, answer>>
  BY DEF Finish, inLoop
<1>2. /\ UNCHANGED <<devices, entry, text, args>> /\ command' = command
      /\ listDevices' = listDevices /\ textFor(entry, text)' = textFor(entry, text)
      /\ targets' = targets /\ asksForAll' = asksForAll
  BY <1>1, SameMessage
<1>3. Types'
  BY <1>1, <1>2 DEF Inv, Types, Outcomes
<1>4. Resolved(Len(targets))'
  <2>1. Len(targets) \in Nat
    BY TargetsAreRest, LenProperties DEF Inv, Types
  <2>2. PICK n \in Nat : n = Len(targets) /\ next - 1 = n
    BY <1>1, <2>1 DEF Inv, Loop
  <2>3. Resolved(n)
    BY <1>1, <2>2 DEF Inv, Loop
  <2>4. Resolved(n)'
    BY <1>1, <2>3, SameResolved
  <2> QED BY <1>2, <2>2, <2>4 DEF Resolved
<1>5. Heard' /\ Loop' /\ Replies'
  BY <1>1, <1>2, <1>4 DEF Inv, Heard, Loop, Replies, inLoop, failed
<1>6. Sends'
  <2>1. packets' = <<>> /\ selected' \in Seq(Nat)
    BY <1>1 DEF Inv, Types, Sends
  <2> QED BY <2>1, NothingSent
<1> QED BY <1>3, <1>5, <1>6 DEF Inv

\* What the steps of wakeDevices leave alone.
LEMMA SameSelection ==
  ASSUME Inv, UNCHANGED <<message, args, next, selected, outcome>>, packets' \in Seq(Nat)
  PROVE  Types' /\ Heard' /\ Loop' /\ listDevices' = listDevices
<1>2. /\ UNCHANGED <<devices, entry, text, args>> /\ command' = command
      /\ listDevices' = listDevices /\ textFor(entry, text)' = textFor(entry, text)
      /\ targets' = targets /\ asksForAll' = asksForAll
      /\ \A w : designated(w)' = designated(w)
  BY SameMessage
<1>3. Types'
  BY <1>2 DEF Inv, Types
<1>4. Loop'
  <2>1. /\ Resolved(next - 1)' = Resolved(next - 1)
        /\ Resolved(Len(targets))' = Resolved(Len(targets))
    BY <1>2 DEF Resolved
  <2> QED BY <1>2, <2>1 DEF Inv, Loop, inLoop, failed
<1>5. Heard'
  BY <1>2 DEF Inv, Heard
<1> QED BY <1>2, <1>3, <1>4, <1>5

LEMMA RefuseStep ==
  ASSUME Inv, Refuse
  PROVE  Inv'
<1>1. /\ failed /\ answer' = resolveFailed
      /\ UNCHANGED <<message, args, next, selected, outcome, packets>>
  BY DEF Refuse
<1>2. Types' /\ Heard' /\ Loop'
  BY <1>1, SameSelection DEF Inv, Types
<1>3. Sends'
  BY <1>1 DEF Inv, Sends
<1>4. Replies'
  BY <1>1 DEF Replies, failed, resolveFailed
<1> QED BY <1>2, <1>3, <1>4 DEF Inv

LEMMA SendNextStep ==
  ASSUME Inv, SendNext
  PROVE  Inv'
<1>1. /\ outcome = "ok" /\ answer = None /\ Len(packets) < Len(selected)
      /\ packets' = Append(packets, selected[Len(packets) + 1])
      /\ UNCHANGED <<message, args, next, selected, outcome, answer>>
  BY DEF SendNext, sending
<1>2. PICK s \in Seq(Nat) : s = selected
  BY DEF Inv, Types
<1>3. PICK p \in Seq(Nat) : p = packets
  BY DEF Inv, Types
<1>4. Len(p) + 1 \in 1..Len(s) /\ s[Len(p) + 1] \in Nat
  BY <1>1, <1>2, <1>3
<1>5. PICK x \in Nat : x = s[Len(p) + 1]
  BY <1>4
<1>6. /\ Append(p, x) \in Seq(Nat) /\ Len(Append(p, x)) = Len(p) + 1
      /\ \A n \in 1..Len(p) : Append(p, x)[n] = p[n]
      /\ Append(p, x)[Len(p) + 1] = x
  OBVIOUS
<1>7. packets' = Append(p, x)
  BY <1>1, <1>2, <1>3, <1>5
<1>8. Types' /\ Heard' /\ Loop' /\ listDevices' = listDevices
  BY <1>1, <1>6, <1>7, SameSelection
<1>9. Sends'
  <2>1. \A n \in 1..(Len(p) + 1) : n \in 1..Len(p) \/ n = Len(p) + 1
    OBVIOUS
  <2>2. \A n \in 1..Len(p) : p[n] = s[n]
    BY <1>2, <1>3 DEF Inv, Sends
  <2>3. \A n \in 1..(Len(p) + 1) : Append(p, x)[n] = s[n]
    BY <1>5, <1>6, <2>1, <2>2
  <2>4. Len(packets') <= Len(s)
    BY <1>4, <1>6, <1>7
  <2> QED BY <1>1, <1>2, <1>6, <1>7, <2>3, <2>4 DEF Sends
<1>10. Replies'
  BY <1>1, <1>8 DEF Inv, Replies, failed
<1> QED BY <1>8, <1>9, <1>10 DEF Inv

LEMMA EndStep ==
  ASSUME Inv, SendFails \/ FinishSending
  PROVE  Inv'
<1>1. /\ outcome = "ok"
      /\ UNCHANGED <<message, args, next, selected, outcome, packets>>
      /\ \/ answer' = sendFailed /\ Len(packets) < Len(selected)
         \/ /\ Len(packets) = Len(selected)
            /\ answer' = IF selected = <<>> THEN nothingSelected ELSE allSent
  BY DEF SendFails, FinishSending, sending
<1>2. Types' /\ Heard' /\ Loop'
  BY <1>1, SameSelection DEF Inv, Types
<1>3. Sends'
  BY <1>1 DEF Inv, Sends
<1>4. answer'.lines = <<>>
  BY <1>1 DEF sendFailed, nothingSelected, allSent
<1>5. Replies'
  BY <1>1, <1>4 DEF Replies, failed
<1> QED BY <1>2, <1>3, <1>5 DEF Inv

LEMMA QuietStep ==
  ASSUME Inv, UNCHANGED vars
  PROVE  Inv'
<1>1. UNCHANGED <<message, args, next, selected, outcome, packets, answer>>
  BY DEF vars
<1>2. Types' /\ Heard' /\ Loop' /\ listDevices' = listDevices
  BY <1>1, SameSelection DEF Inv, Types
<1>3. Sends' /\ Replies'
  BY <1>1, <1>2 DEF Inv, Sends, Replies, failed
<1> QED BY <1>2, <1>3 DEF Inv

\* A round of the loop: an argument that designates one device adds it, unless
\* it is selected already, and any other gives up.
LEMMA ResolveTargetStep ==
  ASSUME Inv, ResolveTarget
  PROVE  Inv'
<1>1. /\ inLoop /\ outcome = "resolving" /\ next <= Len(targets) /\ next' = next + 1
      /\ devices # <<>> /\ ~asksForAll
      /\ UNCHANGED <<message, args, packets, answer>>
  BY DEF ResolveTarget, inLoop
<1>2. /\ UNCHANGED <<devices, entry, text, args>> /\ command' = command
      /\ listDevices' = listDevices /\ textFor(entry, text)' = textFor(entry, text)
      /\ targets' = targets /\ asksForAll' = asksForAll
      /\ \A w : designated(w)' = designated(w)
  BY <1>1, SameMessage
<1>3. PICK n \in Nat : next = n + 1 /\ Resolved(n)
  <2>1. next - 1 \in Nat /\ next = (next - 1) + 1
    BY DEF Inv, Types
  <2> QED BY <1>1, <2>1 DEF Inv, Loop
<1>4. targets \in Seq(Words) /\ Len(targets) \in Nat /\ DOMAIN targets = 1..Len(targets)
  BY TargetsAreRest, LenProperties DEF Inv, Types
<1>5. n + 1 \in DOMAIN targets
  BY <1>1, <1>3, <1>4
<1>9. ASSUME selected' \in Seq(Nat) PROVE Sends'
  BY <1>1, <1>9, NothingSent DEF Inv, Sends
<1>6. PICK m : m = matchDevice(devices, targets[n + 1])
  OBVIOUS
<1>7. CASE m.error # "none"
  <2>1. selected' = <<>> /\ outcome' = m.error
    BY <1>3, <1>6, <1>7 DEF ResolveTarget
  <2>2. /\ m.error \in {"no such number", "ambiguous", "unknown"}
        /\ Cardinality(designated(targets[n + 1])) # 1
    BY <1>6, <1>7, MatchIsDesignated DEF Inv, Types
  <2>3. Types'
    <3>1. <<>> \in Seq(Nat) /\ next' \in Nat \ {0}
      BY <1>1 DEF Inv, Types
    <3> QED BY <1>1, <1>2, <2>1, <2>2, <3>1 DEF Inv, Types, Outcomes
  <2>4. \E k \in DOMAIN targets' : Cardinality(designated(targets[k]))' # 1
    BY <1>2, <1>5, <2>2
  <2>5. Heard' /\ Loop' /\ Replies'
    BY <1>1, <1>2, <2>1, <2>2, <2>4 DEF Inv, Heard, Loop, Replies, inLoop, failed
  <2>6. Sends'
    <3>1. <<>> \in Seq(Nat)
      OBVIOUS
    <3> QED BY <1>9, <2>1, <3>1
  <2> QED BY <2>3, <2>5, <2>6 DEF Inv
<1>8. CASE m.error = "none"
  <2>1. /\ selected' = IF Contains(selected, m.index) THEN selected
                         ELSE Append(selected, m.index)
        /\ outcome' = outcome
    BY <1>3, <1>6, <1>8 DEF ResolveTarget
  <2>2. designated(targets[n + 1]) = {m.index} /\ m.index \in DOMAIN devices
    BY <1>6, <1>8, MatchIsDesignated DEF Inv, Types
  <2>3. PICK x \in Nat : x = m.index
    <3>1. DOMAIN devices \in SUBSET Nat
      BY WordAssumption, LenProperties DEF Inv, Types
    <3> QED BY <2>2, <3>1
  <2>4. PICK s \in Seq(Nat) : s = selected
    BY DEF Inv, Types
  <2>5. /\ Len(s) \in Nat /\ DOMAIN s = 1..Len(s)
        /\ Append(s, x) \in Seq(Nat) /\ DOMAIN Append(s, x) = 1..(Len(s) + 1)
        /\ \A i \in DOMAIN s : Append(s, x)[i] = s[i]
        /\ Append(s, x)[Len(s) + 1] = x
    OBVIOUS
  <2>6. Contains(s, x) <=> x \in ToSet(s)
    BY <2>5 DEF Contains, ToSet
  <2>7. Types'
    <3>1. selected' \in Seq(Nat)
      BY <2>1, <2>3, <2>4, <2>5
    <3> QED BY <1>1, <1>2, <2>1, <3>1 DEF Inv, Types
  <2>8. \A k \in 1..(n + 1) : Cardinality(designated(targets[k])) = 1
    <3>1. \A k \in 1..(n + 1) : k \in 1..n \/ k = n + 1
      OBVIOUS
    <3>2. Cardinality({m.index}) = 1
      BY FS_Singleton
    <3> QED BY <1>3, <2>2, <3>1, <3>2 DEF Resolved
  <2>9. ToSet(selected') = ToSet(s) \cup {x}
    <3>1. CASE x \in ToSet(s)
      BY <2>1, <2>3, <2>4, <2>6, <3>1
    <3>2. CASE x \notin ToSet(s)
      <4>1. selected' = Append(s, x)
        BY <2>1, <2>3, <2>4, <2>6, <3>2
      <4>2. \A i \in DOMAIN Append(s, x) : i \in DOMAIN s \/ i = Len(s) + 1
        BY <2>5
      <4>3. DOMAIN s \subseteq DOMAIN Append(s, x) /\ Len(s) + 1 \in DOMAIN Append(s, x)
        BY <2>5
      <4> QED BY <2>5, <4>1, <4>2, <4>3 DEF ToSet
    <3> QED BY <3>1, <3>2
  <2>10. \A i : i \in ToSet(selected') <=> \E k \in 1..(n + 1) : i \in designated(targets[k])
    <3>1. \A k : k \in 1..(n + 1) <=> k \in 1..n \/ k = n + 1
      OBVIOUS
    <3>2. \A i : i \in ToSet(s) <=> \E k \in 1..n : i \in designated(targets[k])
      BY <1>3, <2>4 DEF Resolved
    <3> QED BY <2>2, <2>3, <2>9, <3>1, <3>2
  <2>11. ASSUME NEW i \in DOMAIN selected', NEW j \in DOMAIN selected', i < j
         PROVE  \E k \in 1..(n + 1) :
                  /\ selected'[i] \in designated(targets[k])
                  /\ \A l \in 1..k : selected'[j] \notin designated(targets[l])
    <3>1. \A k \in 1..n : k \in 1..(n + 1)
      OBVIOUS
    <3>2. CASE i \in DOMAIN s /\ j \in DOMAIN s
      <4>1. selected'[i] = s[i] /\ selected'[j] = s[j]
        BY <2>1, <2>3, <2>4, <2>5, <3>2
      <4>2. \E k \in 1..n : /\ s[i] \in designated(targets[k])
                            /\ \A l \in 1..k : s[j] \notin designated(targets[l])
        BY <1>3, <2>4, <2>11, <3>2 DEF Resolved
      <4> QED BY <3>1, <4>1, <4>2
    <3>3. CASE ~(i \in DOMAIN s /\ j \in DOMAIN s)
      <4>1. x \notin ToSet(s) /\ selected' = Append(s, x)
        BY <2>1, <2>3, <2>4, <2>6, <3>3
      <4>2. i \in 1..Len(s) /\ j = Len(s) + 1
        <5>1. i \in 1..(Len(s) + 1) /\ j \in 1..(Len(s) + 1)
          BY <2>5, <4>1
        <5> QED BY <2>5, <2>11, <3>3, <5>1
      <4>3. selected'[i] = s[i] /\ selected'[j] = x /\ s[i] \in ToSet(s)
        BY <2>5, <4>1, <4>2 DEF ToSet
      <4>4. PICK k \in 1..n : s[i] \in designated(targets[k])
        BY <1>3, <2>4, <4>3 DEF Resolved
      <4>5. \A l \in 1..k : l \in 1..n
        OBVIOUS
      <4>6. \A l \in 1..n : x \notin designated(targets[l])
        BY <1>3, <2>4, <4>1 DEF Resolved
      <4> QED BY <3>1, <4>3, <4>4, <4>5, <4>6
    <3> QED BY <3>2, <3>3
  <2>12. Resolved(n + 1)'
    BY <1>2, <2>8, <2>10, <2>11 DEF Resolved
  <2>13. Loop'
    <3>1. next' - 1 = n + 1 /\ next' \in 1..(Len(targets') + 1)
      BY <1>1, <1>2, <1>3, <1>4
    <3>2. Resolved(next - 1)'
      BY <2>12, <3>1 DEF Resolved
    <3>3. inLoop'
      BY <1>1, <1>2, <2>1 DEF inLoop
    <3> QED BY <1>1, <2>1, <3>1, <3>2, <3>3 DEF Loop, failed
  <2>14. Heard' /\ Replies'
    BY <1>1, <1>2, <2>1 DEF Inv, Heard, Replies, failed
  <2>15. Sends'
    BY <1>9, <2>7 DEF Types
  <2> QED BY <2>7, <2>13, <2>14, <2>15 DEF Inv
<1> QED BY <1>7, <1>8

LEMMA InvStep == Inv /\ [Next]_vars => Inv'
<1> SUFFICES ASSUME Inv, [Next]_vars PROVE Inv'
  OBVIOUS
<1>1. CASE Handle
  BY <1>1, HandleStep
<1>2. CASE NoDevices
  BY <1>2, NoDevicesStep
<1>3. CASE SelectAll
  BY <1>3, SelectAllStep
<1>4. CASE ResolveTarget
  BY <1>4, ResolveTargetStep
<1>5. CASE Finish
  BY <1>5, FinishStep
<1>6. CASE Refuse
  BY <1>6, RefuseStep
<1>7. CASE SendNext
  BY <1>7, SendNextStep
<1>8. CASE SendFails \/ FinishSending
  BY <1>8, EndStep
<1>9. CASE Answered \/ UNCHANGED vars
  BY <1>9, QuietStep DEF Answered
<1> QED BY <1>1, <1>2, <1>3, <1>4, <1>5, <1>6, <1>7, <1>8, <1>9 DEF Next

----------------------------------------------------------------------------
\* At every argument of /on the selection is what the arguments before it
\* designate (resolveTargets), of the words that were sent (Handle).
THEOREM CommandsInvariant == Spec => []Inv
BY InvInit, InvStep, PTL DEF Spec

\* Every entry gives Handle the command and the arguments that a text means,
\* a mention aside (extractText, normalizeMessageCommand, Client.Run).
THEOREM EntriesAgree == Spec => []CommandIsMeant
<1>1. Inv => CommandIsMeant
  <2> SUFFICES ASSUME Inv, outcome # "received" PROVE CommandIsMeant
    BY DEF CommandIsMeant
  <2>1. PICK words : words = args /\ words = Fields(textFor(entry, text))
    BY DEF Inv, Heard
  <2>2. command = commandIn(words) /\ targets = restOf(words)
    BY <2>1, TargetsAreRest DEF Inv, Types, command
  <2>3. CASE entry = "relay"
    <3>1. /\ command = On
          /\ targets = IF Fields(text) = <<>> THEN <<AllWord>> ELSE Fields(text)
      BY <2>1, <2>2, <2>3, EntriesMean DEF Inv
    <3> QED BY <2>3, <3>1 DEF CommandIsMeant, asksForAll
  <2>4. CASE entry # "relay"
    <3>1. \/ <<command>> \o targets = meant(text)
          \/ entry = "feishu" /\ keepsMention(text)
      BY <2>1, <2>2, <2>4, EntriesMean DEF Inv
    <3> QED BY <2>4, <3>1 DEF CommandIsMeant
  <2> QED BY <2>3, <2>4
<1> QED BY <1>1, CommandsInvariant, PTL

\* /on succeeds exactly if each argument designates one device, and selects
\* these in the order in which they are named (matchDevice, resolveTargets).
THEOREM SelectionIsDesignated == Spec => []SelectsDesignated
<1>1. Inv => SelectsDesignated
  <2> SUFFICES ASSUME Inv PROVE SelectsDesignated
    OBVIOUS
  <2>1. DOMAIN targets = 1..Len(targets)
    BY TargetsAreRest, LenProperties DEF Inv, Types
  <2>2. failed => selected = <<>> /\ packets = <<>> /\ outcome # "ok"
    BY DEF Inv, Loop, Sends, failed
  <2>3. ASSUME failed, devices # <<>>, ~asksForAll
        PROVE  \E k \in DOMAIN targets : Cardinality(designated(targets[k])) # 1
    BY <2>3 DEF Inv, Loop
  <2>4. ASSUME outcome = "ok", devices # <<>>, ~asksForAll
        PROVE  /\ \A k \in DOMAIN targets : Cardinality(designated(targets[k])) = 1
               /\ ToSet(selected) = UNION {designated(targets[k]) : k \in DOMAIN targets}
               /\ \A i, j \in DOMAIN selected : i < j =>
                    \E k \in DOMAIN targets :
                      /\ selected[i] \in designated(targets[k])
                      /\ \A l \in 1..k : selected[j] \notin designated(targets[l])
    <3>1. Resolved(Len(targets))
      BY <2>4 DEF Inv, Loop
    <3>2. \A i : i \in ToSet(selected) <=>
                   \E k \in DOMAIN targets : i \in designated(targets[k])
      BY <2>1, <3>1 DEF Resolved
    <3>3. ToSet(selected) = UNION {designated(targets[k]) : k \in DOMAIN targets}
      BY <3>2
    <3> QED BY <2>1, <3>1, <3>3 DEF Resolved
  <2> QED BY <2>2, <2>3, <2>4 DEF SelectsDesignated
<1> QED BY <1>1, CommandsInvariant, PTL

\* The number that /list shows next to a device selects it, whatever the
\* devices are called (listDevices, matchDevice).
THEOREM ListedNumbers == Spec => []ListedNumberSelects
<1>1. Inv => ListedNumberSelects
  <2> SUFFICES ASSUME Inv, NEW i \in DOMAIN answer.lines, NEW w \in Numeral,
                      Number[w] = answer.lines[i].number
               PROVE  matchDevice(devices, w) = found(i)
    BY DEF ListedNumberSelects
  <2>1. answer.lines = listDevices
    <3>1. DOMAIN <<>> = {}
      OBVIOUS
    <3> QED BY <3>1 DEF Inv, Replies
  <2>2. i \in DOMAIN devices /\ Number[w] = i
    BY <2>1 DEF listDevices
  <2> QED BY <2>2 DEF matchDevice
<1> QED BY <1>1, CommandsInvariant, PTL

\* A selection is complete when it is sent to, names no device twice, and is
\* never empty.
LEMMA SelectionIsWanted ==
  ASSUME Inv, outcome = "ok"
  PROVE  /\ isClear /\ ToSet(selected) = wanted /\ selected # <<>>
         /\ \A i, j \in DOMAIN selected : i < j => selected[i] # selected[j]
<1>1. /\ devices # <<>> /\ Len(devices) \in Nat \ {0} /\ DOMAIN devices = 1..Len(devices)
  <2>1. devices # <<>>
    BY DEF Inv, Loop
  <2>2. devices \in Seq([name : Seq(Words), mac : Words])
    BY WordAssumption DEF Inv, Types
  <2> QED BY <2>1, <2>2, EmptySeq, LenProperties
<1>2. targets \in Seq(Words) /\ DOMAIN targets = 1..Len(targets) /\ Len(targets) \in Nat
  BY TargetsAreRest, LenProperties DEF Inv, Types
<1>3. CASE asksForAll
  <2>1. selected = [i \in DOMAIN devices |-> i]
    BY <1>3 DEF Inv, Loop
  <2>2. ToSet(selected) = DOMAIN devices /\ DOMAIN selected = DOMAIN devices
    BY <2>1 DEF ToSet
  <2>3. 1 \in DOMAIN selected /\ DOMAIN <<>> = {}
    BY <1>1, <2>2
  <2>4. \A i, j \in DOMAIN selected : i < j => selected[i] # selected[j]
    BY <1>1, <2>1, <2>2
  <2> QED BY <1>1, <1>3, <2>2, <2>3, <2>4 DEF wanted, isClear
<1>4. CASE ~asksForAll
  <2>1. Resolved(Len(targets))
    BY <1>4 DEF Inv, Loop
  <2>2. \A i : i \in ToSet(selected) <=>
                 \E k \in DOMAIN targets : i \in designated(targets[k])
    BY <1>2, <2>1 DEF Resolved
  <2>3. ToSet(selected) = wanted
    BY <1>4, <2>2 DEF wanted
  <2>4. isClear
    BY <1>1, <1>2, <2>1 DEF isClear, Resolved
  <2>5. selected # <<>>
    <3>1. targets # <<>>
      BY <1>4 DEF asksForAll
    <3>2. 1 \in DOMAIN targets
      BY <1>2, <3>1, EmptySeq
    <3>3. designated(targets[1]) # {}
      <4>1. Cardinality(designated(targets[1])) = 1
        BY <1>2, <2>1, <3>2 DEF Resolved
      <4>2. Cardinality({}) = 0
        BY FS_EmptySet
      <4> QED BY <4>1, <4>2
    <3>4. ToSet(selected) # {}
      BY <2>2, <3>2, <3>3
    <3>5. ToSet(<<>>) = {}
      BY DEF ToSet
    <3> QED BY <3>4, <3>5
  <2>6. ASSUME NEW i \in DOMAIN selected, NEW j \in DOMAIN selected, i < j
        PROVE  selected[i] # selected[j]
    <3>1. PICK k \in 1..Len(targets) :
            /\ selected[i] \in designated(targets[k])
            /\ \A l \in 1..k : selected[j] \notin designated(targets[l])
      BY <2>1, <2>6 DEF Resolved
    <3>2. k \in 1..k
      BY <1>2
    <3> QED BY <3>1, <3>2
  <2> QED BY <2>3, <2>4, <2>5, <2>6
<1> QED BY <1>3, <1>4

\* The relay client reports ok exactly if the target was clear and each device
\* that it means has been sent a packet (wakeDevices, the wake function of
\* main, Client.Run).
THEOREM OkIsAWake == Spec => []OkTellsWake
<1>1. Inv => OkTellsWake
  <2> SUFFICES ASSUME Inv, entry = "relay", answer # None
               PROVE  reportsOk(answer) <=> isClear /\ ToSet(packets) = wanted
    BY DEF OkTellsWake
  <2>1. outcome # "received" /\ outcome # "resolving"
    BY DEF Inv, Replies
  <2>2. outcome # "not /on"
    <3>1. PICK words : words = args /\ words = Fields(textFor(entry, text))
      BY <2>1 DEF Inv, Heard
    <3>2. command = On
      BY <3>1, EntriesMean DEF Inv, command
    <3> QED BY <3>2 DEF Inv, Heard
  <2>3. outcome = "ok" \/ failed
    BY <2>1, <2>2 DEF Inv, Types, Outcomes, failed
  <2>4. CASE failed
    <3>1. answer = resolveFailed
      BY <2>4 DEF Inv, Replies
    <3>2. ~isClear
      <4>1. CASE devices = <<>>
        BY <4>1 DEF isClear
      <4>2. CASE devices # <<>>
        <5>1. /\ ~asksForAll
              /\ \E k \in DOMAIN targets : Cardinality(designated(targets[k])) # 1
          BY <2>4, <4>2 DEF Inv, Loop
        <5> QED BY <5>1 DEF isClear
      <4> QED BY <4>1, <4>2
    <3> QED BY <3>1, <3>2 DEF reportsOk, resolveFailed
  <2>5. CASE outcome = "ok"
    <3>1. PICK s \in Seq(Nat) : s = selected
      BY DEF Inv, Types
    <3>2. PICK p \in Seq(Nat) : p = packets
      BY DEF Inv, Types
    <3>3. /\ isClear /\ ToSet(s) = wanted /\ s # <<>>
          /\ \A i, j \in DOMAIN s : i < j => s[i] # s[j]
      BY <2>5, <3>1, SelectionIsWanted
    <3>4. /\ Len(p) <= Len(s) /\ \A n \in 1..Len(p) : p[n] = s[n]
          /\ Len(p) \in Nat /\ Len(s) \in Nat
          /\ DOMAIN p = 1..Len(p) /\ DOMAIN s = 1..Len(s)
      BY <3>1, <3>2, LenProperties DEF Inv, Sends
    <3>5. CASE Len(p) < Len(s)
      <4>1. answer = sendFailed
        <5>1. Len(packets) # Len(selected)
          <6>1. PICK a \in Nat, b \in Nat : a = Len(p) /\ b = Len(s)
            BY <3>4
          <6>2. a # b
            BY <3>5, <6>1
          <6> QED BY <3>1, <3>2, <6>1, <6>2
        <5> QED BY <2>5, <5>1 DEF Inv, Replies
      <4>2. Len(p) + 1 \in DOMAIN s
        BY <3>4, <3>5
      <4>3. s[Len(p) + 1] \in ToSet(s)
        BY <4>2 DEF ToSet
      <4>4. s[Len(p) + 1] \notin ToSet(p)
        <5>1. \A n \in 1..Len(p) : n \in DOMAIN s /\ n < Len(p) + 1
          BY <3>4
        <5>2. \A n \in DOMAIN p : p[n] # s[Len(p) + 1]
          BY <3>3, <3>4, <4>2, <5>1
        <5> QED BY <5>2 DEF ToSet
      <4> QED BY <3>2, <3>3, <4>1, <4>3, <4>4 DEF reportsOk, sendFailed
    <3>6. CASE Len(p) = Len(s)
      <4>1. answer = allSent
        <5>1. ~(Len(packets) < Len(selected)) /\ selected # <<>>
          BY <3>1, <3>2, <3>3, <3>4, <3>6
        <5> QED BY <2>5, <5>1 DEF Inv, Replies
      <4>2. ToSet(p) = ToSet(s)
        BY <3>4, <3>6 DEF ToSet
      <4> QED BY <3>2, <3>3, <4>1, <4>2 DEF reportsOk, allSent
    <3>7. Len(p) < Len(s) \/ Len(p) = Len(s)
      <4>1. PICK a \in Nat, b \in Nat : a = Len(p) /\ b = Len(s)
        BY <3>4
      <4>2. a <= b
        BY <3>4, <4>1
      <4>3. a < b \/ a = b
        BY <4>2
      <4> QED BY <4>1, <4>3
    <3> QED BY <3>5, <3>6, <3>7
  <2> QED BY <2>3, <2>4, <2>5
<1> QED BY <1>1, CommandsInvariant, PTL
=============================================================================
