--------------------------- MODULE HotTierProofs ---------------------------
(***************************************************************************)
(* Proofs about the hot tier, for any number of blob files of any size, of *)
(* GET handlers and of promotions, and any capacity.                       *)
(***************************************************************************)
EXTENDS HotTier, FiniteSetTheorems, SequenceTheorems, WellFoundedInduction, TLAPS

-----------------------------------------------------------------------------
(* Lists and sizes *)

Distinct(s) == \A i, j \in 1..Len(s) : s[i] = s[j] => i = j

\* Taking the element of n out of the list leaves the others, each once.
LEMMA WithoutIsList ==
  ASSUME lru \in Seq(Names), Distinct(lru), NEW n
  PROVE  /\ Without(n) \in Seq(Names) /\ Distinct(Without(n))
         /\ Listed(Without(n)) = Entries \ {n}
<1>1. CASE n \notin Entries
  BY <1>1 DEF Without, Entries
<1>2. CASE n \in Entries
  <2> DEFINE e == CHOOSE i \in 1..Len(lru) : lru[i] = n
  <2>1. e \in 1..Len(lru) /\ lru[e] = n
    BY <1>2 DEF Entries, Listed
  <2>2. Without(n) = SubSeq(lru, 1, e - 1) \o SubSeq(lru, e + 1, Len(lru))
    BY <1>2 DEF Without
  <2> HIDE DEF e
  <2> DEFINE s == SubSeq(lru, 1, e - 1) \o SubSeq(lru, e + 1, Len(lru))
  <2>3. Len(lru) \in Nat
    OBVIOUS
  <2>4. /\ SubSeq(lru, 1, e - 1) \in Seq(Names) /\ Len(SubSeq(lru, 1, e - 1)) = e - 1
        /\ \A j \in 1..(e - 1) : SubSeq(lru, 1, e - 1)[j] = lru[j]
    BY <2>1, <2>3
  <2>5. /\ SubSeq(lru, e + 1, Len(lru)) \in Seq(Names)
        /\ Len(SubSeq(lru, e + 1, Len(lru))) = Len(lru) - e
        /\ \A j \in 1..(Len(lru) - e) : SubSeq(lru, e + 1, Len(lru))[j] = lru[e + j]
    BY <2>1, <2>3
  <2>6. /\ s \in Seq(Names) /\ Len(s) = Len(lru) - 1
        /\ \A j \in 1..(Len(lru) - 1) : s[j] = IF j < e THEN lru[j] ELSE lru[j + 1]
    <3> DEFINE a == SubSeq(lru, 1, e - 1)
               b == SubSeq(lru, e + 1, Len(lru))
    <3>1. /\ a \in Seq(Names) /\ b \in Seq(Names) /\ s = a \o b
          /\ Len(a) = e - 1 /\ Len(b) = Len(lru) - e
          /\ \A j \in 1..(e - 1) : a[j] = lru[j]
          /\ \A j \in 1..(Len(lru) - e) : b[j] = lru[e + j]
      BY <2>4, <2>5
    <3> HIDE DEF a, b, s
    <3>2. /\ s \in Seq(Names) /\ Len(s) = Len(a) + Len(b)
          /\ \A j \in 1..(Len(a) + Len(b)) : s[j] = IF j <= Len(a) THEN a[j] ELSE b[j - Len(a)]
      BY ONLY <3>1, ConcatProperties
    <3>3. Len(s) = Len(lru) - 1
      BY <2>1, <2>3, <3>1, <3>2
    <3>4. ASSUME NEW j \in 1..(Len(lru) - 1)
          PROVE  s[j] = IF j < e THEN lru[j] ELSE lru[j + 1]
      <4>1. CASE j < e
        <5>1. j \in 1..(e - 1) /\ j <= Len(a) /\ j \in 1..(Len(a) + Len(b))
          BY <2>1, <2>3, <3>1, <4>1
        <5> QED
          BY <3>1, <3>2, <4>1, <5>1
      <4>2. CASE ~(j < e)
        <5>1. /\ j - Len(a) \in 1..(Len(lru) - e) /\ ~(j <= Len(a))
              /\ j \in 1..(Len(a) + Len(b)) /\ e + (j - Len(a)) = j + 1
          BY <2>1, <2>3, <3>1, <4>2
        <5>2. s[j] = b[j - Len(a)]
          BY <3>2, <5>1
        <5>3. b[j - Len(a)] = lru[e + (j - Len(a))]
          BY <3>1, <5>1
        <5> QED
          BY <4>2, <5>1, <5>2, <5>3
      <4> QED
        BY <4>1, <4>2
    <3> QED
      BY <3>2, <3>3, <3>4
  <2> HIDE DEF s
  <2>7. Distinct(s)
    BY <2>1, <2>3, <2>6 DEF Distinct
  <2>8. ASSUME NEW m \in Listed(s)
        PROVE  m \in Entries \ {n}
    <3>1. PICK j \in 1..(Len(lru) - 1) : m = s[j]
      BY <2>6, <2>8 DEF Listed
    <3>2. PICK i \in 1..Len(lru) : i # e /\ m = lru[i]
      BY <2>1, <2>3, <2>6, <3>1
    <3> QED
      BY <2>1, <3>2 DEF Entries, Listed, Distinct
  <2>9. ASSUME NEW m \in Entries \ {n}
        PROVE  m \in Listed(s)
    <3>1. PICK i \in 1..Len(lru) : m = lru[i]
      BY <2>9 DEF Entries, Listed
    <3>2. i # e
      BY <2>1, <2>9, <3>1
    <3>3. CASE i < e
      BY <2>1, <2>3, <2>6, <3>1, <3>3 DEF Listed
    <3>4. CASE i > e
      <4>1. i - 1 \in 1..(Len(lru) - 1) /\ s[i - 1] = lru[i]
        BY <2>1, <2>3, <2>6, <3>4
      <4> QED
        BY <2>6, <3>1, <4>1 DEF Listed
    <3> QED
      BY <2>1, <3>2, <3>3, <3>4
  <2> QED
    BY <2>2, <2>6, <2>7, <2>8, <2>9 DEF s
<1> QED
  BY <1>1, <1>2

\* Moving or pushing n to the front lists n and the others, each once.
LEMMA FrontIsList ==
  ASSUME lru \in Seq(Names), Distinct(lru), NEW n \in Names
  PROVE  /\ ToFront(n) \in Seq(Names) /\ Distinct(ToFront(n))
         /\ Listed(ToFront(n)) = Entries \cup {n}
<1> DEFINE s == Without(n)
           t == ToFront(n)
<1>1. s \in Seq(Names) /\ Distinct(s) /\ Listed(s) = Entries \ {n}
  BY WithoutIsList
<1>2. t = <<n>> \o s
  BY DEF ToFront
<1> HIDE DEF s, t
<1>3. Len(s) \in Nat
  BY <1>1
<1>4. /\ t \in Seq(Names) /\ Len(t) = Len(s) + 1
      /\ t[1] = n /\ \A j \in 2..(Len(s) + 1) : t[j] = s[j - 1]
  BY <1>1, <1>2, <1>3
<1>5. \A j \in 1..Len(s) : s[j] # n
  BY <1>1 DEF Listed
<1>6. Distinct(t)
  <2> SUFFICES ASSUME NEW i \in 1..Len(t), NEW j \in 1..Len(t), t[i] = t[j]
               PROVE  i = j
    BY DEF Distinct
  <2>1. /\ i # 1 => i - 1 \in 1..Len(s) /\ t[i] = s[i - 1]
        /\ j # 1 => j - 1 \in 1..Len(s) /\ t[j] = s[j - 1]
    BY <1>3, <1>4
  <2>2. CASE i # 1 /\ j # 1
    <3>1. i - 1 = j - 1
      BY <1>1, <2>1, <2>2 DEF Distinct
    <3> QED
      BY <3>1, <1>3, <1>4
  <2> QED
    BY <1>4, <1>5, <2>1, <2>2
<1>7. ASSUME NEW m \in Listed(t)
      PROVE  m \in Listed(s) \cup {n}
  <2>1. PICK j \in 1..(Len(s) + 1) : m = t[j]
    BY <1>4, <1>7 DEF Listed
  <2>2. CASE j = 1
    BY <1>4, <2>1, <2>2
  <2>3. CASE j # 1
    <3>1. j - 1 \in 1..Len(s) /\ m = s[j - 1]
      BY <1>3, <1>4, <2>1, <2>3
    <3> QED
      BY <3>1 DEF Listed
  <2> QED
    BY <2>2, <2>3
<1>8. ASSUME NEW m \in Listed(s)
      PROVE  m \in Listed(t)
  <2>1. PICK j \in 1..Len(s) : m = s[j]
    BY <1>8 DEF Listed
  <2>2. j + 1 \in 1..Len(t) /\ m = t[j + 1]
    BY <1>3, <1>4, <2>1
  <2> QED
    BY <2>2 DEF Listed
<1>9. n \in Listed(t)
  <2>1. 1 \in 1..Len(t) /\ t[1] = n
    BY <1>3, <1>4
  <2> QED
    BY <2>1 DEF Listed
<1>10. Listed(t) = Listed(s) \cup {n}
  BY <1>7, <1>8, <1>9
<1> QED
  BY <1>1, <1>4, <1>6, <1>10 DEF t

\* The account of a set of files: their bytes are finitely many, u of them.
Sized(S, u) == IsFiniteSet(BytesOf(S)) /\ u = Cardinality(BytesOf(S))

\* The bytes of one file are as many as its size.
LEMMA OnesBytes ==
  ASSUME NEW n \in Names
  PROVE  Sized({n}, SizeOf[n]) /\ SizeOf[n] \in Nat
<1> DEFINE k == SizeOf[n]
<1>1. k \in Nat
  BY HotTierAssumption
<1>2. BytesOf({n}) = {n} \X (1..k)
  BY DEF BytesOf
<1> HIDE DEF k
<1>3. IsFiniteSet(1..k) /\ Cardinality(1..k) = k
  BY <1>1, FS_Interval
<1>4. IsFiniteSet({n}) /\ Cardinality({n}) = 1
  BY FS_Singleton
<1>5. /\ IsFiniteSet({n} \X (1..k))
      /\ Cardinality({n} \X (1..k)) = Cardinality({n}) * Cardinality(1..k)
  BY ONLY <1>3, <1>4, FS_Product
<1>6. Cardinality({n} \X (1..k)) = k
  BY <1>1, <1>3, <1>4, <1>5
<1>7. Sized({n}, k)
  BY <1>2, <1>5, <1>6 DEF Sized
<1> QED
  BY <1>1, <1>7 DEF k

\* Sizes of disjoint sets of files add up.
LEMMA BytesAdd ==
  ASSUME NEW S \in SUBSET Names, NEW T \in SUBSET Names, S \cap T = {},
         NEW u, NEW v, Sized(S, u), Sized(T, v)
  PROVE  Sized(S \cup T, u + v) /\ u \in Nat /\ v \in Nat
<1> DEFINE B == BytesOf(S)
           C == BytesOf(T)
<1>1. BytesOf(S \cup T) = B \cup C /\ B \cap C = {}
  BY DEF BytesOf
<1>2. IsFiniteSet(B) /\ IsFiniteSet(C) /\ u = Cardinality(B) /\ v = Cardinality(C)
  BY DEF Sized
<1> HIDE DEF B, C
<1>3. /\ IsFiniteSet(B \cup C)
      /\ Cardinality(B \cup C) = Cardinality(B) + Cardinality(C) - Cardinality(B \cap C)
  BY ONLY <1>2, FS_Union
<1>4. Cardinality(B \cap C) = 0 /\ Cardinality(B) \in Nat /\ Cardinality(C) \in Nat
  BY <1>1, <1>2, FS_EmptySet, FS_CardinalityType
<1>5. Cardinality(B \cup C) = u + v
  BY <1>2, <1>3, <1>4
<1> QED
  BY <1>1, <1>2, <1>3, <1>4, <1>5 DEF Sized

\* Sets of files of a sized one are sized.
LEMMA BytesSub ==
  ASSUME NEW S, NEW u, NEW T \in SUBSET S, Sized(S, u)
  PROVE  Sized(T, Bytes(T))
<1>1. BytesOf(T) \in SUBSET BytesOf(S)
  BY DEF BytesOf
<1>2. IsFiniteSet(BytesOf(T))
  BY <1>1, FS_Subset DEF Sized
<1> QED
  BY <1>2 DEF Sized, Bytes

\* No files have no bytes.
LEMMA NoBytes == Sized({}, 0)
<1>1. BytesOf({}) = {}
  BY DEF BytesOf
<1> QED
  BY <1>1, FS_EmptySet DEF Sized

\* A set of numbers up to n has a greatest one.
LEMMA MaxIsMember ==
  ASSUME NEW n \in Nat, NEW S \in SUBSET (0..n), S # {}
  PROVE  Max(S) \in S
<1> DEFINE T == {m \in 0..n : n - m \in S}
<1>1. T \subseteq Nat /\ T # {}
  <2>1. PICK s \in S : TRUE
    OBVIOUS
  <2>2. n - s \in 0..n /\ n - (n - s) = s
    BY <2>1
  <2>3. n - s \in T
    BY <2>2
  <2> QED
    BY <2>3
<1>2. PICK m \in T : \A y \in T : <<y, m>> \notin OpToRel(<, Nat)
  BY <1>1, NatLessThanWellFounded, WFMin
<1>3. \A y \in T : ~(y < m)
  BY <1>1, <1>2 DEF OpToRel
<1>4. n - m \in S
  OBVIOUS
<1>5. ASSUME NEW y \in S
      PROVE  n - m >= y
  <2>1. y \in 0..n /\ m \in 0..n
    OBVIOUS
  <2>2. n - y \in 0..n /\ n - (n - y) = y
    BY <2>1
  <2>3. n - y \in T
    BY <2>2
  <2>4. ~(n - y < m)
    BY <1>3, <2>3
  <2> QED
    BY <2>1, <2>4
<1> QED
  BY <1>4, <1>5 DEF Max

-----------------------------------------------------------------------------
(* What each operation of hotIndex does to the index *)

\* The index is a list without repetitions, and usage its size.
IndexInv == lru \in Seq(Names) /\ Distinct(lru) /\ Sized(Entries, usage)

\* What a step may do to the index.
IndexStep == \/ UNCHANGED index
             \/ \E n \in Names : (Touch(n) /\ UNCHANGED usage) \/ Add(n) \/ Remove(n)
             \/ \E g \in Workers : EvictLRU(g)

\* touch changes no sizes.
LEMMA TouchKeepsIndex ==
  ASSUME IndexInv, NEW n \in Names, Touch(n), UNCHANGED usage
  PROVE  IndexInv' /\ Entries' = Entries
<1>1. CASE n \in Entries
  <2>1. lru' = ToFront(n)
    BY <1>1 DEF Touch
  <2>2. lru' \in Seq(Names) /\ Distinct(lru') /\ Listed(lru') = Entries
    BY <1>1, <2>1, FrontIsList DEF IndexInv
  <2>3. Entries' = Entries
    BY <2>2 DEF Entries
  <2>4. Sized(Entries', usage')
    BY <2>3 DEF IndexInv
  <2> QED
    BY <2>2, <2>3, <2>4 DEF IndexInv, Sized, BytesOf, Distinct
<1>2. CASE n \notin Entries
  <2>1. lru' = lru
    BY <1>2 DEF Touch
  <2> QED
    BY <2>1 DEF IndexInv, Entries, Sized, BytesOf, Listed, Distinct
<1> QED
  BY <1>1, <1>2

\* add counts a new entry, and only a new one.
LEMMA AddKeepsIndex ==
  ASSUME IndexInv, NEW n \in Names, Add(n)
  PROVE  IndexInv' /\ Entries' = Entries \cup {n}
<1>1. lru' \in Seq(Names) /\ Distinct(lru') /\ Listed(lru') = Entries \cup {n}
  BY FrontIsList DEF IndexInv, Add
<1>2. Entries' = Entries \cup {n}
  BY <1>1 DEF Entries
<1>3. Entries \in SUBSET Names
  BY DEF IndexInv, Entries, Listed
<1>4. usage \in Nat
  BY FS_CardinalityType DEF IndexInv, Sized
<1>5. Sized(Entries \cup {n}, usage')
  <2>1. CASE n \in Entries
    <3>1. usage' = usage /\ Entries \cup {n} = Entries
      BY <1>4, <2>1 DEF Add
    <3> QED
      BY <3>1 DEF IndexInv
  <2>2. CASE n \notin Entries
    <3>1. usage' = usage + SizeOf[n]
      BY <2>2 DEF Add
    <3>2. Entries \cap {n} = {} /\ {n} \in SUBSET Names
      BY <2>2
    <3>3. Sized(Entries, usage) /\ Sized({n}, SizeOf[n])
      BY OnesBytes DEF IndexInv
    <3>4. Sized(Entries \cup {n}, usage + SizeOf[n])
      BY <1>3, <3>2, <3>3, BytesAdd
    <3> QED
      BY <3>1, <3>4
  <2> QED
    BY <2>1, <2>2
<1> QED
  BY <1>1, <1>2, <1>5 DEF IndexInv, Sized, BytesOf, Distinct

\* remove gives the size of the entry back.
LEMMA RemoveKeepsIndex ==
  ASSUME IndexInv, NEW n \in Names, Remove(n)
  PROVE  IndexInv' /\ Entries' = Entries \ {n} /\ usage' <= usage
<1>1. lru' \in Seq(Names) /\ Distinct(lru') /\ Listed(lru') = Entries \ {n}
  BY WithoutIsList DEF IndexInv, Remove
<1>2. Entries' = Entries \ {n}
  BY <1>1 DEF Entries
<1>3. Entries \in SUBSET Names
  BY DEF IndexInv, Entries, Listed
<1>4. usage \in Nat /\ SizeOf[n] \in Nat
  BY FS_CardinalityType, OnesBytes DEF IndexInv, Sized
<1>5. Sized(Entries \ {n}, usage') /\ usage' <= usage
  <2>1. CASE n \notin Entries
    <3>1. usage' = usage /\ Entries \ {n} = Entries
      BY <1>4, <2>1 DEF Remove
    <3>2. usage' <= usage
      BY <1>4, <3>1
    <3>3. Sized(Entries, usage)
      BY DEF IndexInv
    <3> QED
      BY <3>1, <3>2, <3>3
  <2>2. CASE n \in Entries
    <3> DEFINE R == Entries \ {n}
               b == Bytes(R)
    <3>1. usage' = usage - SizeOf[n]
      BY <2>2 DEF Remove
    <3>2. R \cap {n} = {} /\ {n} \in SUBSET Names /\ R \in SUBSET Names /\ R \cup {n} = Entries
          /\ R \in SUBSET Entries
      BY <1>3, <2>2
    <3>3. Sized(R, b) /\ Sized({n}, SizeOf[n])
      <4>1. Sized(R, Bytes(R))
        BY ONLY <3>2, IndexInv, BytesSub DEF IndexInv
      <4> QED
        BY <4>1, OnesBytes
    <3> HIDE DEF R, b
    <3>4. Sized(R \cup {n}, b + SizeOf[n]) /\ b \in Nat
      BY <3>2, <3>3, BytesAdd
    <3>5. usage = b + SizeOf[n]
      BY <3>2, <3>4 DEF IndexInv, Sized
    <3>6. usage' = b /\ usage' <= usage
      BY <1>4, <3>1, <3>4, <3>5
    <3> QED
      BY <3>3, <3>6 DEF R
  <2> QED
    BY <2>1, <2>2
<1> QED
  BY <1>1, <1>2, <1>5 DEF IndexInv, Sized, BytesOf, Distinct

\* evictLRU takes whole entries from the end of the list, gives back exactly
\* their sizes, and gets down to its target.
LEMMA EvictKeepsIndex ==
  ASSUME IndexInv, NEW g, EvictLRU(g)
  PROVE  IndexInv' /\ usage' <= HotCap
<1> DEFINE target == (HotCap * 95) \div 100
           k == Kept(target)
           K == {lru[i] : i \in 1..k}
           V == {lru[i] : i \in (k + 1)..Len(lru)}
           c == Bytes(K)
           v == Bytes(V)
<1>1. target \in Nat /\ target <= HotCap
  BY HotTierAssumption
<1>2. Len(lru) \in Nat
  BY DEF IndexInv
<1>3. lru' = SubSeq(lru, 1, k) /\ usage' = usage - v
  BY DEF EvictLRU
<1> HIDE DEF target
<1>4. k \in 0..Len(lru) /\ c <= target
  <2> DEFINE S == {i \in 0..Len(lru) : Bytes({lru[j] : j \in 1..i}) <= target}
  <2>1. {lru[j] : j \in 1..0} = {}
    OBVIOUS
  <2>2. Bytes({lru[j] : j \in 1..0}) = 0
    BY <2>1, NoBytes DEF Bytes, Sized
  <2>3. 0 \in S
    BY <1>1, <1>2, <2>2
  <2>4. k = Max(S)
    BY DEF Kept
  <2> HIDE DEF k
  <2>5. S \in SUBSET (0..Len(lru)) /\ S # {}
    BY <2>3
  <2>6. k \in S
    <3> HIDE DEF S
    <3> QED
      BY <1>2, <2>4, <2>5, MaxIsMember
  <2> QED
    BY <2>6
<1> HIDE DEF k
<1>5. K \cup V = Entries /\ K \cap V = {} /\ Entries \in SUBSET Names
  <2>1. ASSUME NEW n \in Entries
        PROVE  n \in K \cup V
    <3>1. PICK i \in 1..Len(lru) : n = lru[i]
      BY <2>1 DEF Entries, Listed
    <3>2. CASE i <= k
      <4>1. i \in 1..k
        BY <1>2, <1>4, <3>1, <3>2
      <4> QED
        BY <3>1, <4>1
    <3>3. CASE ~(i <= k)
      <4>1. i \in (k + 1)..Len(lru)
        BY <1>2, <1>4, <3>1, <3>3
      <4> QED
        BY <3>1, <4>1
    <3> QED
      BY <3>2, <3>3
  <2>2. 1..k \subseteq 1..Len(lru) /\ (k + 1)..Len(lru) \subseteq 1..Len(lru)
    BY <1>2, <1>4
  <2>3. K \subseteq Entries /\ V \subseteq Entries
    BY <2>2 DEF Entries, Listed
  <2>4. ASSUME NEW n \in K, n \in V
        PROVE  FALSE
    <3>1. PICK i \in 1..k : n = lru[i]
      BY <2>4
    <3>2. PICK j \in (k + 1)..Len(lru) : n = lru[j]
      BY <2>4
    <3>3. i = j
      BY <2>2, <3>1, <3>2 DEF IndexInv, Distinct
    <3> QED
      BY <1>2, <1>4, <3>1, <3>2, <3>3
  <2>5. Entries \in SUBSET Names
    BY DEF IndexInv, Entries, Listed
  <2> QED
    BY <2>1, <2>3, <2>4, <2>5
<1>6. lru' \in Seq(Names) /\ Len(lru') = k /\ \A i \in 1..k : lru'[i] = lru[i]
  BY <1>2, <1>3, <1>4 DEF IndexInv
<1>7. Listed(lru') = K
  BY <1>6 DEF Listed
<1>8. Distinct(lru')
  BY <1>2, <1>4, <1>6 DEF IndexInv, Distinct
<1>9. Sized(K, c) /\ Sized(V, v)
  BY <1>5, BytesSub DEF IndexInv
<1> HIDE DEF K, V, c, v
<1>10. Sized(K \cup V, c + v) /\ c \in Nat /\ v \in Nat
  BY <1>5, <1>9, BytesAdd
<1>11. usage = c + v
  BY <1>5, <1>10 DEF IndexInv, Sized
<1>12. usage' = c
  BY <1>3, <1>10, <1>11
<1>13. Entries' = K
  BY <1>7 DEF Entries
<1>14. Sized(Entries', usage')
  BY <1>9, <1>12, <1>13
<1>15. usage' <= HotCap
  BY <1>1, <1>4, <1>10, <1>12, HotTierAssumption
<1> QED
  BY <1>6, <1>8, <1>14, <1>15 DEF IndexInv, Sized, BytesOf, Distinct

\* So the index stays exact whatever operation comes next.
LEMMA IndexStay ==
  ASSUME IndexInv, IndexStep
  PROVE  IndexInv'
<1>1. CASE UNCHANGED index
  BY <1>1 DEF index, IndexInv, Entries, Sized, BytesOf, Listed, Distinct
<1>2. CASE \E n \in Names : (Touch(n) /\ UNCHANGED usage) \/ Add(n) \/ Remove(n)
  BY <1>2, TouchKeepsIndex, AddKeepsIndex, RemoveKeepsIndex
<1>3. CASE \E g \in Workers : EvictLRU(g)
  BY <1>3, EvictKeepsIndex
<1> QED
  BY <1>1, <1>2, <1>3 DEF IndexStep

-----------------------------------------------------------------------------
(* Types, and where each goroutine can be *)

\* A GET handler is at one of its steps, about a blob file.
ReaderAt(r) == /\ w[r].pc \in {"idle", "openMain", "drop", "try"}
               /\ IF w[r].pc = "idle" THEN w[r] = Idle ELSE w[r].name \in Names

\* So is a promotion, from its start until it is unregistered.
PromoterAt(g) == /\ w[g].pc \in {"idle", "open", "copy", "add", "check", "evict", "unlink", "end"}
                 /\ IF w[g].pc = "idle" THEN w[g] = Idle ELSE w[g].name \in Names

FlusherAt == /\ w[Flusher].pc \in {"idle", "add", "check", "evict", "unlink"}
             /\ w[Flusher].pc = "add" => w[Flusher].name \in Names

CleanerAt == /\ w[Cleaner].pc \in {"idle", "check", "evict", "unlink", "dropHot", "unlinkHot"}
             /\ IF w[Cleaner].pc \in {"dropHot", "unlinkHot"}
                THEN w[Cleaner].name \in Names
                ELSE w[Cleaner].name = NoName

\* The index is not ready before the scan is over.
ScannerAt == /\ w[Scanner].pc \in {"walk", "idle", "check", "evict", "unlink"}
             /\ w[Scanner].pc = "walk" => ~ready

Roles == /\ \A r \in Readers : ReaderAt(r)
         /\ \A g \in Promoters : PromoterAt(g)
         /\ FlusherAt /\ CleanerAt /\ ScannerAt

Base == TypeOK /\ Roles /\ IndexInv

State == [pc : PCs, name : Names \cup {NoName}, vict : SUBSET Names]

\* The goroutines are different ones.
LEMMA Apart ==
  /\ Flusher # Cleaner /\ Flusher # Scanner /\ Cleaner # Scanner
  /\ Flusher \in Workers /\ Cleaner \in Workers /\ Scanner \in Workers
  /\ \A r \in Readers : /\ r \in Workers /\ r \notin Promoters
                        /\ r # Flusher /\ r # Cleaner /\ r # Scanner
  /\ \A g \in Promoters : /\ g \in Workers /\ g \notin Readers
                          /\ g # Flusher /\ g # Cleaner /\ g # Scanner
BY HotTierAssumption DEF Workers, Flusher, Cleaner, Scanner

\* A goroutine takes one step of its own.
Moves(g, st) == w' = [w EXCEPT ![g] = st] /\ st \in State

\* Where a step leads its goroutine.
LEMMA OneMoves ==
  ASSUME w \in [Workers -> State], NEW g \in Workers, NEW st, Moves(g, st)
  PROVE  /\ w' \in [Workers -> State] /\ w'[g] = st
         /\ \A h \in Workers \ {g} : w'[h] = w[h]
BY DEF Moves

\* A step of one goroutine that leaves ready alone, or sets it at the end of the
\* scan, keeps the others where they can be.
LEMMA RolesOfOthers ==
  ASSUME Roles, NEW g \in Workers, \A h \in Workers \ {g} : w'[h] = w[h],
         ready' = ready \/ g = Scanner
  PROVE  /\ \A r \in Readers \ {g} : ReaderAt(r)'
         /\ \A h \in Promoters \ {g} : PromoterAt(h)'
         /\ g # Flusher => FlusherAt'
         /\ g # Cleaner => CleanerAt'
         /\ g # Scanner => ScannerAt'
<1>1. ASSUME NEW r \in Readers \ {g}
      PROVE  ReaderAt(r)'
  BY <1>1, Apart DEF Roles, ReaderAt, Idle, At
<1>2. ASSUME NEW h \in Promoters \ {g}
      PROVE  PromoterAt(h)'
  BY <1>2, Apart DEF Roles, PromoterAt, Idle, At
<1>3. ASSUME g # Flusher
      PROVE  FlusherAt'
  BY <1>3, Apart DEF Roles, FlusherAt
<1>4. ASSUME g # Cleaner
      PROVE  CleanerAt'
  BY <1>4, Apart DEF Roles, CleanerAt
<1>5. ASSUME g # Scanner
      PROVE  ScannerAt'
  BY <1>5, Apart DEF Roles, ScannerAt
<1> QED
  BY <1>1, <1>2, <1>3, <1>4, <1>5

-----------------------------------------------------------------------------
(* The inductive invariant *)

\* The scan's own state.
ScanState == [todo : SUBSET Names, seen : SUBSET Names, dropped : SUBSET Names]

\* Each promotion under way is registered, for its own name, and nothing else is.
Registered ==
  /\ \A g \in Promoters : w[g].name \in Names => w[g].name \in inflight
  /\ \A g, h \in Promoters : w[g].name \in Names /\ w[g].name = w[h].name => g = h
  /\ \A n \in inflight : \E g \in Promoters : w[g].name = n

\* While the scan runs nobody installs a file or evicts an entry, and a hot file
\* is yet to be visited, recorded or indexed, unless a GET dropped its entry or
\* removeFromHot is at it.
Walk ==
  ~ready =>
    /\ \A g \in Workers : w[g].pc \notin {"open", "copy", "add", "evict"}
    /\ w[Scanner].pc = "walk" =>
         hotFile \subseteq scanned.todo \cup scanned.seen \cup scanned.dropped
                            \cup Entries \cup {w[Cleaner].name}

HotInv == Base /\ Registered /\ OverCapIsEvicted /\ Walk

\* A server that starts satisfies it.
LEMMA HotInit == Init => HotInv
<1> SUFFICES ASSUME Init
             PROVE  HotInv
  OBVIOUS
<1>1. /\ w = [g \in Workers |-> IF g = Scanner THEN At("walk", NoName) ELSE Idle]
      /\ lru = <<>> /\ usage = 0 /\ ready = FALSE /\ inflight = {}
      /\ scanned = [todo |-> Names, seen |-> {}, dropped |-> {}]
      /\ main \subseteq Names /\ hotFile \subseteq Names
  BY DEF Init
<1>2. TypeOK
  <2>1. w \in [Workers -> State]
    BY <1>1 DEF State, PCs, At, Idle
  <2>2. lru \in Seq(Names) /\ usage \in Int /\ inflight \subseteq Names
    BY <1>1
  <2>3. scanned \in ScanState
    BY <1>1 DEF ScanState
  <2>4. ready \in BOOLEAN
    BY <1>1
  <2> QED
    BY <1>1, <2>1, <2>2, <2>3, <2>4 DEF TypeOK, State, ScanState
<1>3. /\ \A g \in Workers \ {Scanner} : w[g] = Idle
      /\ w[Scanner].pc = "walk"
  BY <1>1, Apart DEF At
<1>4. Idle.pc = "idle" /\ Idle.name = NoName
  BY DEF Idle, At
<1>5. Roles
  BY <1>1, <1>3, <1>4, Apart DEF Roles, ReaderAt, PromoterAt, FlusherAt, CleanerAt, ScannerAt
<1>6. Len(lru) = 0 /\ Entries = {}
  BY <1>1 DEF Entries, Listed
<1>7. IndexInv
  BY <1>1, <1>2, <1>6, NoBytes DEF IndexInv, Distinct, TypeOK
<1>8. Registered
  BY <1>1, <1>3, <1>4, Apart, HotTierAssumption DEF Registered
<1>9. OverCapIsEvicted
  BY <1>1 DEF OverCapIsEvicted
<1>10. Walk
  <2>1. \A g \in Workers : w[g].pc \in {"idle", "walk"}
    BY <1>3, <1>4
  <2>2. hotFile \subseteq scanned.todo
    BY <1>1
  <2> QED
    BY <2>1, <2>2 DEF Walk
<1> QED
  BY <1>2, <1>5, <1>7, <1>8, <1>9, <1>10 DEF HotInv, Base

\* What a goroutine may come to.
RoleOf(g, st) ==
  /\ g \in Readers => /\ st.pc \in {"idle", "openMain", "drop", "try"}
                      /\ IF st.pc = "idle" THEN st = Idle ELSE st.name \in Names
  /\ g \in Promoters => /\ st.pc \in {"open", "copy", "add", "check", "evict", "unlink", "end"}
                        /\ st.name \in Names
  /\ g = Flusher => /\ st.pc \in {"idle", "add", "check", "evict", "unlink"}
                    /\ st.pc = "add" => st.name \in Names
  /\ g = Cleaner => /\ st.pc \in {"idle", "check", "evict", "unlink", "dropHot", "unlinkHot"}
                    /\ IF st.pc \in {"dropHot", "unlinkHot"}
                       THEN st.name \in Names
                       ELSE st.name = NoName
  /\ g = Scanner => st.pc \in {"idle", "check", "evict", "unlink"}

\* A step of one goroutine in its role keeps everybody in theirs.
LEMMA RolesStay ==
  ASSUME Roles, w \in [Workers -> State], NEW g \in Workers, NEW st, Moves(g, st),
         RoleOf(g, st), ready' = ready \/ g = Scanner
  PROVE  Roles'
<1>1. w'[g] = st /\ \A h \in Workers \ {g} : w'[h] = w[h]
  BY OneMoves
<1>2. /\ \A r \in Readers \ {g} : ReaderAt(r)'
      /\ \A h \in Promoters \ {g} : PromoterAt(h)'
      /\ g # Flusher => FlusherAt'
      /\ g # Cleaner => CleanerAt'
      /\ g # Scanner => ScannerAt'
  BY <1>1, RolesOfOthers
<1>3. g \in Readers => ReaderAt(g)'
  BY <1>1 DEF RoleOf, ReaderAt, Idle, At
<1>4. g \in Promoters => PromoterAt(g)'
  BY <1>1 DEF RoleOf, PromoterAt
<1>5. /\ g = Flusher => FlusherAt'
      /\ g = Cleaner => CleanerAt'
      /\ g = Scanner => ScannerAt'
  BY <1>1 DEF RoleOf, FlusherAt, CleanerAt, ScannerAt
<1> QED
  BY <1>2, <1>3, <1>4, <1>5 DEF Roles

\* Nobody who was about to shrink the tier leaves while it is over capacity.
ShrinkKept(g, st) == \/ st.pc \in {"check", "evict"}
                     \/ usage' <= HotCap
                     \/ usage' <= usage /\ (w[g].pc \notin {"check", "evict"} \/ ~ready)

LEMMA OverStays ==
  ASSUME OverCapIsEvicted, usage \in Int, usage' \in Int, w \in [Workers -> State],
         NEW g \in Workers, NEW st, Moves(g, st), ready' = ready, ShrinkKept(g, st)
  PROVE  OverCapIsEvicted'
<1>1. w'[g] = st /\ \A h \in Workers \ {g} : w'[h] = w[h]
  BY OneMoves
<1>2. HotCap \in Int
  BY HotTierAssumption
<1>3. CASE st.pc \in {"check", "evict"}
  BY <1>1, <1>3 DEF OverCapIsEvicted
<1>4. CASE usage' <= HotCap
  BY <1>2, <1>4 DEF OverCapIsEvicted
<1>5. CASE usage' <= usage /\ (w[g].pc \notin {"check", "evict"} \/ ~ready)
  <2>1. CASE ~(ready /\ usage > HotCap)
    BY <1>2, <1>5, <2>1 DEF OverCapIsEvicted
  <2>2. CASE ready /\ usage > HotCap
    <3>1. PICK h \in Workers : w[h].pc \in {"check", "evict"}
      BY <2>2 DEF OverCapIsEvicted
    <3>2. h # g
      BY <1>5, <2>2, <3>1
    <3> QED
      BY <1>1, <3>1, <3>2 DEF OverCapIsEvicted
  <2> QED
    BY <2>1, <2>2
<1> QED
  BY <1>3, <1>4, <1>5 DEF ShrinkKept

\* What a step may do while the scan runs.
WalkKept(g, st) ==
  ~ready => /\ st.pc \notin {"open", "copy", "add", "evict"}
            /\ hotFile' \subseteq hotFile
            /\ \A n \in hotFile' :
                 n \in Entries \cup {w[Cleaner].name} /\ w[Scanner].pc = "walk"
                   => n \in Entries' \cup scanned'.dropped \cup {w'[Cleaner].name}

\* What it may do to the scan's own state: while another goroutine moves, the scan
\* goes no further, and the names that GETs dropped are remembered.
ScanKept(g) == \/ scanned' = scanned
               \/ /\ scanned' \in ScanState
                  /\ w[Scanner].pc = "walk" /\ g # Scanner =>
                       /\ scanned'.todo = scanned.todo /\ scanned'.seen = scanned.seen
                       /\ scanned.dropped \subseteq scanned'.dropped

LEMMA ScanStays ==
  ASSUME NEW g, scanned' = scanned
  PROVE  ScanKept(g)
BY DEF ScanKept

LEMMA WalkStays ==
  ASSUME Walk, w \in [Workers -> State], NEW g \in Workers, NEW st, Moves(g, st),
         ready' = ready, ScanKept(g), WalkKept(g, st),
         g = Scanner => st.pc # "walk"
  PROVE  Walk'
<1> SUFFICES ASSUME ~ready
             PROVE  Walk'
  BY DEF Walk
<1>1. w'[g] = st /\ \A h \in Workers \ {g} : w'[h] = w[h]
  BY OneMoves
<1>2. \A h \in Workers : w'[h].pc \notin {"open", "copy", "add", "evict"}
  BY <1>1 DEF Walk, WalkKept
<1>3. ASSUME w'[Scanner].pc = "walk"
      PROVE  hotFile' \subseteq scanned'.todo \cup scanned'.seen \cup scanned'.dropped
                                  \cup Entries' \cup {w'[Cleaner].name}
  <2>1. w[Scanner].pc = "walk" /\ g # Scanner
    BY <1>1, <1>3, Apart
  <2>2. /\ scanned'.todo = scanned.todo /\ scanned'.seen = scanned.seen
        /\ scanned.dropped \subseteq scanned'.dropped
    BY <2>1 DEF ScanKept
  <2> QED
    BY <2>1, <2>2 DEF Walk, WalkKept
<1> QED
  BY <1>2, <1>3 DEF Walk

\* Names stay with their promotions.
LEMMA RegisteredStays ==
  ASSUME Registered, \A g \in Promoters : w'[g].name = w[g].name, UNCHANGED inflight
  PROVE  Registered'
BY DEF Registered

\* The index' steps, in terms of types.
LEMMA IndexTypes ==
  ASSUME IndexInv
  PROVE  lru \in Seq(Names) /\ usage \in Int
BY FS_CardinalityType DEF IndexInv, Sized

\* A step of one goroutine that starts or ends no promotion.
LEMMA WorkerStep ==
  ASSUME HotInv, NEW g \in Workers, NEW st \in State, w' = [w EXCEPT ![g] = st],
         RoleOf(g, st), ShrinkKept(g, st), WalkKept(g, st),
         g \in Promoters => st.name = w[g].name,
         UNCHANGED <<ready, inflight>>, ScanKept(g), IndexStep,
         main' \subseteq Names, hotFile' \subseteq Names
  PROVE  HotInv'
<1>1. Moves(g, st) /\ w \in [Workers -> State]
  BY DEF Moves, HotInv, Base, TypeOK, State
<1>2. w' \in [Workers -> State] /\ w'[g] = st /\ \A h \in Workers \ {g} : w'[h] = w[h]
  BY <1>1, OneMoves
<1>3. IndexInv' /\ usage \in Int
  BY IndexStay, IndexTypes DEF HotInv, Base
<1>4. lru' \in Seq(Names) /\ usage' \in Int
  <2>1. usage' \in Int
    BY <1>3, FS_CardinalityType DEF IndexInv, Sized
  <2> QED
    BY <1>3, <2>1 DEF IndexInv
<1>5. TypeOK'
  <2>1. scanned' \in ScanState
    BY DEF ScanKept, HotInv, Base, TypeOK, ScanState
  <2> QED
    BY <1>2, <1>4, <2>1 DEF HotInv, Base, TypeOK, State, ScanState
<1>6. Roles'
  BY <1>1, RolesStay DEF HotInv, Base
<1>7. OverCapIsEvicted'
  BY <1>1, <1>3, <1>4, OverStays DEF HotInv
<1>8. g = Scanner => st.pc # "walk"
  BY DEF RoleOf
<1>9. Walk'
  BY <1>1, <1>8, WalkStays DEF HotInv
<1>10. Registered'
  <2>1. \A h \in Promoters : w'[h].name = w[h].name
    BY <1>2, Apart
  <2> QED
    BY <2>1, RegisteredStays DEF HotInv
<1> QED
  BY <1>3, <1>5, <1>6, <1>7, <1>9, <1>10 DEF HotInv, Base

\* A step that moves no goroutine.
LEMMA StillStep ==
  ASSUME HotInv, UNCHANGED <<w, ready, inflight>>, IndexStep,
         scanned' \in ScanState,
         main' \subseteq Names, hotFile' \subseteq Names,
         usage' <= usage \/ ~ready,
         ~ready => /\ hotFile' \subseteq hotFile
                   /\ w[Scanner].pc = "walk" =>
                        \A n \in hotFile' : n \in scanned'.todo \cup scanned'.seen
                                                    \cup scanned'.dropped \cup Entries' \cup {w[Cleaner].name}
  PROVE  HotInv'
<1>1. IndexInv' /\ usage \in Int
  BY IndexStay, IndexTypes DEF HotInv, Base
<1>2. lru' \in Seq(Names) /\ usage' \in Int
  <2>1. usage' \in Int
    BY <1>1, FS_CardinalityType DEF IndexInv, Sized
  <2> QED
    BY <1>1, <2>1 DEF IndexInv
<1>3. TypeOK'
  BY <1>2 DEF HotInv, Base, TypeOK, ScanState
<1>4. Roles'
  BY DEF HotInv, Base, Roles, ReaderAt, PromoterAt, FlusherAt, CleanerAt, ScannerAt, Idle, At
<1>5. Registered'
  BY RegisteredStays DEF HotInv
<1>6. OverCapIsEvicted'
  BY <1>1, <1>2, HotTierAssumption DEF HotInv, OverCapIsEvicted
<1>7. Walk'
  BY DEF HotInv, Walk
<1> QED
  BY <1>1, <1>3, <1>4, <1>5, <1>6, <1>7 DEF HotInv, Base

\* A step of one goroutine that leaves index and files alone, outside of what
\* waits for the scan.
LEMMA PlainStep ==
  ASSUME HotInv, NEW g \in Workers, NEW st \in State, w' = [w EXCEPT ![g] = st],
         RoleOf(g, st),
         \/ st.pc \in {"check", "evict"}
         \/ w[g].pc \notin {"check", "evict"}
         \/ ~(ready /\ usage > HotCap),
         st.pc \in {"open", "copy", "add", "evict"} => ready,
         g \in Promoters => st.name = w[g].name,
         g = Cleaner => w[g].name \notin hotFile \/ st.name = w[g].name,
         scanned' = scanned \/ (g = Scanner /\ scanned' \in ScanState),
         UNCHANGED <<ready, inflight, index, hotFile>>,
         main' \subseteq Names
  PROVE  HotInv'
<1>1. usage \in Int /\ HotCap \in Int /\ usage' = usage /\ lru' = lru
  BY IndexTypes, HotTierAssumption DEF HotInv, Base, index
<1>2. ShrinkKept(g, st)
  BY <1>1 DEF ShrinkKept
<1>3. IndexStep
  BY DEF IndexStep
<1>4. Entries' = Entries
  BY <1>1 DEF Entries
<1>5. w \in [Workers -> State] /\ Moves(g, st)
  BY DEF HotInv, Base, TypeOK, State, Moves
<1>6. w'[g] = st /\ \A h \in Workers \ {g} : w'[h] = w[h]
  BY <1>5, OneMoves
<1>7. \A n \in hotFile : n \in {w[Cleaner].name} => n \in {w'[Cleaner].name}
  BY <1>6, Apart
<1>8. WalkKept(g, st)
  BY <1>4, <1>7 DEF WalkKept
<1>9. hotFile' \subseteq Names /\ ScanKept(g)
  BY DEF HotInv, Base, TypeOK, ScanKept
<1> QED
  BY <1>2, <1>3, <1>8, <1>9, WorkerStep

-----------------------------------------------------------------------------
(* Every step preserves the invariant *)

\* The goroutines' records.
LEMMA States ==
  /\ \A pc \in PCs, n \in Names \cup {NoName} :
       /\ At(pc, n) \in State
       /\ At(pc, n).pc = pc /\ At(pc, n).name = n
  /\ Idle \in State /\ Idle.pc = "idle" /\ Idle.name = NoName
BY DEF At, Idle, State, PCs

LEMMA ReaderKeeps ==
  ASSUME HotInv, NEW r \in Readers, Reader(r)
  PROVE  HotInv'
<1> USE DEF PCs
<1>0. /\ r \in Workers /\ r \notin Promoters /\ r # Flusher /\ r # Cleaner /\ r # Scanner
      /\ main \subseteq Names /\ hotFile \subseteq Names /\ IndexInv
      /\ ReaderAt(r)
      /\ usage \in Int
  BY Apart, IndexTypes DEF HotInv, Base, TypeOK, Roles
<1>1. ASSUME NEW n \in Names, GetHit(r, n)
      PROVE  HotInv'
  <2>1. Touch(n) /\ UNCHANGED <<main, hotFile, usage, ready, inflight, w, scanned>>
    BY <1>1 DEF GetHit, files
  <2>2. Entries' = Entries
    BY <1>0, <2>1, TouchKeepsIndex
  <2>3. IndexStep
    BY <2>1 DEF IndexStep
  <2>4. scanned' \in ScanState
    BY <2>1 DEF HotInv, Base, TypeOK, ScanState
  <2>5. ~ready /\ w[Scanner].pc = "walk" =>
          \A m \in hotFile' : m \in scanned'.todo \cup scanned'.seen
                                      \cup scanned'.dropped \cup Entries' \cup {w[Cleaner].name}
    BY <2>1, <2>2 DEF HotInv, Walk
  <2> QED
    BY <1>0, <2>1, <2>3, <2>4, <2>5, StillStep
<1>2. ASSUME NEW n \in Names, GetMissesHot(r, n)
      PROVE  HotInv'
  <2> DEFINE st == At("openMain", n)
  <2>1. st \in State /\ st.pc = "openMain" /\ st.name = n
    BY States
  <2>2. /\ w' = [w EXCEPT ![r] = st] /\ w[r] = Idle
        /\ UNCHANGED <<main, hotFile, index, ready, inflight, scanned>>
    BY <1>2 DEF GetMissesHot, Go, files
  <2> HIDE DEF st
  <2>3. RoleOf(r, st)
    BY <1>0, <2>1 DEF RoleOf
  <2>4. w[r].pc = "idle"
    BY <2>2, States
  <2> QED
    BY <1>0, <2>1, <2>2, <2>3, <2>4, PlainStep
\* The remaining plain steps of a GET, about the same blob or back to idle.
<1>3. ASSUME NEW st \in State, w[r].pc # "idle", st = Idle \/ (st.pc \in {"drop", "try"} /\ st.name = w[r].name),
             w' = [w EXCEPT ![r] = st],
             UNCHANGED <<main, hotFile, index, ready, inflight, scanned>>
      PROVE  HotInv'
  <2>1. RoleOf(r, st)
    BY <1>0, <1>3, States DEF RoleOf, ReaderAt
  <2>2. st.pc \notin {"check", "evict", "open", "copy", "add"} /\ w[r].pc \notin {"check", "evict"}
    BY <1>0, <1>3, States DEF ReaderAt
  <2> QED
    BY <1>0, <1>3, <2>1, <2>2, PlainStep
<1>4. CASE GetOpenMain(r)
  <2> DEFINE drop == At("drop", w[r].name)
  <2>1. w[r].pc = "openMain" /\ w[r].name \in Names
    BY <1>0, <1>4 DEF GetOpenMain, ReaderAt
  <2>2. drop \in State /\ drop.pc = "drop" /\ drop.name = w[r].name /\ Idle \in State
    BY <2>1, States
  <2>3. w' = [w EXCEPT ![r] = drop] \/ w' = [w EXCEPT ![r] = Idle]
    BY <1>4 DEF GetOpenMain, Go
  <2>4. UNCHANGED <<main, hotFile, index, ready, inflight, scanned>>
    BY <1>4 DEF GetOpenMain, files
  <2> HIDE DEF drop
  <2> QED
    BY <1>3, <2>1, <2>2, <2>3, <2>4
<1>5. CASE GetDropEntry(r)
  <2> DEFINE n == w[r].name
             st == At("try", n)
  <2>1. w[r].pc = "drop" /\ n \in Names
    BY <1>0, <1>5 DEF GetDropEntry, ReaderAt
  <2>2. st \in State /\ st.pc = "try" /\ st.name = n
    BY <2>1, States
  <2>3. /\ Remove(n) /\ w' = [w EXCEPT ![r] = st]
        /\ scanned' = [scanned EXCEPT !.dropped =
                          IF w[Scanner].pc = "walk" THEN @ \cup ({n} \cap Entries \cap hotFile)
                          ELSE {}]
        /\ UNCHANGED <<main, hotFile, ready, inflight>>
    BY <1>5 DEF GetDropEntry, Go, files
  <2>4. /\ scanned' \in ScanState
        /\ scanned'.todo = scanned.todo /\ scanned'.seen = scanned.seen
        /\ w[Scanner].pc = "walk" =>
             scanned'.dropped = scanned.dropped \cup ({n} \cap Entries \cap hotFile)
    <3>1. scanned \in ScanState
      BY DEF HotInv, Base, TypeOK, ScanState
    <3> HIDE DEF n, st
    <3> QED
      BY <1>0, <2>3, <3>1 DEF ScanState
  <2> HIDE DEF n, st
  <2>5. Entries' = Entries \ {n} /\ usage' <= usage
    BY <1>0, <2>1, <2>3, RemoveKeepsIndex
  <2>6. IndexStep
    BY <2>1, <2>3 DEF IndexStep
  <2>7. RoleOf(r, st)
    BY <1>0, <2>1, <2>2 DEF RoleOf
  <2>8. ShrinkKept(r, st)
    BY <2>1, <2>5 DEF ShrinkKept
  <2>9. w'[Cleaner] = w[Cleaner]
    BY <1>0, <2>3 DEF HotInv, Base, TypeOK
  <2>10. WalkKept(r, st)
    BY <2>2, <2>3, <2>4, <2>5, <2>9 DEF WalkKept
  <2>11. ScanKept(r)
    BY <2>4 DEF ScanKept
  <2> QED
    BY <1>0, <2>2, <2>3, <2>6, <2>7, <2>8, <2>10, <2>11, WorkerStep
<1>6. CASE GetStartPromotion(r)
  <2> DEFINE n == w[r].name
  <2>1. w[r].pc = "try" /\ n \in Names /\ ready /\ n \notin inflight
    BY <1>0, <1>6 DEF GetStartPromotion, ReaderAt, MayPromote
  <2>2. PICK g \in Promoters : w[g] = Idle /\ w' = [w EXCEPT ![r] = Idle, ![g] = At("open", n)]
    BY <1>6 DEF GetStartPromotion
  <2>3. /\ inflight' = inflight \cup {n}
        /\ UNCHANGED <<main, hotFile, lru, usage, ready, scanned>>
    BY <1>6 DEF GetStartPromotion, files, index
  <2> DEFINE st == At("open", n)
  <2>4. st \in State /\ st.pc = "open" /\ st.name = n /\ Idle \in State
        /\ Idle.pc = "idle" /\ Idle.name = NoName
    BY <2>1, States
  <2> HIDE DEF n, st
  <2>5. /\ g \in Workers /\ g # r /\ g # Flusher /\ g # Cleaner /\ g # Scanner /\ g \notin Readers
    BY <1>0, Apart
  <2>6. w \in [Workers -> State]
    BY DEF HotInv, Base, TypeOK, State
  <2>7. /\ w' \in [Workers -> State] /\ w'[r] = Idle /\ w'[g] = st
        /\ \A h \in Workers \ {r, g} : w'[h] = w[h]
    BY <1>0, <2>2, <2>4, <2>5, <2>6 DEF st
  <2>8. IndexInv'
    BY <1>0, <2>3 DEF IndexInv, Entries, Listed, Sized, BytesOf, Distinct
  <2>9. TypeOK'
    BY <2>1, <2>3, <2>7 DEF HotInv, Base, TypeOK, State
  <2>10. Roles'
    <3>1. \A h \in Readers : ReaderAt(h)'
      BY <1>0, <2>4, <2>5, <2>7, Apart DEF HotInv, Base, Roles, ReaderAt, Idle, At
    <3>2. \A h \in Promoters : PromoterAt(h)'
      BY <1>0, <2>1, <2>4, <2>5, <2>7, Apart DEF HotInv, Base, Roles, PromoterAt, Idle, At
    <3>3. FlusherAt' /\ CleanerAt' /\ ScannerAt'
      BY <1>0, <2>3, <2>5, <2>7, Apart DEF HotInv, Base, Roles, FlusherAt, CleanerAt, ScannerAt
    <3> QED
      BY <3>1, <3>2, <3>3 DEF Roles
  <2>11. Registered'
    <3>1. \A h \in Promoters \ {g} : w'[h].name = w[h].name
      BY <1>0, <2>7, Apart
    <3>2. w'[g].name = n /\ w[g].name = NoName
      BY <2>2, <2>4, <2>7
    <3>3. \A h \in Promoters : w[h].name # n
      BY <2>1 DEF HotInv, Registered
    <3>4. ASSUME NEW m \in inflight'
          PROVE  \E h \in Promoters : w'[h].name = m
      <4>1. CASE m = n
        BY <3>2, <4>1
      <4>2. CASE m # n
        <5>1. m \in inflight /\ m \in Names
          BY <2>3, <3>4, <4>2 DEF HotInv, Base, TypeOK
        <5>2. PICK h \in Promoters : w[h].name = m
          BY <5>1 DEF HotInv, Registered
        <5>3. h # g
          BY <3>2, <5>1, <5>2, HotTierAssumption
        <5> QED
          BY <3>1, <5>2, <5>3
      <4> QED
        BY <4>1, <4>2
    <3>5. \A h \in Promoters : w'[h].name \in Names => w'[h].name \in inflight'
      BY <2>3, <3>1, <3>2 DEF HotInv, Registered
    <3>6. \A h, k \in Promoters : w'[h].name \in Names /\ w'[h].name = w'[k].name => h = k
      BY <3>1, <3>2, <3>3 DEF HotInv, Registered
    <3> QED
      BY <3>4, <3>5, <3>6 DEF Registered
  <2>12. OverCapIsEvicted'
    <3>1. ASSUME NEW h \in Workers, w[h].pc \in {"check", "evict"}
          PROVE  w'[h].pc \in {"check", "evict"}
      <4>1. h # r /\ h # g
        BY <2>1, <2>2, <2>4, <3>1
      <4> QED
        BY <2>7, <3>1, <4>1
    <3> QED
      BY <2>3, <3>1 DEF HotInv, OverCapIsEvicted
  <2>13. Walk'
    BY <2>1, <2>3 DEF Walk
  <2> QED
    BY <2>8, <2>9, <2>10, <2>11, <2>12, <2>13 DEF HotInv, Base
<1>7. CASE GetNoPromotion(r)
  <2>1. w[r].pc = "try" /\ w' = [w EXCEPT ![r] = Idle] /\ Idle \in State
    BY <1>7, States DEF GetNoPromotion, Go
  <2>2. UNCHANGED <<main, hotFile, index, ready, inflight, scanned>>
    BY <1>7 DEF GetNoPromotion, files
  <2> QED
    BY <1>3, <2>1, <2>2
<1> QED
  BY <1>1, <1>2, <1>4, <1>5, <1>6, <1>7 DEF Reader

\* The goroutines that end with evictHotIfOver.
Evictors == Promoters \cup {Flusher, Cleaner, Scanner}

\* Where an evictor is while it checks and shrinks the tier.
LEMMA EvictorAt ==
  ASSUME HotInv, NEW g \in Evictors
  PROVE  /\ g \in Workers /\ g \notin Readers /\ w[g] \in State
         /\ g \in Promoters /\ w[g].pc # "idle" => w[g].name \in Names
         /\ main \subseteq Names /\ hotFile \subseteq Names /\ IndexInv /\ usage \in Int
<1>1. g \in Workers /\ g \notin Readers
  BY Apart, HotTierAssumption DEF Evictors
<1> QED
  BY <1>1, IndexTypes DEF HotInv, Base, TypeOK, Roles, PromoterAt, State

\* The end of evictHotIfOver.
LEMMA DoneAt ==
  ASSUME HotInv, NEW g \in Evictors, w[g].pc \in {"check", "unlink"}
  PROVE  /\ Done(g) \in State /\ RoleOf(g, Done(g))
         /\ Done(g).pc \in {"idle", "end"}
         /\ g \in Promoters => Done(g).name = w[g].name
<1>0. /\ g \notin Readers /\ g \in Workers
      /\ g \in Promoters => w[g].name \in Names
  BY EvictorAt
<1>1. CASE g \in Promoters
  <2>1. Done(g) = At("end", w[g].name)
    BY <1>1 DEF Done
  <2>2. Done(g) \in State /\ Done(g).pc = "end" /\ Done(g).name = w[g].name
    BY <1>0, <1>1, <2>1, States DEF PCs
  <2>3. g # Flusher /\ g # Cleaner /\ g # Scanner
    BY <1>1, Apart
  <2> QED
    BY <1>0, <1>1, <2>2, <2>3 DEF RoleOf
<1>2. CASE g \notin Promoters
  <2>1. Done(g) = Idle
    BY <1>2 DEF Done
  <2>2. Done(g) \in State /\ Done(g).pc = "idle"
    BY <2>1, States
  <2> QED
    BY <1>0, <1>2, <2>1, <2>2, States, Apart DEF RoleOf
<1> QED
  BY <1>1, <1>2

\* evictHotIfOver, whoever calls it.
LEMMA EvictorKeeps ==
  ASSUME HotInv, NEW g \in Evictors, EvictHotIfOver(g)
  PROVE  HotInv'
<1> USE DEF PCs
<1>0. /\ g \in Workers /\ g \notin Readers /\ w[g] \in State
      /\ g \in Promoters /\ w[g].pc # "idle" => w[g].name \in Names
      /\ main \subseteq Names /\ hotFile \subseteq Names /\ IndexInv /\ usage \in Int
  BY EvictorAt
<1>1. g = Cleaner /\ w[g].pc \in {"check", "evict", "unlink"} => w[g].name = NoName
  BY DEF HotInv, Base, Roles, CleanerAt
<1>2. NoName \notin hotFile
  BY <1>0, HotTierAssumption
\* From one of its steps to the next.
<1>3. ASSUME NEW pc \in {"evict", "unlink"}, NEW V \in SUBSET Names, NEW st,
             st = [w[g] EXCEPT !.pc = pc, !.vict = V], w[g].pc \in {"check", "evict", "unlink"}
      PROVE  st \in State /\ st.pc = pc /\ st.name = w[g].name /\ RoleOf(g, st)
  <2>1. st \in State /\ st.pc = pc /\ st.name = w[g].name
    BY <1>0, <1>3 DEF State
  <2> QED
    BY <1>0, <1>1, <1>3, <2>1, Apart DEF RoleOf
<1>4. CASE CheckCap(g) /\ ready /\ usage > HotCap
  <2> DEFINE V == w[g].vict
             st == [w[g] EXCEPT !.pc = "evict"]
  <2>1. st = [w[g] EXCEPT !.pc = "evict", !.vict = V] /\ V \in SUBSET Names
    BY <1>0 DEF State
  <2>2. /\ w[g].pc = "check" /\ w' = [w EXCEPT ![g] = st]
        /\ UNCHANGED <<main, hotFile, index, ready, inflight, scanned>>
    BY <1>4 DEF CheckCap, Go, files
  <2> HIDE DEF st, V
  <2>3. st \in State /\ st.pc = "evict" /\ st.name = w[g].name /\ RoleOf(g, st)
    BY <1>3, <2>1, <2>2
  <2> QED
    BY <1>0, <1>4, <2>2, <2>3, PlainStep
\* The end, with the tier within its capacity or the check made after.
<1>5. ASSUME w[g].pc \in {"check", "unlink"}, w' = [w EXCEPT ![g] = Done(g)],
             w[g].pc = "check" => ~(ready /\ usage > HotCap),
             UNCHANGED <<main, hotFile, index, ready, inflight, scanned>>
      PROVE  HotInv'
  <2>1. /\ Done(g) \in State /\ RoleOf(g, Done(g)) /\ Done(g).pc \in {"idle", "end"}
        /\ g \in Promoters => Done(g).name = w[g].name
    BY <1>5, DoneAt
  <2>2. g = Cleaner => w[g].name \notin hotFile
    BY <1>1, <1>2, <1>5
  <2> QED
    BY <1>0, <1>5, <2>1, <2>2, PlainStep
<1>6. CASE CheckCap(g) /\ ~(ready /\ usage > HotCap)
  <2>1. /\ w[g].pc = "check" /\ w' = [w EXCEPT ![g] = Done(g)]
        /\ UNCHANGED <<main, hotFile, index, ready, inflight, scanned>>
    BY <1>6 DEF CheckCap, Go, files
  <2> QED
    BY <1>5, <1>6, <2>1
<1>7. CASE EvictDone(g)
  <2>1. /\ w[g].pc = "unlink" /\ w' = [w EXCEPT ![g] = Done(g)]
        /\ UNCHANGED <<main, hotFile, index, ready, inflight, scanned>>
    BY <1>7 DEF EvictDone, Go, files
  <2> QED
    BY <1>5, <2>1
<1>8. CASE EvictLRU(g)
  <2> DEFINE V == {lru[i] : i \in (Kept((HotCap * 95) \div 100) + 1)..Len(lru)}
             st == [w[g] EXCEPT !.pc = "unlink", !.vict = V]
  <2>1. /\ w[g].pc = "evict" /\ w' = [w EXCEPT ![g] = st]
        /\ UNCHANGED <<main, hotFile, ready, inflight, scanned>>
    BY <1>8 DEF EvictLRU, Go, files
  <2>2. ready
    BY <1>0, <2>1 DEF HotInv, Walk
  <2>3. V \in SUBSET Names
    <3> DEFINE k == Kept((HotCap * 95) \div 100)
               S == {i \in 0..Len(lru) : Bytes({lru[j] : j \in 1..i}) <= (HotCap * 95) \div 100}
    <3>1. Len(lru) \in Nat /\ lru \in Seq(Names)
      BY <1>0 DEF IndexInv
    <3>2. 0 \in S
      <4>1. {lru[j] : j \in 1..0} = {}
        OBVIOUS
      <4>2. Bytes({lru[j] : j \in 1..0}) = 0
        BY <4>1, NoBytes DEF Bytes, Sized
      <4> QED
        BY <3>1, <4>2, HotTierAssumption
    <3>3. k = Max(S)
      BY DEF Kept
    <3>4. S \in SUBSET (0..Len(lru)) /\ S # {}
      BY <3>2
    <3> HIDE DEF S, k
    <3>5. k \in 0..Len(lru)
      BY <3>1, <3>3, <3>4, MaxIsMember
    <3>6. \A i \in (k + 1)..Len(lru) : lru[i] \in Names
      BY <3>1, <3>5
    <3> QED
      BY <3>6 DEF k
  <2> HIDE DEF V
  <2>4. st \in State /\ st.pc = "unlink" /\ st.name = w[g].name /\ RoleOf(g, st)
    BY <1>3, <2>1, <2>3
  <2> HIDE DEF st
  <2>5. usage' <= HotCap
    BY <1>0, <1>8, EvictKeepsIndex
  <2>6. ShrinkKept(g, st) /\ WalkKept(g, st)
    BY <2>2, <2>5 DEF ShrinkKept, WalkKept
  <2>7. IndexStep
    BY <1>0, <1>8 DEF IndexStep
  <2> QED
    BY <1>0, <2>1, <2>4, <2>6, <2>7, ScanStays, WorkerStep
<1>9. ASSUME NEW n \in Names, RemoveVictim(g, n)
      PROVE  HotInv'
  <2> DEFINE V == w[g].vict \ {n}
             st == [w[g] EXCEPT !.vict = @ \ {n}]
  <2>1. /\ w[g].pc = "unlink" /\ w' = [w EXCEPT ![g] = st] /\ hotFile' = hotFile \ {n}
        /\ UNCHANGED <<main, lru, usage, ready, inflight, scanned>>
    BY <1>9 DEF RemoveVictim, Go, index
  <2>2. st = [w[g] EXCEPT !.pc = "unlink", !.vict = V] /\ V \in SUBSET Names
    BY <1>0, <2>1 DEF State
  <2> HIDE DEF st, V
  <2>3. st \in State /\ st.pc = "unlink" /\ st.name = w[g].name /\ RoleOf(g, st)
    BY <1>3, <2>1, <2>2
  <2>4. Entries' = Entries /\ IndexStep
    BY <2>1 DEF Entries, IndexStep, index
  <2>5. w'[Cleaner].name = w[Cleaner].name
    BY <1>0, <2>1, <2>3, Apart DEF HotInv, Base, TypeOK
  <2>6. ShrinkKept(g, st)
    BY <1>0, <2>1 DEF ShrinkKept
  <2>7. WalkKept(g, st)
    BY <1>0, <2>1, <2>3, <2>4, <2>5 DEF WalkKept
  <2> QED
    BY <1>0, <2>1, <2>3, <2>4, <2>6, <2>7, ScanStays, WorkerStep
<1> QED
  BY <1>4, <1>6, <1>7, <1>8, <1>9 DEF EvictHotIfOver, CheckCap

\* promoteToHot and the flusher's install.
LEMMA AddInstalledKeeps ==
  ASSUME HotInv, NEW g \in Promoters \cup {Flusher}, AddInstalled(g)
  PROVE  HotInv'
<1> DEFINE n  == w[g].name
           m  == IF g \in Promoters THEN n ELSE NoName
           st == At("check", m)
<1>1. /\ g \in Workers /\ g \notin Readers /\ g # Cleaner /\ g # Scanner
      /\ g \in Promoters => g # Flusher
  BY Apart, HotTierAssumption
<1>2. w[g].pc = "add" /\ n \in Names
  BY DEF AddInstalled, HotInv, Base, Roles, PromoterAt, FlusherAt
<1>3. /\ Add(n) /\ w' = [w EXCEPT ![g] = st]
      /\ UNCHANGED <<main, hotFile, ready, inflight, scanned>>
  BY DEF AddInstalled, Go, files
<1>4. m \in Names \cup {NoName} /\ "check" \in PCs
  BY <1>2 DEF PCs
<1>5. st \in State /\ st.pc = "check" /\ st.name = m
  BY <1>4, States
<1>6. RoleOf(g, st)
  BY <1>1, <1>2, <1>5 DEF RoleOf
<1>7. ready
  BY <1>1, <1>2 DEF HotInv, Walk
<1> HIDE DEF st
<1>8. ShrinkKept(g, st) /\ WalkKept(g, st)
  BY <1>5, <1>7 DEF ShrinkKept, WalkKept
<1>9. IndexStep
  BY <1>2, <1>3 DEF IndexStep
<1>10. main' \subseteq Names /\ hotFile' \subseteq Names
  BY <1>3 DEF HotInv, Base, TypeOK
<1>11. g \in Promoters => st.name = w[g].name
  BY <1>5
<1>12. UNCHANGED <<ready, inflight, scanned>>
  BY <1>3
<1> QED
  BY <1>1, <1>3, <1>5, <1>6, <1>8, <1>9, <1>10, <1>11, <1>12, ScanStays, WorkerStep

LEMMA PromoterKeeps ==
  ASSUME HotInv, NEW g \in Promoters, Promoter(g) \/ PromoteFails(g)
  PROVE  HotInv'
<1> DEFINE n == w[g].name
<1>0. /\ g \in Workers /\ g \notin Readers /\ g # Flusher /\ g # Cleaner /\ g # Scanner
      /\ main \subseteq Names /\ hotFile \subseteq Names /\ usage \in Int
      /\ w[g].pc # "idle" => n \in Names
      /\ w \in [Workers -> State]
  BY Apart, IndexTypes DEF HotInv, Base, TypeOK, Roles, PromoterAt, State
\* From the open to the copy, or to the end.
<1>1. ASSUME NEW pc \in {"copy", "end"}, w[g].pc \in {"open", "copy"},
             w' = [w EXCEPT ![g] = At(pc, n)],
             UNCHANGED <<main, hotFile, index, ready, inflight, scanned>>
      PROVE  HotInv'
  <2> DEFINE st == At(pc, n)
  <2>1. pc \in PCs /\ n \in Names
    BY <1>0, <1>1 DEF PCs
  <2>2. st \in State /\ st.pc = pc /\ st.name = n
    BY <2>1, States
  <2>3. RoleOf(g, st)
    BY <1>0, <1>1, <2>1, <2>2 DEF RoleOf
  <2>4. ready
    BY <1>0, <1>1 DEF HotInv, Walk
  <2> HIDE DEF st
  <2>5. w' = [w EXCEPT ![g] = st]
    BY <1>1 DEF st
  <2>6. w[g].pc \notin {"check", "evict"}
    BY <1>1
  <2> QED
    BY <1>0, <1>1, <2>2, <2>3, <2>4, <2>5, <2>6, PlainStep
<1>2. CASE PromoteOpen(g)
  <2> DEFINE pc == IF n \in main THEN "copy" ELSE "end"
  <2>1. pc \in {"copy", "end"}
    OBVIOUS
  <2>2. w[g].pc = "open" /\ w' = [w EXCEPT ![g] = At(pc, n)]
    BY <1>2 DEF PromoteOpen, Go
  <2>3. UNCHANGED <<main, hotFile, index, ready, inflight, scanned>>
    BY <1>2 DEF PromoteOpen, files
  <2> HIDE DEF pc
  <2> QED
    BY <1>1, <2>1, <2>2, <2>3
<1>3. CASE PromoteFails(g)
  <2>1. w[g].pc \in {"open", "copy"} /\ w' = [w EXCEPT ![g] = At("end", n)]
    BY <1>3 DEF PromoteFails, Go
  <2>2. UNCHANGED <<main, hotFile, index, ready, inflight, scanned>>
    BY <1>3 DEF PromoteFails, files
  <2> QED
    BY <1>1, <2>1, <2>2
<1>4. CASE PromoteRename(g)
  <2> DEFINE st == At("add", n)
  <2>1. w[g].pc = "copy" /\ n \in Names /\ "add" \in PCs
    BY <1>0, <1>4 DEF PromoteRename, PCs
  <2>2. st \in State /\ st.pc = "add" /\ st.name = n
    BY <2>1, States
  <2>3. /\ w' = [w EXCEPT ![g] = st] /\ hotFile' = hotFile \cup {n}
        /\ UNCHANGED <<main, lru, usage, ready, inflight, scanned>>
    BY <1>4 DEF PromoteRename, Go, index
  <2>4. RoleOf(g, st)
    BY <1>0, <2>1, <2>2 DEF RoleOf
  <2>5. ready
    BY <1>0, <2>1 DEF HotInv, Walk
  <2> HIDE DEF st
  <2>6. ShrinkKept(g, st) /\ WalkKept(g, st)
    BY <1>0, <2>1, <2>3, <2>5 DEF ShrinkKept, WalkKept
  <2>7. IndexStep
    BY <2>3 DEF IndexStep, index
  <2> QED
    BY <1>0, <2>1, <2>2, <2>3, <2>4, <2>6, <2>7, ScanStays, WorkerStep
<1>5. CASE AddInstalled(g)
  BY <1>5, AddInstalledKeeps
<1>6. CASE EvictHotIfOver(g)
  BY <1>6, EvictorKeeps DEF Evictors
\* The name is unregistered by the one promotion that has it.
<1>7. CASE EndPromotion(g)
  <2>1. w[g].pc = "end" /\ n \in Names
    BY <1>0, <1>7 DEF EndPromotion
  <2>2. /\ w' = [w EXCEPT ![g] = Idle] /\ inflight' = inflight \ {n}
        /\ UNCHANGED <<main, hotFile, lru, usage, ready, scanned>>
    BY <1>7 DEF EndPromotion, Go, files, index
  <2>3. Idle \in State /\ Idle.pc = "idle" /\ Idle.name = NoName
    BY States
  <2>4. Moves(g, Idle)
    BY <2>2, <2>3 DEF Moves
  <2>5. w' \in [Workers -> State] /\ w'[g] = Idle /\ \A h \in Workers \ {g} : w'[h] = w[h]
    BY <1>0, <2>4, OneMoves
  <2>6. IndexInv' /\ Entries' = Entries
    BY <2>2 DEF HotInv, Base, IndexInv, Entries, Listed, Sized, BytesOf, Distinct
  <2>7. TypeOK'
    BY <2>2, <2>5 DEF HotInv, Base, TypeOK, State
  <2>8. Roles'
    <3>1. /\ \A r \in Readers \ {g} : ReaderAt(r)'
          /\ \A h \in Promoters \ {g} : PromoterAt(h)'
          /\ FlusherAt' /\ CleanerAt' /\ ScannerAt'
      BY <1>0, <2>2, <2>5, RolesOfOthers DEF HotInv, Base
    <3>2. PromoterAt(g)'
      BY <2>3, <2>5 DEF PromoterAt, Idle, At
    <3> QED
      BY <1>0, <3>1, <3>2 DEF Roles
  <2>9. OverCapIsEvicted'
    <3>1. ShrinkKept(g, Idle)
      BY <1>0, <2>1, <2>2 DEF ShrinkKept
    <3>2. usage' \in Int
      BY <1>0, <2>2
    <3> QED
      BY <1>0, <2>2, <2>4, <3>1, <3>2, OverStays DEF HotInv
  <2>10. Walk'
    <3>1. w'[Cleaner] = w[Cleaner]
      BY <1>0, <2>5, Apart
    <3>2. WalkKept(g, Idle)
      BY <1>0, <2>2, <2>3, <2>6, <3>1 DEF WalkKept
    <3> QED
      BY <1>0, <2>2, <2>4, <3>2, ScanStays, WalkStays DEF HotInv
  <2>11. Registered'
    <3>1. \A h \in Promoters \ {g} : w'[h].name = w[h].name /\ w[h].name # n
      BY <1>0, <2>1, <2>5, Apart DEF HotInv, Registered
    <3>2. w'[g].name = NoName /\ NoName \notin Names
      BY <2>3, <2>5, HotTierAssumption
    <3>3. \A h \in Promoters : w'[h].name \in Names => w'[h].name \in inflight'
      BY <2>2, <3>1, <3>2 DEF HotInv, Registered
    <3>4. \A h, k \in Promoters : w'[h].name \in Names /\ w'[h].name = w'[k].name => h = k
      BY <3>1, <3>2 DEF HotInv, Registered
    <3>5. ASSUME NEW k \in inflight'
          PROVE  \E h \in Promoters : w'[h].name = k
      <4>1. k \in inflight /\ k # n
        BY <2>2, <3>5
      <4>2. PICK h \in Promoters : w[h].name = k
        BY <4>1 DEF HotInv, Registered
      <4> QED
        BY <3>1, <4>1, <4>2
    <3> QED
      BY <3>3, <3>4, <3>5 DEF Registered
  <2> QED
    BY <2>6, <2>7, <2>8, <2>9, <2>10, <2>11 DEF HotInv, Base
<1> QED
  BY <1>2, <1>3, <1>4, <1>5, <1>6, <1>7 DEF Promoter

\* The flusher's commits.
LEMMA FlusherKeeps ==
  ASSUME HotInv, NEW n \in Names, FinishCommitted(n)
  PROVE  HotInv'
<1>0. /\ Flusher \in Workers /\ Flusher \notin Readers /\ Flusher \notin Promoters
      /\ Flusher # Cleaner /\ Flusher # Scanner
      /\ main \subseteq Names /\ hotFile \subseteq Names /\ usage \in Int
      /\ w \in [Workers -> State]
  BY Apart, IndexTypes, HotTierAssumption DEF HotInv, Base, TypeOK, State
<1>1. /\ w[Flusher] = Idle /\ main' = main \cup {n}
      /\ UNCHANGED <<lru, usage, ready, inflight, scanned>>
  BY DEF FinishCommitted, WriteLockFree, index
<1>2. IndexStep /\ Entries' = Entries /\ main' \subseteq Names
  BY <1>0, <1>1 DEF IndexStep, index, Entries
<1>3. CASE ready /\ hotFile' = hotFile \cup {n} /\ Go(Flusher, At("add", n))
  <2> DEFINE st == At("add", n)
  <2>1. "add" \in PCs
    BY DEF PCs
  <2>2. st \in State /\ st.pc = "add" /\ st.name = n
    BY <2>1, States
  <2>3. w' = [w EXCEPT ![Flusher] = st] /\ hotFile' \subseteq Names
    BY <1>0, <1>3 DEF Go
  <2> HIDE DEF st
  <2>4. RoleOf(Flusher, st)
    BY <1>0, <2>2 DEF RoleOf
  <2>5. w[Flusher].pc = "idle"
    BY <1>1, States
  <2>6. ShrinkKept(Flusher, st) /\ WalkKept(Flusher, st)
    BY <1>0, <1>1, <1>3, <2>5 DEF ShrinkKept, WalkKept
  <2> QED
    BY <1>0, <1>1, <1>2, <2>2, <2>3, <2>4, <2>6, ScanStays, WorkerStep
<1>4. CASE UNCHANGED <<hotFile, w>>
  <2>1. ~ready => /\ hotFile' \subseteq hotFile
                  /\ w[Scanner].pc = "walk" =>
                       \A m \in hotFile' : m \in scanned'.todo \cup scanned'.seen
                                                   \cup scanned'.dropped \cup Entries' \cup {w[Cleaner].name}
    BY <1>1, <1>2, <1>4 DEF HotInv, Walk
  <2>2. scanned' \in ScanState /\ hotFile' \subseteq Names
    BY <1>1, <1>4 DEF HotInv, Base, TypeOK, ScanState
  <2>3. usage' <= usage
    BY <1>0, <1>1
  <2> QED
    BY <1>1, <1>2, <1>4, <2>1, <2>2, <2>3, StillStep
<1> QED
  BY <1>3, <1>4 DEF FinishCommitted

\* The cleanup loop's own steps.
LEMMA CleanerKeeps ==
  ASSUME HotInv, TickEvictHot \/ DropHot \/ UnlinkHot \/ \E n \in Names : EvictBlob(n)
  PROVE  HotInv'
<1> USE DEF PCs
<1>0. /\ Cleaner \in Workers /\ Cleaner \notin Readers /\ Cleaner \notin Promoters
      /\ Flusher # Cleaner /\ Cleaner # Scanner
      /\ main \subseteq Names /\ hotFile \subseteq Names /\ usage \in Int /\ IndexInv
      /\ w \in [Workers -> State] /\ CleanerAt /\ NoName \notin hotFile
  BY Apart, IndexTypes, HotTierAssumption DEF HotInv, Base, TypeOK, State, Roles
<1>1. CASE TickEvictHot
  <2> DEFINE st == At("check", NoName)
  <2>1. st \in State /\ st.pc = "check" /\ st.name = NoName
    BY States
  <2>2. /\ w[Cleaner] = Idle /\ w' = [w EXCEPT ![Cleaner] = st]
        /\ UNCHANGED <<main, hotFile, index, ready, inflight, scanned>>
    BY <1>1 DEF TickEvictHot, Go, files
  <2> HIDE DEF st
  <2>3. w[Cleaner].name = NoName
    BY <2>2, States
  <2>4. RoleOf(Cleaner, st)
    BY <1>0, <2>1 DEF RoleOf
  <2> QED
    BY <1>0, <2>1, <2>2, <2>3, <2>4, PlainStep
<1>2. ASSUME NEW n \in Names, EvictBlob(n)
      PROVE  HotInv'
  <2> DEFINE st == At("dropHot", n)
  <2>1. st \in State /\ st.pc = "dropHot" /\ st.name = n
    BY States
  <2>2. /\ w[Cleaner] = Idle /\ w' = [w EXCEPT ![Cleaner] = st] /\ main' = main \ {n}
        /\ UNCHANGED <<hotFile, index, ready, inflight, scanned>>
    BY <1>2 DEF EvictBlob, Go
  <2> HIDE DEF st
  <2>3. w[Cleaner].name = NoName /\ w[Cleaner].pc = "idle"
    BY <2>2, States
  <2>4. RoleOf(Cleaner, st)
    BY <1>0, <2>1 DEF RoleOf
  <2>5. main' \subseteq Names
    BY <1>0, <2>2
  <2> QED
    BY <1>0, <2>1, <2>2, <2>3, <2>4, <2>5, PlainStep
\* The entry goes while the cleaner is still about the name.
<1>3. CASE DropHot
  <2> DEFINE n  == w[Cleaner].name
             st == At("unlinkHot", n)
  <2>1. w[Cleaner].pc = "dropHot" /\ n \in Names
    BY <1>0, <1>3 DEF DropHot, CleanerAt
  <2>2. st \in State /\ st.pc = "unlinkHot" /\ st.name = n
    BY <2>1, States
  <2>3. /\ Remove(n) /\ w' = [w EXCEPT ![Cleaner] = st]
        /\ UNCHANGED <<main, hotFile, ready, inflight, scanned>>
    BY <1>3 DEF DropHot, Go, files
  <2> HIDE DEF st
  <2>4. Entries' = Entries \ {n} /\ usage' <= usage
    <3> HIDE DEF n
    <3> QED
      BY <1>0, <2>1, <2>3, RemoveKeepsIndex
  <2>5. IndexStep
    BY <2>1, <2>3 DEF IndexStep
  <2>6. RoleOf(Cleaner, st)
    BY <1>0, <2>1, <2>2 DEF RoleOf
  <2>7. w'[Cleaner].name = n
    BY <1>0, <2>2, <2>3
  <2>8. ShrinkKept(Cleaner, st)
    BY <2>1, <2>4 DEF ShrinkKept
  <2>9. WalkKept(Cleaner, st)
    BY <1>0, <2>2, <2>3, <2>4, <2>7 DEF WalkKept
  <2> QED
    BY <1>0, <2>2, <2>3, <2>5, <2>6, <2>8, <2>9, ScanStays, WorkerStep
\* The file goes, and with it the cleaner's interest.
<1>4. CASE UnlinkHot
  <2> DEFINE n == w[Cleaner].name
  <2>1. /\ w[Cleaner].pc = "unlinkHot" /\ hotFile' = hotFile \ {n}
        /\ w' = [w EXCEPT ![Cleaner] = Idle]
        /\ UNCHANGED <<main, lru, usage, ready, inflight, scanned>>
    BY <1>4 DEF UnlinkHot, Go, index
  <2>2. Idle \in State /\ Idle.pc = "idle" /\ Idle.name = NoName
    BY States
  <2>3. RoleOf(Cleaner, Idle)
    BY <1>0, <2>2 DEF RoleOf
  <2>4. Entries' = Entries /\ IndexStep
    BY <2>1 DEF Entries, IndexStep, index
  <2>5. ShrinkKept(Cleaner, Idle)
    BY <1>0, <2>1 DEF ShrinkKept
  <2>6. WalkKept(Cleaner, Idle)
    BY <1>0, <2>1, <2>2, <2>4 DEF WalkKept
  <2>7. main' \subseteq Names /\ hotFile' \subseteq Names
    BY <1>0, <2>1
  <2> QED
    BY <1>0, <2>1, <2>2, <2>3, <2>4, <2>5, <2>6, <2>7, ScanStays, WorkerStep
<1> QED
  BY <1>1, <1>2, <1>3, <1>4

\* The scan.
LEMMA ScannerKeeps ==
  ASSUME HotInv, ScanFails \/ ScanReady \/ \E n \in Names : ScanVisit(n) \/ ScanAdd(n)
  PROVE  HotInv'
<1> USE DEF PCs
<1>0. /\ Scanner \in Workers /\ Scanner \notin Readers /\ Scanner \notin Promoters
      /\ Scanner # Cleaner /\ Scanner # Flusher
      /\ main \subseteq Names /\ hotFile \subseteq Names /\ usage \in Int /\ IndexInv
      /\ w \in [Workers -> State] /\ scanned \in ScanState
  BY Apart, IndexTypes, HotTierAssumption DEF HotInv, Base, TypeOK, State, ScanState
<1>1. w[Scanner].pc = "walk" /\ ~ready
  <2>1. w[Scanner].pc = "walk"
    BY DEF ScanFails, ScanReady, ScanVisit, ScanAdd
  <2> QED
    BY <2>1 DEF HotInv, Base, Roles, ScannerAt
<1>2. \A n \in hotFile : n \in scanned.todo \cup scanned.seen \cup scanned.dropped
                              \cup Entries \cup {w[Cleaner].name}
  BY <1>1 DEF HotInv, Walk
<1>3. ASSUME NEW n \in Names, ScanVisit(n)
      PROVE  HotInv'
  <2>1. /\ scanned' = [scanned EXCEPT !.todo = @ \ {n}, !.seen = @ \cup ({n} \cap hotFile)]
        /\ UNCHANGED <<main, hotFile, lru, usage, ready, inflight, w>>
    BY <1>3 DEF ScanVisit, files, index
  <2>2. /\ scanned'.todo = scanned.todo \ {n} /\ scanned'.seen = scanned.seen \cup ({n} \cap hotFile)
        /\ scanned'.dropped = scanned.dropped
    BY <1>0, <2>1 DEF ScanState
  <2>3. scanned' \in ScanState
    BY <1>0, <2>1 DEF ScanState
  <2>4. Entries' = Entries /\ IndexStep
    BY <2>1 DEF Entries, IndexStep, index
  <2>5. \A m \in hotFile' : m \in scanned'.todo \cup scanned'.seen
                                    \cup scanned'.dropped \cup Entries' \cup {w[Cleaner].name}
    BY <1>2, <2>1, <2>2, <2>4
  <2> QED
    BY <1>0, <1>1, <2>1, <2>3, <2>4, <2>5, StillStep
<1>4. ASSUME NEW n \in Names, ScanAdd(n)
      PROVE  HotInv'
  <2>1. /\ Add(n) /\ scanned' = [scanned EXCEPT !.seen = @ \ {n}]
        /\ UNCHANGED <<main, hotFile, ready, inflight, w>>
    BY <1>4 DEF ScanAdd, files
  <2>2. /\ scanned'.todo = scanned.todo /\ scanned'.seen = scanned.seen \ {n}
        /\ scanned'.dropped = scanned.dropped
    BY <1>0, <2>1 DEF ScanState
  <2>3. scanned' \in ScanState
    BY <1>0, <2>1 DEF ScanState
  <2>4. Entries' = Entries \cup {n}
    BY <1>0, <2>1, AddKeepsIndex
  <2>5. IndexStep
    BY <2>1 DEF IndexStep
  <2>6. \A m \in hotFile' : m \in scanned'.todo \cup scanned'.seen
                                    \cup scanned'.dropped \cup Entries' \cup {w[Cleaner].name}
    BY <1>2, <2>1, <2>2, <2>4
  <2> QED
    BY <1>0, <1>1, <2>1, <2>3, <2>5, <2>6, StillStep
<1>5. CASE ScanFails
  <2>1. /\ w' = [w EXCEPT ![Scanner] = Idle]
        /\ scanned' = [todo |-> {}, seen |-> {}, dropped |-> {}]
        /\ UNCHANGED <<main, hotFile, index, ready, inflight>>
    BY <1>5 DEF ScanFails, Go, files
  <2>2. Idle \in State /\ Idle.pc = "idle"
    BY States
  <2>3. RoleOf(Scanner, Idle)
    BY <1>0, <2>2 DEF RoleOf
  <2>4. scanned' \in ScanState
    BY <2>1 DEF ScanState
  <2> QED
    BY <1>0, <1>1, <2>1, <2>2, <2>3, <2>4, PlainStep
\* The scanner itself goes on to check the capacity.
<1>6. CASE ScanReady
  <2> DEFINE st == At("check", NoName)
  <2>1. st \in State /\ st.pc = "check" /\ st.name = NoName
    BY States
  <2>2. /\ w' = [w EXCEPT ![Scanner] = st] /\ ready' = TRUE
        /\ scanned' = [scanned EXCEPT !.dropped = {}]
        /\ UNCHANGED <<main, hotFile, lru, usage, inflight>>
    BY <1>6 DEF ScanReady, Go, files, index
  <2> HIDE DEF st
  <2>3. Moves(Scanner, st) /\ RoleOf(Scanner, st)
    BY <1>0, <2>1, <2>2 DEF Moves, RoleOf
  <2>4. /\ w' \in [Workers -> State] /\ w'[Scanner] = st
        /\ \A h \in Workers \ {Scanner} : w'[h] = w[h]
    BY <1>0, <2>3, OneMoves
  <2>5. IndexInv'
    BY <1>0, <2>2 DEF IndexInv, Entries, Listed, Sized, BytesOf, Distinct
  <2>6. TypeOK'
    <3>1. scanned' \in ScanState
      BY <1>0, <2>2 DEF ScanState
    <3> QED
      BY <2>2, <2>4, <3>1 DEF HotInv, Base, TypeOK, State, ScanState
  <2>7. Roles'
    BY <1>0, <2>3, RolesStay DEF HotInv, Base
  <2>8. Registered'
    <3>1. \A g \in Promoters : w'[g].name = w[g].name
      BY <2>4, Apart
    <3> QED
      BY <2>2, <3>1, RegisteredStays DEF HotInv
  <2>9. OverCapIsEvicted'
    BY <1>0, <2>1, <2>4 DEF OverCapIsEvicted
  <2>10. Walk'
    BY <2>2 DEF Walk
  <2> QED
    BY <2>5, <2>6, <2>7, <2>8, <2>9, <2>10 DEF HotInv, Base
<1> QED
  BY <1>3, <1>4, <1>5, <1>6

\* Every step of the server, and every file that vanishes, preserves the invariant.
LEMMA HotNext == HotInv /\ [Next]_vars => HotInv'
<1> SUFFICES ASSUME HotInv, [Next]_vars
             PROVE  HotInv'
  OBVIOUS
<1>1. ASSUME NEW r \in Readers, Reader(r)
      PROVE  HotInv'
  BY <1>1, ReaderKeeps
<1>2. CASE Background
  <2>1. ASSUME NEW g \in Promoters, Promoter(g)
        PROVE  HotInv'
    BY <2>1, PromoterKeeps
  <2>2. CASE AddInstalled(Flusher)
    BY <2>2, AddInstalledKeeps
  <2>3. CASE EvictHotIfOver(Flusher) \/ EvictHotIfOver(Cleaner) \/ EvictHotIfOver(Scanner)
    BY <2>3, EvictorKeeps DEF Evictors
  <2>4. CASE DropHot \/ UnlinkHot
    BY <2>4, CleanerKeeps
  <2> QED
    BY <1>2, <2>1, <2>2, <2>3, <2>4 DEF Background
<1>3. ASSUME NEW g \in Promoters, PromoteFails(g)
      PROVE  HotInv'
  BY <1>3, PromoterKeeps
<1>4. ASSUME NEW n \in Names, FinishCommitted(n)
      PROVE  HotInv'
  BY <1>4, FlusherKeeps
<1>5. CASE TickEvictHot \/ \E n \in Names : EvictBlob(n)
  BY <1>5, CleanerKeeps
<1>6. CASE ScanFails \/ ScanReady \/ \E n \in Names : ScanVisit(n) \/ ScanAdd(n)
  BY <1>6, ScannerKeeps
\* Files may vanish: the index claims no more than it did.
<1>7. ASSUME UNCHANGED <<main, lru, usage, ready, inflight, w, scanned>>, hotFile' \subseteq hotFile
      PROVE  HotInv'
  <2>1. Entries' = Entries /\ IndexStep
    BY <1>7 DEF Entries, IndexStep, index
  <2>2. /\ scanned' \in ScanState
        /\ main' \subseteq Names /\ hotFile' \subseteq Names /\ usage \in Int
    BY <1>7 DEF HotInv, Base, TypeOK, ScanState
  <2>3. ~ready /\ w[Scanner].pc = "walk" =>
          \A m \in hotFile' : m \in scanned'.todo \cup scanned'.seen
                                      \cup scanned'.dropped \cup Entries' \cup {w[Cleaner].name}
    BY <1>7, <2>1 DEF HotInv, Walk
  <2>4. usage' <= usage
    BY <1>7, <2>2
  <2> QED
    BY <1>7, <2>1, <2>2, <2>3, <2>4, StillStep
<1>8. ASSUME NEW n \in Names, HotFileVanishes(n)
      PROVE  HotInv'
  BY <1>7, <1>8 DEF HotFileVanishes, index
<1>9. CASE UNCHANGED vars
  BY <1>7, <1>9 DEF vars, files, index
<1> QED
  BY <1>1, <1>2, <1>3, <1>4, <1>5, <1>6, <1>8, <1>9 DEF Next

-----------------------------------------------------------------------------
(* The properties *)

\* The invariant holds in every reachable state.
LEMMA HotAlways == Spec => []HotInv
BY HotInit, HotNext, PTL DEF Spec

\* The usage that decides about evictions is the size of the indexed files, each
\* counted once, whichever goroutines added, dropped or evicted them.
THEOREM UsageIsExact == Spec => []UsageExact
<1>1. HotInv => UsageExact
  BY DEF HotInv, Base, IndexInv, Sized, Distinct, UsageExact, Bytes
<1> QED
  BY <1>1, HotAlways, PTL

\* A name is in flight exactly while one promotion of it runs: tryStartPromotion
\* and endPromotion are paired on every path of promoteToHot.
THEOREM PromotionsArePaired == Spec => []PromotionsPaired
<1>1. HotInv => PromotionsPaired
  <2> SUFFICES ASSUME HotInv, NEW n \in Names
               PROVE  Cardinality({g \in Promoters : w[g].name = n})
                        = IF n \in inflight THEN 1 ELSE 0
    BY DEF PromotionsPaired
  <2>1. CASE n \in inflight
    <3>1. PICK g \in Promoters : w[g].name = n
      BY <2>1 DEF HotInv, Registered
    <3>2. {h \in Promoters : w[h].name = n} = {g}
      BY <3>1 DEF HotInv, Registered
    <3> QED
      BY <2>1, <3>2, FS_Singleton
  <2>2. CASE n \notin inflight
    <3>1. {g \in Promoters : w[g].name = n} = {}
      BY <2>2 DEF HotInv, Registered
    <3> QED
      BY <2>2, <3>1, FS_EmptySet
  <2> QED
    BY <2>1, <2>2
<1> QED
  BY <1>1, HotAlways, PTL

\* A ready tier over its capacity always has a goroutine on its way to
\* evictHotIfOver, and one eviction is enough: it ends below the capacity.
THEOREM SomeoneShrinksIt == Spec => []OverCapIsEvicted
<1>1. HotInv => OverCapIsEvicted
  BY DEF HotInv
<1> QED
  BY <1>1, HotAlways, PTL

\* When the scan declares the index ready, every file of the hot directory is in
\* it, whatever was committed, read and evicted during the walk, but for the file
\* removeFromHot is unlinking and those a GET found but could not open.
THEOREM ScanMissesNothing == Spec => ScanAccountsAll
<1> DEFINE A == ~ready /\ ready' =>
                  hotFile \subseteq Entries \cup scanned.dropped \cup {w[Cleaner].name}
<1>1. HotInv /\ [Next]_vars => [A]_vars
  <2> SUFFICES ASSUME HotInv, Next, ~ready, ready'
               PROVE  hotFile \subseteq Entries \cup scanned.dropped \cup {w[Cleaner].name}
    BY DEF HotInv
  <2>1. ScanReady
    <3>1. \A r \in Readers : Reader(r) => ready' = ready
      BY DEF Reader, GetHit, GetMissesHot, GetOpenMain, GetDropEntry, GetStartPromotion,
             GetNoPromotion
    <3>2. \A g : EvictHotIfOver(g) \/ AddInstalled(g) => ready' = ready
      BY DEF EvictHotIfOver, CheckCap, EvictLRU, EvictDone, RemoveVictim, AddInstalled
    <3>3. \A g \in Promoters : Promoter(g) \/ PromoteFails(g) => ready' = ready
      BY <3>2 DEF Promoter, PromoteOpen, PromoteRename, EndPromotion, PromoteFails
    <3>4. Background => ready' = ready
      BY <3>2, <3>3 DEF Background, DropHot, UnlinkHot
    <3>5. \A n \in Names : FinishCommitted(n) \/ EvictBlob(n) \/ HotFileVanishes(n)
                             \/ ScanVisit(n) \/ ScanAdd(n) => ready' = ready
      BY DEF FinishCommitted, EvictBlob, HotFileVanishes, ScanVisit, ScanAdd
    <3>6. TickEvictHot \/ ScanFails => ready' = ready
      BY DEF TickEvictHot, ScanFails
    <3> QED
      BY <3>1, <3>3, <3>4, <3>5, <3>6 DEF Next
  <2>2. w[Scanner].pc = "walk" /\ scanned.todo = {} /\ scanned.seen = {}
    BY <2>1 DEF ScanReady
  <2> QED
    BY <2>2 DEF HotInv, Walk
<1>2. ScanAccountsAll <=> [][A]_vars
  BY DEF ScanAccountsAll
<1> HIDE DEF A
<1> QED
  BY <1>1, <1>2, HotAlways, PTL DEF Spec
=============================================================================
