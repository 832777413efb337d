--------------------------- MODULE CleanupProofs ---------------------------
(***************************************************************************)
(* Proofs about the cleanup loop, for any actions, contents, shards, sizes *)
(* and limits: the usage it works with implements the books of ShardStats, *)
(* so that ShardStats' theorems hold of it, and an eviction takes no blob  *)
(* away beyond its byte budget.                                            *)
(***************************************************************************)
EXTENDS Cleanup, FiniteSetTheorems, FunctionTheorems, WellFoundedInduction, TLAPS

-----------------------------------------------------------------------------
(* Sums *)

\* The units of finitely many numbers are finitely many.
LEMMA UnitsFinite ==
  ASSUME NEW S, IsFiniteSet(S), NEW f, \A x \in S : f[x] \in Int
  PROVE  IsFiniteSet(Units(f, S)) /\ SumOver(f, S) \in Nat
<1> DEFINE row == [x \in S |-> {x} \X (1..f[x])]
           T   == {{x} \X (1..f[x]) : x \in S}
<1>1. row \in Surjection(S, T)
  BY DEF Surjection
<1>2. IsFiniteSet(T)
  <2> HIDE DEF row, T
  <2> QED
    BY <1>1, FS_Surjection
<1>3. ASSUME NEW t \in T
      PROVE  IsFiniteSet(t)
  <2>1. PICK x \in S : t = {x} \X (1..f[x])
    OBVIOUS
  <2>2. f[x] \in Int
    OBVIOUS
  <2>3. IsFiniteSet({x}) /\ IsFiniteSet(1..f[x])
    BY ONLY <2>2, 1 \in Int, FS_Singleton, FS_Interval
  <2>4. IsFiniteSet({x} \X (1..f[x]))
    BY ONLY <2>3, FS_Product
  <2> QED
    BY <2>1, <2>4
<1>4. IsFiniteSet(UNION T)
  <2> HIDE DEF T
  <2> QED
    BY <1>2, <1>3, FS_UNION
<1> QED
  BY <1>4, FS_CardinalityType DEF Units, SumOver

\* Nothing sums up to zero.
LEMMA SumNone == ASSUME NEW f PROVE SumOver(f, {}) = 0
<1>1. Units(f, {}) = {}
  BY DEF Units
<1> QED
  BY <1>1, FS_EmptySet DEF SumOver

\* One number sums up to itself.
LEMMA SumOne ==
  ASSUME NEW x, NEW f, f[x] \in Nat
  PROVE  SumOver(f, {x}) = f[x]
<1> DEFINE n == f[x]
<1>1. n \in Nat /\ Units(f, {x}) = {x} \X (1..n)
  BY DEF Units
<1> HIDE DEF n
<1>2. IsFiniteSet(1..n) /\ Cardinality(1..n) = n
  <2>1. n \in Int /\ 1 \in Int
    BY <1>1
  <2>2. IsFiniteSet(1..n) /\ Cardinality(1..n) = IF 1 > n THEN 0 ELSE n - 1 + 1
    BY ONLY <2>1, FS_Interval
  <2> QED
    BY <1>1, <2>2
<1>3. IsFiniteSet({x}) /\ Cardinality({x}) = 1
  BY FS_Singleton
<1>4. Cardinality({x} \X (1..n)) = Cardinality({x}) * Cardinality(1..n)
  BY ONLY <1>2, <1>3, FS_Product
<1>5. Cardinality({x} \X (1..n)) = n
  BY <1>1, <1>2, <1>3, <1>4
<1> QED
  BY <1>1, <1>5 DEF SumOver, n

\* Sums over disjoint sets add up.
LEMMA SumUnion ==
  ASSUME NEW S, NEW T, IsFiniteSet(S), IsFiniteSet(T), S \cap T = {},
         NEW f, \A x \in S \cup T : f[x] \in Int
  PROVE  SumOver(f, S \cup T) = SumOver(f, S) + SumOver(f, T)
<1> DEFINE B == Units(f, S)
           C == Units(f, T)
<1>1. Units(f, S \cup T) = B \cup C /\ B \cap C = {}
  BY DEF Units
<1>2. /\ IsFiniteSet(B) /\ IsFiniteSet(C)
      /\ SumOver(f, S) \in Nat /\ SumOver(f, T) \in Nat
  BY UnitsFinite
<1> HIDE DEF B, C
<1>3. Cardinality(B \cup C) = Cardinality(B) + Cardinality(C) - Cardinality(B \cap C)
  BY ONLY <1>2, FS_Union
<1>4. Cardinality(B \cap C) = 0
  BY <1>1, FS_EmptySet
<1>5. Cardinality(B) = SumOver(f, S) /\ Cardinality(C) = SumOver(f, T)
  BY DEF SumOver, B, C
<1>6. Cardinality(B \cup C) = SumOver(f, S) + SumOver(f, T)
  BY <1>2, <1>3, <1>4, <1>5
<1> QED
  BY <1>1, <1>6 DEF SumOver

\* The sum over a part is what the sum over the rest leaves.
LEMMA SumDifference ==
  ASSUME NEW S, NEW T \in SUBSET S, IsFiniteSet(S), NEW f, \A x \in S : f[x] \in Int
  PROVE  /\ SumOver(f, S \ T) = SumOver(f, S) - SumOver(f, T)
         /\ SumOver(f, T) \in 0..SumOver(f, S)
<1>1. IsFiniteSet(T) /\ IsFiniteSet(S \ T)
  BY FS_Subset
<1>2. (S \ T) \cup T = S /\ (S \ T) \cap T = {}
  OBVIOUS
<1>3. SumOver(f, S) = SumOver(f, S \ T) + SumOver(f, T)
  BY <1>1, <1>2, SumUnion
<1>4. SumOver(f, S \ T) \in Nat /\ SumOver(f, T) \in Nat
  BY <1>1, UnitsFinite
<1> QED
  BY <1>3, <1>4

\* The units of f over S are the pairs of an x and a number up to f[x].
LEMMA UnitPairs ==
  ASSUME NEW f, NEW S
  PROVE  /\ \A u \in Units(f, S) : \E x \in S, i \in Int : u = <<x, i>> /\ i \in 1..f[x]
         /\ \A x \in S : \A i \in 1..f[x] : <<x, i>> \in Units(f, S)
BY DEF Units

\* The sum depends on the positive numbers only.
LEMMA SumSame ==
  ASSUME NEW S, NEW f, NEW g, \A x \in S : 1..f[x] = 1..g[x]
  PROVE  SumOver(f, S) = SumOver(g, S)
<1>1. Units(f, S) = Units(g, S)
  BY DEF Units
<1> QED
  BY <1>1 DEF SumOver

\* The sum of sums is the sum of both.
LEMMA SumPlus ==
  ASSUME NEW S, IsFiniteSet(S), NEW f, NEW g, NEW h,
         \A x \in S : f[x] \in Nat /\ g[x] \in Nat /\ h[x] = f[x] + g[x]
  PROVE  SumOver(h, S) = SumOver(f, S) + SumOver(g, S)
<1> DEFINE F == Units(f, S)
           G == Units(g, S)
           H == Units(h, S)
           shift == [u \in G |-> <<u[1], f[u[1]] + u[2]>>]
<1>1. IsFiniteSet(F) /\ IsFiniteSet(G) /\ IsFiniteSet(H) /\ F \subseteq H
  <2>1. IsFiniteSet(F) /\ IsFiniteSet(G) /\ IsFiniteSet(H)
    BY UnitsFinite
  <2>2. ASSUME NEW u \in F
        PROVE  u \in H
    <3>1. PICK x \in S, i \in Int : u = <<x, i>> /\ i \in 1..f[x]
      BY UnitPairs
    <3>2. i \in 1..h[x]
      BY <3>1
    <3> QED
      BY <3>1, <3>2, UnitPairs
  <2> QED
    BY <2>1, <2>2
<1>2. shift \in Bijection(G, H \ F)
  <2>1. ASSUME NEW u \in G
        PROVE  /\ u[1] \in S /\ u[2] \in 1..g[u[1]] /\ u = <<u[1], u[2]>>
               /\ shift[u] = <<u[1], f[u[1]] + u[2]>>
               /\ shift[u] \in H \ F
    <3>1. PICK x \in S, i \in Int : u = <<x, i>> /\ i \in 1..g[x]
      BY UnitPairs
    <3>2. shift[u] = <<x, f[x] + i>>
      BY <3>1
    <3>3. f[x] + i \in 1..h[x] /\ f[x] + i \notin 1..f[x]
      BY <3>1
    <3>4. <<x, f[x] + i>> \in H
      BY <3>3, UnitPairs
    <3>5. <<x, f[x] + i>> \notin F
      <4> SUFFICES ASSUME <<x, f[x] + i>> \in F
                   PROVE  FALSE
        OBVIOUS
      <4>1. PICK y \in S, j \in Int : <<x, f[x] + i>> = <<y, j>> /\ j \in 1..f[y]
        BY UnitPairs
      <4> QED
        BY <3>3, <4>1
    <3> QED
      BY <3>1, <3>2, <3>4, <3>5
  <2>2. shift \in [G -> H \ F]
    BY <2>1
  <2>3. ASSUME NEW u \in G, NEW v \in G, shift[u] = shift[v]
        PROVE  u = v
    <3>1. u[1] = v[1] /\ f[u[1]] + u[2] = f[v[1]] + v[2]
      BY <2>1, <2>3
    <3> HIDE DEF shift, F, G, H
    <3>2. /\ f[u[1]] \in Nat /\ u[2] \in 1..g[u[1]] /\ v[2] \in 1..g[v[1]]
      BY <2>1
    <3>3. u[2] = v[2]
      BY <3>1, <3>2
    <3> QED
      BY <2>1, <3>1, <3>3
  <2>4. ASSUME NEW w \in H \ F
        PROVE  \E u \in G : shift[u] = w
    <3>1. PICK x \in S, k \in Int : w = <<x, k>> /\ k \in 1..h[x]
      BY UnitPairs
    <3>2. k \notin 1..f[x]
      BY <3>1, UnitPairs
    <3>3. k - f[x] \in 1..g[x] /\ f[x] + (k - f[x]) = k
      BY <3>1, <3>2
    <3>4. <<x, k - f[x]>> \in G
      BY <3>3, UnitPairs
    <3> QED
      BY <3>1, <3>3, <3>4
  <2> HIDE DEF shift, F, G, H
  <2> QED
    BY <2>2, <2>3, <2>4 DEF Bijection, Injection, Surjection, IsInjective
<1> HIDE DEF shift, F, G, H
<1>3. Cardinality(H \ F) = Cardinality(G)
  BY <1>1, <1>2, FS_Bijection DEF ExistsBijection
<1>4. Cardinality(H \ F) = Cardinality(H) - Cardinality(H \cap F)
  BY <1>1, FS_Difference
<1>5. H \cap F = F
  BY <1>1
<1>6. Cardinality(H) \in Nat /\ Cardinality(F) \in Nat /\ Cardinality(G) \in Nat
  BY <1>1, FS_CardinalityType
<1> QED
  BY <1>3, <1>4, <1>5, <1>6 DEF SumOver, F, G, H

\* Summing up groups sums up their members.
LEMMA SumGroups ==
  ASSUME NEW S, IsFiniteSet(S), NEW A, IsFiniteSet(A), NEW f, NEW group,
         \A x \in A : f[x] \in Nat /\ group[x] \in S
  PROVE  SumOver([s \in S |-> SumOver(f, {x \in A : group[x] = s})], S) = SumOver(f, A)
<1> DEFINE In(s) == Units(f, {x \in A : group[x] = s})
           n == [s \in S |-> SumOver(f, {x \in A : group[x] = s})]
           enum == [s \in S |-> CHOOSE e \in Bijection(1..n[s], In(s)) : TRUE]
           U == Units(n, S)
           V == Units(f, A)
           flat == [u \in U |-> enum[u[1]][u[2]]]
<1>1. ASSUME NEW s \in S
      PROVE  enum[s] \in Bijection(1..n[s], In(s)) /\ n[s] \in Nat
  <2>1. IsFiniteSet({x \in A : group[x] = s})
    BY FS_Subset
  <2>2. IsFiniteSet(In(s)) /\ n[s] = Cardinality(In(s)) /\ n[s] \in Nat
    BY <2>1, UnitsFinite DEF SumOver
  <2>3. Bijection(1..n[s], In(s)) # {}
    <3> HIDE DEF In, n
    <3> QED
      BY <2>2, FS_CardinalityType DEF ExistsBijection
  <2>4. enum[s] = CHOOSE e \in Bijection(1..n[s], In(s)) : TRUE
    OBVIOUS
  <2> HIDE DEF In, n, enum
  <2> QED
    BY <2>2, <2>3, <2>4
<1>2. \A s \in S : In(s) = {v \in V : group[v[1]] = s}
  <2> SUFFICES ASSUME NEW s \in S
               PROVE  In(s) = {v \in V : group[v[1]] = s}
    OBVIOUS
  <2>1. ASSUME NEW v \in In(s)
        PROVE  v \in V /\ group[v[1]] = s
    <3>1. PICK x \in {x \in A : group[x] = s}, i \in Int : v = <<x, i>> /\ i \in 1..f[x]
      BY UnitPairs
    <3> QED
      BY <3>1, UnitPairs
  <2>2. ASSUME NEW v \in V, group[v[1]] = s
        PROVE  v \in In(s)
    <3>1. PICK x \in A, i \in Int : v = <<x, i>> /\ i \in 1..f[x]
      BY UnitPairs
    <3>2. x \in {y \in A : group[y] = s}
      BY <2>2, <3>1
    <3> QED
      BY <3>1, <3>2, UnitPairs
  <2> QED
    BY <2>1, <2>2
<1>3. \A v \in V : group[v[1]] \in S
  <2> SUFFICES ASSUME NEW v \in V
               PROVE  group[v[1]] \in S
    OBVIOUS
  <2>1. PICK x \in A, i \in Int : v = <<x, i>> /\ i \in 1..f[x]
    BY UnitPairs
  <2> QED
    BY <2>1
<1>4. flat \in Bijection(U, V)
  <2>1. ASSUME NEW u \in U
        PROVE  /\ u[1] \in S /\ u[2] \in 1..n[u[1]] /\ u = <<u[1], u[2]>>
               /\ flat[u] = enum[u[1]][u[2]]
               /\ flat[u] \in V /\ group[flat[u][1]] = u[1]
    <3>1. PICK s \in S, i \in Int : u = <<s, i>> /\ i \in 1..n[s]
      BY UnitPairs
    <3>2. flat[u] = enum[s][i]
      BY <3>1
    <3> HIDE DEF In, n, enum, flat, U, V
    <3>3. enum[s][i] \in In(s)
      BY <1>1, <3>1 DEF Bijection, Injection
    <3> QED
      BY <1>2, <3>1, <3>2, <3>3
  <2> HIDE DEF In, n, enum, flat, U, V
  <2>2. flat \in [U -> V]
    BY <2>1 DEF flat
  <2>3. ASSUME NEW u \in U, NEW v \in U, flat[u] = flat[v]
        PROVE  u = v
    <3>1. u[1] = v[1]
      BY <2>1, <2>3
    <3>2. enum[u[1]][u[2]] = enum[u[1]][v[2]]
      BY <2>1, <2>3, <3>1
    <3>3. u[2] = v[2]
      BY <1>1, <2>1, <3>1, <3>2 DEF Bijection, Injection, IsInjective
    <3> QED
      BY <2>1, <3>1, <3>3
  <2>4. ASSUME NEW v \in V
        PROVE  \E u \in U : flat[u] = v
    <3>1. PICK s \in S : group[v[1]] = s
      BY <1>3
    <3>2. v \in In(s)
      BY <1>2, <3>1
    <3>3. PICK i \in 1..n[s] : enum[s][i] = v
      BY <1>1, <3>2 DEF Bijection, Surjection
    <3>4. <<s, i>> \in U
      BY UnitPairs DEF U
    <3>5. flat[<<s, i>>] = enum[s][i]
      BY <3>4 DEF flat
    <3> QED
      BY <3>3, <3>4, <3>5
  <2> QED
    BY <2>2, <2>3, <2>4 DEF Bijection, Injection, Surjection, IsInjective
<1>5. IsFiniteSet(V)
  BY UnitsFinite
<1>6. IsFiniteSet(U)
  <2> HIDE DEF n, enum, In
  <2>1. \A s \in S : n[s] \in Int
    BY <1>1
  <2> QED
    BY <2>1, UnitsFinite
<1>7. Cardinality(U) = Cardinality(V)
  <2> HIDE DEF U, V, flat
  <2> QED
    BY <1>4, <1>6, FS_Bijection DEF ExistsBijection
<1> QED
  BY <1>7 DEF SumOver

-----------------------------------------------------------------------------
(* Type correctness *)

\* The sizes of actions are positive, and sets of actions are finite.
LEMMA SizeType ==
  /\ \A a \in Actions : Size[a] \in Nat \ {0} /\ Shard(a) \in Shards
  /\ \A A \in SUBSET Actions : IsFiniteSet(A) /\ Cardinality(A) \in Nat /\ Bytes(A) \in Nat
<1>1. \A a \in Actions : Size[a] \in Nat \ {0} /\ Shard(a) \in Shards
  BY CleanupAssumption DEF Size, Shard
<1>2. ASSUME NEW A \in SUBSET Actions
      PROVE  IsFiniteSet(A) /\ Cardinality(A) \in Nat /\ Bytes(A) \in Nat
  <2>1. IsFiniteSet(A)
    BY CleanupAssumption, FS_Subset
  <2> QED
    BY <1>1, <2>1, UnitsFinite, FS_CardinalityType DEF Bytes
<1> QED
  BY <1>1, <1>2

\* The totals of a scan, and the aggregate of the totals, are numbers.
LEMMA StatsType ==
  ASSUME TypeOK
  PROVE  /\ \A s \in Shards : StatsOf(InShard(s)) \in Stats
         /\ LastUsage \in Stats
         /\ SumShardDeltas \in Int /\ Lost \in Int
<1>1. ASSUME NEW s \in Shards
      PROVE  StatsOf(InShard(s)) \in Stats
  <2>1. /\ InShard(s) \in SUBSET Actions
        /\ {a \in InShard(s) : atime[a] > now - MaxAge} \in SUBSET Actions
    BY DEF InShard, Present
  <2> QED
    BY <2>1, SizeType DEF StatsOf, Stats
<1>2. LastUsage \in Stats
  <2>1. \A s \in Shards : shardStats[s] \in Stats
    BY DEF TypeOK
  <2>2. \A s \in Shards : /\ [z \in Shards |-> shardStats[z].size][s] \in Int
                          /\ [z \in Shards |-> shardStats[z].count][s] \in Int
                          /\ [z \in Shards |-> shardStats[z].fresh][s] \in Int
    BY <2>1 DEF Stats
  <2>3. /\ SumOver([z \in Shards |-> shardStats[z].size], Shards) \in Nat
        /\ SumOver([z \in Shards |-> shardStats[z].count], Shards) \in Nat
        /\ SumOver([z \in Shards |-> shardStats[z].fresh], Shards) \in Nat
    BY <2>2, CleanupAssumption, UnitsFinite
  <2> QED
    BY <2>3 DEF LastUsage, Stats
<1>3. ASSUME NEW f \in [Shards -> Int]
      PROVE  SignedSum(f) \in Int
  <2>1. \A s \in Shards : f[s] \in Int /\ [z \in Shards |-> -f[z]][s] \in Int
    OBVIOUS
  <2>2. /\ SumOver(f, Shards) \in Nat
        /\ SumOver([z \in Shards |-> -f[z]], Shards) \in Nat
    BY <2>1, CleanupAssumption, UnitsFinite
  <2> QED
    BY <2>2 DEF SignedSum
<1> QED
  BY <1>1, <1>2, <1>3 DEF TypeOK, SumShardDeltas, Lost

\* What a scanner and the cleaner are working on, by their program counters.
LEMMA PcTypes ==
  ASSUME TypeOK
  PROVE  /\ \A c \in Scanners :
              /\ scan[c].pc \in {"scanned", "persisted"} =>
                   scan[c] \in [pc : {"scanned", "persisted"}, shard : Shards, new : Stats]
              /\ scan[c].pc = "recorded" =>
                   scan[c] \in [pc : {"recorded"}, shard : Shards, diff : Int]
         /\ cleaner.pc = "loaded" => cleaner \in [pc : {"loaded"}, us : Stats]
         /\ cleaner.pc = "query" =>
              cleaner \in [pc : {"query"}, cutoff : Int, overSize : BOOLEAN,
                           budgeted : BOOLEAN, budget : Int]
         /\ cleaner.pc = "cands" =>
              cleaner \in [pc : {"cands"}, cs : Seq(Actions), overSize : BOOLEAN,
                           budgeted : BOOLEAN, budget : Int]
         /\ setup \in Setup
BY CleanupAssumption DEF TypeOK, Idle

\* A batch of candidates is a sequence of distinct actions in the table.
LEMMA CandidatesType ==
  ASSUME TypeOK, NEW cutoff \in Int, NEW cs \in Candidates(cutoff)
  PROVE  /\ cs \in Seq(Actions)
         /\ \A i \in 1..Len(cs) : cs[i] \in Present
         /\ \A i, j \in 1..Len(cs) : i # j => cs[i] # cs[j]
<1> DEFINE old == {a \in Present : atime[a] <= cutoff}
           n   == IF Cardinality(old) < BatchSize THEN Cardinality(old) ELSE BatchSize
<1>1. old \in SUBSET Actions /\ old \subseteq Present
  BY DEF Present
<1>2. n \in Nat
  BY <1>1, SizeType, PcTypes DEF BatchSize, Setup
<1>3. /\ cs \in [1..n -> old]
      /\ \A i, j \in 1..n : i < j => cs[i] # cs[j]
  BY DEF Candidates
<1> HIDE DEF n, old
<1>4. cs \in Seq(Actions) /\ Len(cs) = n
  BY <1>1, <1>2, <1>3
<1>5. \A i, j \in 1..n : i # j => cs[i] # cs[j]
  <2> SUFFICES ASSUME NEW i \in 1..n, NEW j \in 1..n, i # j
               PROVE  cs[i] # cs[j]
    OBVIOUS
  <2>1. i < j \/ j < i
    BY <1>2
  <2> QED
    BY <1>3, <2>1
<1> QED
  BY <1>1, <1>3, <1>4, <1>5

\* A set of numbers has a least one.
LEMMA MinIsLeast ==
  ASSUME NEW S \in SUBSET Nat, S # {}
  PROVE  Min(S) \in S /\ \A y \in S : Min(S) <= y
<1>1. PICK m \in S : \A y \in S : <<y, m>> \notin OpToRel(<, Nat)
  BY NatLessThanWellFounded, WFMin
<1>2. \A y \in S : ~(y < m)
  BY <1>1 DEF OpToRel
<1>3. \A y \in S : m <= y
  BY <1>2
<1> QED
  BY <1>3 DEF Min

\* An eviction takes the first n candidates, and with a byte budget it did not
\* stop after fewer.
LEMMA EvictedIsPrefix ==
  ASSUME TypeOK, cleaner.pc = "cands"
  PROVE  \E n \in 0..Len(cleaner.cs) :
           /\ Evicted = Prefix(cleaner.cs, n)
           /\ cleaner.budgeted => \A i \in 1..(n - 1) : ~StopsAfter(cleaner.cs, i)
<1> DEFINE cs    == cleaner.cs
           stops == {n \in 1..Len(cs) : cleaner.budgeted /\ StopsAfter(cs, n)}
           n     == IF stops = {} THEN Len(cs) ELSE Min(stops)
<1>1. Len(cs) \in Nat
  BY PcTypes
<1>2. stops \in SUBSET Nat
  BY <1>1
<1>3. stops # {} => n \in stops /\ \A y \in stops : n <= y
  <2> HIDE DEF stops
  <2> QED
    BY <1>2, MinIsLeast
<1>4. n \in 0..Len(cs)
  BY <1>1, <1>3
<1>5. Evicted = Prefix(cs, n)
  BY DEF Evicted
<1>6. ASSUME cleaner.budgeted, NEW i \in 1..(n - 1)
      PROVE  ~StopsAfter(cs, i)
  <2> HIDE DEF n
  <2>1. i \in 1..Len(cs) /\ i < n /\ i \in Int /\ n \in Int
    BY <1>1, <1>4
  <2>2. i \notin stops
    <3>1. CASE stops = {}
      BY <3>1
    <3>2. CASE stops # {}
      BY <1>3, <2>1, <3>2
    <3> QED
      BY <3>1, <3>2
  <2> QED
    BY <1>6, <2>1, <2>2
<1> QED
  BY <1>4, <1>5, <1>6

\* Evicted actions are actions.
LEMMA EvictedActions ==
  ASSUME TypeOK, cleaner.pc = "cands"
  PROVE  Evicted \in SUBSET Actions
<1>1. PICK n \in 0..Len(cleaner.cs) : Evicted = Prefix(cleaner.cs, n)
  BY EvictedIsPrefix
<1>2. cleaner.cs \in Seq(Actions) /\ Len(cleaner.cs) \in Nat
  BY PcTypes
<1>3. 1..n \subseteq 1..Len(cleaner.cs)
  BY <1>2
<1> QED
  BY <1>1, <1>2, <1>3 DEF Prefix

\* Nothing is in the table at first.
LEMMA TypeInit == Init => TypeOK
BY CleanupAssumption
DEF Init, TypeOK, Times, Stats, NoStats

\* Every step of the writers, the scanners and the cleanup loop keeps the types.
LEMMA TypeNext == TypeOK /\ [Next]_vars => TypeOK'
<1> SUFFICES ASSUME TypeOK, [Next]_vars
             PROVE  TypeOK'
  OBVIOUS
<1> USE DEF env, books, past
<1>1. ASSUME NEW B \in SUBSET Actions, FlushBatch(B)
      PROVE  TypeOK'
  BY <1>1 DEF FlushBatch, TypeOK, Times
<1>10. ASSUME NEW B \in SUBSET Actions
       PROVE  \A s \in Shards : BytesIn(s, B) \in Nat
  BY SizeType DEF BytesIn
<1>11. ASSUME NEW B \in SUBSET Actions, FlushBatchUnknown(B)
       PROVE  TypeOK'
  <2>1. lost' \in [Shards -> Int]
    BY <1>10, <1>11 DEF FlushBatchUnknown, TypeOK
  <2> QED
    BY <1>11, <2>1 DEF FlushBatchUnknown, TypeOK, Times
<1>2. ASSUME NEW a \in Actions, AddBlobDelta(a)
      PROVE  TypeOK'
  <2>1. owed[a] \in {-1, 0, 1} /\ Size[a] \in Nat /\ Shard(a) \in Shards
    BY SizeType DEF TypeOK
  <2>2. owed[a] * Size[a] \in Int
    BY <2>1
  <2> QED
    BY <1>2, <2>1, <2>2 DEF AddBlobDelta, TypeOK
<1>3. ASSUME NEW a \in Actions, EnqueueAccessTimeBump(a)
      PROVE  TypeOK'
  BY <1>3 DEF EnqueueAccessTimeBump, TypeOK, Times
<1>4. CASE FlushAccessTimeBumps
  BY <1>4 DEF FlushAccessTimeBumps, TypeOK, Times
<1>5. ASSUME NEW c \in Scanners, Scanner(c) \/ ScanFails(c) \/ \E s \in Shards : ScanShard(c, s)
      PROVE  TypeOK'
  <2>1. ASSUME NEW s \in Shards, ScanShard(c, s)
        PROVE  TypeOK'
    <3>1. StatsOf(InShard(s)) \in Stats
      BY StatsType
    <3> QED
      BY <2>1, <3>1 DEF ScanShard, TypeOK
  <2>2. CASE UpsertShardStats(c)
    <3>1. scan[c] \in [pc : {"scanned", "persisted"}, shard : Shards, new : Stats]
      BY <2>2, PcTypes DEF UpsertShardStats
    <3>2. [scan[c] EXCEPT !.pc = "persisted"]
            \in [pc : {"scanned", "persisted"}, shard : Shards, new : Stats]
      BY <3>1
    <3> QED
      BY <2>2, <3>1, <3>2 DEF UpsertShardStats, TypeOK
  <2>3. CASE RecordScan(c)
    <3>1. scan[c] \in [pc : {"scanned", "persisted"}, shard : Shards, new : Stats]
      BY <2>3, PcTypes DEF RecordScan
    <3>2. scan[c].new.size - shardStats[scan[c].shard].size \in Int
      BY <3>1 DEF TypeOK, Stats
    <3> QED
      BY <2>3, <3>1, <3>2 DEF RecordScan, TypeOK
  <2>4. CASE SettleDelta(c)
    BY <2>4, PcTypes DEF SettleDelta, TypeOK
  <2>5. CASE ScanFails(c)
    BY <2>5 DEF ScanFails, TypeOK
  <2> QED
    BY <1>5, <2>1, <2>2, <2>3, <2>4, <2>5 DEF Scanner
<1>6. CASE Cleaner \/ EvictUnknown \/ EvictFails
  <2>1. CASE TickLoad
    BY <2>1, StatsType DEF TickLoad, TypeOK
  <2>2. CASE TickDecide
    <3>1. cleaner \in [pc : {"loaded"}, us : Stats]
      BY <2>2, PcTypes DEF TickDecide
    <3>2. /\ cleaner.us.size \in Nat /\ SumShardDeltas \in Int /\ now \in Nat
          /\ MaxSize \in Nat /\ MaxAge \in Nat /\ MaxTime \in Nat
      <4>1. cleaner.us \in Stats /\ setup \in Setup
        BY <3>1, PcTypes
      <4> QED
        BY <4>1, StatsType DEF Stats, Setup, MaxSize, MaxAge, MaxTime, TypeOK
    <3>3. cleaner' = Idle \/ cleaner' \in [pc : {"query"}, cutoff : Int, overSize : BOOLEAN,
                                           budgeted : BOOLEAN, budget : Int]
      BY <2>2, <3>2 DEF TickDecide
    <3> QED
      BY <2>2, <3>3 DEF TickDecide, TypeOK
  <2>3. CASE EvictQuery
    <3>1. cleaner \in [pc : {"query"}, cutoff : Int, overSize : BOOLEAN, budgeted : BOOLEAN,
                       budget : Int]
      BY <2>3, PcTypes DEF EvictQuery
    <3>2. PICK cs \in Candidates(cleaner.cutoff) :
            cleaner' = IF cs = <<>> THEN Idle
                       ELSE [pc |-> "cands", cs |-> cs, overSize |-> cleaner.overSize,
                             budgeted |-> cleaner.budgeted, budget |-> cleaner.budget]
      BY <2>3 DEF EvictQuery
    <3>3. cs \in Seq(Actions)
      BY <3>1, CandidatesType
    <3>4. cleaner' = Idle \/ cleaner' \in [pc : {"cands"}, cs : Seq(Actions),
                                overSize : BOOLEAN, budgeted : BOOLEAN, budget : Int]
      BY <3>1, <3>2, <3>3
    <3> QED
      BY <2>3, <3>4 DEF EvictQuery, TypeOK
  <2>4. CASE EvictCommits
    BY <2>4 DEF EvictCommits, TypeOK, Times, NoTime
  <2>5. CASE EvictFails
    BY <2>5 DEF EvictFails, TypeOK
  <2>6. CASE EvictUnknown
    <3>1. Evicted \in SUBSET Actions
      BY <2>6, EvictedActions DEF EvictUnknown
    <3>2. \A s \in Shards : BytesIn(s, Evicted) \in Nat
      BY <1>10, <3>1
    <3>3. lost' = [s \in Shards |-> lost[s] - BytesIn(s, Evicted)] /\ lost \in [Shards -> Int]
      BY <2>6 DEF EvictUnknown, TypeOK
    <3>4. lost' \in [Shards -> Int]
      BY <3>2, <3>3
    <3> QED
      BY <2>6, <3>4 DEF EvictUnknown, TypeOK, Times, NoTime
  <2> QED
    BY <1>6, <2>1, <2>2, <2>3, <2>4, <2>5, <2>6 DEF Cleaner
<1>7. CASE Tick
  BY <1>7 DEF Tick, TypeOK
<1>8. CASE Restart
  BY <1>8 DEF Restart, TypeOK, Times
<1>9. CASE UNCHANGED vars
  BY <1>9 DEF vars, TypeOK
<1> QED
  BY <1>1, <1>2, <1>3, <1>4, <1>5, <1>6, <1>7, <1>8, <1>9, <1>11 DEF Next, Writer

\* Every reachable state of the cleanup loop is well typed: the budget that it
\* computes from two sums taken at different times is a number.
THEOREM CleanupTypeCorrect == Spec => []TypeOK
BY TypeInit, TypeNext, PTL DEF Spec

-----------------------------------------------------------------------------
(* What is owed, and what may be evicted *)

\* A transaction inserts or evicts, so that what is owed has one sign.
OneSign == (\A a \in Actions : owed[a] # 1) \/ (\A a \in Actions : owed[a] # -1)

\* The candidates stay in the table until the loop evicts them: nobody else
\* deletes actions.
CandsPresent == cleaner.pc = "cands" =>
  /\ \A i \in 1..Len(cleaner.cs) : cleaner.cs[i] \in Present
  /\ \A i, j \in 1..Len(cleaner.cs) : i # j => cleaner.cs[i] # cleaner.cs[j]

\* A byte budget is only set when the cache is over its size.
BudgetPositive == cleaner.pc \in {"query", "cands"} /\ cleaner.budgeted => cleaner.budget > 0

LoopInv == OneSign /\ CandsPresent /\ BudgetPositive

\* Nothing is owed and the loop is idle at first.
LEMMA LoopInit == Init => LoopInv
BY DEF Init, LoopInv, OneSign, CandsPresent, BudgetPositive, Idle

\* Every step preserves it.
LEMMA LoopNext == TypeOK /\ LoopInv /\ [Next]_vars => LoopInv'
<1> SUFFICES ASSUME TypeOK, LoopInv, [Next]_vars
             PROVE  LoopInv'
  OBVIOUS
<1> USE DEF env, books
\* Steps of others keep the candidates in the table.
<1>1. ASSUME OneSign', cleaner' = cleaner, Present \subseteq Present'
      PROVE  LoopInv'
  BY <1>1 DEF LoopInv, CandsPresent, BudgetPositive
<1>2. ASSUME NEW B \in SUBSET Actions, FlushBatch(B)
      PROVE  LoopInv'
  <2>1. OneSign' /\ cleaner' = cleaner
    BY <1>2 DEF FlushBatch, OneSign
  <2>2. Present \subseteq Present'
    BY <1>2 DEF FlushBatch, Present, NoTime, TypeOK
  <2> QED
    BY <1>1, <2>1, <2>2
<1>13. ASSUME NEW B \in SUBSET Actions, FlushBatchUnknown(B)
       PROVE  LoopInv'
  <2>1. OneSign' /\ cleaner' = cleaner
    BY <1>13 DEF FlushBatchUnknown, LoopInv, OneSign
  <2>2. Present \subseteq Present'
    BY <1>13 DEF FlushBatchUnknown, Present, NoTime, TypeOK
  <2> QED
    BY <1>1, <2>1, <2>2
<1>3. ASSUME NEW a \in Actions, AddBlobDelta(a)
      PROVE  LoopInv'
  <2>1. OneSign'
    BY <1>3 DEF AddBlobDelta, LoopInv, OneSign, TypeOK
  <2> QED
    BY <1>1, <1>3, <2>1 DEF AddBlobDelta, Present
<1>4. ASSUME NEW a \in Actions, EnqueueAccessTimeBump(a)
      PROVE  LoopInv'
  BY <1>1, <1>4 DEF EnqueueAccessTimeBump, LoopInv, OneSign, Present
<1>5. CASE FlushAccessTimeBumps
  BY <1>1, <1>5 DEF FlushAccessTimeBumps, LoopInv, OneSign, Present
<1>6. ASSUME NEW c \in Scanners, Scanner(c) \/ ScanFails(c) \/ \E s \in Shards : ScanShard(c, s)
      PROVE  LoopInv'
  BY <1>1, <1>6 DEF Scanner, UpsertShardStats, RecordScan, SettleDelta, ScanFails, ScanShard,
     LoopInv, OneSign, Present
<1>7. CASE TickLoad \/ EvictFails
  BY <1>7 DEF TickLoad, EvictFails, LoopInv, OneSign, CandsPresent, BudgetPositive, Idle
<1>8. CASE TickDecide
  <2> DEFINE size     == cleaner.us.size + SumShardDeltas
             overAge  == MaxAge > 0 /\ cleaner.us.count - cleaner.us.fresh > 0
             overSize == MaxSize > 0 /\ size > MaxSize
  <2>1. cleaner \in [pc : {"loaded"}, us : Stats]
    BY <1>8, PcTypes DEF TickDecide
  <2>2. size \in Int /\ MaxSize \in Nat
    BY <2>1, StatsType, PcTypes DEF Stats, Setup, MaxSize
  <2>3. overSize => size - MaxSize > 0
    BY <2>2
  <2>4. /\ UNCHANGED owed
        /\ cleaner' = IF overAge \/ overSize
                      THEN [pc       |-> "query",
                            cutoff   |-> IF MaxAge > 0 THEN now - MaxAge ELSE MaxTime,
                            overSize |-> overSize,
                            budgeted |-> ~overAge,
                            budget   |-> size - MaxSize]
                      ELSE Idle
    BY <1>8 DEF TickDecide
  <2> HIDE DEF size, overAge, overSize
  <2>5. BudgetPositive' /\ CandsPresent'
    BY <2>3, <2>4 DEF BudgetPositive, CandsPresent, Idle
  <2> QED
    BY <2>4, <2>5 DEF LoopInv, OneSign
<1>9. CASE EvictQuery
  <2>1. PICK cs \in Candidates(cleaner.cutoff) :
          cleaner' = IF cs = <<>> THEN Idle
                     ELSE [pc |-> "cands", cs |-> cs, overSize |-> cleaner.overSize,
                           budgeted |-> cleaner.budgeted, budget |-> cleaner.budget]
    BY <1>9 DEF EvictQuery
  <2>2. cleaner.pc = "query" /\ cleaner.cutoff \in Int
    BY <1>9, PcTypes DEF EvictQuery
  <2>3. /\ \A i \in 1..Len(cs) : cs[i] \in Present
        /\ \A i, j \in 1..Len(cs) : i # j => cs[i] # cs[j]
    BY <2>2, CandidatesType
  <2>4. UNCHANGED <<owed, atime>>
    BY <1>9 DEF EvictQuery
  <2>5. CandsPresent'
    BY <2>1, <2>3, <2>4 DEF CandsPresent, Present, Idle
  <2>6. BudgetPositive'
    BY <2>1, <2>2 DEF LoopInv, BudgetPositive, Idle
  <2> QED
    BY <2>4, <2>5, <2>6 DEF LoopInv, OneSign
<1>10. CASE EvictCommits \/ EvictUnknown
  BY <1>10 DEF EvictCommits, EvictUnknown, LoopInv, OneSign, CandsPresent, BudgetPositive, Idle
<1>11. CASE Tick \/ UNCHANGED vars
  BY <1>1, <1>11 DEF Tick, vars, LoopInv, OneSign, Present
<1>12. CASE Restart
  BY <1>12 DEF Restart, LoopInv, OneSign, CandsPresent, BudgetPositive, Idle
<1> QED
  BY <1>2, <1>3, <1>4, <1>5, <1>6, <1>7, <1>8, <1>9, <1>10, <1>11, <1>12, <1>13
  DEF Next, Writer, Cleaner

\* It holds in every reachable state.
LEMMA LoopAlways == Spec => [](TypeOK /\ LoopInv)
BY TypeInit, TypeNext, LoopInit, LoopNext, PTL DEF Spec

\* Evicted actions are in the table.
LEMMA EvictedPresent ==
  ASSUME TypeOK, LoopInv, cleaner.pc = "cands"
  PROVE  Evicted \subseteq Present
<1>1. PICK n \in 0..Len(cleaner.cs) : Evicted = Prefix(cleaner.cs, n)
  BY EvictedIsPrefix
<1>2. Len(cleaner.cs) \in Nat
  BY PcTypes
<1>3. 1..n \subseteq 1..Len(cleaner.cs)
  BY <1>2
<1> QED
  BY <1>1, <1>3 DEF Prefix, LoopInv, CandsPresent

\* What an eviction step deletes is what it evicts.
LEMMA EvictionDeletes ==
  ASSUME TypeOK, LoopInv, EvictCommits \/ EvictUnknown
  PROVE  {a \in Present : atime'[a] = NoTime} = Evicted
BY EvictedPresent DEF EvictCommits, EvictUnknown, Present

\* Other steps delete nothing.
LEMMA OnlyEvictionsDelete ==
  ASSUME TypeOK, [Next]_vars, ~EvictCommits, ~EvictUnknown
  PROVE  \A a \in Present : atime'[a] # NoTime
<1> USE DEF env, books
<1>1. ASSUME NEW B \in SUBSET Actions, FlushBatch(B) \/ FlushBatchUnknown(B)
      PROVE  \A a \in Present : atime'[a] # NoTime
  BY <1>1 DEF FlushBatch, FlushBatchUnknown, Present, NoTime, TypeOK
<1>2. CASE FlushAccessTimeBumps
  BY <1>2 DEF FlushAccessTimeBumps, Present
<1>3. CASE UNCHANGED atime
  BY <1>3 DEF Present
<1>4. \/ \E B \in SUBSET Actions : FlushBatch(B) \/ FlushBatchUnknown(B)
      \/ FlushAccessTimeBumps \/ UNCHANGED atime
  BY DEF Next, Writer, AddBlobDelta, EnqueueAccessTimeBump, Scanner, UpsertShardStats,
     RecordScan, SettleDelta, ScanFails, ScanShard, Cleaner, TickLoad, TickDecide,
     EvictQuery, EvictFails, Tick, Restart, vars
<1> QED
  BY <1>1, <1>2, <1>3, <1>4

-----------------------------------------------------------------------------
(* The byte budget *)

\* The first n candidates are n actions.
LEMMA PrefixSize ==
  ASSUME NEW cs, NEW n \in Nat \ {0}, \A i, j \in 1..n : i # j => cs[i] # cs[j]
  PROVE  IsFiniteSet(Prefix(cs, n)) /\ Cardinality(Prefix(cs, n)) = n
<1>2. [i \in 1..n |-> cs[i]] \in Bijection(1..n, Prefix(cs, n))
  BY DEF Prefix, Bijection, Injection, Surjection, IsInjective
<1>3. ExistsBijection(1..n, Prefix(cs, n))
  BY <1>2 DEF ExistsBijection
<1>4. IsFiniteSet(1..n) /\ Cardinality(1..n) = n
  BY FS_Interval
<1>5. IsFiniteSet(Prefix(cs, n)) /\ Cardinality(Prefix(cs, n)) = Cardinality(1..n)
  BY ONLY <1>3, <1>4, FS_Bijection
<1> QED
  BY <1>4, <1>5

\* Cleaning for size takes no file away that it need not: every deletion of a
\* batch that leaves its blob without an action, but the last, comes before the
\* byte budget is reached, whatever was committed, bumped or scanned since the
\* budget was computed and whatever actions share their blobs.
THEOREM EvictionsStopAtBudget == Spec => StopsAtBudget
<1> DEFINE E  == {a \in Present : atime'[a] = NoTime}
           cs == cleaner.cs
           A  == cleaner.pc = "cands" /\ cleaner.budgeted /\ E # {} =>
                   \A i \in 1..(Cardinality(E) - 1) :
                     (\A a \in Present : BlobOf[a] = BlobOf[cs[i]] => a \in Prefix(cs, i))
                       => Bytes(Prefix(cs, i)) < cleaner.budget
<1>1. TypeOK /\ LoopInv /\ [Next]_vars => A
  <2> SUFFICES ASSUME TypeOK, LoopInv, [Next]_vars,
                      cleaner.pc = "cands", cleaner.budgeted, E # {},
                      NEW i \in 1..(Cardinality(E) - 1),
                      \A a \in Present : BlobOf[a] = BlobOf[cs[i]] => a \in Prefix(cs, i)
               PROVE  Bytes(Prefix(cs, i)) < cleaner.budget
    OBVIOUS
  <2>1. E = Evicted
    BY OnlyEvictionsDelete, EvictionDeletes
  <2>2. PICK n \in 0..Len(cs) : /\ Evicted = Prefix(cs, n)
                                /\ \A k \in 1..(n - 1) : ~StopsAfter(cs, k)
    BY EvictedIsPrefix
  <2>3. Len(cs) \in Nat /\ cs \in Seq(Actions) /\ cleaner.budget \in Int
    BY PcTypes
  <2>4. n # 0
    BY <2>1, <2>2 DEF Prefix
  <2>5. n \in Nat \ {0} /\ 1..n \subseteq 1..Len(cs)
    BY <2>2, <2>3, <2>4
  <2>6. \A k, l \in 1..n : k # l => cs[k] # cs[l]
    BY <2>5 DEF LoopInv, CandsPresent
  <2>7. Cardinality(E) = n
    <3> HIDE DEF cs, E
    <3>1. Cardinality(Prefix(cs, n)) = n
      BY <2>5, <2>6, PrefixSize
    <3> QED
      BY <2>1, <2>2, <3>1
  <2>8. i \in 1..(n - 1) /\ 1..i \subseteq 1..Len(cs)
    <3> HIDE DEF cs, E
    <3> QED
      BY <2>5, <2>7
  <2>9. Bytes(Prefix(cs, i)) \in Nat
    <3>1. Prefix(cs, i) \in SUBSET Actions
      BY <2>3, <2>8 DEF Prefix
    <3> QED
      BY <3>1, SizeType
  <2>10. OrphansBlob(cs, i)
    BY DEF OrphansBlob
  <2>11. ~(Bytes(Prefix(cs, i)) >= cleaner.budget)
    BY <2>2, <2>8, <2>10 DEF StopsAfter
  <2> HIDE DEF cs, E
  <2> QED
    BY <2>3, <2>9, <2>11
<1>2. TypeOK /\ LoopInv /\ [Next]_vars => [A]_vars
  BY <1>1
<1> QED
  BY <1>2, LoopAlways, PTL DEF Spec, StopsAtBudget

-----------------------------------------------------------------------------
(* Cleaning for size finds something to evict, or all is too young *)

\* Access times are of the past, and without an age limit a tick looks for
\* actions of any age.
NoneLater == /\ now <= MaxTime
             /\ \A a \in Actions : atime[a] <= now /\ dirty[a] <= now
             /\ cleaner.pc = "query" /\ MaxAge = 0 => cleaner.cutoff = MaxTime

\* It holds at first.
LEMMA NoneLaterInit == ASSUME Init PROVE NoneLater
BY CleanupAssumption DEF Init, NoneLater, Setup, MaxTime, NoTime, Idle

\* Every step preserves it.
LEMMA NoneLaterNext ==
  ASSUME TypeOK, NoneLater, [Next]_vars
  PROVE  NoneLater'
<1> USE DEF env
<1>1. /\ setup' = setup /\ MaxTime' = MaxTime /\ MaxAge' = MaxAge
      /\ MaxTime \in Nat /\ MaxAge \in Nat /\ now \in Nat
  BY PcTypes DEF TypeOK, Setup, MaxTime, MaxAge, Next, FlushBatch, FlushBatchUnknown, Writer, AddBlobDelta,
     EnqueueAccessTimeBump, FlushAccessTimeBumps, Scanner, UpsertShardStats, RecordScan,
     SettleDelta, ScanFails, ScanShard, Cleaner, TickLoad, TickDecide, EvictQuery,
     EvictCommits, EvictUnknown, EvictFails, Tick, Restart, vars
<1>2. atime \in [Actions -> Times] /\ dirty \in [Actions -> Times] /\ NoTime <= now
  BY <1>1 DEF TypeOK, NoTime
<1>3. ASSUME now' = now, \A a \in Actions : atime'[a] <= now /\ dirty'[a] <= now,
             cleaner' = cleaner \/ cleaner'.pc # "query"
      PROVE  NoneLater'
  BY <1>1, <1>3 DEF NoneLater
<1>4. ASSUME NEW B \in SUBSET Actions, FlushBatch(B) \/ FlushBatchUnknown(B)
      PROVE  NoneLater'
  <2>1. now <= now
    BY <1>1
  <2> QED
    BY <1>3, <1>4, <2>1 DEF FlushBatch, FlushBatchUnknown, NoneLater
<1>5. ASSUME NEW a \in Actions, EnqueueAccessTimeBump(a)
      PROVE  NoneLater'
  <2>1. \A b \in Actions : atime'[b] <= now /\ dirty'[b] <= now
    BY <1>1, <1>2, <1>5 DEF EnqueueAccessTimeBump, NoneLater
  <2> QED
    BY <1>3, <1>5, <2>1 DEF EnqueueAccessTimeBump
<1>6. CASE FlushAccessTimeBumps
  BY <1>2, <1>3, <1>6 DEF FlushAccessTimeBumps, NoneLater
<1>7. CASE TickDecide
  <2>1. MaxAge = 0 => ~(MaxAge > 0)
    BY <1>1
  <2>2. cleaner' = Idle \/ (MaxAge = 0 => cleaner'.cutoff = MaxTime)
    BY <1>7, <2>1 DEF TickDecide
  <2>3. UNCHANGED <<atime, dirty, now>>
    BY <1>7 DEF TickDecide
  <2> QED
    BY <1>1, <2>2, <2>3 DEF NoneLater, Idle
<1>8. CASE EvictCommits \/ EvictUnknown
  BY <1>2, <1>3, <1>8 DEF EvictCommits, EvictUnknown, NoneLater, Idle
<1>9. CASE Tick
  <2>1. /\ now' = now + 1 /\ now < MaxTime /\ UNCHANGED <<atime, dirty, cleaner>>
    BY <1>9 DEF Tick
  <2>2. \A a \in Actions : atime[a] \in Int /\ dirty[a] \in Int
    BY <1>2 DEF Times, NoTime
  <2>3. now' <= MaxTime' /\ \A a \in Actions : atime'[a] <= now' /\ dirty'[a] <= now'
    BY <1>1, <2>1, <2>2 DEF NoneLater
  <2> QED
    BY <1>1, <2>1, <2>3 DEF NoneLater
<1>10. CASE Restart
  BY <1>2, <1>3, <1>10 DEF Restart, NoneLater, Idle
<1>11. CASE TickLoad \/ EvictQuery \/ EvictFails
  BY <1>3, <1>11 DEF TickLoad, EvictQuery, EvictFails, NoneLater, Idle
<1>12. CASE \/ Writer \/ UNCHANGED vars
            \/ \E c \in Scanners : Scanner(c) \/ ScanFails(c) \/ \E s \in Shards : ScanShard(c, s)
  BY <1>3, <1>12 DEF Writer, AddBlobDelta, Scanner, UpsertShardStats, RecordScan, SettleDelta,
     ScanFails, ScanShard, vars, NoneLater
<1> QED
  BY <1>4, <1>5, <1>6, <1>7, <1>8, <1>9, <1>10, <1>11, <1>12 DEF Next, Cleaner

\* A batch is empty only if nothing is old enough.
LEMMA CandidatesFound ==
  ASSUME TypeOK, NEW cutoff \in Int, NEW a \in Present, atime[a] <= cutoff
  PROVE  <<>> \notin Candidates(cutoff)
<1> DEFINE old == {b \in Present : atime[b] <= cutoff}
           n   == IF Cardinality(old) < BatchSize THEN Cardinality(old) ELSE BatchSize
<1>1. old \in SUBSET Actions /\ old # {}
  BY DEF Present
<1>2. IsFiniteSet(old) /\ Cardinality(old) \in Nat
  BY <1>1, SizeType
<1>3. Cardinality(old) # 0
  <2> HIDE DEF old
  <2> QED
    BY <1>1, <1>2, FS_EmptySet
<1>4. BatchSize \in Nat \ {0}
  BY PcTypes DEF BatchSize, Setup
<1>5. n \in Nat \ {0}
  <2> HIDE DEF old
  <2> QED
    BY <1>2, <1>3, <1>4
<1>6. \A cs \in Candidates(cutoff) : cs \in [1..n -> old]
  BY DEF Candidates
<1> HIDE DEF n, old
<1>7. \A cs \in Candidates(cutoff) : DOMAIN cs = 1..n
  BY <1>6
<1>8. 1 \in 1..n /\ 1 \notin DOMAIN <<>>
  BY <1>5
<1> QED
  BY <1>7, <1>8

\* A tick that finds the cache over its size limit finds actions to evict when
\* there are any; taking over the age limit's cutoff in cleanupTick, with only
\* younger actions left, is the only way for size cleanup to come to nothing.
THEOREM SizeCleanupFinds == Spec => []OverSizeEvicts
<1>1. Init => NoneLater
  BY NoneLaterInit
<1>2. TypeOK /\ NoneLater /\ [Next]_vars => NoneLater'
  BY NoneLaterNext
<1>3. TypeOK /\ NoneLater => OverSizeEvicts
  <2> SUFFICES ASSUME TypeOK, NoneLater, cleaner.pc = "query",
                      <<>> \in Candidates(cleaner.cutoff), NEW a \in Present
               PROVE  MaxAge > 0 /\ atime[a] > cleaner.cutoff
    BY DEF OverSizeEvicts
  <2>1. /\ cleaner.cutoff \in Int /\ MaxTime \in Nat /\ MaxAge \in Nat /\ now \in Nat
        /\ atime[a] \in Int /\ now <= MaxTime /\ atime[a] <= now
        /\ MaxAge = 0 => cleaner.cutoff = MaxTime
    BY PcTypes DEF NoneLater, Present, TypeOK, Times, NoTime, Setup, MaxTime, MaxAge
  <2>2. ~(atime[a] <= cleaner.cutoff)
    BY <2>1, CandidatesFound
  <2> QED
    BY <2>1, <2>2
<1> QED
  BY <1>1, <1>2, <1>3, CleanupTypeCorrect, PTL DEF Spec

-----------------------------------------------------------------------------
(* The loop's usage implements the books of ShardStats *)

\* The refinement mapping, part by part.
ActualBytes == [s \in Shards |-> Bytes(InShard(s))]
OwedBytes   == [s \in Shards |-> OwedIn(s)]
ViewBytes   == [s \in Shards |-> shardStats[s].size]
SavedBytes  == [s \in Shards |-> saved[s].size]
ScanBytes   == [c \in Scanners |->
                  IF scan[c].pc \in {"scanned", "persisted"}
                  THEN [scan[c] EXCEPT !.new = @.size] ELSE scan[c]]

\* The bytes owed to a shard, if only insertions or only evictions are owed.
LEMMA OwedType ==
  ASSUME TypeOK, NEW s \in Shards
  PROVE  /\ OwedIn(s) \in Int
         /\ (\A a \in Actions : owed[a] # -1) =>
               OwedIn(s) = Bytes({a \in Actions : Shard(a) = s /\ owed[a] = 1})
         /\ (\A a \in Actions : owed[a] # 1) =>
               OwedIn(s) = -Bytes({a \in Actions : Shard(a) = s /\ owed[a] = -1})
<1> DEFINE I == {a \in Actions : Shard(a) = s /\ owed[a] = 1}
           D == {a \in Actions : Shard(a) = s /\ owed[a] = -1}
<1>1. Bytes(I) \in Nat /\ Bytes(D) \in Nat
  BY SizeType
<1>2. Bytes({}) = 0
  BY SumNone DEF Bytes
<1>3. OwedIn(s) = Bytes(I) - Bytes(D)
  BY DEF OwedIn
<1>4. (\A a \in Actions : owed[a] # -1) => D = {}
  OBVIOUS
<1>5. (\A a \in Actions : owed[a] # 1) => I = {}
  OBVIOUS
<1> HIDE DEF I, D
<1>6. (\A a \in Actions : owed[a] # -1) => OwedIn(s) = Bytes(I)
  BY <1>1, <1>2, <1>3, <1>4
<1>7. (\A a \in Actions : owed[a] # 1) => OwedIn(s) = -Bytes(D)
  BY <1>1, <1>2, <1>3, <1>5
<1> QED
  BY <1>1, <1>3, <1>6, <1>7 DEF I, D

\* With the write lock free nothing is owed to any shard.
LEMMA NothingOwed ==
  ASSUME TypeOK, WriteLockFree
  PROVE  \A s \in Shards : OwedIn(s) = 0
<1> SUFFICES ASSUME NEW s \in Shards
             PROVE  OwedIn(s) = 0
  OBVIOUS
<1>1. {a \in Actions : Shard(a) = s /\ owed[a] = 1} = {}
  BY DEF WriteLockFree
<1>2. Bytes({}) = 0
  BY SumNone DEF Bytes
<1>3. OwedIn(s) = Bytes({a \in Actions : Shard(a) = s /\ owed[a] = 1})
  BY OwedType DEF WriteLockFree
<1> QED
  BY <1>1, <1>2, <1>3

\* A transaction that inserts the actions B changes the bytes of every shard by
\* theirs ...
LEMMA InsertBytes ==
  ASSUME TypeOK, TypeOK', NEW B \in SUBSET Actions, B \cap Present = {},
         Present' = Present \cup B, NEW s \in Shards
  PROVE  /\ Bytes(InShard(s))' = Bytes(InShard(s)) + BytesIn(s, B)
         /\ BytesIn(s, B) \in 0..Bytes(Actions)
<1> DEFINE P == InShard(s)
           Q == {a \in B : Shard(a) = s}
<1>1. InShard(s)' = P \cup Q /\ P \cap Q = {}
  BY DEF InShard, Present, Shard
<1>2. P \in SUBSET Actions /\ Q \in SUBSET Actions
  BY DEF InShard, Present
<1>3. /\ IsFiniteSet(P) /\ IsFiniteSet(Q) /\ IsFiniteSet(Actions)
      /\ \A x \in Actions : Size[x] \in Int
  BY <1>2, SizeType, CleanupAssumption
<1> HIDE DEF P, Q
<1>5. Bytes(P \cup Q) = Bytes(P) + Bytes(Q)
  BY <1>1, <1>2, <1>3, SumUnion DEF Bytes
<1>6. Bytes(Q) \in 0..Bytes(Actions)
  BY <1>2, <1>3, SumDifference DEF Bytes
<1>7. Bytes(InShard(s))' = Bytes(P \cup Q)
  BY <1>1 DEF Bytes, SumOver, Units, Size
<1> QED
  BY <1>5, <1>6, <1>7 DEF P, Q, BytesIn

\* ... and one that evicts them takes theirs away.
LEMMA EvictBytes ==
  ASSUME TypeOK, TypeOK', NEW B \in SUBSET Present,
         Present' = Present \ B, NEW s \in Shards
  PROVE  /\ Bytes(InShard(s))' = Bytes(InShard(s)) - BytesIn(s, B)
         /\ BytesIn(s, B) \in 0..Bytes(Actions)
<1> DEFINE P == InShard(s)
           Q == {a \in B : Shard(a) = s}
<1>1. InShard(s)' = P \ Q /\ Q \in SUBSET P
  BY DEF InShard, Present, Shard
<1>2. P \in SUBSET Actions /\ Q \in SUBSET Actions
  BY DEF InShard, Present
<1>3. /\ IsFiniteSet(P) /\ IsFiniteSet(Q) /\ IsFiniteSet(Actions)
      /\ \A x \in Actions : Size[x] \in Int
  BY <1>2, SizeType, CleanupAssumption
<1> HIDE DEF P, Q
<1>5. Bytes(P \ Q) = Bytes(P) - Bytes(Q)
  BY <1>1, <1>2, <1>3, SumDifference DEF Bytes
<1>6. Bytes(Q) \in 0..Bytes(Actions)
  BY <1>2, <1>3, SumDifference DEF Bytes
<1>7. Bytes(InShard(s))' = Bytes(P \ Q)
  BY <1>1 DEF Bytes, SumOver, Units, Size
<1> QED
  BY <1>5, <1>6, <1>7 DEF P, Q, BytesIn

\* What a transaction that inserted or evicted B owes to a shard.
LEMMA OwedAfter ==
  ASSUME NEW B \in SUBSET Actions, NEW d \in {-1, 1},
         owed' = [a \in Actions |-> IF a \in B THEN d ELSE 0], NEW s \in Shards
  PROVE  OwedIn(s)' = d * BytesIn(s, B)
<1> DEFINE Q == {a \in B : Shard(a) = s}
           I == {a \in Actions : Shard(a) = s /\ owed'[a] = 1}
           D == {a \in Actions : Shard(a) = s /\ owed'[a] = -1}
<1>1. (d = 1 => I = Q /\ D = {}) /\ (d = -1 => I = {} /\ D = Q)
  OBVIOUS
<1>2. Bytes({}) = 0 /\ Bytes(Q) \in Nat
  BY SumNone, SizeType DEF Bytes
<1>3. OwedIn(s)' = Bytes(I) - Bytes(D)
  BY DEF OwedIn
<1> HIDE DEF Q, I, D
<1>4. CASE d = 1
  <2>1. OwedIn(s)' = 1 * Bytes(Q)
    BY <1>1, <1>2, <1>3, <1>4
  <2> QED
    BY <1>4, <2>1 DEF Q, BytesIn
<1>5. CASE d = -1
  <2>1. OwedIn(s)' = (-1) * Bytes(Q)
    BY <1>1, <1>2, <1>3, <1>5
  <2> QED
    BY <1>5, <2>1 DEF Q, BytesIn
<1> QED
  BY <1>4, <1>5

\* What a scan has found, in the books and in the loop.
LEMMA ScanBytesOf ==
  ASSUME TypeOK, NEW c \in Scanners
  PROVE  /\ ScanBytes[c].pc = scan[c].pc
         /\ scan[c].pc \in {"scanned", "persisted"} =>
              /\ scan[c] \in [pc : {"scanned", "persisted"}, shard : Shards, new : Stats]
              /\ ScanBytes[c] = [pc |-> scan[c].pc, shard |-> scan[c].shard,
                                 new |-> scan[c].new.size]
         /\ scan[c].pc \notin {"scanned", "persisted"} => ScanBytes[c] = scan[c]
<1>1. scan[c].pc \in {"scanned", "persisted"} =>
        scan[c] \in [pc : {"scanned", "persisted"}, shard : Shards, new : Stats]
  BY DEF TypeOK, Idle
<1>2. CASE scan[c].pc \in {"scanned", "persisted"}
  <2>1. ScanBytes[c] = [scan[c] EXCEPT !.new = @.size]
    BY <1>2 DEF ScanBytes
  <2>2. [scan[c] EXCEPT !.new = @.size] = [pc |-> scan[c].pc, shard |-> scan[c].shard,
                                           new |-> scan[c].new.size]
    BY <1>1, <1>2
  <2> QED
    BY <1>1, <1>2, <2>1, <2>2
<1>3. CASE scan[c].pc \notin {"scanned", "persisted"}
  BY <1>3 DEF ScanBytes
<1> QED
  BY <1>2, <1>3

\* The same, after a step.
LEMMA ScanBytesNext ==
  ASSUME TypeOK', NEW c \in Scanners
  PROVE  /\ scan'[c].pc \in {"scanned", "persisted"} =>
              ScanBytes'[c] = [pc |-> scan'[c].pc, shard |-> scan'[c].shard,
                               new |-> scan'[c].new.size]
         /\ scan'[c].pc \notin {"scanned", "persisted"} => ScanBytes'[c] = scan'[c]
<1>1. CASE scan'[c].pc \in {"scanned", "persisted"}
  <2>1. scan'[c] \in [pc : {"scanned", "persisted"}, shard : Shards, new : Stats]
    BY <1>1 DEF TypeOK, Idle
  <2>2. ScanBytes'[c] = [scan'[c] EXCEPT !.new = @.size]
    BY <1>1 DEF ScanBytes
  <2>3. [scan'[c] EXCEPT !.new = @.size] = [pc |-> scan'[c].pc, shard |-> scan'[c].shard,
                                            new |-> scan'[c].new.size]
    BY <2>1
  <2> QED
    BY <1>1, <2>2, <2>3
<1>2. CASE scan'[c].pc \notin {"scanned", "persisted"}
  BY <1>2 DEF ScanBytes
<1> QED
  BY <1>1, <1>2

\* No set of actions has more bytes than all of them.
LEMMA BytesBounded == \A A \in SUBSET Actions : Bytes(A) \in 0..Bytes(Actions)
<1> SUFFICES ASSUME NEW A \in SUBSET Actions
             PROVE  Bytes(A) \in 0..Bytes(Actions)
  OBVIOUS
<1>1. IsFiniteSet(Actions) /\ \A x \in Actions : Size[x] \in Int
  BY SizeType, CleanupAssumption
<1> QED
  BY <1>1, SumDifference DEF Bytes

\* The bytes of a part, and of what it leaves.
LEMMA PartOfBytes ==
  ASSUME NEW S \in SUBSET Actions, NEW T \in SUBSET S
  PROVE  Bytes(S \ T) = Bytes(S) - Bytes(T) /\ Bytes(T) \in 0..Bytes(S)
<1>1. IsFiniteSet(S) /\ \A x \in S : Size[x] \in Int
  BY SizeType
<1> QED
  BY <1>1, SumDifference DEF Bytes

\* A transaction of the table is a commit of the books, of a known or of an
\* unknown outcome.
LEMMA CommitMaps ==
  ASSUME TypeOK, TypeOK', WriteLockFree,
         NEW chg \in [Shards -> (-Bytes(Actions))..Bytes(Actions)],
         \A s \in Shards : Bytes(InShard(s))' = Bytes(InShard(s)) + chg[s],
         UNCHANGED <<books, restarts>>,
         \/ OwedBytes' = chg /\ UNCHANGED past
         \/ /\ lost' = [s \in Shards |-> lost[s] + chg[s]]
            /\ unknown < setup.unknown /\ unknown' = unknown + 1 /\ UNCHANGED owed
  PROVE  Books!Next
<1>1. Books!WriteLockFree
  BY NothingOwed DEF Books!WriteLockFree
<1>3. ActualBytes' = [s \in Shards |-> ActualBytes[s] + chg[s]]
  BY DEF ActualBytes
<1>4. ASSUME NEW s \in Shards
      PROVE  ActualBytes[s] + chg[s] \in 0..Bytes(Actions)
  <2>1. InShard(s)' \in SUBSET Actions
    BY DEF InShard, Present
  <2>2. Bytes(InShard(s)') \in 0..Bytes(Actions)
    BY <2>1, BytesBounded
  <2>3. Bytes(InShard(s)') = Bytes(InShard(s))'
    BY DEF Bytes, SumOver, Units, Size
  <2> QED
    BY <2>2, <2>3 DEF ActualBytes
<1>5. UNCHANGED <<delta, ViewBytes, SavedBytes, ScanBytes, restarts>>
  BY DEF books, ViewBytes, SavedBytes, ScanBytes
<1>6. CASE OwedBytes' = chg /\ UNCHANGED past
  <2>1. Books!Commit(chg)
    BY <1>1, <1>3, <1>4, <1>5, <1>6
    DEF Books!Commit, Books!past, past, ActualBytes, OwedBytes, ViewBytes, SavedBytes, ScanBytes
  <2> QED
    BY <2>1 DEF Books!Next
<1>7. CASE /\ lost' = [s \in Shards |-> lost[s] + chg[s]]
           /\ unknown < setup.unknown /\ unknown' = unknown + 1 /\ UNCHANGED owed
  <2>1. unknown < MaxUnknown
    <3>1. setup.unknown \in 0..MaxUnknown /\ unknown \in Nat
      BY PcTypes DEF Setup, TypeOK
    <3> QED
      BY <1>7, <3>1, CleanupAssumption
  <2>2. UNCHANGED OwedBytes
    BY <1>7 DEF OwedBytes, OwedIn
  <2>3. Books!CommitUnknown(chg)
    BY <1>1, <1>3, <1>4, <1>5, <1>7, <2>1, <2>2
    DEF Books!CommitUnknown, ActualBytes, OwedBytes, ViewBytes, SavedBytes, ScanBytes
  <2> QED
    BY <2>3 DEF Books!Next
<1> QED
  BY <1>6, <1>7

\* Applying the delta of one action pays a part of what is owed to its shard.
LEMMA AddBlobDeltaMaps ==
  ASSUME TypeOK, TypeOK', OneSign, NEW a \in Actions, AddBlobDelta(a)
  PROVE  Books!Next
<1> DEFINE t == Shard(a)
           amount == owed[a] * Size[a]
<1>1. /\ t \in Shards /\ Size[a] \in Nat \ {0}
      /\ owed' = [owed EXCEPT ![a] = 0] /\ owed[a] \in {-1, 1} /\ owed \in [Actions -> {-1, 0, 1}]
  BY SizeType DEF AddBlobDelta, TypeOK
<1>2. \A s \in Shards \ {t} : OwedIn(s)' = OwedIn(s)
  <2> SUFFICES ASSUME NEW s \in Shards \ {t}
               PROVE  OwedIn(s)' = OwedIn(s)
    OBVIOUS
  <2>1. /\ {b \in Actions : Shard(b) = s /\ owed'[b] = 1}
             = {b \in Actions : Shard(b) = s /\ owed[b] = 1}
        /\ {b \in Actions : Shard(b) = s /\ owed'[b] = -1}
             = {b \in Actions : Shard(b) = s /\ owed[b] = -1}
    BY <1>1
  <2> QED
    BY <2>1 DEF OwedIn
<1>3. /\ OwedIn(t) \in Int /\ OwedIn(t)' = OwedIn(t) - amount /\ OwedIn(t) # 0
      /\ IF OwedIn(t) > 0 THEN amount \in 1..OwedIn(t) ELSE amount \in OwedIn(t)..(-1)
      /\ amount \in (-Bytes(Actions))..Bytes(Actions)
  <2> DEFINE I == {b \in Actions : Shard(b) = t /\ owed[b] = 1}
             D == {b \in Actions : Shard(b) = t /\ owed[b] = -1}
  <2>1. OwedIn(t) = Bytes(I) - Bytes(D)
    BY DEF OwedIn
  <2>2. /\ Bytes(I) \in 0..Bytes(Actions) /\ Bytes(D) \in 0..Bytes(Actions)
        /\ Bytes(Actions) \in Nat
    BY BytesBounded, SizeType
  <2>3. Bytes({}) = 0 /\ Bytes({a}) = Size[a]
    BY <1>1, SumNone, SumOne DEF Bytes
  <2>4. CASE owed[a] = 1
    <3>1. a \in I /\ D = {}
      BY <2>4 DEF OneSign
    <3>2. /\ {b \in Actions : Shard(b) = t /\ owed'[b] = 1} = I \ {a}
          /\ {b \in Actions : Shard(b) = t /\ owed'[b] = -1} = D
      BY <1>1, <2>4
    <3>3. OwedIn(t)' = Bytes(I \ {a}) - Bytes(D)
      BY <3>2 DEF OwedIn
    <3>4. Bytes(I \ {a}) = Bytes(I) - Bytes({a}) /\ Bytes({a}) \in 0..Bytes(I)
      BY <3>1, PartOfBytes
    <3>5. amount = Size[a]
      BY <1>1, <2>4
    <3> HIDE DEF I, D, amount, t
    <3> QED
      BY <1>1, <2>1, <2>2, <2>3, <3>1, <3>3, <3>4, <3>5
  <2>5. CASE owed[a] = -1
    <3>1. a \in D /\ I = {}
      BY <2>5 DEF OneSign
    <3>2. /\ {b \in Actions : Shard(b) = t /\ owed'[b] = 1} = I
          /\ {b \in Actions : Shard(b) = t /\ owed'[b] = -1} = D \ {a}
      BY <1>1, <2>5
    <3>3. OwedIn(t)' = Bytes(I) - Bytes(D \ {a})
      BY <3>2 DEF OwedIn
    <3>4. Bytes(D \ {a}) = Bytes(D) - Bytes({a}) /\ Bytes({a}) \in 0..Bytes(D)
      BY <3>1, PartOfBytes
    <3>5. amount = -Size[a]
      BY <1>1, <2>5
    <3> HIDE DEF I, D, amount, t
    <3> QED
      BY <1>1, <2>1, <2>2, <2>3, <3>1, <3>3, <3>4, <3>5
  <2> QED
    BY <1>1, <2>4, <2>5
<1>4. UNCHANGED <<ActualBytes, ViewBytes, SavedBytes, ScanBytes, lost, unknown, restarts>>
  BY DEF AddBlobDelta, env, past, ActualBytes, ViewBytes, SavedBytes, ScanBytes, InShard, Present
<1>5. delta' = [delta EXCEPT ![t] = @ + amount]
  BY DEF AddBlobDelta
<1> HIDE DEF t, amount
<1>6. OwedBytes[t] = OwedIn(t) /\ OwedBytes' = [OwedBytes EXCEPT ![t] = @ - amount]
  BY <1>1, <1>2, <1>3 DEF OwedBytes
<1>7. Books!AddBlobDelta(t, amount)
  BY <1>3, <1>4, <1>5, <1>6
  DEF Books!AddBlobDelta, Books!past, ActualBytes, OwedBytes, ViewBytes, SavedBytes, ScanBytes
<1> QED
  BY <1>1, <1>3, <1>7 DEF Books!Next

\* The steps of a scan are the steps of a scan of the books.
LEMMA ScanMaps ==
  ASSUME TypeOK, TypeOK', NEW c \in Scanners,
         Scanner(c) \/ ScanFails(c) \/ \E s \in Shards : ScanShard(c, s)
  PROVE  Books!Next
<1>0. c \in Books!Scanners
  BY DEF Scanners, Books!Scanners
<1>1. SUFFICES Books!Scanner(c)
  BY <1>0, <1>1 DEF Books!Next
<1>2. \A d \in Scanners \ {c} : scan'[d] = scan[d] /\ ScanBytes'[d] = ScanBytes[d]
  BY DEF TypeOK, Scanner, UpsertShardStats, RecordScan, SettleDelta, ScanFails, ScanShard, ScanBytes
<1>3. ScanBytes = [d \in Scanners |-> ScanBytes[d]] /\ ScanBytes' = [d \in Scanners |-> ScanBytes'[d]]
  BY DEF ScanBytes
<1>4. \A v : ScanBytes'[c] = v => ScanBytes' = [ScanBytes EXCEPT ![c] = v]
  BY <1>2, <1>3
<1>5. /\ ActualBytes' = ActualBytes /\ OwedBytes' = OwedBytes /\ restarts' = restarts
      /\ lost' = lost /\ unknown' = unknown
  BY DEF Scanner, UpsertShardStats, RecordScan, SettleDelta, ScanFails, ScanShard, env, past,
         ActualBytes, OwedBytes, OwedIn, InShard, Present
<1>6. ASSUME NEW s \in Shards, ScanShard(c, s)
      PROVE  Books!ScanShard(c, s)
  <2>1. scan'[c] = [pc |-> "scanned", shard |-> s, new |-> StatsOf(InShard(s))]
    BY <1>6 DEF ScanShard, TypeOK
  <2>2. scan'[c].pc = "scanned" /\ scan'[c].shard = s
        /\ scan'[c].new.size = ActualBytes[s]
    BY <2>1 DEF StatsOf, ActualBytes
  <2>3. ScanBytes'[c] = [pc |-> "scanned", shard |-> s, new |-> ActualBytes[s]]
    BY <2>2, ScanBytesNext
  <2>4. ScanBytes' = [ScanBytes EXCEPT ![c] = [pc |-> "scanned", shard |-> s, new |-> ActualBytes[s]]]
    BY <1>4, <2>3
  <2>5. UNCHANGED <<delta, ViewBytes, SavedBytes>> /\ ScanBytes[c].pc = "idle"
    BY <1>6, ScanBytesOf DEF ScanShard, ViewBytes, SavedBytes
  <2> QED
    BY <1>5, <2>4, <2>5
    DEF Books!ScanShard, Books!past, ActualBytes, OwedBytes, ViewBytes, SavedBytes, ScanBytes
<1>7. CASE UpsertShardStats(c)
  <2>1. scan[c] \in [pc : {"scanned", "persisted"}, shard : Shards, new : Stats]
    BY <1>7, ScanBytesOf DEF UpsertShardStats
  <2>2. scan'[c] = [scan[c] EXCEPT !.pc = "persisted"]
    BY <1>7 DEF UpsertShardStats, TypeOK
  <2>3. scan'[c].pc = "persisted" /\ scan'[c].shard = scan[c].shard /\ scan'[c].new = scan[c].new
    BY <2>1, <2>2
  <2>4. ScanBytes[c] = [pc |-> "scanned", shard |-> scan[c].shard, new |-> scan[c].new.size]
    BY <1>7, ScanBytesOf DEF UpsertShardStats
  <2>5. ScanBytes'[c] = [ScanBytes[c] EXCEPT !.pc = "persisted"]
    <3>1. ScanBytes'[c] = [pc |-> "persisted", shard |-> scan[c].shard, new |-> scan[c].new.size]
      BY <2>3, ScanBytesNext
    <3> QED
      BY <2>4, <3>1
  <2>6. ScanBytes' = [ScanBytes EXCEPT ![c].pc = "persisted"]
    BY <1>4, <2>5
  <2>7. SavedBytes' = [SavedBytes EXCEPT ![ScanBytes[c].shard] = ScanBytes[c].new]
    <3>1. saved' = [saved EXCEPT ![scan[c].shard] = scan[c].new]
      BY <1>7 DEF UpsertShardStats
    <3>2. scan[c].shard \in Shards
      BY <2>1
    <3>3. ScanBytes[c].shard = scan[c].shard /\ ScanBytes[c].new = scan[c].new.size
      BY <2>4
    <3> QED
      BY <3>1, <3>2, <3>3 DEF SavedBytes, TypeOK
  <2>8. Books!WriteLockFree
    BY <1>7, NothingOwed DEF Books!WriteLockFree, UpsertShardStats
  <2>9. UNCHANGED <<delta, ViewBytes>> /\ ScanBytes[c].pc = "scanned"
    BY <1>7, <2>4 DEF UpsertShardStats, ViewBytes
  <2>10. Books!UpsertShardStats(c)
    BY <1>5, <2>6, <2>7, <2>8, <2>9
    DEF Books!UpsertShardStats, Books!past, ActualBytes, OwedBytes, ViewBytes, SavedBytes, ScanBytes
  <2> QED
    BY <2>10 DEF Books!Scanner
<1>8. CASE RecordScan(c)
  <2>1. scan[c] \in [pc : {"scanned", "persisted"}, shard : Shards, new : Stats]
    BY <1>8, ScanBytesOf DEF RecordScan
  <2>2. ScanBytes[c] = [pc |-> "persisted", shard |-> scan[c].shard, new |-> scan[c].new.size]
    BY <1>8, ScanBytesOf DEF RecordScan
  <2>3. /\ ScanBytes[c].pc = "persisted" /\ ScanBytes[c].shard = scan[c].shard
        /\ ScanBytes[c].new = scan[c].new.size
    BY <2>2
  <2>4. /\ scan'[c] = [pc |-> "recorded", shard |-> scan[c].shard,
                       diff |-> scan[c].new.size - shardStats[scan[c].shard].size]
        /\ shardStats' = [shardStats EXCEPT ![scan[c].shard] = scan[c].new]
    BY <1>8 DEF RecordScan, TypeOK
  <2>5. ViewBytes[ScanBytes[c].shard] = shardStats[scan[c].shard].size
    BY <2>1, <2>3 DEF ViewBytes
  <2>6. ScanBytes'[c] = scan'[c]
    <3>1. scan'[c].pc = "recorded"
      BY <2>4
    <3> QED
      BY <3>1, ScanBytesNext
  <2>7. ScanBytes' = [ScanBytes EXCEPT ![c] =
                        [pc |-> "recorded", shard |-> ScanBytes[c].shard,
                         diff |-> ScanBytes[c].new - ViewBytes[ScanBytes[c].shard]]]
    BY <1>4, <2>3, <2>4, <2>5, <2>6
  <2>8. ViewBytes' = [ViewBytes EXCEPT ![ScanBytes[c].shard] = ScanBytes[c].new]
    <3>1. scan[c].shard \in Shards
      BY <2>1
    <3> QED
      BY <2>3, <2>4, <3>1 DEF ViewBytes, TypeOK
  <2>9. UNCHANGED <<delta, SavedBytes>>
    BY <1>8 DEF RecordScan, SavedBytes
  <2>10. Books!RecordScan(c)
    BY <1>5, <2>3, <2>7, <2>8, <2>9
    DEF Books!RecordScan, Books!past, ActualBytes, OwedBytes, ViewBytes, SavedBytes, ScanBytes
  <2> QED
    BY <2>10 DEF Books!Scanner
<1>9. ASSUME scan'[c] = Idle
      PROVE  ScanBytes' = [ScanBytes EXCEPT ![c] = Books!IdleScan]
  <2>1. scan'[c].pc = "idle" /\ Idle = Books!IdleScan
    BY <1>9 DEF Idle, Books!IdleScan
  <2> QED
    BY <1>4, <1>9, <2>1, ScanBytesNext
<1>10. CASE SettleDelta(c)
  <2>1. ScanBytes[c] = scan[c]
    BY <1>10, ScanBytesOf DEF SettleDelta
  <2>2. scan'[c] = Idle /\ scan[c].pc = "recorded"
    BY <1>10 DEF SettleDelta, TypeOK
  <2>3. delta' = [delta EXCEPT ![ScanBytes[c].shard] = @ - ScanBytes[c].diff]
    BY <1>10, <2>1 DEF SettleDelta
  <2>4. UNCHANGED <<ViewBytes, SavedBytes>>
    BY <1>10 DEF SettleDelta, ViewBytes, SavedBytes
  <2>5. Books!SettleDelta(c)
    BY <1>5, <1>9, <2>1, <2>2, <2>3, <2>4
    DEF Books!SettleDelta, Books!past, ActualBytes, OwedBytes, ViewBytes, SavedBytes, ScanBytes
  <2> QED
    BY <2>5 DEF Books!Scanner
<1>11. CASE ScanFails(c)
  <2>1. scan'[c] = Idle /\ ScanBytes[c].pc = "scanned"
    BY <1>11, ScanBytesOf DEF ScanFails, TypeOK
  <2>2. UNCHANGED <<delta, ViewBytes, SavedBytes>>
    BY <1>11 DEF ScanFails, ViewBytes, SavedBytes
  <2>3. Books!ScanFails(c)
    BY <1>5, <1>9, <2>1, <2>2
    DEF Books!ScanFails, Books!past, ActualBytes, OwedBytes, ViewBytes, SavedBytes, ScanBytes
  <2> QED
    BY <2>3 DEF Books!Scanner
<1> QED
  BY <1>6, <1>7, <1>8, <1>10, <1>11 DEF Scanner, Books!Scanner

\* Loading the persisted totals at startup is a restart of the books.
LEMMA RestartMaps ==
  ASSUME TypeOK, TypeOK', Restart
  PROVE  Books!Next
<1>1. restarts < MaxRestarts
  <2>1. setup \in Setup
    BY CleanupAssumption DEF TypeOK
  <2>2. setup.restarts \in 0..MaxRestarts
    BY <2>1 DEF Setup
  <2>3. restarts \in Nat
    BY DEF TypeOK
  <2>4. restarts < setup.restarts
    BY DEF Restart
  <2> QED
    BY <2>2, <2>3, <2>4, CleanupAssumption
<1>2. WriteLockFree'
  BY DEF Restart, WriteLockFree
<1>3. OwedBytes' = [s \in Shards |-> 0]
  <2> SUFFICES ASSUME NEW s \in Shards
               PROVE  OwedIn(s)' = 0
    BY DEF OwedBytes
  <2>1. /\ {a \in Actions : Shard(a) = s /\ owed'[a] = 1} = {}
        /\ {a \in Actions : Shard(a) = s /\ owed'[a] = -1} = {}
    BY <1>2 DEF WriteLockFree
  <2>2. OwedIn(s)' = Bytes({}) - Bytes({})
    BY <2>1 DEF OwedIn
  <2>3. Bytes({}) = 0
    BY SumNone DEF Bytes
  <2> QED
    BY <2>2, <2>3
<1>4. ViewBytes' = SavedBytes /\ SavedBytes' = SavedBytes /\ ActualBytes' = ActualBytes
  BY DEF Restart, ViewBytes, SavedBytes, ActualBytes, InShard, Present
<1>5. ScanBytes' = [c \in Books!Scanners |-> Books!IdleScan]
  BY DEF Restart, ScanBytes, Idle, Books!IdleScan, Scanners, Books!Scanners
<1>6. delta' = [s \in Shards |-> 0] /\ restarts' = restarts + 1 /\ UNCHANGED <<lost, unknown>>
  BY DEF Restart, past
<1>7. Books!Restart
  BY <1>1, <1>3, <1>4, <1>5, <1>6
  DEF Books!Restart, ActualBytes, OwedBytes, ViewBytes, SavedBytes, ScanBytes
<1> QED
  BY <1>7 DEF Books!Next

\* A step that keeps the table's actions and the books changes nothing there.
LEMMA OtherStepsStutter ==
  ASSUME Present' = Present, UNCHANGED <<books, owed, restarts, past>>
  PROVE  UNCHANGED Books!vars
<1>1. /\ UNCHANGED <<ActualBytes, OwedBytes, ViewBytes, SavedBytes, ScanBytes, delta, restarts>>
      /\ UNCHANGED <<lost, unknown>>
  BY DEF books, past, ActualBytes, OwedBytes, OwedIn, InShard, ViewBytes, SavedBytes, ScanBytes
<1> QED
  BY <1>1 DEF Books!vars, Books!past, ActualBytes, OwedBytes, ViewBytes, SavedBytes, ScanBytes

\* Committing PUTs and evicting actions are transactions.
LEMMA TransactionsMap ==
  ASSUME TypeOK, TypeOK', LoopInv,
         \/ \E B \in SUBSET Actions : FlushBatch(B) \/ FlushBatchUnknown(B)
         \/ EvictCommits \/ EvictUnknown
  PROVE  Books!Next
<1>0. /\ UNCHANGED <<books, restarts>> /\ WriteLockFree
      /\ Bytes(Actions) \in Nat /\ lost \in [Shards -> Int]
  BY SizeType
  DEF FlushBatch, FlushBatchUnknown, EvictCommits, EvictUnknown, env, TypeOK
<1>1. ASSUME NEW B \in SUBSET Actions, FlushBatch(B) \/ FlushBatchUnknown(B)
      PROVE  Books!Next
  <2> DEFINE chg == [s \in Shards |-> BytesIn(s, B)]
  <2>1. B \cap Present = {} /\ Present' = Present \cup B
    BY <1>1 DEF FlushBatch, FlushBatchUnknown, Present, TypeOK, NoTime
  <2>2. \A s \in Shards : /\ Bytes(InShard(s))' = Bytes(InShard(s)) + chg[s]
                          /\ chg[s] \in 0..Bytes(Actions)
    BY <2>1, InsertBytes
  <2>3. chg \in [Shards -> (-Bytes(Actions))..Bytes(Actions)]
    BY <1>0, <2>2
  <2>4. CASE FlushBatch(B)
    <3>1. \A s \in Shards : OwedIn(s)' = 1 * BytesIn(s, B)
      BY <2>4, OwedAfter DEF FlushBatch
    <3>2. OwedBytes' = chg
      BY <2>2, <3>1 DEF OwedBytes
    <3> QED
      BY <1>0, <2>2, <2>3, <2>4, <3>2, CommitMaps DEF FlushBatch
  <2>5. CASE FlushBatchUnknown(B)
    <3>1. lost' = [s \in Shards |-> lost[s] + chg[s]]
      BY <2>5 DEF FlushBatchUnknown
    <3> QED
      BY <1>0, <2>2, <2>3, <2>5, <3>1, CommitMaps DEF FlushBatchUnknown
  <2> QED
    BY <1>1, <2>4, <2>5
<1>2. CASE EvictCommits \/ EvictUnknown
  <2> DEFINE chg == [s \in Shards |-> -BytesIn(s, Evicted)]
  <2>1. Evicted \in SUBSET Present /\ Evicted \in SUBSET Actions
    BY <1>2, EvictedPresent DEF EvictCommits, EvictUnknown, Present
  <2>2. Present' = Present \ Evicted
    BY <1>2 DEF EvictCommits, EvictUnknown, Present
  <2>3. \A s \in Shards :
          /\ Bytes(InShard(s))' = Bytes(InShard(s)) - BytesIn(s, Evicted)
          /\ BytesIn(s, Evicted) \in 0..Bytes(Actions)
          /\ Bytes(InShard(s)) \in Nat
    <3>1. \A s \in Shards : InShard(s) \in SUBSET Actions
      BY DEF InShard, Present
    <3> QED
      BY <2>1, <2>2, <3>1, EvictBytes, SizeType
  <2>4. \A s \in Shards : /\ Bytes(InShard(s))' = Bytes(InShard(s)) + chg[s]
                          /\ chg[s] \in (-Bytes(Actions))..Bytes(Actions)
    BY <1>0, <2>3
  <2>5. chg \in [Shards -> (-Bytes(Actions))..Bytes(Actions)]
    BY <2>4
  <2>6. CASE EvictCommits
    <3>1. \A s \in Shards : OwedIn(s)' = (-1) * BytesIn(s, Evicted)
      BY <2>1, <2>6, OwedAfter DEF EvictCommits
    <3>2. OwedBytes' = chg
      BY <2>3, <3>1 DEF OwedBytes
    <3> QED
      BY <1>0, <2>4, <2>5, <2>6, <3>2, CommitMaps DEF EvictCommits, env
  <2>7. CASE EvictUnknown
    <3>1. lost' = [s \in Shards |-> lost[s] + chg[s]]
      BY <1>0, <2>3, <2>7 DEF EvictUnknown
    <3> QED
      BY <1>0, <2>4, <2>5, <2>7, <3>1, CommitMaps DEF EvictUnknown
  <2> QED
    BY <1>2, <2>6, <2>7
<1> QED
  BY <1>1, <1>2

\* Every step of the loop is a step of the books, or none.
LEMMA StepsMap == TypeOK /\ TypeOK' /\ LoopInv /\ [Next]_vars => [Books!Next]_(Books!vars)
<1> SUFFICES ASSUME TypeOK, TypeOK', LoopInv, [Next]_vars
             PROVE  Books!Next \/ UNCHANGED Books!vars
  OBVIOUS
<1>1. CASE \/ \E B \in SUBSET Actions : FlushBatch(B) \/ FlushBatchUnknown(B)
           \/ EvictCommits \/ EvictUnknown
  BY <1>1, TransactionsMap
<1>2. CASE Writer
  BY <1>2, AddBlobDeltaMaps DEF Writer, LoopInv
<1>3. CASE \E c \in Scanners : Scanner(c) \/ ScanFails(c) \/ \E s \in Shards : ScanShard(c, s)
  BY <1>3, ScanMaps
<1>4. CASE Restart
  BY <1>4, RestartMaps
<1>5. CASE FlushAccessTimeBumps
  <2>1. Present' = Present
    BY <1>5 DEF FlushAccessTimeBumps, Present
  <2> QED
    BY <1>5, <2>1, OtherStepsStutter DEF FlushAccessTimeBumps, env
<1>6. CASE \/ \E a \in Actions : EnqueueAccessTimeBump(a)
           \/ TickLoad \/ TickDecide \/ EvictQuery \/ EvictFails \/ Tick \/ UNCHANGED vars
  <2>1. UNCHANGED <<atime, books, owed, restarts, past>>
    BY <1>6 DEF EnqueueAccessTimeBump, TickLoad, TickDecide, EvictQuery, EvictFails, Tick, vars, env
  <2> QED
    BY <2>1, OtherStepsStutter DEF Present
<1> QED
  BY <1>1, <1>2, <1>3, <1>4, <1>5, <1>6 DEF Next, Cleaner

\* The books start empty.
LEMMA InitMaps == Init => Books!Init
<1> SUFFICES ASSUME Init
             PROVE  Books!Init
  OBVIOUS
<1>1. TypeOK /\ WriteLockFree
  BY TypeInit DEF Init, WriteLockFree
<1>2. ActualBytes = [s \in Shards |-> 0]
  <2>1. \A s \in Shards : InShard(s) = {}
    BY DEF Init, InShard, Present
  <2>2. Bytes({}) = 0
    BY SumNone DEF Bytes
  <2> QED
    BY <2>1, <2>2 DEF ActualBytes
<1>3. OwedBytes = [s \in Shards |-> 0]
  BY <1>1, NothingOwed DEF OwedBytes
<1>4. ViewBytes = [s \in Shards |-> 0] /\ SavedBytes = [s \in Shards |-> 0]
  BY DEF Init, ViewBytes, SavedBytes, NoStats
<1>5. ScanBytes = [c \in Books!Scanners |-> Books!IdleScan]
  BY DEF Init, ScanBytes, Idle, Books!IdleScan, Scanners, Books!Scanners
<1>6. /\ delta = [s \in Shards |-> 0] /\ lost = [s \in Shards |-> 0]
      /\ unknown = 0 /\ restarts = 0
  BY DEF Init
<1> QED
  BY <1>2, <1>3, <1>4, <1>5, <1>6
  DEF Books!Init, ActualBytes, OwedBytes, ViewBytes, SavedBytes, ScanBytes

\* The cleanup loop's usage implements the books: inserting and evicting real
\* actions, applying their deltas one by one (addBlobDelta), overlapping scans
\* (scanAndPersistShard) and restarts are commits, updates, scans and restarts
\* of the per-shard totals, and everything else leaves them alone.
THEOREM KeepsTheBooks == Spec => KeepsBooks
BY InitMaps, StepsMap, LoopAlways, PTL DEF Spec, KeepsBooks, Books!Spec

-----------------------------------------------------------------------------
(* What the books' theorems say of the estimate *)

\* The books again, with the theorems that hold of them.
Proved == INSTANCE ShardStatsProofs WITH
  MaxUsage <- Bytes(Actions), actual <- ActualBytes, owed <- OwedBytes,
  view <- ViewBytes, saved <- SavedBytes, scan <- ScanBytes

\* The usage of the loop is one for which the books' theorems hold.
LEMMA BooksAreProved == Books!Spec => Proved!Spec
<1> USE DEF ActualBytes, OwedBytes, ViewBytes, SavedBytes, ScanBytes, Books!past, Proved!past
<1>1. Books!Init => Proved!Init
  BY DEF Books!Init, Proved!Init, Books!Scanners, Proved!Scanners, Books!IdleScan, Proved!IdleScan
<1>2. UNCHANGED Books!vars => UNCHANGED Proved!vars
  BY DEF Books!vars, Proved!vars
<1>3. Books!Scanners = Proved!Scanners /\ Books!IdleScan = Proved!IdleScan
      /\ Books!WriteLockFree = Proved!WriteLockFree
  BY DEF Books!Scanners, Proved!Scanners, Books!IdleScan, Proved!IdleScan,
         Books!WriteLockFree, Proved!WriteLockFree
<1>4. ASSUME NEW chg, Books!Commit(chg)
      PROVE  Proved!Commit(chg)
  BY <1>3, <1>4 DEF Books!Commit, Proved!Commit
<1>5. ASSUME NEW s, NEW amount, Books!AddBlobDelta(s, amount)
      PROVE  Proved!AddBlobDelta(s, amount)
  BY <1>5 DEF Books!AddBlobDelta, Proved!AddBlobDelta
<1>6. ASSUME NEW c, NEW s, Books!ScanShard(c, s)
      PROVE  Proved!ScanShard(c, s)
  BY <1>6 DEF Books!ScanShard, Proved!ScanShard
<1>7. ASSUME NEW c, Books!UpsertShardStats(c)
      PROVE  Proved!UpsertShardStats(c)
  BY <1>3, <1>7 DEF Books!UpsertShardStats, Proved!UpsertShardStats
<1>8. ASSUME NEW c, Books!RecordScan(c)
      PROVE  Proved!RecordScan(c)
  BY <1>8 DEF Books!RecordScan, Proved!RecordScan
<1>9. ASSUME NEW c, Books!SettleDelta(c)
      PROVE  Proved!SettleDelta(c)
  BY <1>3, <1>9 DEF Books!SettleDelta, Proved!SettleDelta
<1>10. ASSUME NEW c, Books!ScanFails(c)
       PROVE  Proved!ScanFails(c)
  BY <1>3, <1>10 DEF Books!ScanFails, Proved!ScanFails
<1>11. ASSUME Books!Restart
       PROVE  Proved!Restart
  BY <1>3, <1>11 DEF Books!Restart, Proved!Restart
<1>15. ASSUME NEW chg, Books!CommitUnknown(chg)
       PROVE  Proved!CommitUnknown(chg)
  BY <1>3, <1>15 DEF Books!CommitUnknown, Proved!CommitUnknown
<1> HIDE DEF ActualBytes, OwedBytes, ViewBytes, SavedBytes, ScanBytes, Books!past, Proved!past
<1>12. ASSUME NEW c, Books!Scanner(c)
       PROVE  Proved!Scanner(c)
  BY <1>6, <1>7, <1>8, <1>9, <1>10, <1>12 DEF Books!Scanner, Proved!Scanner
<1>13. Books!Next => Proved!Next
  <2> SUFFICES ASSUME Books!Next
               PROVE  Proved!Next
    OBVIOUS
  <2>1. CASE \E chg \in [Shards -> (-Bytes(Actions))..Bytes(Actions)] :
               Books!Commit(chg) \/ Books!CommitUnknown(chg)
    BY <1>4, <1>15, <2>1 DEF Proved!Next
  <2>2. CASE \E s \in Shards, amount \in (-Bytes(Actions))..Bytes(Actions) :
               Books!AddBlobDelta(s, amount)
    BY <1>5, <2>2 DEF Proved!Next
  <2>3. CASE \E c \in Books!Scanners : Books!Scanner(c)
    BY <1>3, <1>12, <2>3 DEF Proved!Next
  <2>4. CASE Books!Restart
    BY <1>11, <2>4 DEF Proved!Next
  <2> QED
    BY <2>1, <2>2, <2>3, <2>4 DEF Books!Next
<1>14. [Books!Next]_(Books!vars) => [Proved!Next]_(Proved!vars)
  BY <1>2, <1>13
<1> QED
  BY <1>1, <1>14, PTL DEF Books!Spec, Proved!Spec

\* Until the first restart every shard's books balance but for commits of
\* unknown outcome: what the table holds is the last scan, plus the delta, plus
\* what is still owed, less what scans have recorded and not yet settled, plus
\* what such commits left out.
LEMMA ShardsBalance == Spec => []Proved!BooksBalance
<1>1. Proved!ShardStatsAssumption
  <2>1. Bytes(Actions) \in Nat
    BY SizeType
  <2> QED
    BY <2>1, CleanupAssumption DEF Proved!ShardStatsAssumption
<1>2. Proved!Spec => []Proved!BooksBalance
  BY <1>1, Proved!BooksAlwaysBalance
<1> QED
  BY <1>2, BooksAreProved, KeepsTheBooks, PTL DEF KeepsBooks

\* No transaction's deltas are being applied, no scan is being settled, and
\* the process has not restarted.
AtRest == restarts = 0 /\ WriteLockFree /\ \A c \in Scanners : scan[c].pc # "recorded"

\* Then the estimate that decides about evictions is the truth, less what
\* commits of unknown outcome left out of it.
EstimateIsExact == AtRest => Estimate + Lost = Total

\* The bytes of the shards add up to those of the table.
LEMMA ShardsAddUp == SumOver(ActualBytes, Shards) = Total
<1> DEFINE group == [a \in Actions |-> Shard(a)]
<1>1. Present \in SUBSET Actions /\ IsFiniteSet(Present) /\ IsFiniteSet(Shards)
  BY SizeType, CleanupAssumption DEF Present
<1>2. \A a \in Present : Size[a] \in Nat /\ group[a] \in Shards
  BY <1>1, SizeType
<1>3. \A s \in Shards : InShard(s) = {a \in Present : group[a] = s}
  BY <1>1 DEF InShard
<1>4. ActualBytes = [s \in Shards |-> SumOver(Size, {a \in Present : group[a] = s})]
  BY <1>3 DEF ActualBytes, Bytes
<1> HIDE DEF group
<1>5. SumOver([s \in Shards |-> SumOver(Size, {a \in Present : group[a] = s})], Shards)
        = SumOver(Size, Present)
  BY <1>1, <1>2, SumGroups
<1> QED
  BY <1>4, <1>5 DEF Total, Bytes

\* A signed sum is the sum of what is positive less that of what is negative.
LEMMA SignedParts ==
  ASSUME NEW f \in [Shards -> Int]
  PROVE  SignedSum(f) = SumOver([s \in Shards |-> IF f[s] > 0 THEN f[s] ELSE 0], Shards)
                        - SumOver([s \in Shards |-> IF f[s] < 0 THEN -f[s] ELSE 0], Shards)
<1> DEFINE pos == [s \in Shards |-> IF f[s] > 0 THEN f[s] ELSE 0]
           neg == [s \in Shards |-> IF f[s] < 0 THEN -f[s] ELSE 0]
           min == [s \in Shards |-> -f[s]]
<1>1. \A s \in Shards : 1..f[s] = 1..pos[s]
  OBVIOUS
<1>2. \A s \in Shards : 1..min[s] = 1..neg[s]
  OBVIOUS
<1>3. SumOver(f, Shards) = SumOver(pos, Shards)
  <2> HIDE DEF pos
  <2> QED
    BY <1>1, SumSame
<1>4. SumOver(min, Shards) = SumOver(neg, Shards)
  <2> HIDE DEF neg, min
  <2> QED
    BY <1>2, SumSame
<1> QED
  BY <1>3, <1>4 DEF SignedSum

\* The cleanup loop decides by the sum of the last scans and of the signed
\* deltas (recomputeAggregateLocked, sumShardDeltas): whatever commits,
\* evictions and overlapping scans came before, it differs from the bytes in
\* the Actions table by exactly what commits of unknown outcome left out,
\* whenever no update is in progress, until the first restart.
THEOREM EstimateExactAtRest == Spec => []EstimateIsExact
<1>1. TypeOK /\ Proved!BooksBalance => EstimateIsExact
  <2> SUFFICES ASSUME TypeOK, Proved!BooksBalance, AtRest
               PROVE  Estimate + Lost = Total
    BY DEF EstimateIsExact
  <2> DEFINE pos  == [s \in Shards |-> IF delta[s] > 0 THEN delta[s] ELSE 0]
             neg  == [s \in Shards |-> IF delta[s] < 0 THEN -delta[s] ELSE 0]
             lpos == [s \in Shards |-> IF lost[s] > 0 THEN lost[s] ELSE 0]
             lneg == [s \in Shards |-> IF lost[s] < 0 THEN -lost[s] ELSE 0]
             got  == [s \in Shards |-> ViewBytes[s] + pos[s]]
             gave == [s \in Shards |-> ActualBytes[s] + neg[s]]
             both == [s \in Shards |-> got[s] + lpos[s]]
  <2>1. ASSUME NEW s \in Shards
        PROVE  /\ ActualBytes[s] \in Nat /\ ViewBytes[s] \in Nat
               /\ delta[s] \in Int /\ lost[s] \in Int
               /\ ActualBytes[s] = ViewBytes[s] + delta[s] + lost[s]
    <3>1. ActualBytes[s] \in Nat
      BY SizeType DEF ActualBytes, InShard, Present
    <3>2. ViewBytes[s] \in Nat /\ delta[s] \in Int /\ lost[s] \in Int
      BY DEF ViewBytes, TypeOK, Stats
    <3>3. OwedBytes[s] = 0
      BY NothingOwed DEF OwedBytes, AtRest
    <3>4. Proved!Unsettled(s) = 0
      BY ScanBytesOf DEF Proved!Unsettled, Proved!UnsettledBy, AtRest, Scanners
    <3>5. Proved!Drift(s) = lost[s]
      BY DEF Proved!BooksBalance, AtRest
    <3>6. ActualBytes[s] - (ViewBytes[s] + delta[s] + OwedBytes[s] - Proved!Unsettled(s)) = lost[s]
      BY <3>5 DEF Proved!Drift
    <3> QED
      BY <3>1, <3>2, <3>3, <3>4, <3>6
  <2>2. delta \in [Shards -> Int] /\ lost \in [Shards -> Int]
    BY DEF TypeOK
  <2>3. /\ SumShardDeltas = SumOver(pos, Shards) - SumOver(neg, Shards)
        /\ Lost = SumOver(lpos, Shards) - SumOver(lneg, Shards)
    BY <2>2, SignedParts DEF SumShardDeltas, Lost
  <2>4. \A s \in Shards : /\ pos[s] \in Nat /\ neg[s] \in Nat
                          /\ lpos[s] \in Nat /\ lneg[s] \in Nat
                          /\ got[s] = ViewBytes[s] + pos[s] /\ got[s] \in Nat
                          /\ gave[s] = ActualBytes[s] + neg[s] /\ gave[s] \in Nat
                          /\ both[s] = got[s] + lpos[s]
                          /\ both[s] = gave[s] + lneg[s]
    BY <2>1
  <2>5. IsFiniteSet(Shards) /\ \A s \in Shards : ActualBytes[s] \in Nat /\ ViewBytes[s] \in Nat
    BY <2>1, CleanupAssumption
  <2>6. LastUsage.size = SumOver(ViewBytes, Shards)
    BY DEF LastUsage, ViewBytes
  <2> HIDE DEF pos, neg, lpos, lneg, got, gave, both
  <2>7. SumOver(got, Shards) = SumOver(ViewBytes, Shards) + SumOver(pos, Shards)
    BY <2>4, <2>5, SumPlus
  <2>8. SumOver(gave, Shards) = SumOver(ActualBytes, Shards) + SumOver(neg, Shards)
    BY <2>4, <2>5, SumPlus
  <2>9. SumOver(both, Shards) = SumOver(got, Shards) + SumOver(lpos, Shards)
    BY <2>4, <2>5, SumPlus
  <2>10. SumOver(both, Shards) = SumOver(gave, Shards) + SumOver(lneg, Shards)
    BY <2>4, <2>5, SumPlus
  <2>11. /\ SumOver(ViewBytes, Shards) \in Nat /\ SumOver(ActualBytes, Shards) \in Nat
         /\ SumOver(pos, Shards) \in Nat /\ SumOver(neg, Shards) \in Nat
         /\ SumOver(lpos, Shards) \in Nat /\ SumOver(lneg, Shards) \in Nat
    BY <2>4, <2>5, UnitsFinite
  <2>12. Estimate = SumOver(ViewBytes, Shards) + (SumOver(pos, Shards) - SumOver(neg, Shards))
    BY <2>3, <2>6 DEF Estimate
  <2> QED
    BY <2>3, <2>7, <2>8, <2>9, <2>10, <2>11, <2>12, ShardsAddUp
<1> QED
  BY <1>1, CleanupTypeCorrect, ShardsBalance, PTL
=============================================================================
