-------------------------- MODULE ShardStatsProofs --------------------------
(***************************************************************************)
(* Proofs about dead reckoning, for any number of shards, any usage and    *)
(* any number of restarts and of commits of unknown outcome.               *)
(***************************************************************************)
EXTENDS ShardStats, TLAPS

\* The books start empty and well typed.
LEMMA BooksInit == Init => TypeOK /\ BooksBalance
BY ShardStatsAssumption
DEF Init, TypeOK, Usage, BooksBalance, Drift, Unsettled, UnsettledBy, Scanners, IdleScan

\* What a scanner is working on, by its program counter.
LEMMA ScanTypes ==
  ASSUME TypeOK, NEW c \in Scanners
  PROVE  /\ scan[c].pc \in {"scanned", "persisted"} =>
              scan[c] \in [pc : {"scanned", "persisted"}, shard : Shards, new : Usage]
         /\ scan[c].pc = "recorded" =>
              scan[c] \in [pc : {"recorded"}, shard : Shards, diff : Int]
BY DEF TypeOK, IdleScan

\* Every step keeps the books well typed.
LEMMA BooksTyped == TypeOK /\ [Next]_vars => TypeOK'
<1> SUFFICES ASSUME TypeOK, [Next]_vars
             PROVE  TypeOK'
  OBVIOUS
<1> USE ShardStatsAssumption
<1>1. ASSUME NEW chg \in [Shards -> (-MaxUsage)..MaxUsage], Commit(chg)
      PROVE  TypeOK'
  BY <1>1 DEF Commit, TypeOK, Usage, past
<1>0. ASSUME NEW chg \in [Shards -> (-MaxUsage)..MaxUsage], CommitUnknown(chg)
      PROVE  TypeOK'
  BY <1>0 DEF CommitUnknown, TypeOK, Usage
<1>2. ASSUME NEW s \in Shards, NEW amount \in (-MaxUsage)..MaxUsage, AddBlobDelta(s, amount)
      PROVE  TypeOK'
  BY <1>2 DEF AddBlobDelta, TypeOK, past
<1>3. ASSUME NEW c \in Scanners, Scanner(c)
      PROVE  TypeOK'
  <2>1. ASSUME NEW s \in Shards, ScanShard(c, s)
        PROVE  TypeOK'
    BY <2>1 DEF ScanShard, TypeOK, Usage, past
  <2>2. CASE UpsertShardStats(c)
    <3>1. scan[c] \in [pc : {"scanned", "persisted"}, shard : Shards, new : Usage]
      BY <2>2, ScanTypes DEF UpsertShardStats
    <3>2. [scan[c] EXCEPT !.pc = "persisted"]
            \in [pc : {"scanned", "persisted"}, shard : Shards, new : Usage]
      BY <3>1
    <3> QED
      BY <2>2, <3>1, <3>2 DEF UpsertShardStats, TypeOK, past
  <2>3. CASE RecordScan(c)
    <3>1. scan[c] \in [pc : {"scanned", "persisted"}, shard : Shards, new : Usage]
      BY <2>3, ScanTypes DEF RecordScan
    <3> QED
      BY <2>3, <3>1 DEF RecordScan, TypeOK, Usage, past
  <2>4. CASE SettleDelta(c)
    BY <2>4, ScanTypes DEF SettleDelta, TypeOK, past
  <2>5. CASE ScanFails(c)
    BY <2>5 DEF ScanFails, TypeOK, past
  <2> QED
    BY <1>3, <2>1, <2>2, <2>3, <2>4, <2>5 DEF Scanner
<1>4. CASE Restart
  BY <1>4 DEF Restart, TypeOK
<1>5. CASE UNCHANGED vars
  BY <1>5 DEF vars, TypeOK, past
<1> QED
  BY <1>0, <1>1, <1>2, <1>3, <1>4, <1>5 DEF Next

\* No step but a restart changes what the books are off by, unless it commits
\* and reports an error.
LEMMA DriftStep ==
  ASSUME TypeOK, [Next]_vars, restarts' = restarts, NEW s \in Shards
  PROVE  /\ Drift(s)' - Drift(s) = lost'[s] - lost[s]
         /\ Drift(s) \in Int /\ Drift(s)' \in Int
<1> USE ShardStatsAssumption
<1>0. Drift(s) \in Int /\ Drift(s)' \in Int
  <2>1. Unsettled(s) \in Int /\ TypeOK'
    BY ScanTypes, BooksTyped DEF Unsettled, UnsettledBy, Scanners
  <2>2. Unsettled(s)' \in Int
    <3>1. \A c \in Scanners : scan'[c].pc = "recorded" => scan'[c].diff \in Int
      BY <2>1 DEF TypeOK, IdleScan
    <3> QED
      BY <3>1 DEF Unsettled, UnsettledBy, Scanners
  <2> QED
    BY <2>1, <2>2 DEF Drift, TypeOK, Usage
<1>1. ASSUME NEW chg \in [Shards -> (-MaxUsage)..MaxUsage], Commit(chg)
      PROVE  Drift(s)' = Drift(s) /\ UNCHANGED lost
  <2>1. Unsettled(s)' = Unsettled(s)
    BY <1>1 DEF Commit, Unsettled, UnsettledBy
  <2>2. owed[s] = 0 /\ actual'[s] = actual[s] + owed'[s] /\ UNCHANGED <<view, delta, lost>>
        /\ owed'[s] \in Int
    BY <1>1 DEF Commit, WriteLockFree, past
  <2>3. Unsettled(s) \in Int
    BY ScanTypes DEF Unsettled, UnsettledBy, Scanners
  <2> QED
    BY <2>1, <2>2, <2>3 DEF Drift, TypeOK, Usage
<1>6. ASSUME NEW chg \in [Shards -> (-MaxUsage)..MaxUsage], CommitUnknown(chg)
      PROVE  Drift(s)' - Drift(s) = lost'[s] - lost[s]
  <2>1. Unsettled(s)' = Unsettled(s)
    BY <1>6 DEF CommitUnknown, Unsettled, UnsettledBy
  <2>2. /\ actual'[s] = actual[s] + chg[s] /\ lost'[s] = lost[s] + chg[s] /\ chg[s] \in Int
        /\ UNCHANGED <<view, delta, owed>>
    BY <1>6 DEF CommitUnknown
  <2>3. Unsettled(s) \in Int
    BY ScanTypes DEF Unsettled, UnsettledBy, Scanners
  <2> QED
    BY <2>1, <2>2, <2>3 DEF Drift, TypeOK, Usage
<1>2. ASSUME NEW z \in Shards, NEW amount \in (-MaxUsage)..MaxUsage, AddBlobDelta(z, amount)
      PROVE  Drift(s)' = Drift(s) /\ UNCHANGED lost
  <2>1. Unsettled(s)' = Unsettled(s)
    BY <1>2 DEF AddBlobDelta, Unsettled, UnsettledBy
  <2>2. /\ UNCHANGED <<actual, view, lost>>
        /\ delta'[s] + owed'[s] = delta[s] + owed[s]
        /\ delta'[s] \in Int /\ owed'[s] \in Int
    BY <1>2 DEF AddBlobDelta, TypeOK, past
  <2>3. Unsettled(s) \in Int
    BY ScanTypes DEF Unsettled, UnsettledBy, Scanners
  <2> QED
    BY <2>1, <2>2, <2>3 DEF Drift, TypeOK, Usage
<1>3. ASSUME NEW c \in Scanners, Scanner(c)
      PROVE  Drift(s)' = Drift(s) /\ UNCHANGED lost
  <2>1. \A d \in Scanners : UnsettledBy(d, s) \in Int
    BY ScanTypes DEF UnsettledBy
  <2>2. UNCHANGED <<actual, owed, lost>>
    BY <1>3 DEF Scanner, ScanShard, UpsertShardStats, RecordScan, SettleDelta, ScanFails, past
  <2>3. \A d \in Scanners \ {c} : UnsettledBy(d, s)' = UnsettledBy(d, s)
    BY <1>3 DEF Scanner, ScanShard, UpsertShardStats, RecordScan, SettleDelta, ScanFails,
                UnsettledBy, TypeOK
  \* Scanner c moves the same amount between the view, the delta and itself.
  <2>4. /\ view'[s] + delta'[s] - UnsettledBy(c, s)' = view[s] + delta[s] - UnsettledBy(c, s)
        /\ view'[s] \in Int /\ delta'[s] \in Int /\ UnsettledBy(c, s)' \in Int
    <3>1. ASSUME NEW z \in Shards, ScanShard(c, z)
          PROVE  UNCHANGED <<view, delta>> /\ UnsettledBy(c, s)' = UnsettledBy(c, s)
      BY <3>1 DEF ScanShard, UnsettledBy, TypeOK
    <3>2. ASSUME UpsertShardStats(c) \/ ScanFails(c)
          PROVE  UNCHANGED <<view, delta>> /\ UnsettledBy(c, s)' = UnsettledBy(c, s)
      BY <3>2, ScanTypes DEF UpsertShardStats, ScanFails, UnsettledBy, TypeOK, IdleScan
    <3>3. CASE RecordScan(c)
      <4>1. scan[c] \in [pc : {"scanned", "persisted"}, shard : Shards, new : Usage]
        BY <3>3, ScanTypes DEF RecordScan
      <4>2. UnsettledBy(c, s) = 0
        BY <3>3 DEF RecordScan, UnsettledBy
      <4>3. UnsettledBy(c, s)' = IF scan[c].shard = s THEN scan[c].new - view[s] ELSE 0
        BY <3>3 DEF RecordScan, UnsettledBy, TypeOK
      <4>4. /\ UNCHANGED delta
            /\ view'[s] = IF scan[c].shard = s THEN scan[c].new ELSE view[s]
        BY <3>3, <4>1 DEF RecordScan, TypeOK
      <4> QED
        BY <4>1, <4>2, <4>3, <4>4 DEF TypeOK, Usage
    <3>4. CASE SettleDelta(c)
      <4>1. scan[c] \in [pc : {"recorded"}, shard : Shards, diff : Int]
        BY <3>4, ScanTypes DEF SettleDelta
      <4>2. UnsettledBy(c, s) = IF scan[c].shard = s THEN scan[c].diff ELSE 0
        BY <3>4 DEF SettleDelta, UnsettledBy
      <4>3. UnsettledBy(c, s)' = 0
        BY <3>4 DEF SettleDelta, UnsettledBy, TypeOK, IdleScan
      <4>4. /\ UNCHANGED view
            /\ delta'[s] = IF scan[c].shard = s THEN delta[s] - scan[c].diff ELSE delta[s]
        BY <3>4, <4>1 DEF SettleDelta, TypeOK
      <4> QED
        BY <4>1, <4>2, <4>3, <4>4 DEF TypeOK, Usage
    <3> QED
      BY <1>3, <2>1, <3>1, <3>2, <3>3, <3>4 DEF Scanner, TypeOK, Usage
  <2>5. CASE c = "loop"
    BY <2>1, <2>2, <2>3, <2>4, <2>5 DEF Drift, Unsettled, Scanners, TypeOK, Usage
  <2>6. CASE c = "usage"
    BY <2>1, <2>2, <2>3, <2>4, <2>6 DEF Drift, Unsettled, Scanners, TypeOK, Usage
  <2> QED
    BY <2>5, <2>6 DEF Scanners
<1>4. ~Restart
  BY DEF Restart, TypeOK
<1>5. ASSUME UNCHANGED vars
      PROVE  Drift(s)' = Drift(s) /\ UNCHANGED lost
  BY <1>5 DEF vars, past, Drift, Unsettled, UnsettledBy
<1>7. ASSUME Drift(s)' = Drift(s) /\ UNCHANGED lost
      PROVE  Drift(s)' - Drift(s) = lost'[s] - lost[s]
  BY <1>0, <1>7 DEF TypeOK
<1> QED
  BY <1>0, <1>1, <1>2, <1>3, <1>4, <1>5, <1>6, <1>7 DEF Next

\* Every reachable state is well typed.
THEOREM BooksTypeCorrect == Spec => []TypeOK
<1>1. Init => TypeOK
  BY BooksInit
<1> QED
  BY <1>1, BooksTyped, PTL DEF Spec

\* Only a restart, or a transaction that takes effect and reports an error,
\* makes the server's estimate drift from its database, and the latter by just
\* what it changed: scans that overlap each other, commits and late delta
\* updates never do.
THEOREM ScansNeverDrift == Spec => OnlyRestartDrifts
<1>1. TypeOK /\ [Next]_vars
        => [restarts' = restarts =>
              \A s \in Shards : Drift(s)' - Drift(s) = lost'[s] - lost[s]]_vars
  BY DriftStep
<1> QED
  BY <1>1, BooksTypeCorrect, PTL DEF Spec, OnlyRestartDrifts

\* Until the first restart the books are off by exactly what transactions of
\* unknown outcome changed, and balance if there were none.
THEOREM BooksAlwaysBalance == Spec => []BooksBalance
<1>1. Init => BooksBalance
  BY BooksInit
<1>2. TypeOK /\ BooksBalance /\ [Next]_vars => BooksBalance'
  <2> SUFFICES ASSUME TypeOK, BooksBalance, [Next]_vars, restarts' = 0, NEW s \in Shards
               PROVE  Drift(s)' = lost'[s]
    BY DEF BooksBalance
  <2>1. restarts = 0
    BY DEF Next, Commit, CommitUnknown, AddBlobDelta, Scanner, ScanShard, UpsertShardStats,
           RecordScan, SettleDelta, ScanFails, Restart, vars, past, TypeOK
  <2>2. Drift(s) = lost[s] /\ lost[s] \in Int /\ lost'[s] \in Int
    BY <2>1, BooksTyped DEF BooksBalance, TypeOK
  <2>3. Drift(s)' - Drift(s) = lost'[s] - lost[s] /\ Drift(s)' \in Int
    BY <2>1, DriftStep
  <2> QED
    BY <2>2, <2>3
<1> QED
  BY <1>1, <1>2, BooksTypeCorrect, PTL DEF Spec
=============================================================================
