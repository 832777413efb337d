----------------------------- MODULE ShardStats -----------------------------
(***************************************************************************)
(* How gocached knows its own size without scanning its database           *)
(* (gocached.go): every shard's usage is the total of its last scan plus a *)
(* dead-reckoned delta.  Transactions change the Actions table and adjust  *)
(* the delta afterwards; a scan replaces the total and takes the change    *)
(* out of the delta, in four separate steps; a restart reloads the totals  *)
(* that scans persisted.                                                   *)
(*                                                                         *)
(* The table is abstracted to one number per shard: its bytes (equally its *)
(* row count, which the code keeps in the same way next to it).            *)
(***************************************************************************)
EXTENDS Integers

CONSTANTS
  Shards,       \* SHA-256 prefixes
  MaxUsage,     \* bound: bytes in one shard
  MaxUnknown,   \* bound: transactions that commit although they report an error
  MaxRestarts   \* bound: restarts of the process

ASSUME ShardStatsAssumption ==
  MaxUsage \in Nat /\ MaxUnknown \in Nat /\ MaxRestarts \in Nat

\* The goroutines that scan: runShardStatsLoop and one POST /usage request.
Scanners == {"loop", "usage"}

VARIABLES
  actual,   \* per shard: total of the rows of the Actions table
  owed,     \* per shard: committed, but addBlobDelta not called yet
  delta,    \* srv.shardDeltas
  view,     \* srv.shardStats[s].stats.All(), 0 where there is none
  saved,    \* BlobShardStats table, 0 where there is no row
  scan,     \* per scanner: where it is in scanAndPersistShard
  lost,     \* history, per shard: what CommitUnknown changed it by
  unknown,  \* how many of those there were
  restarts

past == <<lost, unknown, restarts>>
vars == <<actual, owed, delta, view, saved, scan, past>>

IdleScan == [pc |-> "idle"]

\* sqliteWriteMu is held from a transaction's start until its deltas are
\* applied.
WriteLockFree == \A s \in Shards : owed[s] = 0

-----------------------------------------------------------------------------
(* Transactions: flushBatch inserts actions, evictOldestActions deletes them *)

Commit(chg) ==
  /\ WriteLockFree
  /\ \A s \in Shards : actual[s] + chg[s] \in 0..MaxUsage
  /\ actual' = [s \in Shards |-> actual[s] + chg[s]]
  /\ owed' = chg
  /\ UNCHANGED <<delta, view, saved, scan, past>>

\* tx.Commit reports an error although the transaction took effect: its deltas
\* are never applied.  flushBatchWithRetry tries again, but the retry finds the
\* actions there (dup) and skips addBlobDelta; an eviction is not tried again.
CommitUnknown(chg) ==
  /\ WriteLockFree
  /\ \A s \in Shards : actual[s] + chg[s] \in 0..MaxUsage
  /\ actual' = [s \in Shards |-> actual[s] + chg[s]]
  /\ lost' = [s \in Shards |-> lost[s] + chg[s]]
  /\ unknown < MaxUnknown /\ unknown' = unknown + 1
  /\ UNCHANGED <<owed, delta, view, saved, scan, restarts>>

\* addBlobDelta for one action: amount is its share of what is owed.
AddBlobDelta(s, amount) ==
  /\ owed[s] # 0
  /\ IF owed[s] > 0 THEN amount \in 1..owed[s] ELSE amount \in owed[s]..(-1)
  /\ owed' = [owed EXCEPT ![s] = @ - amount]
  /\ delta' = [delta EXCEPT ![s] = @ + amount]
  /\ UNCHANGED <<actual, view, saved, scan, past>>

-----------------------------------------------------------------------------
(* scanAndPersistShard *)

\* The query reads a snapshot of the table without the write lock.
ScanShard(c, s) ==
  /\ scan[c].pc = "idle"
  /\ scan' = [scan EXCEPT ![c] = [pc |-> "scanned", shard |-> s, new |-> actual[s]]]
  /\ UNCHANGED <<actual, owed, delta, view, saved, past>>

UpsertShardStats(c) ==
  /\ scan[c].pc = "scanned"
  /\ WriteLockFree
  /\ saved' = [saved EXCEPT ![scan[c].shard] = scan[c].new]
  /\ scan' = [scan EXCEPT ![c].pc = "persisted"]
  /\ UNCHANGED <<actual, owed, delta, view, past>>

\* Under shardStatsMu: remember the old total, install the new one.
RecordScan(c) ==
  /\ scan[c].pc = "persisted"
  /\ view' = [view EXCEPT ![scan[c].shard] = scan[c].new]
  /\ scan' = [scan EXCEPT ![c] = [pc |-> "recorded", shard |-> scan[c].shard,
                                  diff |-> scan[c].new - view[scan[c].shard]]]
  /\ UNCHANGED <<actual, owed, delta, saved, past>>

\* Fault: the delta is reset to zero, as if the scan had seen all of it.
SettleDelta_Resets(c) ==
  /\ scan[c].pc = "recorded"
  /\ delta' = [delta EXCEPT ![scan[c].shard] = 0]
  /\ scan' = [scan EXCEPT ![c] = IdleScan]
  /\ UNCHANGED <<actual, owed, view, saved, past>>

\* Take the change that the scan brought out of the delta.
SettleDelta(c) ==
  /\ scan[c].pc = "recorded"
  /\ delta' = [delta EXCEPT ![scan[c].shard] = @ - scan[c].diff]
  /\ scan' = [scan EXCEPT ![c] = IdleScan]
  /\ UNCHANGED <<actual, owed, view, saved, past>>

\* The query or the upsert fails: the scan is abandoned.
ScanFails(c) ==
  /\ scan[c].pc = "scanned"
  /\ scan' = [scan EXCEPT ![c] = IdleScan]
  /\ UNCHANGED <<actual, owed, delta, view, saved, past>>

-----------------------------------------------------------------------------

\* loadShardStats at startup; the deltas start at zero.
Restart ==
  /\ restarts < MaxRestarts
  /\ restarts' = restarts + 1
  /\ view' = saved
  /\ delta' = [s \in Shards |-> 0]
  /\ owed' = [s \in Shards |-> 0]
  /\ scan' = [c \in Scanners |-> IdleScan]
  /\ UNCHANGED <<actual, saved, lost, unknown>>

Init ==
  /\ actual = [s \in Shards |-> 0]
  /\ owed = [s \in Shards |-> 0]
  /\ delta = [s \in Shards |-> 0]
  /\ view = [s \in Shards |-> 0]
  /\ saved = [s \in Shards |-> 0]
  /\ scan = [c \in Scanners |-> IdleScan]
  /\ lost = [s \in Shards |-> 0]
  /\ unknown = 0 /\ restarts = 0

Scanner(c) == \/ \E s \in Shards : ScanShard(c, s)
              \/ UpsertShardStats(c) \/ RecordScan(c) \/ SettleDelta(c) \/ ScanFails(c)

Next == \/ \E chg \in [Shards -> (-MaxUsage)..MaxUsage] : Commit(chg) \/ CommitUnknown(chg)
        \/ \E s \in Shards, amount \in (-MaxUsage)..MaxUsage : AddBlobDelta(s, amount)
        \/ \E c \in Scanners : Scanner(c)
        \/ Restart

Spec == Init /\ [][Next]_vars

-----------------------------------------------------------------------------
(* Properties *)

Usage == 0..MaxUsage

\* Type invariant.
TypeOK ==
  /\ actual \in [Shards -> Usage] /\ view \in [Shards -> Usage] /\ saved \in [Shards -> Usage]
  /\ owed \in [Shards -> Int] /\ delta \in [Shards -> Int] /\ lost \in [Shards -> Int]
  /\ scan \in [Scanners -> {IdleScan}
                      \cup [pc : {"scanned", "persisted"}, shard : Shards, new : Usage]
                      \cup [pc : {"recorded"}, shard : Shards, diff : Int]]
  /\ unknown \in Nat /\ restarts \in Nat

\* What scanner c has recorded for shard s and not yet taken out of the delta.
UnsettledBy(c, s) ==
  IF scan[c].pc = "recorded" /\ scan[c].shard = s THEN scan[c].diff ELSE 0

Unsettled(s) == UnsettledBy("loop", s) + UnsettledBy("usage", s)

\* What the server's books are off by for shard s: the rows that no scan, no
\* delta and no update in progress accounts for.
Drift(s) == actual[s] - (view[s] + delta[s] + owed[s] - Unsettled(s))

\* Until the first restart the books are off by exactly what transactions of
\* unknown outcome changed, whatever the order of commits, late delta updates
\* and overlapping scans of the same shard; no scan repairs that.
BooksBalance == restarts = 0 => \A s \in Shards : Drift(s) = lost[s]

\* What the books are off by changes only with a restart or, by exactly what
\* was committed, with a transaction that took effect and reported an error: a
\* scan never loses or double-counts a concurrent commit.
OnlyRestartDrifts ==
  [][restarts' = restarts =>
       \A s \in Shards : Drift(s)' - Drift(s) = lost'[s] - lost[s]]_vars
=============================================================================
