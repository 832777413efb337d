------------------------------ MODULE Cleanup ------------------------------
(***************************************************************************)
(* How gocached stays within its limits (gocached.go): the cleanup loop    *)
(* estimates the cache's usage from the shard stats and the dead-reckoned  *)
(* deltas, and evicts the least recently used actions in batches, while    *)
(* PUTs are committed, access times are bumped and shards are rescanned.   *)
(*                                                                         *)
(* Blob files, the hot tier and what a failed removal leaves behind are    *)
(* the business of PutQueue; here an eviction is its SQLite transaction.   *)
(***************************************************************************)
EXTENDS Integers, Sequences, FiniteSets, FiniteSetsExt

CONSTANTS
  Actions,      \* action keys
  Blobs,        \* contents
  BlobOf,       \* [Actions -> Blobs]: the content that an action's PUT carries
  SizeOf,       \* [Blobs -> Nat \ {0}]: StoredSize
  Shards, ShardOf,  \* [Blobs -> Shards]
  RelAtime,     \* relAtimeSeconds
  MaxBatches,   \* bound: batches of PUTs that are committed
  MaxUnknown,   \* bound: transactions that commit although they report an error
  MaxRestarts,  \* bound: restarts of the process in any setup
  Setups        \* the ways a server may be set up, see Setup

\* maxSize and maxAge are the limits, 0 for none; batch is cleanupBatchSize;
\* usage says whether POST /usage is requested; puts are the actions that are
\* PUT, the clock stops at time, and so many transactions commit and report an
\* error, and the process restarts so many times (bounds).
Setup == [maxSize : Nat, maxAge : Nat, batch : Nat \ {0}, usage : BOOLEAN,
          puts : SUBSET Actions, time : Nat, unknown : 0..MaxUnknown, restarts : 0..MaxRestarts]

ASSUME CleanupAssumption ==
  /\ BlobOf \in [Actions -> Blobs] /\ SizeOf \in [Blobs -> Nat \ {0}]
  /\ ShardOf \in [Blobs -> Shards]
  /\ RelAtime \in Nat \ {0} /\ MaxBatches \in Nat
  /\ MaxUnknown \in Nat /\ MaxRestarts \in Nat
  /\ IsFiniteSet(Actions) /\ IsFiniteSet(Shards)
  /\ Setups \subseteq Setup

VARIABLES
  setup,       \* how the server was set up, of Setups
  atime,       \* Actions table: AccessTime, NoTime where there is no row
  saved,       \* BlobShardStats table
  shardStats,  \* srv.shardStats
  delta,       \* srv.shardDeltas (bytes)
  owed,        \* per action: its addBlobDelta that is still to come (-1, 0, +1)
  scan,        \* per scanner: where it is in scanAndPersistShard
  cleaner,     \* where the cleanup loop is in its tick
  dirty,       \* srv.accessDirty: access times not written yet
  lost,        \* history, per shard: bytes inserted less deleted by transactions
               \* that committed and reported an error
  unknown,     \* how many of those there were
  batches, now, restarts

past  == <<lost, unknown>>
env   == <<batches, now, restarts, setup, past>>
books == <<saved, shardStats, delta, scan>>
vars  == <<atime, books, owed, cleaner, dirty, env>>

NoTime   == -1
Scanners == {"loop", "usage"}
Idle     == [pc |-> "idle"]

MaxSize     == setup.maxSize
MaxAge      == setup.maxAge
BatchSize   == setup.batch
PostUsage   == setup.usage
MaxTime     == setup.time

-----------------------------------------------------------------------------
(* Usage *)

Size       == [a \in Actions |-> SizeOf[BlobOf[a]]]
Shard(a)   == ShardOf[BlobOf[a]]
Present    == {a \in Actions : atime[a] # NoTime}
InShard(s) == {a \in Present : Shard(a) = s}

\* The sum of f over S, unit by unit; what is not positive counts as zero.
Units(f, S)   == UNION {{x} \X (1..f[x]) : x \in S}
SumOver(f, S) == Cardinality(Units(f, S))

Bytes(A) == SumOver(Size, A)
BytesIn(s, A) == Bytes({a \in A : Shard(a) = s})

\* scanShard: the totals of a shard, and how many of its actions were
\* accessed within maxAge of the scan.
StatsOf(A) == [size |-> Bytes(A), count |-> Cardinality(A),
               fresh |-> Cardinality({a \in A : atime[a] > now - MaxAge})]
NoStats == [size |-> 0, count |-> 0, fresh |-> 0]

\* recomputeAggregateLocked: lastUsage is the sum of shardStats.
LastUsage == [size  |-> SumOver([s \in Shards |-> shardStats[s].size], Shards),
              count |-> SumOver([s \in Shards |-> shardStats[s].count], Shards),
              fresh |-> SumOver([s \in Shards |-> shardStats[s].fresh], Shards)]

\* What is positive less what is negative.
SignedSum(f) == SumOver(f, Shards) - SumOver([s \in Shards |-> -f[s]], Shards)

SumShardDeltas == SignedSum(delta)

\* sqliteWriteMu is held until a transaction's deltas are applied.
WriteLockFree == \A a \in Actions : owed[a] = 0

-----------------------------------------------------------------------------
(* PUTs and GETs *)

\* Fault: inserted actions are never added to the deltas.
FlushBatch_ForgetsDelta(B) ==
  /\ WriteLockFree
  /\ B # {} /\ B \subseteq setup.puts \ Present
  /\ atime' = [a \in Actions |-> IF a \in B THEN now ELSE atime[a]]
  /\ batches < MaxBatches /\ batches' = batches + 1
  /\ UNCHANGED <<owed, books, cleaner, dirty, now, restarts, setup, past>>

\* flushBatch commits new actions.
FlushBatch(B) ==
  /\ WriteLockFree
  /\ B # {} /\ B \subseteq setup.puts \ Present
  /\ atime' = [a \in Actions |-> IF a \in B THEN now ELSE atime[a]]
  /\ owed' = [a \in Actions |-> IF a \in B THEN 1 ELSE 0]
  /\ batches < MaxBatches /\ batches' = batches + 1
  /\ UNCHANGED <<books, cleaner, dirty, now, restarts, setup, past>>

\* tx.Commit reports an error although the transaction took effect.  The retry
\* finds the actions there (dup) and skips addBlobDelta; if they were evicted in
\* between, it is a FlushBatch again.
FlushBatchUnknown(B) ==
  /\ WriteLockFree
  /\ B # {} /\ B \subseteq setup.puts \ Present
  /\ atime' = [a \in Actions |-> IF a \in B THEN now ELSE atime[a]]
  /\ batches < MaxBatches /\ batches' = batches + 1
  /\ unknown < setup.unknown /\ unknown' = unknown + 1
  /\ lost' = [s \in Shards |-> lost[s] + BytesIn(s, B)]
  /\ UNCHANGED <<owed, books, cleaner, dirty, now, restarts, setup>>

\* Once the transaction has committed, each action is added to (or, evicted,
\* taken from) its shard's delta.
AddBlobDelta(a) ==
  /\ owed[a] # 0
  /\ delta' = [delta EXCEPT ![Shard(a)] = @ + owed[a] * Size[a]]
  /\ owed' = [owed EXCEPT ![a] = 0]
  /\ UNCHANGED <<atime, saved, shardStats, scan, cleaner, dirty, env>>

\* A hit whose access time is old is noted, once, for a later write.
EnqueueAccessTimeBump(a) ==
  /\ a \in Present /\ atime[a] <= now - RelAtime
  /\ dirty[a] = NoTime
  /\ dirty' = [dirty EXCEPT ![a] = now]
  /\ UNCHANGED <<atime, books, owed, cleaner, env>>

\* UPDATE has no effect on actions that were evicted meanwhile.
FlushAccessTimeBumps ==
  /\ WriteLockFree
  /\ \E a \in Actions : dirty[a] # NoTime
  /\ atime' = [a \in Actions |-> IF a \in Present /\ dirty[a] # NoTime
                                 THEN dirty[a] ELSE atime[a]]
  /\ dirty' = [a \in Actions |-> NoTime]
  /\ UNCHANGED <<books, owed, cleaner, env>>

-----------------------------------------------------------------------------
(* scanAndPersistShard: the stats loop rescans the stalest shard for ever,   *)
(* POST /usage rescans all of them; either may be at any shard.              *)

ScanShard(c, s) ==
  /\ scan[c].pc = "idle" /\ (c = "usage" => PostUsage)
  /\ scan' = [scan EXCEPT ![c] = [pc |-> "scanned", shard |-> s,
                                  new |-> StatsOf(InShard(s))]]
  /\ UNCHANGED <<atime, saved, shardStats, delta, owed, cleaner, dirty, env>>

UpsertShardStats(c) ==
  /\ scan[c].pc = "scanned"
  /\ WriteLockFree
  /\ saved' = [saved EXCEPT ![scan[c].shard] = scan[c].new]
  /\ scan' = [scan EXCEPT ![c].pc = "persisted"]
  /\ UNCHANGED <<atime, shardStats, delta, owed, cleaner, dirty, env>>

RecordScan(c) ==
  LET s == scan[c].shard IN
  /\ scan[c].pc = "persisted"
  /\ shardStats' = [shardStats EXCEPT ![s] = scan[c].new]
  /\ scan' = [scan EXCEPT ![c] = [pc |-> "recorded", shard |-> s,
                                  diff |-> scan[c].new.size - shardStats[s].size]]
  /\ UNCHANGED <<atime, saved, delta, owed, cleaner, dirty, env>>

\* Fault: the delta is reset, as if the scan had seen every change in it.
SettleDelta_Resets(c) ==
  /\ scan[c].pc = "recorded"
  /\ delta' = [delta EXCEPT ![scan[c].shard] = 0]
  /\ scan' = [scan EXCEPT ![c] = Idle]
  /\ UNCHANGED <<atime, saved, shardStats, owed, cleaner, dirty, env>>

SettleDelta(c) ==
  /\ scan[c].pc = "recorded"
  /\ delta' = [delta EXCEPT ![scan[c].shard] = @ - scan[c].diff]
  /\ scan' = [scan EXCEPT ![c] = Idle]
  /\ UNCHANGED <<atime, saved, shardStats, owed, cleaner, dirty, env>>

\* The query or the upsert fails.
ScanFails(c) ==
  /\ scan[c].pc = "scanned"
  /\ scan' = [scan EXCEPT ![c] = Idle]
  /\ UNCHANGED <<atime, saved, shardStats, delta, owed, cleaner, dirty, env>>

-----------------------------------------------------------------------------
(* The cleanup loop: cleanupTick and evictOldestActions *)

\* The aggregate is loaded first (the loop applies its own last batch's deltas
\* before it ticks again) ...
TickLoad ==
  /\ cleaner.pc = "idle" /\ \A a \in Actions : owed[a] # -1
  /\ cleaner' = [pc |-> "loaded", us |-> LastUsage]
  /\ UNCHANGED <<atime, books, owed, dirty, env>>

\* Fault: the tick returns unless both limits are exceeded.
TickDecide_NeedsBoth ==
  LET us       == cleaner.us
      size     == us.size + SumShardDeltas
      overAge  == MaxAge > 0 /\ us.count - us.fresh > 0
      overSize == MaxSize > 0 /\ size > MaxSize
  IN
  /\ cleaner.pc = "loaded"
  /\ cleaner' = IF overAge /\ overSize
                THEN [pc |-> "query", cutoff |-> now - MaxAge, overSize |-> TRUE,
                      budgeted |-> FALSE, budget |-> size - MaxSize]
                ELSE Idle
  /\ UNCHANGED <<atime, books, owed, dirty, env>>

\* ... then the deltas are summed and the limits compared.
TickDecide ==
  LET us       == cleaner.us
      size     == us.size + SumShardDeltas
      overAge  == MaxAge > 0 /\ us.count - us.fresh > 0
      overSize == MaxSize > 0 /\ size > MaxSize
  IN
  /\ cleaner.pc = "loaded"
  /\ cleaner' = IF overAge \/ overSize
                THEN [pc       |-> "query",
                      cutoff   |-> IF MaxAge > 0 THEN now - MaxAge ELSE MaxTime,
                      overSize |-> overSize,
                      budgeted |-> ~overAge,
                      budget   |-> size - MaxSize]
                ELSE Idle
  /\ UNCHANGED <<atime, books, owed, dirty, env>>

\* evictionCandidateQuery: the oldest actions up to the cutoff, in order.
Candidates(cutoff) ==
  LET old == {a \in Present : atime[a] <= cutoff}
      n   == IF Cardinality(old) < BatchSize THEN Cardinality(old) ELSE BatchSize
  IN {cs \in [1..n -> old] :
        /\ \A i, j \in 1..n : i < j => cs[i] # cs[j] /\ atime[cs[i]] <= atime[cs[j]]
        /\ \A a \in old, i \in 1..n : (\A j \in 1..n : cs[j] # a) => atime[cs[i]] <= atime[a]}

EvictQuery ==
  /\ cleaner.pc = "query"
  /\ \E cs \in Candidates(cleaner.cutoff) :
       cleaner' = IF cs = <<>> THEN Idle
                  ELSE [pc |-> "cands", cs |-> cs, overSize |-> cleaner.overSize,
                        budgeted |-> cleaner.budgeted, budget |-> cleaner.budget]
  /\ UNCHANGED <<atime, books, owed, dirty, env>>

Prefix(cs, n) == {cs[i] : i \in 1..n}

\* The n-th deletion leaves no other action for its blob, so the blob goes too.
OrphansBlob(cs, n) ==
  \A a \in Present \ Prefix(cs, n) : BlobOf[a] # BlobOf[cs[n]]

\* Fault: the batch goes on when exactly the budget has been reclaimed.
StopsAfter_OffByOne(cs, n) == OrphansBlob(cs, n) /\ Bytes(Prefix(cs, n)) > cleaner.budget

\* The byte budget is only looked at after a deletion that orphaned its blob.
StopsAfter(cs, n) == OrphansBlob(cs, n) /\ Bytes(Prefix(cs, n)) >= cleaner.budget

Evicted ==
  LET cs    == cleaner.cs
      stops == {n \in 1..Len(cs) : cleaner.budgeted /\ StopsAfter(cs, n)}
  IN Prefix(cs, IF stops = {} THEN Len(cs) ELSE Min(stops))

\* Fault: the actions go, but nothing is taken from the deltas.
EvictCommits_KeepsDelta ==
  /\ cleaner.pc = "cands" /\ WriteLockFree
  /\ atime' = [a \in Actions |-> IF a \in Evicted THEN NoTime ELSE atime[a]]
  /\ cleaner' = Idle
  /\ UNCHANGED <<books, owed, dirty, env>>

EvictCommits ==
  /\ cleaner.pc = "cands" /\ WriteLockFree
  /\ atime' = [a \in Actions |-> IF a \in Evicted THEN NoTime ELSE atime[a]]
  /\ owed' = [a \in Actions |-> IF a \in Evicted THEN -1 ELSE 0]
  /\ cleaner' = Idle
  /\ UNCHANGED <<books, dirty, env>>

\* The eviction's commit takes effect and reports an error: evictOldestActions
\* returns before it applies the deltas.
EvictUnknown ==
  /\ cleaner.pc = "cands" /\ WriteLockFree
  /\ atime' = [a \in Actions |-> IF a \in Evicted THEN NoTime ELSE atime[a]]
  /\ cleaner' = Idle
  /\ unknown < setup.unknown /\ unknown' = unknown + 1
  /\ lost' = [s \in Shards |-> lost[s] - BytesIn(s, Evicted)]
  /\ UNCHANGED <<books, owed, dirty, batches, now, restarts, setup>>

\* A query, a removal or the commit fails and the transaction rolls back.
EvictFails ==
  /\ cleaner.pc \in {"query", "cands"}
  /\ cleaner' = Idle
  /\ UNCHANGED <<atime, books, owed, dirty, env>>

-----------------------------------------------------------------------------

Tick ==
  /\ now < MaxTime
  /\ now' = now + 1
  /\ UNCHANGED <<atime, books, owed, cleaner, dirty, batches, restarts, setup, past>>

\* The process restarts: loadShardStats; deltas and unwritten bumps are gone.
Restart ==
  /\ restarts < setup.restarts
  /\ restarts' = restarts + 1
  /\ shardStats' = saved
  /\ delta' = [s \in Shards |-> 0]
  /\ owed' = [a \in Actions |-> 0]
  /\ scan' = [c \in Scanners |-> Idle]
  /\ cleaner' = Idle
  /\ dirty' = [a \in Actions |-> NoTime]
  /\ UNCHANGED <<atime, saved, batches, now, setup, past>>

Init ==
  /\ setup \in Setups
  /\ atime = [a \in Actions |-> NoTime]
  /\ saved = [s \in Shards |-> NoStats] /\ shardStats = [s \in Shards |-> NoStats]
  /\ delta = [s \in Shards |-> 0]
  /\ owed = [a \in Actions |-> 0]
  /\ scan = [c \in Scanners |-> Idle]
  /\ cleaner = Idle
  /\ dirty = [a \in Actions |-> NoTime]
  /\ lost = [s \in Shards |-> 0] /\ unknown = 0
  /\ batches = 0 /\ now = 0 /\ restarts = 0

Writer     == \E a \in Actions : AddBlobDelta(a)
Scanner(c) == \/ UpsertShardStats(c) \/ RecordScan(c) \/ SettleDelta(c)
Cleaner    == TickLoad \/ TickDecide \/ EvictQuery \/ EvictCommits

Next == \/ \E B \in SUBSET Actions : FlushBatch(B) \/ FlushBatchUnknown(B)
        \/ Writer
        \/ \E a \in Actions : EnqueueAccessTimeBump(a)
        \/ FlushAccessTimeBumps
        \/ \E c \in Scanners : Scanner(c) \/ ScanFails(c) \/ \E s \in Shards : ScanShard(c, s)
        \/ Cleaner \/ EvictUnknown \/ EvictFails
        \/ Tick \/ Restart

Spec == Init /\ [][Next]_vars
-----------------------------------------------------------------------------
(* Fairness: the loops run.  The stats loop always takes the stalest shard,  *)
(* so it passes none over; a query that is retried every tick eventually     *)
(* succeeds, and sync.Mutex starves nobody, hence the strong fairness.       *)
(* PUTs, GETs, POST /usage and restarts are not fair.                        *)

Fairness ==
  /\ WF_vars(Writer) /\ SF_vars(FlushAccessTimeBumps)
  /\ \A s \in Shards : SF_vars(ScanShard("loop", s))
  /\ SF_vars(UpsertShardStats("loop"))
  /\ WF_vars(UpsertShardStats("usage") \/ ScanFails("usage"))
  /\ \A c \in Scanners : WF_vars(RecordScan(c)) /\ WF_vars(SettleDelta(c))
  /\ WF_vars(TickLoad) /\ WF_vars(TickDecide) /\ SF_vars(EvictQuery) /\ SF_vars(EvictCommits)
  /\ WF_vars(Tick)

FairSpec == Spec /\ Fairness

-----------------------------------------------------------------------------
(* Properties *)

Stats == [size : Nat, count : Nat, fresh : Nat]
Times == Nat \cup {NoTime}

\* Type invariant.
TypeOK ==
  /\ atime \in [Actions -> Times] /\ dirty \in [Actions -> Times]
  /\ saved \in [Shards -> Stats] /\ shardStats \in [Shards -> Stats]
  /\ delta \in [Shards -> Int] /\ owed \in [Actions -> {-1, 0, 1}]
  /\ scan \in [Scanners -> {Idle}
                      \cup [pc : {"scanned", "persisted"}, shard : Shards, new : Stats]
                      \cup [pc : {"recorded"}, shard : Shards, diff : Int]]
  /\ cleaner \in {Idle}
         \cup [pc : {"loaded"}, us : Stats]
         \cup [pc : {"query"}, cutoff : Int, overSize : BOOLEAN, budgeted : BOOLEAN, budget : Int]
         \cup [pc : {"cands"}, cs : Seq(Actions), overSize : BOOLEAN, budgeted : BOOLEAN,
               budget : Int]
  /\ lost \in [Shards -> Int] /\ unknown \in Nat
  /\ batches \in Nat /\ now \in Nat /\ restarts \in Nat /\ setup \in Setups

Total    == Bytes(Present)
Estimate == LastUsage.size + SumShardDeltas

\* What is owed to the delta of shard s: insertions less evictions.
OwedIn(s) == Bytes({a \in Actions : Shard(a) = s /\ owed[a] = 1})
             - Bytes({a \in Actions : Shard(a) = s /\ owed[a] = -1})

\* The usage that the server works with implements the books of ShardStats:
\* commits, late delta updates, overlapping scans and evictions of real
\* actions are transactions, updates and scans of the per-shard totals.
Books == INSTANCE ShardStats WITH
  MaxUsage <- Bytes(Actions),
  actual   <- [s \in Shards |-> Bytes(InShard(s))],
  owed     <- [s \in Shards |-> OwedIn(s)],
  view     <- [s \in Shards |-> shardStats[s].size],
  saved    <- [s \in Shards |-> saved[s].size],
  scan     <- [c \in Scanners |->
                 IF scan[c].pc \in {"scanned", "persisted"}
                 THEN [scan[c] EXCEPT !.new = @.size] ELSE scan[c]]

KeepsBooks == Books!Spec

\* What transactions of unknown outcome left out of the estimate.
Lost == SignedSum(lost)

\* The estimate that decides about evictions keeps coming back to the truth,
\* less what transactions of unknown outcome left out of it, although commits
\* and scans make it overshoot and undershoot on the way, as long as the
\* process does not restart.
EstimateCatchesUp == []<>(Estimate + Lost = Total \/ restarts > 0)

\* The action has not been accessed for maxAge.
Expired(a) == MaxAge > 0 /\ a \in Present /\ atime[a] <= now - MaxAge

\* A cache that is over its size limit gets below it, but for what commits of
\* unknown outcome left out of the estimate, as long as the process does not
\* restart; with an age limit too, it may stop at actions that are younger.
SizeReclaimed ==
  (MaxSize > 0 /\ Total > MaxSize)
    ~> \/ Total <= MaxSize \/ Total - Lost <= MaxSize \/ restarts > 0
       \/ MaxAge > 0 /\ \A a \in Present : ~Expired(a)

\* An action that has expired is evicted, unless an access that was noted
\* before is written first.
AgedReclaimed == \A a \in Actions : Expired(a) ~> ~Expired(a)

\* Cleaning for size takes no blob away once enough bytes are reclaimed: every
\* deletion of a batch but the last that leaves its blob without an action
\* comes before the budget is reached.
StopsAtBudget ==
  [][LET E  == {a \in Present : atime'[a] = NoTime}
         cs == cleaner.cs
     IN cleaner.pc = "cands" /\ cleaner.budgeted /\ E # {} =>
          \A i \in 1..(Cardinality(E) - 1) :
            (\A a \in Present : BlobOf[a] = BlobOf[cs[i]] => a \in Prefix(cs, i))
              => Bytes(Prefix(cs, i)) < cleaner.budget]_vars

\* When a tick that finds the cache over its size limit finds no actions to
\* evict, there are none, or there is an age limit and all are younger.
OverSizeEvicts ==
  cleaner.pc = "query" /\ cleaner.overSize /\ <<>> \in Candidates(cleaner.cutoff) =>
    \/ Present = {}
    \/ MaxAge > 0 /\ \A a \in Present : atime[a] > cleaner.cutoff

\* What the comments say of every server: a tick that finds the cache over its
\* size limit evicts until enough bytes are reclaimed, so as long as there are
\* actions it finds some.
OverSizeFindsSome ==
  cleaner.pc = "query" /\ cleaner.overSize /\ Present # {}
    => <<>> \notin Candidates(cleaner.cutoff)
=============================================================================
