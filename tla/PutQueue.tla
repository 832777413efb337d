------------------------------ MODULE PutQueue ------------------------------
(***************************************************************************)
(* The PUT pipeline of gocached (gocache/gocached/putqueue.go and the      *)
(* handlers of gocached.go that drive it): a PUT is acknowledged once its  *)
(* bytes are spooled, movers copy spooled blobs into the main blob         *)
(* directory behind a durable cleanup intent, one flusher commits metadata *)
(* to SQLite in batches, a sweeper reaps blobs that a crash or a drop left *)
(* unaccounted for, and an evictor deletes old actions.  GETs consult the  *)
(* pending map before SQLite.                                              *)
(*                                                                         *)
(* The server is configured without a hot tier (srv.hot == nil) and        *)
(* without peers (srv.peers == nil).                                       *)
(***************************************************************************)
EXTENDS Integers, FiniteSets

CONSTANTS
  Puts,           \* PUT requests; each is made at most once
  Keys,           \* action keys (NamespaceID, ActionID)
  Shas,           \* contents, named by their SHA-256
  InlineShas,     \* the contents of at most smallObjectSize bytes
  KeyOf,          \* [Puts -> Keys]
  ShaOf,          \* [Puts -> Shas]
  SizeOf,         \* [Puts -> Nat], the declared content length
  Movers,         \* mover goroutines
  InlineCap,      \* putQueuePendingInlineCap
  CountCap,       \* putQueuePendingCountCap
  SpoolCap,       \* q.spoolCap
  CopyRetries,    \* putCopyRetries
  FlushRetries,   \* putFlushRetries
  FlushBatchCap,  \* putFlushBatchCap
  IntentDelCap,   \* capacity of intentDelCh
  IntentDelay,    \* cleanupIntentDelay
  Limited,        \* whether maxSize or maxAge is set, so that eviction runs
  ReadKeys,       \* the keys that the GET requests ask for
  MaxTime,        \* bound: the clock stops here
  MaxCrashes,     \* bound: crash-and-restart cycles
  NoPut, NoSha    \* "no entry" in the pending map and in the Actions table

ASSUME PutQueueAssumption ==
  /\ KeyOf \in [Puts -> Keys] /\ ShaOf \in [Puts -> Shas] /\ SizeOf \in [Puts -> Nat]
  /\ InlineShas \subseteq Shas /\ ReadKeys \subseteq Keys
  /\ NoPut \notin Puts /\ NoSha \notin Shas
  /\ InlineCap \in Nat \ {0} /\ CountCap \in Nat \ {0} /\ SpoolCap \in Nat \ {0}
  /\ CopyRetries \in Nat \ {0} /\ FlushRetries \in Nat \ {0}
  /\ FlushBatchCap \in Nat \ {0} /\ IntentDelCap \in Nat \ {0}
  /\ IntentDelay \in Nat \ {0}
  /\ Limited \in BOOLEAN /\ MaxTime \in Nat /\ MaxCrashes \in Nat

VARIABLES
  \* Memory of the server process
  hst,          \* per PUT: how far its HTTP handler got
  pending,      \* q.pending: [Keys -> Puts \cup {NoPut}]
  moverCh,      \* spooled entries waiting for a mover
  flushCh,      \* settled entries waiting for the flusher
  intentDelCh,  \* cleanup intents whose deletion was handed to the movers
  intentPath,   \* per PUT: due time in its intent's name, 0 for ""
  inlineSem,    \* weight held of the inline lane
  countSem,     \* weight held of the spooled lane's entry semaphore
  bytesSem,     \* weight held of the spooled lane's byte semaphore
  mover,        \* per mover: where it is in moveToFlush
  flusher,      \* where the flusher is in its batch
  sweeper,      \* where the sweeper is with one due intent
  listed,       \* the other due intents that it found in the directory
  evictor,      \* where the evictor is in its transaction
  reader,       \* one GET request
  \* Durable state
  spool,        \* PUTs whose spool file exists
  main,         \* contents whose file exists in the main blob directory
  cleanup,      \* cleanup intent files: <<due, sha>>
  actions,      \* Actions table: [Keys -> Shas \cup {NoSha}]
  blobs,        \* SHA256 column of the Blobs table
  \* Environment
  now, crashes,
  \* History
  taken         \* contents whose file the evictor or a sweep removed although
                \* a row or a pending PUT counted on it

lanes   == <<inlineSem, countSem, bytesSem>>
disk    == <<main, cleanup>>
db      == <<actions, blobs>>
env     == <<now, crashes, listed, taken>>
vars == <<hst, pending, moverCh, flushCh, intentDelCh, intentPath, lanes, mover,
          flusher, sweeper, evictor, reader, spool, disk, db, env>>

-----------------------------------------------------------------------------
(* State spaces *)

Intents      == Nat \X Shas
HandlerState == {"idle", "bytesHeld", "reserved", "spooled", "acked", "dup", "failed"}
IdleMover    == [pc |-> "idle", put |-> NoPut, try |-> 0]
IdleFlusher  == [pc |-> "collect", batch |-> {}, try |-> 0]
IdleSweeper  == [pc |-> "idle", intent |-> <<0, NoSha>>]
IdleEvictor  == [pc |-> "idle", keys |-> {}]
IdleReader   == [pc |-> "idle", key |-> NoPut, put |-> NoPut, sha |-> NoSha, excused |-> TRUE]

MoverState   == {IdleMover} \cup [pc : {"stat", "intent", "copy"}, put : Puts, try : Nat]
SweeperState == {IdleSweeper} \cup [pc : {"norow", "remove", "unlink"}, intent : Intents]
ReaderState  == {IdleReader} \cup
                [pc : {"spoolOpen", "query", "mainOpen", "hit", "miss"}, key : Keys,
                 put : Puts \cup {NoPut}, sha : Shas \cup {NoSha}, excused : BOOLEAN]

IsInline(p) == ShaOf[p] \in InlineShas

\* reserve clamps the byte weight to the lane's capacity, so that one blob
\* bigger than the cap is still admitted (alone).
Weight(p) == IF SizeOf[p] <= SpoolCap THEN SizeOf[p] ELSE SpoolCap

IsPending(p) == pending[KeyOf[p]] = p

\* pendingSHA: an in-flight PUT references this content.
PendingSHA(sha) == \E k \in Keys : pending[k] # NoPut /\ ShaOf[pending[k]] = sha

\* Fault: a blob is taken for orphaned although newer actions share it.
Orphaned_IgnoresSharing(K) == {s \in blobs : \E k \in K : actions[k] = s}

\* Contents that only actions in K reference: evicting K orphans their Blobs.
Orphaned(K) == {s \in blobs : /\ \E k \in K : actions[k] = s
                              /\ \A k \in Keys \ K : actions[k] # s}

-----------------------------------------------------------------------------
(* The semaphores and the pending map *)

\* unreserve(p.reservation)
Unreserve(p) ==
  IF IsInline(p)
  THEN inlineSem' = inlineSem - 1 /\ UNCHANGED <<countSem, bytesSem>>
  ELSE /\ countSem' = countSem - 1
       /\ bytesSem' = bytesSem - Weight(p)
       /\ UNCHANGED inlineSem

\* retire: a no-op unless p itself is still the pending entry of its key.
Retire(p) ==
  IF IsPending(p)
  THEN pending' = [pending EXCEPT ![KeyOf[p]] = NoPut] /\ Unreserve(p)
  ELSE UNCHANGED <<pending, lanes>>

\* A GET in progress for key k may now miss: the cache forgot the entry.
Excuse(k) == reader' = IF reader.key = k THEN [reader EXCEPT !.excused = TRUE] ELSE reader

\* drop: give up on p after repeated failures.
Drop(p) ==
  /\ Retire(p)
  /\ spool' = IF IsPending(p) THEN spool \ {p} ELSE spool
  /\ Excuse(KeyOf[p])

-----------------------------------------------------------------------------
(* PUT handlers *)

ReserveInline(p) ==
  /\ hst[p] = "idle" /\ IsInline(p)
  /\ inlineSem < InlineCap
  /\ inlineSem' = inlineSem + 1
  /\ hst' = [hst EXCEPT ![p] = "reserved"]
  /\ UNCHANGED <<pending, moverCh, flushCh, intentDelCh, intentPath, countSem, bytesSem,
                 mover, flusher, sweeper, evictor, reader, spool, disk, db, env>>

\* The spooled lane takes its byte weight first ...
ReserveBytes(p) ==
  /\ hst[p] = "idle" /\ ~IsInline(p)
  /\ bytesSem + Weight(p) <= SpoolCap
  /\ bytesSem' = bytesSem + Weight(p)
  /\ hst' = [hst EXCEPT ![p] = "bytesHeld"]
  /\ UNCHANGED <<pending, moverCh, flushCh, intentDelCh, intentPath, inlineSem, countSem,
                 mover, flusher, sweeper, evictor, reader, spool, disk, db, env>>

\* Fault: the entry semaphore admits one too many.
ReserveCount_OffByOne(p) ==
  /\ hst[p] = "bytesHeld"
  /\ countSem <= CountCap
  /\ countSem' = countSem + 1
  /\ hst' = [hst EXCEPT ![p] = "reserved"]
  /\ UNCHANGED <<pending, moverCh, flushCh, intentDelCh, intentPath, inlineSem, bytesSem,
                 mover, flusher, sweeper, evictor, reader, spool, disk, db, env>>

\* ... and then one entry slot.
ReserveCount(p) ==
  /\ hst[p] = "bytesHeld"
  /\ countSem < CountCap
  /\ countSem' = countSem + 1
  /\ hst' = [hst EXCEPT ![p] = "reserved"]
  /\ UNCHANGED <<pending, moverCh, flushCh, intentDelCh, intentPath, inlineSem, bytesSem,
                 mover, flusher, sweeper, evictor, reader, spool, disk, db, env>>

\* Fault: the byte weight is kept when the wait for the entry slot is canceled.
CancelReserve_KeepsBytes(p) ==
  /\ hst[p] \in {"idle", "bytesHeld"}
  /\ hst' = [hst EXCEPT ![p] = "failed"]
  /\ UNCHANGED <<pending, moverCh, flushCh, intentDelCh, intentPath, lanes,
                 mover, flusher, sweeper, evictor, reader, spool, disk, db, env>>

\* The client goes away while the handler waits for room (a waiter may be
\* queued behind a bigger one although its own weight would fit); byte weight
\* that it already holds is given back.
CancelReserve(p) ==
  /\ hst[p] \in {"idle", "bytesHeld"}
  /\ hst' = [hst EXCEPT ![p] = "failed"]
  /\ bytesSem' = IF hst[p] = "bytesHeld" THEN bytesSem - Weight(p) ELSE bytesSem
  /\ UNCHANGED <<pending, moverCh, flushCh, intentDelCh, intentPath, inlineSem, countSem,
                 mover, flusher, sweeper, evictor, reader, spool, disk, db, env>>

\* The body arrives: small objects stay in memory, others are spooled.
ReadBody(p) ==
  /\ hst[p] = "reserved"
  /\ hst' = [hst EXCEPT ![p] = "spooled"]
  /\ spool' = IF IsInline(p) THEN spool ELSE spool \cup {p}
  /\ UNCHANGED <<pending, moverCh, flushCh, intentDelCh, intentPath, lanes,
                 mover, flusher, sweeper, evictor, reader, disk, db, env>>

\* A read error, a short body or a spool error: spoolBlob removes its file
\* and the handler's deferred function gives the reservation back.
ReadBodyFails(p) ==
  /\ hst[p] = "reserved"
  /\ hst' = [hst EXCEPT ![p] = "failed"]
  /\ Unreserve(p)
  /\ UNCHANGED <<pending, moverCh, flushCh, intentDelCh, intentPath, mover, flusher,
                 sweeper, evictor, reader, spool, disk, db, env>>

\* enqueue: first PUT wins; a duplicate's spool file and reservation go.
Enqueue(p) ==
  /\ hst[p] = "spooled"
  /\ IF pending[KeyOf[p]] # NoPut
     THEN /\ hst' = [hst EXCEPT ![p] = "dup"]
          /\ spool' = spool \ {p}
          /\ Unreserve(p)
          /\ UNCHANGED <<pending, moverCh, flushCh>>
     ELSE /\ hst' = [hst EXCEPT ![p] = "acked"]
          /\ pending' = [pending EXCEPT ![KeyOf[p]] = p]
          /\ moverCh' = IF IsInline(p) THEN moverCh ELSE moverCh \cup {p}
          /\ flushCh' = IF IsInline(p) THEN flushCh \cup {p} ELSE flushCh
          /\ UNCHANGED <<spool, lanes>>
  /\ UNCHANGED <<intentDelCh, intentPath, mover, flusher, sweeper, evictor, reader,
                 disk, db, env>>

-----------------------------------------------------------------------------
(* Movers *)

MoverTake(m) ==
  /\ mover[m].pc = "idle"
  /\ \E p \in moverCh :
       /\ moverCh' = moverCh \ {p}
       /\ mover' = [mover EXCEPT ![m] = [pc |-> "stat", put |-> p, try |-> 0]]
  /\ UNCHANGED <<hst, pending, flushCh, intentDelCh, intentPath, lanes, flusher, sweeper,
                 evictor, reader, spool, disk, db, env>>

\* installInMain: a blob already present is left alone and gets no intent.
MoverStat(m) ==
  LET p == mover[m].put IN
  /\ mover[m].pc = "stat"
  /\ IF ShaOf[p] \in main
     THEN /\ flushCh' = flushCh \cup {p}
          /\ mover' = [mover EXCEPT ![m] = IdleMover]
     ELSE /\ mover' = [mover EXCEPT ![m].pc = "intent"]
          /\ UNCHANGED flushCh
  /\ UNCHANGED <<hst, pending, moverCh, intentDelCh, intentPath, lanes, flusher, sweeper,
                 evictor, reader, spool, disk, db, env>>

\* The due time in the name of p's intent, chosen once and kept across retries.
Due(p) == IF intentPath[p] = 0 THEN now + IntentDelay ELSE intentPath[p]

\* writeCleanupIntent
MoverWriteIntent(m) ==
  LET p == mover[m].put IN
  /\ mover[m].pc = "intent"
  /\ intentPath' = [intentPath EXCEPT ![p] = Due(p)]
  /\ cleanup' = cleanup \cup {<<Due(p), ShaOf[p]>>}
  /\ mover' = [mover EXCEPT ![m].pc = "copy"]
  /\ UNCHANGED <<hst, pending, moverCh, flushCh, intentDelCh, lanes, flusher, sweeper,
                 evictor, reader, spool, main, db, env>>

\* Fault: the spool file is renamed into place instead of copied.
MoverCopy_Renames(m) ==
  LET p == mover[m].put IN
  /\ mover[m].pc = "copy"
  /\ p \in spool
  /\ main' = main \cup {ShaOf[p]} /\ taken' = taken \ {ShaOf[p]}
  /\ spool' = spool \ {p}
  /\ flushCh' = flushCh \cup {p}
  /\ mover' = [mover EXCEPT ![m] = IdleMover]
  /\ UNCHANGED <<hst, pending, moverCh, intentDelCh, intentPath, lanes, flusher, sweeper,
                 evictor, reader, cleanup, db, now, crashes, listed>>

\* copyToMain writes a temp file and renames it into place, then
\* moveToFlush hands the entry to the flusher.
MoverCopy(m) ==
  LET p == mover[m].put IN
  /\ mover[m].pc = "copy"
  /\ p \in spool
  /\ main' = main \cup {ShaOf[p]} /\ taken' = taken \ {ShaOf[p]}
  /\ flushCh' = flushCh \cup {p}
  /\ mover' = [mover EXCEPT ![m] = IdleMover]
  /\ UNCHANGED <<hst, pending, moverCh, intentDelCh, intentPath, lanes, flusher, sweeper,
                 evictor, reader, spool, cleanup, db, now, crashes, listed>>

\* Fault: after the last failed attempt the entry is forgotten, not dropped.
MoverFails_Forgets(m) ==
  /\ mover[m].pc \in {"intent", "copy"}
  /\ mover' = [mover EXCEPT ![m] = IF @.try + 1 < CopyRetries
                                   THEN [@ EXCEPT !.pc = "stat", !.try = @ + 1]
                                   ELSE IdleMover]
  /\ UNCHANGED <<hst, pending, moverCh, flushCh, intentDelCh, intentPath, lanes, flusher,
                 sweeper, evictor, reader, spool, disk, db, env>>

\* Fault: after the last failed attempt the entry goes on to the flusher.
MoverFails_Flushes(m) ==
  /\ mover[m].pc \in {"intent", "copy"}
  /\ flushCh' = flushCh \cup {mover[m].put}
  /\ mover' = [mover EXCEPT ![m] = IdleMover]
  /\ UNCHANGED <<hst, pending, moverCh, intentDelCh, intentPath, lanes, flusher,
                 sweeper, evictor, reader, spool, disk, db, env>>

\* Writing the intent fails, once its name is chosen and perhaps once its file is
\* there, or copying fails: back off and try the whole of installInMain again, or
\* drop the entry after the last attempt.
MoverFails(m) ==
  LET p == mover[m].put IN
  /\ \/ /\ mover[m].pc = "intent"
        /\ intentPath' = [intentPath EXCEPT ![p] = Due(p)]
        /\ cleanup' \in {cleanup, cleanup \cup {<<Due(p), ShaOf[p]>>}}
     \/ mover[m].pc = "copy" /\ UNCHANGED <<intentPath, cleanup>>
  /\ IF mover[m].try + 1 < CopyRetries
     THEN /\ mover' = [mover EXCEPT ![m].pc = "stat", ![m].try = @ + 1]
          /\ UNCHANGED <<pending, lanes, spool, reader>>
     ELSE /\ mover' = [mover EXCEPT ![m] = IdleMover]
          /\ Drop(p)
  /\ UNCHANGED <<hst, moverCh, flushCh, intentDelCh, flusher, sweeper, evictor, main, db, env>>

\* The post-commit deletion of an intent that the flusher handed back; a
\* failing unlink is only logged.
MoverDeleteIntent(m) ==
  /\ mover[m].pc = "idle"
  /\ \E i \in intentDelCh :
       /\ intentDelCh' = intentDelCh \ {i}
       /\ cleanup' \in {cleanup \ {i}, cleanup}
  /\ UNCHANGED <<hst, pending, moverCh, flushCh, intentPath, lanes, mover, flusher, sweeper,
                 evictor, reader, spool, main, db, env>>

-----------------------------------------------------------------------------
(* The flusher; sqliteWriteMu is held in its "finish" phase *)

FlusherTake ==
  /\ flusher.pc = "collect"
  /\ Cardinality(flusher.batch) < FlushBatchCap
  /\ \E p \in flushCh :
       /\ flushCh' = flushCh \ {p}
       /\ flusher' = [flusher EXCEPT !.batch = @ \cup {p}]
  /\ UNCHANGED <<hst, pending, moverCh, intentDelCh, intentPath, lanes, mover, sweeper,
                 evictor, reader, spool, disk, db, env>>

\* The batch is full or its timer fired.
FlusherFire ==
  /\ flusher.pc = "collect" /\ flusher.batch # {}
  /\ flusher' = [flusher EXCEPT !.pc = "flush", !.try = 0]
  /\ UNCHANGED <<hst, pending, moverCh, flushCh, intentDelCh, intentPath, lanes, mover,
                 sweeper, evictor, reader, spool, disk, db, env>>

\* insertPutTx for every entry of the batch in one transaction: upsert the
\* blob, INSERT OR IGNORE the action.
CommitBatch ==
  LET B == flusher.batch IN
  /\ actions' = [k \in Keys |->
                   IF actions[k] = NoSha /\ \E p \in B : KeyOf[p] = k
                   THEN ShaOf[CHOOSE p \in B : KeyOf[p] = k]
                   ELSE actions[k]]
  /\ blobs' = blobs \cup {ShaOf[p] : p \in B}

FlushCommits ==
  /\ flusher.pc = "flush" /\ evictor.pc # "tx"
  /\ CommitBatch
  /\ flusher' = [flusher EXCEPT !.pc = "finish"]
  /\ UNCHANGED <<hst, pending, moverCh, flushCh, intentDelCh, intentPath, lanes, mover,
                 sweeper, evictor, reader, spool, disk, env>>

\* Fault: a batch whose attempts all failed is forgotten, not dropped.
FlushFails_Forgets ==
  /\ flusher.pc = "flush" /\ evictor.pc # "tx"
  /\ flusher' = IF flusher.try + 1 < FlushRetries
                THEN [flusher EXCEPT !.try = @ + 1]
                ELSE IdleFlusher
  /\ UNCHANGED <<hst, pending, moverCh, flushCh, intentDelCh, intentPath, lanes, mover,
                 sweeper, evictor, reader, spool, disk, db, env>>

\* An attempt fails, before anything was committed or with the outcome of the
\* commit unknown; after the last one the whole batch is dropped.
FlushFails ==
  /\ flusher.pc = "flush" /\ evictor.pc # "tx"
  /\ CommitBatch \/ UNCHANGED db
  /\ flusher' = IF flusher.try + 1 < FlushRetries
                THEN [flusher EXCEPT !.try = @ + 1]
                ELSE [flusher EXCEPT !.pc = "drop"]
  /\ UNCHANGED <<hst, pending, moverCh, flushCh, intentDelCh, intentPath, lanes, mover,
                 sweeper, evictor, reader, spool, disk, env>>

\* Leave the entry p of the batch behind; the last one ends the batch.
BatchWithout(p) ==
  IF flusher.batch = {p} THEN IdleFlusher ELSE [flusher EXCEPT !.batch = @ \ {p}]

FlushDrops(p) ==
  /\ flusher.pc = "drop" /\ p \in flusher.batch
  /\ Drop(p)
  /\ flusher' = BatchWithout(p)
  /\ UNCHANGED <<hst, moverCh, flushCh, intentDelCh, intentPath, mover, sweeper, evictor,
                 disk, db, env>>

\* finishCommitted: retire p, hand its intent to the movers if there is room,
\* delete its spool file.
FinishCommitted(p) ==
  /\ flusher.pc = "finish" /\ p \in flusher.batch
  /\ Retire(p)
  /\ IF IsPending(p)
     THEN /\ spool' = spool \ {p}
          /\ intentDelCh' = IF intentPath[p] # 0 /\ Cardinality(intentDelCh) < IntentDelCap
                            THEN intentDelCh \cup {<<intentPath[p], ShaOf[p]>>}
                            ELSE intentDelCh
     ELSE UNCHANGED <<spool, intentDelCh>>
  /\ flusher' = BatchWithout(p)
  /\ UNCHANGED <<hst, moverCh, flushCh, intentPath, mover, sweeper, evictor, reader,
                 disk, db, env>>

-----------------------------------------------------------------------------
(* The sweeper: sweepIntentDir, one due intent at a time *)

\* A sweep lists the directory; the intents that are due have their turns.
SweepList ==
  /\ sweeper.pc = "idle" /\ listed = {}
  /\ listed' = {i \in cleanup : i[1] <= now}
  /\ UNCHANGED <<hst, pending, moverCh, flushCh, intentDelCh, intentPath, lanes, mover,
                 flusher, sweeper, evictor, reader, spool, disk, db, now, crashes, taken>>

\* An intent's turn comes, although it may have been deleted since.
SweepQuery(i) ==
  /\ sweeper.pc = "idle" /\ i \in listed
  /\ listed' = listed \ {i}
  /\ sweeper' = [pc |-> IF i[2] \in blobs THEN "unlink" ELSE "norow", intent |-> i]
  /\ UNCHANGED <<hst, pending, moverCh, flushCh, intentDelCh, intentPath, lanes, mover,
                 flusher, evictor, reader, spool, disk, db, now, crashes, taken>>

\* The query fails, which ends the sweep.
SweepFails ==
  /\ sweeper.pc = "idle" /\ listed # {}
  /\ listed' = {}
  /\ UNCHANGED <<hst, pending, moverCh, flushCh, intentDelCh, intentPath, lanes, mover,
                 flusher, sweeper, evictor, reader, spool, disk, db, now, crashes, taken>>

\* Fault: an intent without a row is discarded and its blob kept.
SweepCheckPending_Discards ==
  /\ sweeper.pc = "norow"
  /\ sweeper' = [sweeper EXCEPT !.pc = "unlink"]
  /\ UNCHANGED <<hst, pending, moverCh, flushCh, intentDelCh, intentPath, lanes, mover,
                 flusher, evictor, reader, spool, disk, db, env>>

SweepCheckPending ==
  /\ sweeper.pc = "norow"
  /\ sweeper' = IF PendingSHA(sweeper.intent[2]) THEN IdleSweeper
                ELSE [sweeper EXCEPT !.pc = "remove"]
  /\ UNCHANGED <<hst, pending, moverCh, flushCh, intentDelCh, intentPath, lanes, mover,
                 flusher, evictor, reader, spool, disk, db, env>>

\* The blob is unlinked without another look at the table or the pending map.
SweepRemoveBlob ==
  LET s == sweeper.intent[2] IN
  /\ sweeper.pc = "remove"
  /\ main' = main \ {s}
  /\ taken' = IF s \in blobs \/ PendingSHA(s) THEN taken \cup {s} ELSE taken
  /\ sweeper' = [sweeper EXCEPT !.pc = "unlink"]
  /\ UNCHANGED <<hst, pending, moverCh, flushCh, intentDelCh, intentPath, lanes, mover,
                 flusher, evictor, reader, spool, cleanup, db, now, crashes, listed>>

\* The blob cannot be unlinked: keep the intent and retry next sweep.
SweepRemoveFails ==
  /\ sweeper.pc = "remove"
  /\ sweeper' = IdleSweeper
  /\ UNCHANGED <<hst, pending, moverCh, flushCh, intentDelCh, intentPath, lanes, mover,
                 flusher, evictor, reader, spool, disk, db, env>>

\* A failing unlink is only logged; the intent is met again next sweep.
SweepUnlinkIntent ==
  /\ sweeper.pc = "unlink"
  /\ cleanup' \in {cleanup \ {sweeper.intent}, cleanup}
  /\ sweeper' = IdleSweeper
  /\ UNCHANGED <<hst, pending, moverCh, flushCh, intentDelCh, intentPath, lanes, mover,
                 flusher, evictor, reader, spool, main, db, env>>

-----------------------------------------------------------------------------
(* The evictor: evictOldestActions.  Which actions are oldest is left open. *)

\* The candidate query runs outside sqliteWriteMu.
EvictQuery ==
  /\ Limited /\ evictor.pc = "idle"
  /\ \E K \in SUBSET {k \in Keys : actions[k] # NoSha} :
       K # {} /\ evictor' = [pc |-> "cands", keys |-> K]
  /\ UNCHANGED <<hst, pending, moverCh, flushCh, intentDelCh, intentPath, lanes, mover,
                 flusher, sweeper, reader, spool, disk, db, env>>

\* Inside the transaction the files of orphaned blobs go before the commit.
EvictRemoveFiles ==
  /\ evictor.pc = "cands" /\ flusher.pc # "finish"
  /\ evictor' = [evictor EXCEPT !.pc = "tx"]
  /\ main' = main \ Orphaned(evictor.keys)
  /\ taken' = taken \cup Orphaned(evictor.keys)
  /\ reader' = IF reader.key \in evictor.keys THEN [reader EXCEPT !.excused = TRUE] ELSE reader
  /\ UNCHANGED <<hst, pending, moverCh, flushCh, intentDelCh, intentPath, lanes, mover,
                 flusher, sweeper, spool, cleanup, db, now, crashes, listed>>

EvictCommits ==
  /\ evictor.pc = "tx"
  /\ actions' = [k \in Keys |-> IF k \in evictor.keys THEN NoSha ELSE actions[k]]
  /\ blobs' = blobs \ Orphaned(evictor.keys)
  /\ taken' = taken \ {s \in Orphaned(evictor.keys) : ~PendingSHA(s)}
  /\ evictor' = IdleEvictor
  /\ UNCHANGED <<hst, pending, moverCh, flushCh, intentDelCh, intentPath, lanes, mover,
                 flusher, sweeper, reader, spool, disk, now, crashes, listed>>

EvictRollsBack ==
  /\ evictor.pc = "tx"
  /\ evictor' = IdleEvictor
  /\ UNCHANGED <<hst, pending, moverCh, flushCh, intentDelCh, intentPath, lanes, mover,
                 flusher, sweeper, reader, spool, disk, db, env>>

-----------------------------------------------------------------------------
(* A GET: handleGetAction *)

\* A GET that starts while its key is visible must hit, unless the entry is
\* dropped, evicted or lost in a crash meanwhile, or its file was taken (excused).
GetLookup(k) ==
  /\ reader.pc \in {"idle", "hit", "miss"}
  /\ reader' = [pc      |-> IF pending[k] # NoPut THEN "spoolOpen" ELSE "query",
                key     |-> k,
                put     |-> pending[k],
                sha     |-> NoSha,
                excused |-> \/ pending[k] = NoPut /\ actions[k] = NoSha
                            \/ evictor.pc = "tx" /\ k \in evictor.keys]
  /\ UNCHANGED <<hst, pending, moverCh, flushCh, intentDelCh, intentPath, lanes, mover,
                 flusher, sweeper, evictor, spool, disk, db, env>>

\* Fault: no second look in SQLite when the spool file is gone.
GetOpenSpool_GivesUp ==
  /\ reader.pc = "spoolOpen"
  /\ reader' = [reader EXCEPT !.pc = IF IsInline(reader.put) \/ reader.put \in spool
                                     THEN "hit" ELSE "miss"]
  /\ UNCHANGED <<hst, pending, moverCh, flushCh, intentDelCh, intentPath, lanes, mover,
                 flusher, sweeper, evictor, spool, disk, db, env>>

\* The spool file is gone if the entry was retired since the lookup; its
\* metadata is committed then, so fall through to SQLite.
GetOpenSpool ==
  /\ reader.pc = "spoolOpen"
  /\ reader' = [reader EXCEPT !.pc = IF IsInline(reader.put) \/ reader.put \in spool
                                     THEN "hit" ELSE "query"]
  /\ UNCHANGED <<hst, pending, moverCh, flushCh, intentDelCh, intentPath, lanes, mover,
                 flusher, sweeper, evictor, spool, disk, db, env>>

GetQuery ==
  /\ reader.pc = "query"
  /\ reader' = LET sha == actions[reader.key] IN
               [reader EXCEPT !.sha = sha,
                              !.pc = IF sha = NoSha THEN "miss"
                                     ELSE IF sha \in InlineShas THEN "hit" ELSE "mainOpen"]
  /\ UNCHANGED <<hst, pending, moverCh, flushCh, intentDelCh, intentPath, lanes, mover,
                 flusher, sweeper, evictor, spool, disk, db, env>>

\* getObjectFromDiskOrPeer: a missing file is served as a miss.
GetOpenMain ==
  /\ reader.pc = "mainOpen"
  /\ reader' = [reader EXCEPT !.pc = IF reader.sha \in main THEN "hit" ELSE "miss",
                              !.excused = @ \/ reader.sha \in taken]
  /\ UNCHANGED <<hst, pending, moverCh, flushCh, intentDelCh, intentPath, lanes, mover,
                 flusher, sweeper, evictor, spool, disk, db, env>>

-----------------------------------------------------------------------------
(* Environment *)

Tick ==
  /\ now < MaxTime
  /\ now' = now + 1
  /\ UNCHANGED <<hst, pending, moverCh, flushCh, intentDelCh, intentPath, lanes, mover,
                 flusher, sweeper, evictor, reader, spool, disk, db, crashes, listed, taken>>

\* Fault: startup wipes the cleanup directory along with the spool.
CrashRestart_WipesIntents ==
  /\ crashes < MaxCrashes
  /\ crashes' = crashes + 1
  /\ hst' = [p \in Puts |-> IF hst[p] \in {"idle", "acked", "dup"} THEN hst[p] ELSE "failed"]
  /\ pending' = [k \in Keys |-> NoPut]
  /\ moverCh' = {} /\ flushCh' = {} /\ intentDelCh' = {}
  /\ intentPath' = [p \in Puts |-> 0]
  /\ inlineSem' = 0 /\ countSem' = 0 /\ bytesSem' = 0
  /\ mover' = [m \in Movers |-> IdleMover]
  /\ flusher' = IdleFlusher /\ sweeper' = IdleSweeper /\ evictor' = IdleEvictor
  /\ reader' = IdleReader
  /\ spool' = {} /\ cleanup' = {} /\ listed' = {}
  /\ UNCHANGED <<main, db, now, taken>>

\* The process dies and starts again: memory is gone, start wipes the spool
\* directory and keeps the cleanup directory.
CrashRestart ==
  /\ crashes < MaxCrashes
  /\ crashes' = crashes + 1
  /\ hst' = [p \in Puts |-> IF hst[p] \in {"idle", "acked", "dup"} THEN hst[p] ELSE "failed"]
  /\ pending' = [k \in Keys |-> NoPut]
  /\ moverCh' = {} /\ flushCh' = {} /\ intentDelCh' = {}
  /\ intentPath' = [p \in Puts |-> 0]
  /\ inlineSem' = 0 /\ countSem' = 0 /\ bytesSem' = 0
  /\ mover' = [m \in Movers |-> IdleMover]
  /\ flusher' = IdleFlusher /\ sweeper' = IdleSweeper /\ evictor' = IdleEvictor
  /\ reader' = IdleReader
  /\ spool' = {} /\ listed' = {}
  /\ UNCHANGED <<disk, db, now, taken>>

-----------------------------------------------------------------------------

Init ==
  /\ hst = [p \in Puts |-> "idle"]
  /\ pending = [k \in Keys |-> NoPut]
  /\ moverCh = {} /\ flushCh = {} /\ intentDelCh = {}
  /\ intentPath = [p \in Puts |-> 0]
  /\ inlineSem = 0 /\ countSem = 0 /\ bytesSem = 0
  /\ mover = [m \in Movers |-> IdleMover]
  /\ flusher = IdleFlusher /\ sweeper = IdleSweeper /\ evictor = IdleEvictor
  /\ reader = IdleReader
  /\ spool = {} /\ main = {} /\ cleanup = {}
  /\ actions = [k \in Keys |-> NoSha] /\ blobs = {}
  /\ now = 0 /\ crashes = 0 /\ listed = {} /\ taken = {}

Handler(p) == \/ ReserveInline(p) \/ ReserveBytes(p) \/ ReserveCount(p) \/ CancelReserve(p)
              \/ ReadBody(p) \/ ReadBodyFails(p) \/ Enqueue(p)
Mover(m)   == \/ MoverTake(m) \/ MoverStat(m) \/ MoverWriteIntent(m) \/ MoverCopy(m)
              \/ MoverFails(m) \/ MoverDeleteIntent(m)
Flusher    == \/ FlusherTake \/ FlusherFire \/ FlushCommits \/ FlushFails
              \/ \E p \in Puts : FlushDrops(p) \/ FinishCommitted(p)
Sweeper    == \/ SweepList \/ (\E i \in listed : SweepQuery(i)) \/ SweepFails
              \/ SweepCheckPending \/ SweepRemoveBlob \/ SweepRemoveFails \/ SweepUnlinkIntent
Evictor    == EvictQuery \/ EvictRemoveFiles \/ EvictCommits \/ EvictRollsBack
Reader     == (\E k \in ReadKeys : GetLookup(k)) \/ GetOpenSpool \/ GetQuery \/ GetOpenMain

Next == \/ \E p \in Puts : Handler(p)
        \/ \E m \in Movers : Mover(m)
        \/ Flusher \/ Sweeper \/ Evictor \/ Reader
        \/ Tick \/ CrashRestart

Spec == Init /\ [][Next]_vars

-----------------------------------------------------------------------------
(* Fairness: goroutines that can run do run.  The sweeper walks the whole    *)
(* directory, so no due intent is passed over for ever, and an unlink that   *)
(* is retried every minute eventually succeeds.  The flusher is strongly     *)
(* fair because sync.Mutex does not starve a waiter.  Handlers, GETs,        *)
(* crashes and failures are not fair.                                        *)

Fairness ==
  /\ \A m \in Movers : WF_vars(Mover(m))
  /\ SF_vars(Flusher)
  /\ WF_vars(EvictRemoveFiles) /\ WF_vars(EvictCommits \/ EvictRollsBack)
  /\ \A i \in (1..(MaxTime + IntentDelay)) \X Shas : SF_vars(SweepQuery(i))
  /\ WF_vars(SweepList) /\ WF_vars(SweepCheckPending) /\ WF_vars(SweepUnlinkIntent)
  /\ SF_vars(SweepRemoveBlob)
  /\ WF_vars(Tick)

FairSpec == Spec /\ Fairness

-----------------------------------------------------------------------------
(* Properties *)

\* Type invariant: every variable stays in its space, semaphores included.
TypeOK ==
  /\ hst \in [Puts -> HandlerState]
  /\ pending \in [Keys -> Puts \cup {NoPut}]
  /\ moverCh \subseteq Puts /\ flushCh \subseteq Puts /\ spool \subseteq Puts
  /\ intentDelCh \subseteq Intents /\ cleanup \subseteq Intents
  /\ intentPath \in [Puts -> Nat]
  /\ inlineSem \in Int /\ countSem \in Int /\ bytesSem \in Int
  /\ mover \in [Movers -> MoverState]
  /\ flusher \in [pc : {"collect", "flush", "finish", "drop"}, batch : SUBSET Puts, try : Nat]
  /\ sweeper \in SweeperState
  /\ evictor \in [pc : {"idle", "cands", "tx"}, keys : SUBSET Keys]
  /\ reader \in ReaderState
  /\ main \subseteq Shas /\ blobs \subseteq Shas /\ taken \subseteq Shas
  /\ actions \in [Keys -> Shas \cup {NoSha}]
  /\ now \in Nat /\ crashes \in Nat /\ listed \subseteq Intents

\* The places of the pipeline that hold the entry p.
Stations(p) == {<<"moverCh", c>> : c \in {c \in {0} : p \in moverCh}}
          \cup {<<"mover", m>>   : m \in {m \in Movers : mover[m].put = p}}
          \cup {<<"flushCh", c>> : c \in {c \in {0} : p \in flushCh}}
          \cup {<<"flusher", c>> : c \in {c \in {0} : p \in flusher.batch}}

\* Every entry of the pending map is at exactly one place of the pipeline, and
\* a retired or dropped one at none: no accepted PUT is stranded in the map
\* with nobody working on it, and no two workers ever hold the same spool file.
OneStation == \A p \in Puts : Cardinality(Stations(p)) = IF IsPending(p) THEN 1 ELSE 0

\* A pending spooled entry still has its spool file (retire comes before the
\* unlink or rename everywhere), so that a GET can serve it.
PendingServable == \A p \in Puts : IsPending(p) /\ ~IsInline(p) => p \in spool

\* The PUTs that hold room in the queue: handlers between reserve and enqueue,
\* and the pending entries they handed their reservation to.
Holders == {p \in Puts : hst[p] \in {"reserved", "spooled"} \/ IsPending(p)}

\* ... of the inline lane and of the spooled lane, which takes its bytes first.
InlineHolders == {p \in Holders : IsInline(p)}
SpoolHolders  == {p \in Holders : ~IsInline(p)}
BytesHolders  == {p \in Puts : ~IsInline(p) /\ (hst[p] = "bytesHeld" \/ p \in Holders)}

\* The bytes that the PUTs in S weigh, one by one.
BytesOf(S) == UNION {{p} \X (1..Weight(p)) : p \in S}

\* The lane semaphores account exactly for the handlers and entries that hold
\* room: every path of reserve, handlePut, retire and drop releases what was
\* acquired, once.
LanesExact ==
  /\ inlineSem = Cardinality(InlineHolders)
  /\ countSem = Cardinality(SpoolHolders)
  /\ bytesSem = Cardinality(BytesOf(BytesHolders))

\* moverCh and flushCh never hold more than their buffers ("so sends don't
\* block"): the lane caps bound what can be queued.
SendsDoNotBlock == /\ Cardinality(moverCh) <= CountCap
                   /\ Cardinality(flushCh) <= CountCap + InlineCap

\* Every content that SQLite accounts for as a file has its file in the main blob
\* directory, whatever is copied, retried, dropped, committed in part, evicted,
\* swept or cut off by a crash.  The one way to lose it: the evictor or a sweep
\* unlinked it while a row or a pending PUT counted on it.
CommittedHasFile == \A s \in blobs \ InlineShas : s \in main \cup taken

\* An Actions row always references an existing Blobs row, although the
\* flusher inserts and the evictor deletes both.
ActionsReferToBlobs == \A k \in Keys : actions[k] # NoSha => actions[k] \in blobs

\* A GET that starts while its key is pending or committed does not miss
\* unless the entry was dropped, evicted or lost in a crash meanwhile, or the
\* evictor or a sweep took the file of a content that was in use.
AckedReadable == reader.pc = "miss" => reader.excused

\* When a committed entry leaves the pending map, GETs find its object in the
\* main blob directory through the row that SQLite now has: there is no window
\* in which the object is unreadable.
RetiredReadable ==
  [][\A p \in Puts :
       /\ flusher.pc = "finish" /\ IsPending(p) /\ ~IsPending(p)'
       /\ ~IsInline(p) /\ actions[KeyOf[p]] = ShaOf[p]
       => ShaOf[p] \in main]_vars

\* A file in the main blob directory that SQLite does not account for always
\* has a cleanup intent on disk: after a crash at any point the sweeper can
\* find it.
OrphansHaveIntents == \A s \in main \ blobs : \E i \in cleanup : i[2] = s

\* Every accepted PUT leaves the pending map (committed or dropped), so its
\* room in the queue is freed.
EntriesSettle == \A p \in Puts : IsPending(p) ~> ~IsPending(p)

\* A file without accounting and without a PUT in flight whose intents come
\* due within the modelled time is eventually deleted or accounted for.
OrphansSwept ==
  \A s \in Shas :
    (/\ s \in main \ blobs /\ ~PendingSHA(s)
     /\ \A i \in cleanup : i[2] = s => i[1] <= MaxTime)
       ~> (s \notin main \/ s \in blobs \/ PendingSHA(s))
=============================================================================
