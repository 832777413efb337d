# A TLA+ model of tb

tb holds the build-cache and VM tooling of a CI fleet. Its core is `gocached`, a
server for Go build caches that acknowledges a PUT as soon as its bytes are
spooled, settles it later through a pipeline of goroutines, keeps itself within
size and age limits by evicting old actions, and shares the keys with its peers
on a LAN; `awscache` is the same cache on DynamoDB and S3. This directory models the
parts of it whose correctness depends on interleavings, crashes and stale
reads, checks them with TLC and proves the central invariants with TLAPS.

## Inventory

| Component | State | Operations | Interacts through |
|---|---|---|---|
| PUT queue (`gocache/gocached/putqueue.go`) | pending map, three lane semaphores, `moverCh`, `flushCh`, `intentDelCh`, spool directory, `.cleanup` intents | `reserve`, `spoolBlob`, `enqueue`, `moveToFlush`, `flushBatch`, `finishCommitted`, `drop`, `sweepIntentDir`, `drainPendingPuts` | channels, `q.mu`, `sqliteWriteMu`, SQLite, files |
| GET path (`gocached.go`) | one request | `handleGetAction`, `getObjectFromDiskOrPeer`, `enqueueAccessTimeBump` | pending map, SQLite, files, hot tier, peers |
| Shard stats (`gocached.go`) | `shardStats`, `shardDeltas`, `BlobShardStats` table | `scanAndPersistShard`, `addBlobDelta`, `loadShardStats` | `shardStatsMu`, one mutex per delta, SQLite |
| Cleanup (`gocached.go`) | one tick's decision and candidates | `cleanupTick`, `evictOldestActions` | shard stats, `sqliteWriteMu`, files |
| Access times (`gocached.go`) | `accessDirty` | `flushAccessTimeBumps` | `srv.mu`, `sqliteWriteMu` |
| Hot tier (`hottier.go`) | LRU index, promotions in flight, files | `add`, `touch`, `evictLRU`, `tryStartPromotion` | GET path, flusher, evictor |
| Peers (`peers.go`), `rendezvous`, `lansport`, `tagpeers` | routing table, probed peers, netmap | `proxyGet`, `proxyPut`, `Router.update`, probe rounds, netmap stream | coalescing signal channels, HTTP |
| `guestbd` | base images with reference counts, snapshots with dirty pages, page cache | `getBaseImageState`, `releaseBaseImageState`, `ReadAt`, `WriteAt`, `handleTrim` | `Server.mu`, `Snapshot.mu` |
| `awscache` | known-blobs LRU, spool semaphores, atime queue | PUT and GET against S3 and DynamoDB, `atimeBumper` | remote stores |
| `cachers`, `cacheproc` | background PUTs, request goroutines | `HTTPClient.Put`, `Shutdown`, `handleRequest` | wait groups, semaphores |
| `jwt`, pages, `cmd/` | keys, sessions, flags | verification, reporting, wiring | HTTP |

What is hard: a PUT changes hands between four goroutines, two channels and
three stores (memory, files, SQLite) that no transaction spans; a crash may come
between any two of these steps; sweeper and evictor delete files that others are
about to rely on; the size of the cache is known only as the sum of stale scans
and dead-reckoned deltas that are updated in separate steps; peers forward
requests on memberships that reach each of them late and through four coalescing
stages; the hosts of `awscache` rely on blobs that others upload and delete. `PROJECT.json`
lists the hazards at their lines, with the properties that look for them.

## Modules

| Module | Models | Proofs |
|---|---|---|
| `PutQueue` | PUT handlers, movers, flusher, sweeper, evictor's files, one GET, crash and restart | `PutQueueProofs` |
| `ShardStats` | the books of usage: totals, deltas, scans, restarts; an abstract specification | `ShardStatsProofs` |
| `Cleanup` | actions with access times, the cleanup loop, scans and deltas; implements `ShardStats` | `CleanupProofs` |
| `HotTier` | the hot directory and its LRU index: readers, promotions, flusher, cleanup, startup scan | `HotTierProofs` |
| `Peers` | forwarding of GETs and PUTs between servers that disagree about owners, fallback, lanes | `PeersProofs` |
| `Tracker` | tagpeers: netmap streams, merge, reconnects, signals | `PoolProofs` |
| `Lansport` | probe rounds, pins, the mutual LAN check, publication; extends `Tracker` | `PoolProofs` |
| `Rendezvous` | the owner of a key: the member with the highest score | `PoolProofs` |
| `Pool` | the composition of trackers, lansport servers and routers, with restarts | `PoolProofs` |
| `Awscache` | hosts on one table and one bucket: PUT, GET, spools, access time bumper, Close, restart | `AwscacheProofs` |
| `BaseImages` | guestbd's connections, reference-counted base images, the shared snapshot, Close | `GuestbdProofs` |
| `Snapshot` | reads, writes, trims and copies of a guestbd snapshot, page by page; the page cache | `GuestbdProofs` |

The `MC` modules give the small instances for TLC. Operators named
`X_Something` are faults: plausible wrong versions of the definition `X`, used
only to confirm that the properties notice them.

### PutQueue

Variables follow the code: `pending`, `moverCh`, `flushCh`, `intentDelCh` and
the semaphores are fields of `putQueue`; `intentPath` is the field of
`pendingPut`, reduced to its due time (the rest of the name is the content's);
`spool`, `main` and `cleanup` are the files in the three directories; `actions`
and `blobs` the two tables. `hst`, `mover`, `flusher`, `sweeper`, `evictor` and
`reader` are program counters. One action is one step between two points at
which another goroutine can be seen: a channel operation, a locked section, a
file operation, a transaction.

- The server has neither a hot tier (`HotTier`) nor peers (`Peers`).
- `Enqueue` joins the insertion into the pending map and the send: the entry is
  with its handler in between and no other step can tell. Likewise
  `FinishCommitted` and `Drop` join `retire` and the removal of the spool file,
  except for the GET, which looks at the map and the file in two steps.
- The channels are sets: their order does not matter to any property.
- Semaphore waiters are not queued: any PUT whose weight fits may be next, which
  includes the first-come order of the code.
- An eviction removes all its files in one step; which actions are oldest is
  left open (that is `Cleanup`'s subject).
- The sweeper lists the due intents (`listed`) and goes through them one at a
  time, also when one was deleted since; an error ends the sweep (`SweepFails`).
  The directories of a prefix are one.
- `taken` records the contents whose file the evictor or a sweep unlinked while a
  row or a pending PUT counted on it. It is used by the properties only.
- `FlushFails` may commit: the comment of `flushBatchWithRetry` allows for a
  commit whose outcome is unknown.
- `Limited` says whether eviction runs at all (neither limit set otherwise).

### ShardStats and Cleanup

`ShardStats` keeps one number per shard (bytes; the code keeps the count next to
it in the same way) and leaves open which actions a transaction touches.
`scanAndPersistShard` is four steps: query, upsert, record, settle. `owed` is
what a committed transaction has still to add with `addBlobDelta`; as the writer
holds `sqliteWriteMu` until then, no other transaction starts. `CommitUnknown` is a
transaction that takes effect and reports an error: the flusher's retry then finds
duplicates and skips `addBlobDelta` (`putqueue.go:860-862`, `882-886`,
`1004-1021`), an eviction returns before it (`gocached.go:3083-3085`). `lost` is
what such transactions changed and is used by the properties only. Two scanners run:
the stats loop and one `POST /usage`. Persisted rows whose cohorts do not match
the configuration are discarded at load time (`gocached.go:2685-2701`); this is not
modelled (such a shard starts at zero and is scanned first).

`Cleanup` has actions with contents, sizes and access times. The tick loads the
aggregate, sums the deltas (in one step; the code reads shard by shard), decides,
queries candidates and deletes up to the byte budget in one transaction. Which
shard the stats loop takes next is left open, with fairness for each shard in
place of `pickOldestShard`. Actions may share a blob. The limits, the clock's bound
and the numbers of commits of unknown outcome (`FlushBatchUnknown`,
`EvictUnknown`) and of restarts are chosen at the start from `Setups`, so that one
run covers servers with a size limit, with an age limit and with both. Sums are numbers
of units (`SumOver`), so that they can be reasoned about without induction; the deltas, which may be
negative, are summed as what is positive less what is negative.

### HotTier

`lru` and `usage` are `hotIndex`'s list and sum, `inflight` and `ready` its other
fields; each of its methods is one step (its mutex), each rename, open and unlink
another. `hotFile` and `main` are the files. `w` has a program counter for every
goroutine: a GET (`Readers`), the promotions it starts (`Promoters`), the
flusher's rename after a commit, the cleanup loop with `evictHotIfOver`, and the
startup scan, which runs while all the others do. `HotFileVanishes` is a disk
that is wiped under the server, which the code allows for.

- `PromoteFails` stands for every error between the open of the main file and
  the rename; the temporary files are left out, and so is the bytes' copy.
- Flusher and cleanup exclude each other as `sqliteWriteMu` does.
- A GET goes on to the main directory when the hot file is absent and when the open
  fails for another reason (`gocached.go:1902-1905`): `GetMissesHot` asks nothing
  of the file. `scanned.dropped` has the files whose entry was removed so while the
  scan was at work; `ScanAccountsAll` excepts them.

### Peers

One handler at the client's server (`"home"`) and, for a forwarded request, one
at the peer (`"fwd"`), which goes on when the sender gives up. The router's answer
is any server at any time: `Pool` is about how it comes to agree. The put queue is
reduced to a lane's room and to the pending entry of a key, which `Flush` commits
or `Drop` gives up after the retries (`putqueue.go:818-824`). `dropped` records the
keys it happened to since their last PUT; `AckedFindable` excepts them (`Kept`).

- `body` says who has read from the client's body: nobody, the transport of a
  round trip (`TransportReads`, also after the round trip has failed), or the
  handler. `ReadBody` after the transport has read sees a short body.
- Bytes do not differ within an object: it is whole or it is not.
- The object that a peer is sending (`found`) is the one of its lookup, whatever its
  queue does meanwhile.

### Tracker, Lansport, Rendezvous and Pool

A member is a process on a tailnet node of its own. `net` is what the control
plane says (external); a tracker's `stream` carries a full status and then deltas,
and breaks; `nodes` is the map it merges them into. A round of `Lansport` copies
the candidates, fetches adverts and checks the LAN path for each of them
concurrently, and applies the results; `peers[n][m].pin` is the certificate of the
last advert, numbered by the process's starts. A router takes a signal and then
reads the reachable set. All channels of one slot are flags.

- Only the tailnet source is modelled: its keys are unique, so `publish`'s branch
  for shared keys does not arise.
- The full status that begins a stream always has the local node, as the status of
  a running tailscaled has, and the repository's fake (`tagpeerstest/fake.go:90`).
  `mergeStatus` copes with one that has not (`st.Self != nil`, `tracker.go:368`);
  this is not modelled.
- Applying a round and publishing it are one step, as explained there.
- `Score` is any function with values that can be compared: the hash is not
  modelled. `ScoreAssumption` excludes that two members have the same score for a
  key: the code has no tie-break (`Table.Pick` keeps the first of equals, in an
  order that `Table.Set` takes from a map), and relies on 53 bits of hash.
- `Init` is a pool at rest; one that is starting up is reached through restarts.

### Awscache

One action ID: a key of the table is a storage namespace, the global one and an
extra one. `items` and `blobs` are DynamoDB and S3; `older` is what an eventually
consistent read may still return. `known`, `spool`, `waiting` and the bumper's
`queue`, `pending` and `bumping` belong to a host and are lost by `Restart`.
`load` fixes who asks for what, and the bounds, per behaviour.

- External and marked so: TTL expiry, replication, the scrubber. Every call to AWS
  may fail, and a failed write may have happened.
- The scrubber spares blobs that an action refers to and that a running host
  remembers, which is all that `awscache.go:39-40` and `818-819` ask of it. A
  blob may go after a PUT saw it (`HeadObject`, 412 or an upload of its own) and
  before the PUT's metadata is there; `raced` records the contents this happened
  to, until they are uploaded again.
- `known` forgets any other entry when full, which includes the LRU order.
- `kept` records the last access that counted: one that found the access time
  recent, or one whose bump was written. It is used by `ReadActionsLive` only,
  as are `conflicted` and `raced` by `StoredIsReadable`.
- The copy of a blob may fail or not verify, for whatever reason.

### BaseImages and Snapshot

`BaseImages` has one handler per connection; its specification is `ServerSpec`
(one proof module extends both). A `baseImageState` is an index into
`entries`; `roFiles`, `roFileNoKey`, `nextIdleSeq` and `sharedSnap` are the
server's fields. Counts change under the entry's own mutex, everything else
under `Server.mu`; `lock` is there because `GetNoKey` and `ShareNoKey` are two
sections of the entry's mutex within one of the server's.

- The base that a connection has opened before it finds its key cached is an
  entry of its own, `SpareBase`, which `GetKeyed` adds closed (`server.go:325`).
- One pass of `evictIdleLocked` and `Server.Close` are one step each. A count
  that drops while a pass is under way is seen by the pass that the same release
  makes as soon as it has the lock.
- With an own snapshot, a connection whose `newSnapshot` fails looks like one
  that disconnects at once.
- After `ServerClose` only `RefcountExact` and `IdleBounded` are claimed; see the
  hazard at `server.go:455`. A panic ends the behaviour.

`Snapshot` models bytes, since sub-page writes and short last pages are about
bytes: a byte is 2 from the base image, 1 from a write, 0 when zeroed. A request
(`client`) goes through its ranges page by page: `Lookup` under `c.mu`,
`ReadDirty` or `ReadBase` without it, then `Deliver`, `Store` or `SavePage`.
`want` records what the page was at the lookup, and `met` the writers that had
another writer at one of their pages; both are used by the properties only.

- SHA-256 is taken to be injective: a hash is the page's bytes.
- Which page the cache evicts is left open, which includes the LRU order.
- `cache.Put` is part of the step before it. A reader that comes in between
  finds what it finds when the cache has evicted the page.
- The server does not check requests against the image's size, and clients may
  write past it: `NumPages` exceeds the image.
- A save (`WriteDirtyTo`) and writes exclude each other, as its comment asks of
  its callers.

## Runs

| Run | Shows |
|---|---|
| `pipeline` | three PUTs (same content under two keys, same key with two contents, one inline), two movers, retries: entries are at one station, readable, accounted for in the lanes, and settle |
| `crash` | a crash anywhere leaves only files with an intent, and the sweeper reclaims them |
| `evict` | evictions, sweeps and a crash against two PUTs of the same content: rows keep their blobs, and files and GETs are lost only to an unlink of a file in use |
| `shardstats` | the books with two scanners, commits of unknown outcome and a restart: nothing else puts them off |
| `cleanup` | `Cleanup` implements `ShardStats`; the byte budget with shared blobs; under either limit and both, and with commits of unknown outcome, the estimate converges and an oversized cache shrinks as far as stated; expired actions go, also across a restart |
| `hottier` | the index's usage is exact, promotions are paired, the cap is enforced, the scan misses nothing |
| `peers` | acknowledged objects are where the client can find them, stored ones are whole, room is returned, everyone is answered |
| `pool` | trackers hold what their streams say, servers follow their trackers, routers their servers, and the pool converges |
| `awscache` | stored actions have their blobs but for two races, reads keep actions alive, requests, bumps and Close come to an end |
| `baseimages` | no base image in use is closed, references are exact, the idle ones bounded, none leaks |
| `snapshot` | reads see the page as it was looked up, writes and trims land, copies are exact, and a writer takes back others' bytes only by a stale read-modify-write |
| `evictrace` | (a departure from the code's comments, see the finding in `PROJECT.json`) an eviction between a mover's stat and the commit takes the file of a PUT that then counts as committed |

### Where the code departs from its comments

Besides `evictrace`, the models reach these; each can be replayed with the change
named:

- With both limits set, size cleanup takes over the age limit's cutoff
  (`gocached.go:3127`) and evicts nothing that is younger, although the comment at
  3134-3135 says that it "runs until we've reclaimed enough bytes". The command
  sets both by default (`cmd/gocached/gocached.go:35-36`). `SizeReclaimed` excepts
  such a cache; `OverSizeFindsSome` is the comment's claim (as an invariant of the
  `cleanup` run with `Setups <- BothLimits`).
- The byte budget is not looked at after the deletion of an action whose blob is
  still referenced (`continue`, `gocached.go:3057-3058`), although the comments at
  2953-2955 and 3077 say that the loop stops there: actions that share a blob are
  deleted past the budget. `StopsAtBudget` is stated of the deletions that take a
  blob away.
- A commit that takes effect and reports an error loses its delta for good, although
  the comment at `putqueue.go:802-805` calls the retry safe, and the estimate stays
  off by it (`EstimateCatchesUp` without `Lost`).
- After a restart the deltas start at zero while the persisted totals lack what was
  committed since their scan; the first rescan subtracts that from a delta that
  never held it (`gocached.go:2827`), and the estimate stays off, against
  662-664: it "will catch up" (`EstimateCatchesUp` without `restarts > 0`, and
  `Setups` with `SizeOnly` and one restart).
- Two writes to different bytes of one page of a shared snapshot: the later one to
  store the page takes back the other's bytes (`snapshot.go:190`), against the
  contract of `io.WriterAt` (`snapshot.go:165`; `WritesLand` without `met`).
- A reader that missed the hot file removes the index entry that a promotion made
  in the meantime (`gocached.go:1921`): the file stays, unindexed, until the next
  restart. The comment says that "usage accounting stays honest" (1918-1920).
- A PUT whose forwarding fails after part of the body was read gets a 502
  (`peers.go:640-643`); the comment at 151-152 says that clients never see peering
  as an error.
- `s3Store.Put` takes a 409 (another client is writing the same blob,
  `store.go:403-409`) as success. If that upload then fails, the action is
  acknowledged without its blob; `awscache.go:29-30` says that "an acknowledged
  PUT is readable from every host" (`StoredIsReadable` without `conflicted`).
- The scrubber may delete a blob between a PUT's look at it and its metadata, however
  long its grace period: nothing renews it. The comment at 597-605 gives as the
  one cause of an action without its blob a scrubber that deleted it "after this action's last
  use", and 29-30 excludes it for an acknowledged PUT (`StoredIsReadable` without
  `raced`).
- The sweeper's row check, pending check and removal (`putqueue.go:678-683`) are
  separate steps. A PUT of the same content that is enqueued between the last two
  finds its file in place, commits, and then loses it (`CommittedHasFile` without
  `taken`, in the `evict` run with `Limited = FALSE`).

### Why the passing runs are restricted

- `pipeline` runs neither evictions nor sweeps (`Limited = FALSE`, `MaxTime = 0`),
  for its size: they are in `evict`, which has both and a crash.
- `crash` has no eviction, and `OrphansAreFound` assumes there is none. An
  intent's name is its due time in seconds and the content
  (`putqueue.go:559`), so that two PUTs of one content within a second share a
  file; if the first commits, its intent is deleted, and after an eviction the
  second mover's copy can be on disk with neither row nor intent.
- `SizeReclaimed` and `EstimateCatchesUp` claim nothing after a restart, see above.
- Nothing is claimed of a tick between a scan's new totals and the settled delta
  (`gocached.go:2802-2828`): it counts the change twice and may evict one batch
  from a cache within its limit.
- Nothing is claimed of blobs without actions: a PUT for a committed action with
  other content inserts a `Blobs` row that no action refers to
  (`putqueue.go:995`), and eviction goes by actions.
- Nothing is claimed of the hot directory against its index while the server runs,
  only of the index and of the directory at the end of the scan, see above.

### Bounds

- `MaxTime`: the clock. 0 where time does not matter; 2 in `crash` and `evict` (an intent
  comes due, then is swept) and for age limits (an action expires, and one bumped
  in between expires later).
- `MaxCrashes`, `MaxRestarts`: 1 (in `Cleanup` it bounds `restarts` of a setup).
  What a second one could meet differs only in what the first left on disk, which the runs reach otherwise.
- `MaxUnknown`: transactions that take effect and report an error; 2 in `ShardStats`,
  1 in the setup of `Cleanup` that has them.
- `MaxBatches`: committed batches in `Cleanup`; one batch of two actions lets a
  budget of one end an eviction half way, with scans before, between and after.
- `MaxUsage`: bytes per shard in `ShardStats`; the proofs hold for every value.
- Retries and caps are 1 or 2: enough for one retry and one refusal. In `pipeline`
  `CountCap` is 1, so that its two PUTs of one content take turns in the main
  lane, next to the inline one, and the lane refuses; in `crash` and `evict` it is 2
  and two movers work on one content at the same time. The proofs hold for all
  caps.
- `ReadKeys`, and `usage` of a setup, switch off a GET or the second scanner in runs that
  are about something else.
- `hottier`: two names that do not fit the cap together, one reader, two promotions
  at a time: enough for two promotions of one name and for an eviction between any
  two steps of another goroutine.
- `peers`: two servers, one key, two PUTs through different servers and a GET, lanes
  of one: a lane is full whenever another PUT holds it, on both servers at once.
- `pool`: `MaxEvents` 2 among node changes, broken streams, failed requests and
  stops; two members, of which one's node changes. A restart during another fault is
  within it.
- `awscache`: `Loads` are one host short of spool space with one content under two
  keys (or one that fits memory), with a restart; two hosts racing for one action
  that is read, bumped, closes and expires (`time` 3, with `Retention` 2 and
  `Relatime` 1); and one content under two keys whose first action expires while a
  host restarts, forgets it and it is scrubbed. Objects of size 2 exceed the spool
  of 1, the queue has one slot and one worker.
- `MaxGets` 4 with two connections and two keys: an entry can go idle, be evicted
  by another and be opened again, and a nil-key entry be shared and replaced.
- `MaxOps` 2 writes or trims, any number of reads and copies; three pages of
  three bytes with an image of five: a page in full, a short one, one past the
  end; ranges within a page, a page's end, a full page, and partial, full and
  partial. One cached page makes every page compete.

Deadlock is not checked in `crash` and `evict` (without GETs the system rightly
stops when every PUT has settled), in `baseimages` (the bound on opens, or a
panic after Close, ends it), and in `hottier`, `peers`, `pool` and `awscache` (all
requests, events or files may be used up).

### Fairness

Goroutines that can run do run: weak fairness for movers, tick and scan steps.
The flusher, the scans' upsert and the eviction are strongly fair because they
wait for `sqliteWriteMu`, and `sync.Mutex` does not starve a waiter; the sweep of
each intent and the removal of a file are strongly fair because they are retried
every minute, for ever. Handlers, GETs, failures, crashes, restarts and `POST
/usage` are not fair. The clock is fair up to its bound.

In `peers` handlers, flushers and transports that are let go run; no failure, no
client that leaves and no timeout is fair, so that `AllAnswered` does not rest on
them. In `pool` trackers, rounds (ticker or signal) and routers run, and a probe
ends one way or the other. In `awscache` handlers and the bumper's workers run. The
code bounds only some of what they wait for: the body of a PUT has a read deadline
(`handler.go:259`), and the writes and bumps a timeout, but `GetAction`,
`ActionExists` and the read from S3 have no more than the request's context. So
`AllSettles` assumes that AWS answers these calls, or that the client goes away, and
that a client reads its answer or goes away (nothing in `serveGet` bounds this);
giving up while waiting for space is not fair.

## Proofs

`PutQueueProofs` proves, for all sets of PUTs, keys, contents and movers and all
caps (`PutQueueAssumption`):

- `TypeCorrect`;
- `PendingIsServable` and `EachEntryAtOneStation`, from the inductive invariant
  `PipelineInv`. Neither is inductive alone: that an entry is at one place needs
  that every occupant of a place is pending (`InMoverCh`, `InMover`,
  `InFlushCh`, `InFlusher`), that no entry is in two of them, that every pending
  entry is somewhere (`Tracked`), and that a handler which has not yet enqueued
  is not pending (`PendingAcked`); the spool file needs in addition that a
  handler about to enqueue has it (`SpooledHasFile`);
- `LanesAreExact` and `SendsNeverBlock`, from `LaneInv`: each semaphore is the
  number of PUTs that hold a slot of its lane, or of the bytes they weigh, and
  within its cap. A step takes a slot for a PUT that has none, frees that of a PUT
  that has one, or changes no holder (`LanesStep`, `BytesStep`). With
  `PipelineInv`, whatever is in a channel is pending, hence a holder, and so the
  channels hold no more than the lanes admit;
- `RowsReferToBlobs`: evictions delete a blob only with its last action;
- `OrphansAreFound`: without eviction, an unaccounted-for file has an intent.
  `IntentInv` says that a mover about to copy has its intent on disk or its
  content committed, that intents handed over for deletion are of committed
  contents, and, for the sweeper, that between its look at the pending map and
  its unlink no PUT uses an intent of the same name: a new intent of that content
  would be due later than the one being swept;
- `CommittedKeepFiles` and `AcceptedIsRead`, with evictions, sweeps and crashes:
  an unlink of a file that a row or a pending PUT counts on (`taken`) is the only
  way for a committed content to lose its file or, drops, evictions and crashes
  apart, for a GET of an accepted key to miss. `FilesInv` adds to the property that
  what has been handed to the flusher is in the main directory or was taken
  (`SettledHasFile`) and that a committed batch has its rows (`FinishHasRow`);
  `GetInv` follows the GET through map, spool, SQLite and main directory.

`ShardStatsProofs` proves `BooksTypeCorrect`, `ScansNeverDrift` and
`BooksAlwaysBalance`. The argument is one lemma, `DriftStep`: each of the steps
of a commit, a late delta and a scan moves the same amount between two of the
terms of `Drift`, so that the difference between table and books does not change; a
transaction of unknown outcome changes it, and `lost`, by what it did.

`CleanupProofs` (any actions, contents, sizes, shards, limits and clocks) proves

- `CleanupTypeCorrect`;
- `KeepsTheBooks`: `Cleanup` implements `ShardStats`. The mapping sums the sizes of a
  shard's actions; one lemma per kind of step says which step of the books it is
  (`TransactionsMap`, `AddBlobDeltaMaps`, `ScanMaps`, `RestartMaps`,
  `OtherStepsStutter`). It takes the invariant `OneSign` (a transaction inserts or
  evicts, so what is still owed to a shard has one sign and an action's delta is a
  part of it) and that what is evicted is in the table (`CandsPresent`), although
  the candidates were queried in an earlier step;
- `EstimateExactAtRest`: through the refinement, `ShardStats`' `BooksAlwaysBalance`
  holds of the loop (`ShardsBalance`), and summing it over the shards gives that
  the estimate and what commits of unknown outcome left out of it make up the
  table's bytes whenever no delta is due and no scan is being settled, until the
  first restart. This is the safety half of `EstimateCatchesUp`;
- `EvictionsStopAtBudget`, whatever actions share a blob, from `BudgetPositive`;
- `SizeCleanupFinds` (`OverSizeEvicts`): if a tick over the size limit finds nothing
  to evict, there is nothing, or the age limit's cutoff is the reason. From `NoneLater`
  (no access time is in the future), for any limits.

`HotTierProofs` (any files, sizes, readers, promotions and capacity;
`HotTierAssumption` adds that the goroutines are different ones) proves
`UsageIsExact`, `PromotionsArePaired`, `SomeoneShrinksIt` and the action property
`ScanMissesNothing`, from `HotInv`:

- `IndexInv`: no entry is twice in the list and `usage` is the number of its
  bytes. Each operation of the index is taken apart once (`IndexStep`), and every
  action is one of them or none;
- `Roles`: where each goroutine can be, and which of them work on a name;
- `Registered`: promotions under way have different names, and `inflight` is the
  set of these;
- `Walk`: while the scan runs nobody installs a file or evicts an entry (`ready`
  is asked before), and each hot file is yet to be visited, recorded or indexed,
  unless `removeFromHot` is at it or a reader has dropped its entry (`dropped`).

`evictLRU` keeps the longest prefix that fits; that there is one is shown with a
minimal element (`WFMin` over Nat, in `MaxIsMember`) and not by induction.

`PeersProofs` (any servers, requests, keys and lanes, any answers of the routers)
proves `AcknowledgedIsFound` from `Forwarded` (the handler at the peer exists once
the request was forwarded, which happens once; one that has acknowledged has
the object or its queue gave it up), `NothingIsTruncated` from `AllWhole` (what is
pending, stored or about to be is whole, as no handler reads a body that a transport
has read from), and `RoomIsReturned`: each step moves one handler or one entry, and
with it at most one unit of room (`Moved`).

`PoolProofs` (pools of any size, any sequence of changes, broken streams, failed
probes and restarts) proves `TrackersAreExact`, `ServersFollowTheirSource` and
`RoutersFollowTheirServer`, from `PoolInv`:

- `Delivers`: whatever way the notifications still in a stream take what the
  tracker holds of a node (`Traces`), it ends in agreement with the control plane.
  A trace is a function over the queue, which takes the place of a fold over it, so
  that a message sent or delivered adds or takes one element of the trace;
- `Follows`: a change that has not come through has left its signal at one of the
  stages (`CandidatesFollow`, `Published`), a process that is down has forgotten
  everything (`Forgets`), and a tracker that does not know its own node holds no
  others (`SelfFirst`).

About owners it proves what the documentation of package `rendezvous` promises, for
any finite tables: there is one highest scorer (`PickIsHighest`, `OwnerIsUnique`),
routers whose tables differ agree on every key whose highest scorer is in both
(`OwnersAgree`), and a member that joins or leaves moves only its own keys
(`FewKeysMove`). That a finite table has a highest scorer is shown with a minimal set
of members that score higher (`WFMin` over finite sets).

`AwscacheProofs` (any hosts, requests, keys, contents and restarts) proves

- `ActionsHaveTheirBlobs` from `BlobsFirst`: what a host remembers, and what a PUT
  about to write its metadata relies on, is in S3, was left to a concurrent
  upload (`conflicted`) or deleted under a PUT (`raced`);
- `ReadActionsStay`, an action property, from `AccessesKept`: the last access that
  counted is at most `Relatime` later than the item's access time. A host may judge
  by what a stale read or an old lookup returned, so it takes in addition that such
  an item is past its time, or the key has one accessed as recently (`Outlived`).

`GuestbdProofs` (any connections, keys, calls and bound on idle entries) proves
`ReferencesAreExact`, `BasesInUseAreOpen` and `OpenBasesAreCached` from `Inv`: in
addition to the three, snapshots have different ids and name an entry
(`SnapsNamed`), and what the maps lead to is open and has the map's key
(`CachedOpen`), which is what makes a lookup without opening safe.
`IdleEntriesAreBounded` follows from `SettledBounded`: idle entries whose release is
still on its way to the lock (`Leaving`) are left out of the count; with them
the bound does not hold between the two steps of a release.

Of snapshots (any page, image and cache size, any pages, requests and ranges) it
proves

- `ReadsAreCurrent` from `Basics`: a slot of the dirty file never changes once
  written (`Slots`, `Grows`), a cached page is the one its hash names, so that
  what was looked up under the lock is still found after it (`Fetched`), whatever
  was written or evicted in between;
- `SavesAreExact` from `Saved`: the copy agrees with the snapshot outside the
  ranges that are left to write, and writers are kept out;
- `WritesTakeEffect` and the action property `OthersBytesStay`, of writers that may
  meet anywhere. `Apart` says that a writer which has met no other has no page in
  common with one, `Unchanged` that the page such a writer has read is still the same
  when it stores it, `Landed` that the bytes it has passed are what the request makes
  them. For `OthersBytesStay`, what any writer has read is the page as it is unless
  the page was stored or trimmed since (`FreshIsCurrent`).

Sums are stated as numbers of bytes (`BytesOf` in `PutQueue` and `HotTier`, `Units` in
`Cleanup`: the set of the bytes of a set of PUTs, files or actions), so that taking
one in or out is a lemma about cardinality and no induction over a sum is needed.
Adding two sums (`SumPlus`) and summing by groups (`SumGroups`) are bijections of
these sets.

Only model-checked:

- liveness: `EntriesSettle`, `OrphansSwept`, `EstimateCatchesUp`, `SizeReclaimed`,
  `AgedReclaimed`, `AllAnswered`, `Converges`, `AllSettles`. The prover does not
  handle fairness;
- `RetiredReadable`, which `evictrace` refutes.

Every other property of the runs is a theorem. `TypeOK` of a module is part of the
inductive invariant that its proofs establish and not of a run.

## Plan

Done: the PUT pipeline, the shard books, cleanup, hot tier, peers, the pool of
trackers, lansport and routers, `awscache`, guestbd's base images and snapshots,
with the proofs above. Next:

1. Abstract specifications: a cache that returns what was put (for `PutQueue` with
   GETs), a byte array (for `Snapshot`, whose four theorems say most of it).
2. Close with its drain: it works on entries that movers and flusher still hold,
   and so needs a weaker form of `OneStation` than the one proved.
3. What the books are off by after a restart: `Drift` is then what was committed
   since the scans that were persisted, and a bound on it would say how far the
   estimate can be wrong.

## Not modelled

- TLS identities, JWT verification, ID and namespace validation, the NBD wire
  protocol: cryptography, parsing and encoding around the modelled operations.
- `StaticSource` of lansport and the goodbye to peers at Close.
- `cachers` and `cacheproc`: client libraries; each request is a goroutine of its
  own that shares a semaphore and a wait group with the others.
- Metrics, usage and debug pages (read-only), the commands (flags and wiring).
