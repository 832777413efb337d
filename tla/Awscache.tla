------------------------------ MODULE Awscache ------------------------------
(***************************************************************************)
(* awscache (awscache.go, store.go, spool.go, atime.go, handler.go):       *)
(* several hosts serve GETs and PUTs from one DynamoDB table and one S3    *)
(* bucket.  The only state of a host is its memory of blobs that exist,    *)
(* its buffers, and the queue of access time bumps.                        *)
(*                                                                         *)
(* The model follows one action ID, so that a key of the table is just the *)
(* storage namespace.  DynamoDB, its TTL, S3 and the scrubber are external *)
(* and modelled from what the code asks of them: each call may fail, a     *)
(* failed write may have happened all the same, and a read of the table    *)
(* may return what a key held before its last write.                       *)
(***************************************************************************)
EXTENDS Integers, Sequences, FiniteSets, FiniteSetsExt, SequencesExt

CONSTANTS
  Hosts, Puts, Gets,
  Keys, GlobalKey,        \* storage namespaces, and the one that everyone reads
  Contents, SizeOf,       \* objects and their sizes
  Loads,                  \* who asks for what, and what happens meanwhile: see below
  InlineMax, MemBudget, SpoolCap, KnownBlobs,
  ATimeQueueLen, ATimeWorkers, Retention, Relatime,
  NoItem, Failed, Unread  \* of a lookup: nothing there, an error, not yet

Reqs == Puts \cup Gets

\* actionEntry: times and content (SHA256, or Data when inline).
Item == [content : Contents, atime : Nat, ttl : Nat]

ASSUME AwscacheAssumption ==
  /\ GlobalKey \in Keys /\ IsFiniteSet(Keys)
  /\ Puts \cap Gets = {} /\ Cardinality({NoItem, Failed, Unread}) = 3 /\ NoItem \notin Item
  /\ SizeOf \in [Contents -> Nat]
  /\ MemBudget \in Nat /\ SpoolCap \in Nat \ {0} /\ KnownBlobs \in Nat \ {0}
  /\ ATimeQueueLen \in Nat /\ ATimeWorkers \in Nat \ {0}
  /\ Relatime \in Nat /\ Retention \in Nat /\ Relatime < Retention
  /\ \A l \in Loads : /\ l.host \in [Reqs -> Hosts]
                      /\ l.key \in [Reqs -> Keys] \* a PUT's, a GET's extra one
                      /\ l.content \in [Puts -> Contents]
                      /\ l.closing \subseteq Hosts         \* hosts that may close
                      /\ l.time \in Nat /\ l.restarts \in Nat \* bounds

VARIABLES
  load,        \* the requests of this behaviour (never changes)
  time,        \* unix time, in steps
  items,       \* per key: the item in DynamoDB
  older,       \* per key: what an eventually consistent read may still return
  blobs,       \* contents stored in S3
  conflicted,  \* history: contents that a PUT left to a concurrent upload (409)
  raced,       \* history: contents deleted under a PUT that had seen them
  pc, answer,  \* per request: where its handler is, what the client was told
  since,       \* per PUT: the time its entry was made
  found,       \* per GET and key: what the lookup returned, then only what it picked
  spool,       \* per request: where its object is buffered
  waiting,     \* per host: requests waiting for disk spool space, in order
  known,       \* per host: blobs that it saw exist
  queue,       \* per host: the bumper's channel
  pending,     \* per host: keys queued or in flight
  bumping,     \* per host: keys that the workers took from the channel
  phase,       \* per host: "up", "closing", "cut" (out of time), "closed"
  workers,     \* per host: workers that have not returned
  kept,        \* per key: the last access known to have counted
  restarts     \* bound on restarts

races   == <<conflicted, raced>>
stores  == <<items, older, blobs, races, kept>>
bumper  == <<queue, pending, bumping, phase, workers>>
buffers == <<spool, waiting>>
reqs    == <<pc, answer, since, found>>
vars    == <<load, time, stores, reqs, buffers, known, bumper, restarts>>

Host(r)    == load.host[r]
Key(r)     == load.key[r]
Content(p) == load.content[p]
Inline(c)  == SizeOf[c] <= InlineMax

\* What a GET looks up, in the order of preference.
LookupKeys(g) == {GlobalKey, Key(g)}

\* The entry that a PUT makes.
Entry(p) == [content |-> Content(p), atime |-> since[p], ttl |-> since[p] + Retention]

Goto(r, l)   == pc' = [pc EXCEPT ![r] = l] /\ UNCHANGED answer
Answer(r, a) == /\ pc' = [pc EXCEPT ![r] = "done"]
                /\ answer' = [answer EXCEPT ![r] = a]

-----------------------------------------------------------------------------
(* DynamoDB and S3 *)

\* GetItem: reads are eventually consistent unless the config says otherwise.
Visible(k) == {items[k], older[k]}

Write(k, i) == /\ items' = [items EXCEPT ![k] = i]
               /\ older' = [older EXCEPT ![k] = items[k]]

\* The conditional PutItem: the first PUT wins.
PutActionIfAbsent(p) ==
  LET k == Key(p) IN
  IF items[k] = NoItem
    THEN Write(k, Entry(p)) /\ kept' = [kept EXCEPT ![k] = since[p]]
    ELSE UNCHANGED <<items, older, kept>>

\* Fault: the access time moves and the time of expiry does not.
BumpAccessTime_KeepsTTL(k) ==
  /\ IF items[k] # NoItem /\ items[k].atime < time - Relatime
       THEN Write(k, [items[k] EXCEPT !.atime = time])
       ELSE UNCHANGED <<items, older>>
  /\ kept' = [kept EXCEPT ![k] = time]

\* The conditional UpdateItem.
BumpAccessTime(k) ==
  /\ IF items[k] # NoItem /\ items[k].atime < time - Relatime
       THEN Write(k, [content |-> items[k].content, atime |-> time, ttl |-> time + Retention])
       ELSE UNCHANGED <<items, older>>
  /\ kept' = [kept EXCEPT ![k] = time]

\* A write reaches the replica that reads are served from.
Replicate(k) ==
  /\ older[k] # items[k]
  /\ older' = [older EXCEPT ![k] = items[k]]
  /\ UNCHANGED <<load, time, items, blobs, races, kept, reqs, buffers, known, bumper, restarts>>

\* DynamoDB's TTL deletes an item some time after its ttl.
Expire(k) ==
  /\ items[k] # NoItem /\ items[k].ttl < time
  /\ Write(k, NoItem)
  /\ UNCHANGED <<load, time, blobs, races, kept, reqs, buffers, known, bumper, restarts>>

Tick == /\ time < load.time
        /\ time' = time + 1
        /\ UNCHANGED <<load, stores, reqs, buffers, known, bumper, restarts>>

\* The blobs of PUTs between their last look at S3 and their metadata.
ReliedOn == {Content(p) : p \in {q \in Puts : pc[q] \in {"note", "meta"}}}

\* The scrubber deletes blobs that no action refers to and no host remembers,
\* which is all that the package asks of it.
Scrub(c) ==
  /\ c \in blobs
  /\ \A k \in Keys : items[k] # NoItem => items[k].content # c
  /\ \A h \in Hosts : c \notin known[h]
  /\ blobs' = blobs \ {c}
  /\ raced' = IF c \in ReliedOn THEN raced \cup {c} ELSE raced
  /\ UNCHANGED <<load, time, items, older, conflicted, kept, reqs, buffers, known, bumper,
                 restarts>>

-----------------------------------------------------------------------------
(* Spools *)

\* The key that a GET picked, and its entry.
Picked(g) == CHOOSE k \in Keys : found[g][k] # NoItem
Hit(g)    == found[g][Picked(g)]

Want(r)   == SizeOf[IF r \in Puts THEN Content(r) ELSE Hit(r).content]

\* Fault: an object larger than the spool asks for more than there is.
Reserve_Whole(r) == Want(r)

\* The disk space that a spool takes: at most all of it.
Reserve(r) == Min({Want(r), SpoolCap})

Buffered(h, where) == {r \in Reqs : Host(r) = h /\ spool[r] = where}
MemFits(r)  == MapThenSumSet(Want, Buffered(Host(r), "mem")) + Want(r) <= MemBudget
DiskFits(r) == MapThenSumSet(Reserve, Buffered(Host(r), "disk")) + Reserve(r) <= SpoolCap

Buffer(r, where, l) == spool' = [spool EXCEPT ![r] = where] /\ Goto(r, l)
Release(r)          == spool' = [spool EXCEPT ![r] = "none"]

\* newSpool: memory if it fits right now, else disk, in turn.
NewSpool(r, next) ==
  /\ pc[r] = "admit"
  /\ \/ /\ MemFits(r)
        /\ Buffer(r, "mem", next) /\ UNCHANGED waiting
     \/ /\ ~MemFits(r) /\ DiskFits(r) /\ waiting[Host(r)] = <<>>
        /\ \/ Buffer(r, "disk", next)
           \/ Answer(r, "error") /\ UNCHANGED spool    \* CreateTemp fails
        /\ UNCHANGED waiting
     \/ /\ ~MemFits(r) /\ ~(DiskFits(r) /\ waiting[Host(r)] = <<>>)
        /\ waiting' = [waiting EXCEPT ![Host(r)] = Append(@, r)]
        /\ Goto(r, "wait") /\ UNCHANGED spool
  /\ UNCHANGED <<load, time, stores, since, found, known, bumper, restarts>>

\* The semaphore serves its waiters in order.
SpoolGranted(r, next) ==
  /\ pc[r] = "wait" /\ waiting[Host(r)] # <<>> /\ Head(waiting[Host(r)]) = r /\ DiskFits(r)
  /\ waiting' = [waiting EXCEPT ![Host(r)] = Tail(@)]
  /\ \/ Buffer(r, "disk", next)
     \/ Answer(r, "error") /\ UNCHANGED spool
  /\ UNCHANGED <<load, time, stores, since, found, known, bumper, restarts>>

\* The client gives up while its request waits for space.
GiveUp(r) ==
  /\ pc[r] = "wait"
  /\ \E i \in DOMAIN waiting[Host(r)] :
       /\ waiting[Host(r)][i] = r
       /\ waiting' = [waiting EXCEPT ![Host(r)] = RemoveAt(@, i)]
  /\ Answer(r, "error")
  /\ UNCHANGED <<load, time, stores, since, found, spool, known, bumper, restarts>>

-----------------------------------------------------------------------------
(* PUT *)

\* The blob is remembered, at the cost of others when the memory is full.
NoteBlobKnown(h, c) ==
  \E s \in SUBSET (known[h] \cup {c}) :
    /\ c \in s /\ Cardinality(s) = Min({KnownBlobs, Cardinality(known[h] \cup {c})})
    /\ known' = [known EXCEPT ![h] = s]

\* put: the action is there already, and the body stays unread.
PutFindsItem(p) ==
  /\ pc[p] = "new" /\ Visible(Key(p)) # {NoItem}
  /\ Answer(p, "stored")
  /\ UNCHANGED <<load, time, stores, since, found, buffers, known, bumper, restarts>>

\* put: no such action, or the check failed, which is not fatal.
PutGoesOn(p) ==
  /\ pc[p] = "new"
  /\ since' = [since EXCEPT ![p] = time]
  /\ Goto(p, IF Inline(Content(p)) THEN "inline" ELSE "admit")
  /\ UNCHANGED <<load, time, stores, found, buffers, known, bumper, restarts>>

\* put: an inline body is read, or is short, or fails.
PutReadsInline(p) ==
  /\ pc[p] = "inline"
  /\ Goto(p, "meta") \/ Answer(p, "error")
  /\ UNCHANGED <<load, time, stores, since, found, buffers, known, bumper, restarts>>

\* Fault: the blob is remembered before it is uploaded.
PutReadsBody_Notes(p) ==
  /\ pc[p] = "body"
  /\ \/ /\ Content(p) \in known[Host(p)]
        /\ Goto(p, "meta") /\ Release(p) /\ UNCHANGED known
     \/ /\ Content(p) \notin known[Host(p)]
        /\ Goto(p, "head") /\ NoteBlobKnown(Host(p), Content(p)) /\ UNCHANGED spool
     \/ Answer(p, "error") /\ Release(p) /\ UNCHANGED known
  /\ UNCHANGED <<load, time, stores, since, found, waiting, bumper, restarts>>

\* storeBlob: the body is hashed into the spool; a known blob is not uploaded.
PutReadsBody(p) ==
  /\ pc[p] = "body"
  /\ \/ /\ Content(p) \in known[Host(p)]
        /\ Goto(p, "meta") /\ Release(p)
     \/ Content(p) \notin known[Host(p)] /\ Goto(p, "head") /\ UNCHANGED spool
     \/ Answer(p, "error") /\ Release(p)
  /\ UNCHANGED <<load, time, stores, since, found, waiting, known, bumper, restarts>>

\* storeBlob: a blob that exists is not uploaded; if the check fails, it is.
PutHeadsBlob(p) ==
  /\ pc[p] = "head"
  /\ \/ Content(p) \in blobs /\ Goto(p, "note")
     \/ Goto(p, "upload")
  /\ UNCHANGED <<load, time, stores, since, found, buffers, known, bumper, restarts>>

\* s3Store.Put: the blob is stored, or was (412), or is being stored by another
\* client (409), and all three count as success.
PutUploads(p) ==
  /\ pc[p] = "upload"
  /\ \/ /\ blobs' = blobs \cup {Content(p)}
        /\ conflicted' = conflicted \ {Content(p)} /\ raced' = raced \ {Content(p)}
     \/ /\ Content(p) \notin blobs
        /\ \E q \in Puts \ {p} : pc[q] = "upload" /\ Content(q) = Content(p)
        /\ conflicted' = conflicted \cup {Content(p)} /\ UNCHANGED <<blobs, raced>>
  /\ Goto(p, "note")
  /\ UNCHANGED <<load, time, items, older, kept, since, found, buffers, known, bumper, restarts>>

\* storeBlob: the blob is remembered, although it may be gone by now.
PutNotes(p) ==
  /\ pc[p] = "note"
  /\ NoteBlobKnown(Host(p), Content(p)) /\ Release(p) /\ Goto(p, "meta")
  /\ UNCHANGED <<load, time, stores, since, found, waiting, bumper, restarts>>

\* The upload fails, although S3 may have the blob.
UploadFails(p) ==
  /\ pc[p] = "upload"
  /\ blobs' \in {blobs, blobs \cup {Content(p)}}
  /\ Answer(p, "error") /\ Release(p)
  /\ UNCHANGED <<load, time, items, older, races, kept, since, found, waiting, known, bumper,
                 restarts>>

\* put: the metadata is written, even for a client that is gone.
PutStores(p) ==
  /\ pc[p] = "meta"
  /\ PutActionIfAbsent(p) /\ Answer(p, "stored")
  /\ UNCHANGED <<load, time, blobs, races, since, found, buffers, known, bumper, restarts>>

\* The write of the metadata fails, although DynamoDB may have done it.
StoreFails(p) ==
  /\ pc[p] = "meta"
  /\ PutActionIfAbsent(p) \/ UNCHANGED <<items, older, kept>>
  /\ Answer(p, "error")
  /\ UNCHANGED <<load, time, blobs, races, since, found, buffers, known, bumper, restarts>>

-----------------------------------------------------------------------------
(* GET *)

\* lookupAction: the keys are read concurrently.
GetReads(g, k) ==
  /\ pc[g] \in {"new", "lookup"} /\ k \in LookupKeys(g) /\ found[g][k] = Unread
  /\ \E i \in Visible(k) \cup {Failed} : found' = [found EXCEPT ![g][k] = i]
  /\ Goto(g, "lookup")
  /\ UNCHANGED <<load, time, stores, since, buffers, known, bumper, restarts>>

\* maybeEnqueue: an access counts when it is recent enough, or once it is written.
MaybeEnqueue(h, k, atime) ==
  LET room == Len(queue[h]) < ATimeQueueLen
      due  == atime <= time - Relatime IN
  /\ kept' = IF due \/ items[k] = NoItem THEN kept ELSE [kept EXCEPT ![k] = time]
  /\ IF due /\ k \notin pending[h] /\ room
       THEN /\ queue' = [queue EXCEPT ![h] = Append(@, k)]
            /\ pending' = [pending EXCEPT ![h] = @ \cup {k}]
       ELSE UNCHANGED <<queue, pending>>

\* lookupAction and get: the global key wins; an inline object is served at once.
GetPicks(g) ==
  LET Has(k) == k \in LookupKeys(g) /\ found[g][k] \notin {NoItem, Failed}
      best   == IF Has(GlobalKey) THEN GlobalKey ELSE Key(g) IN
  /\ pc[g] = "lookup" /\ \A k \in LookupKeys(g) : found[g][k] # Unread
  /\ found' = [found EXCEPT ![g] = [k \in Keys |-> IF Has(k) /\ k = best THEN @[k] ELSE NoItem]]
  /\ \/ /\ ~Has(best)
        /\ Answer(g, IF \E k \in LookupKeys(g) : found[g][k] = Failed THEN "error" ELSE "miss")
        /\ UNCHANGED <<kept, queue, pending>>
     \/ /\ Has(best) /\ Inline(found[g][best].content)
        /\ MaybeEnqueue(Host(g), best, found[g][best].atime) /\ Answer(g, "hit")
     \/ /\ Has(best) /\ ~Inline(found[g][best].content)
        /\ Goto(g, "fetch") /\ UNCHANGED <<kept, queue, pending>>
  /\ UNCHANGED <<load, time, items, older, blobs, races, since, buffers, known, bumping,
                 phase, workers, restarts>>

\* fetchBlob: a missing blob is a miss.
GetFetches(g) ==
  /\ pc[g] = "fetch"
  /\ \/ Hit(g).content \in blobs /\ Goto(g, "admit")
     \/ Hit(g).content \notin blobs /\ Answer(g, "miss")
     \/ Answer(g, "error")
  /\ UNCHANGED <<load, time, stores, since, found, buffers, known, bumper, restarts>>

\* fetchBlob and get: the blob is read into the spool and verified.
GetVerifies(g) ==
  /\ pc[g] = "body"
  /\ \/ /\ MaybeEnqueue(Host(g), Picked(g), Hit(g).atime)
        /\ Goto(g, "serve") /\ UNCHANGED spool
     \/ /\ \E a \in {"error", "miss"} : Answer(g, a)
        /\ Release(g) /\ UNCHANGED <<kept, queue, pending>>
  /\ UNCHANGED <<load, time, items, older, blobs, races, since, found, waiting, known,
                 bumping, phase, workers, restarts>>

\* serveGet: the object is sent, or cut short, and its buffer released.
GetServes(g) ==
  /\ pc[g] = "serve"
  /\ Answer(g, "hit") /\ Release(g)
  /\ UNCHANGED <<load, time, stores, since, found, waiting, known, bumper, restarts>>

-----------------------------------------------------------------------------
(* The access time bumper *)

\* run and drain: a worker takes a key.
TakeBump(h) ==
  /\ queue[h] # <<>> /\ Cardinality(bumping[h]) < workers[h]
  /\ queue' = [queue EXCEPT ![h] = Tail(@)]
  /\ bumping' = [bumping EXCEPT ![h] = @ \cup {Head(queue[h])}]
  /\ UNCHANGED <<load, time, stores, reqs, buffers, known, pending, phase, workers, restarts>>

BumpDone(h, k) == /\ bumping' = [bumping EXCEPT ![h] = @ \ {k}]
                  /\ pending' = [pending EXCEPT ![h] = @ \ {k}]

\* bump: the item is updated if it is still there and its access is old.
Bump(h, k) ==
  /\ k \in bumping[h] /\ phase[h] # "cut"
  /\ BumpAccessTime(k) /\ BumpDone(h, k)
  /\ UNCHANGED <<load, time, blobs, races, reqs, buffers, known, queue, phase, workers, restarts>>

\* bump, run and drain: the update fails, or there is no time left for it.
BumpFails(h, k) ==
  /\ k \in bumping[h] /\ BumpDone(h, k)
  /\ UNCHANGED <<load, time, stores, reqs, buffers, known, queue, phase, workers, restarts>>

\* Close: the workers are told to drain the queue,
Close(h) ==
  /\ phase[h] = "up" /\ h \in load.closing
  /\ phase' = [phase EXCEPT ![h] = "closing"]
  /\ UNCHANGED <<load, time, stores, reqs, buffers, known, queue, pending, bumping, workers, restarts>>

\* but not for longer than a few seconds.
DrainTimeout(h) ==
  /\ phase[h] = "closing"
  /\ phase' = [phase EXCEPT ![h] = "cut"]
  /\ UNCHANGED <<load, time, stores, reqs, buffers, known, queue, pending, bumping, workers, restarts>>

\* drain: a worker that finds the queue empty returns.
WorkerEnds(h) ==
  /\ phase[h] \in {"closing", "cut"} /\ queue[h] = <<>>
  /\ Cardinality(bumping[h]) < workers[h]
  /\ workers' = [workers EXCEPT ![h] = @ - 1]
  /\ phase' = IF workers[h] = 1 THEN [phase EXCEPT ![h] = "closed"] ELSE phase
  /\ UNCHANGED <<load, time, stores, reqs, buffers, known, queue, pending, bumping, restarts>>

\* The process of a host dies, closed or not, and New starts afresh.
Restart(h) ==
  LET cut == {r \in Reqs : Host(r) = h /\ pc[r] \notin {"new", "done"}} IN
  /\ restarts < load.restarts /\ restarts' = restarts + 1
  /\ pc' = [r \in Reqs |-> IF r \in cut THEN "done" ELSE pc[r]]
  /\ answer' = [r \in Reqs |-> IF r \in cut THEN "error" ELSE answer[r]]
  /\ spool' = [r \in Reqs |-> IF r \in cut THEN "none" ELSE spool[r]]
  /\ waiting' = [waiting EXCEPT ![h] = <<>>]
  /\ known' = [known EXCEPT ![h] = {}]
  /\ queue' = [queue EXCEPT ![h] = <<>>]
  /\ pending' = [pending EXCEPT ![h] = {}]
  /\ bumping' = [bumping EXCEPT ![h] = {}]
  /\ phase' = [phase EXCEPT ![h] = "up"]
  /\ workers' = [workers EXCEPT ![h] = ATimeWorkers]
  /\ UNCHANGED <<load, time, stores, since, found>>

-----------------------------------------------------------------------------
Init ==
  /\ load \in Loads
  /\ time = 0 /\ restarts = 0 /\ blobs = {} /\ conflicted = {} /\ raced = {}
  /\ items = [k \in Keys |-> NoItem] /\ older = items
  /\ kept = [k \in Keys |-> 0]
  /\ pc = [r \in Reqs |-> "new"] /\ answer = [r \in Reqs |-> "none"]
  /\ since = [p \in Puts |-> 0]
  /\ found = [g \in Gets |-> [k \in Keys |-> Unread]]
  /\ spool = [r \in Reqs |-> "none"]
  /\ waiting = [h \in Hosts |-> <<>>]
  /\ known = [h \in Hosts |-> {}]
  /\ queue = [h \in Hosts |-> <<>>]
  /\ pending = [h \in Hosts |-> {}]
  /\ bumping = [h \in Hosts |-> {}]
  /\ phase = [h \in Hosts |-> "up"]
  /\ workers = [h \in Hosts |-> ATimeWorkers]

PutStep(p) ==
  \/ PutFindsItem(p) \/ PutGoesOn(p) \/ PutReadsInline(p)
  \/ NewSpool(p, "body") \/ SpoolGranted(p, "body")
  \/ PutReadsBody(p) \/ PutHeadsBlob(p) \/ PutUploads(p) \/ UploadFails(p) \/ PutNotes(p)
  \/ PutStores(p) \/ StoreFails(p)

GetStep(g) ==
  \/ \E k \in Keys : GetReads(g, k)
  \/ GetPicks(g) \/ GetFetches(g)
  \/ NewSpool(g, "body") \/ SpoolGranted(g, "body")
  \/ GetVerifies(g) \/ GetServes(g)

WorkerStep(h) ==
  \/ TakeBump(h)
  \/ \E k \in Keys : Bump(h, k) \/ BumpFails(h, k)
  \/ WorkerEnds(h)

Next ==
  \/ \E p \in Puts : PutStep(p)
  \/ \E g \in Gets : GetStep(g)
  \/ \E r \in Reqs : GiveUp(r)
  \/ \E h \in Hosts : WorkerStep(h) \/ Close(h) \/ DrainTimeout(h) \/ Restart(h)
  \/ \E k \in Keys : Replicate(k) \/ Expire(k)
  \/ \E c \in Contents : Scrub(c)
  \/ Tick

Spec == Init /\ [][Next]_vars

\* Handlers and workers go on.  The body of a PUT has a read deadline, its blob,
\* its metadata and bumps have timeouts; lookups and reads of blobs have only the
\* client's context, so that AWS is assumed to answer, or the client to go away.
FairSpec ==
  /\ Spec
  /\ \A p \in Puts : WF_vars(PutStep(p))
  /\ \A g \in Gets : WF_vars(GetStep(g))
  /\ \A h \in Hosts : WF_vars(WorkerStep(h))

-----------------------------------------------------------------------------
Stages  == {"new", "inline", "admit", "wait", "body", "head", "upload", "note", "meta",
            "lookup", "fetch", "serve", "done"}
Answers == {"none", "stored", "hit", "miss", "error"}

\* Type invariant.
TypeOK ==
  /\ load \in Loads /\ time \in 0 .. load.time /\ restarts \in 0 .. load.restarts
  /\ blobs \subseteq Contents /\ conflicted \subseteq Contents /\ raced \subseteq Contents
  /\ items \in [Keys -> Item \cup {NoItem}] /\ older \in [Keys -> Item \cup {NoItem}]
  /\ kept \in [Keys -> 0 .. load.time] /\ since \in [Puts -> 0 .. load.time]
  /\ found \in [Gets -> [Keys -> Item \cup {NoItem, Failed, Unread}]]
  /\ pc \in [Reqs -> Stages] /\ answer \in [Reqs -> Answers]
  /\ spool \in [Reqs -> {"none", "mem", "disk"}]
  /\ waiting \in [Hosts -> Seq(Reqs)] /\ known \in [Hosts -> SUBSET Contents]
  /\ queue \in [Hosts -> Seq(Keys)] /\ pending \in [Hosts -> SUBSET Keys]
  /\ bumping \in [Hosts -> SUBSET Keys] /\ workers \in [Hosts -> 0 .. ATimeWorkers]
  /\ phase \in [Hosts -> {"up", "closing", "cut", "closed"}]

\* An action in DynamoDB that refers to a blob has it in S3, whatever PUTs race or
\* fail, hosts remember or forget, and the scrubber deletes: the blob is written
\* before the metadata, and remembered only once it was seen.  The two exceptions
\* are a blob that a PUT left to a concurrent upload, which may yet fail, and one
\* that the scrubber deleted after a PUT had seen it and before the PUT's metadata
\* was there, if nobody has uploaded it since (awscache.go:760-829,
\* store.go:390-412).
StoredIsReadable ==
  \A k \in Keys :
    items[k] # NoItem /\ ~Inline(items[k].content) =>
      items[k].content \in blobs \cup conflicted \cup raced

\* DynamoDB's TTL never deletes an action that was read within the retention time,
\* give or take Relatime, if that access was recent enough not to need a bump or
\* its bump was written by any host (atime.go:56-74, 126-140, store.go:315-339).
ReadActionsLive ==
  [][\A k \in Keys : items[k] # NoItem /\ items'[k] = NoItem =>
       time > kept[k] + Retention - Relatime]_vars

\* No request is under way, no bump waits for a worker and no host is closing.
Settled ==
  /\ \A r \in Reqs : pc[r] \in {"new", "done"}
  /\ \A h \in Hosts : /\ phase[h] \in {"up", "closed"}
                      /\ pending[h] = {} \/ phase[h] = "closed"

\* Every request is answered, also those that wait for spool space behind objects
\* larger than the whole spool; every queued bump is written or dropped, unless
\* its cache is closed; and Close returns: whatever is started comes to an end
\* (spool.go:34-74, atime.go:79-124, awscache.go:415-427).
AllSettles == []<>Settled
=============================================================================
