--------------------------- MODULE AwscacheProofs ---------------------------
(***************************************************************************)
(* Proofs about awscache, for any hosts, requests, keys and contents, any  *)
(* size of the buffers and queues, and any number of restarts.             *)
(***************************************************************************)
EXTENDS Awscache, FiniteSetTheorems, SequenceTheorems, TLAPS

-----------------------------------------------------------------------------
(* Type correctness *)

\* The cache starts with empty stores and idle hosts.
LEMMA TypeInit == Init => TypeOK
<1> SUFFICES ASSUME Init
             PROVE  TypeOK
  OBVIOUS
<1> USE AwscacheAssumption
<1>1. load.time \in Nat /\ load.restarts \in Nat
  BY DEF Init
<1>2. \A h \in Hosts : <<>> \in Seq(Reqs) /\ <<>> \in Seq(Keys)
  OBVIOUS
<1> QED
  BY <1>1, <1>2 DEF Init, TypeOK, Stages, Answers

\* Taking an element out of a sequence leaves a sequence.
LEMMA RemoveAtType ==
  ASSUME NEW S, NEW s \in Seq(S), NEW i \in DOMAIN s
  PROVE  RemoveAt(s, i) \in Seq(S)
<1>1. i \in 1 .. Len(s) /\ Len(s) \in Nat
  OBVIOUS
<1>2. SubSeq(s, 1, i - 1) \in Seq(S) /\ SubSeq(s, i + 1, Len(s)) \in Seq(S)
  BY <1>1
<1> QED
  BY <1>2 DEF RemoveAt

\* The entry of a PUT is an item of the table.
LEMMA EntryType ==
  ASSUME TypeOK, NEW p \in Puts
  PROVE  Entry(p) \in Item
<1>1. Content(p) \in Contents /\ since[p] \in Nat /\ since[p] + Retention \in Nat
  BY AwscacheAssumption DEF TypeOK, Content
<1> QED
  BY <1>1 DEF Entry, Item

\* What the conditional PutItem writes has its type.
LEMMA PutActionType ==
  ASSUME TypeOK, NEW p \in Puts, PutActionIfAbsent(p)
  PROVE  /\ items' \in [Keys -> Item \cup {NoItem}]
         /\ older' \in [Keys -> Item \cup {NoItem}]
         /\ kept' \in [Keys -> 0 .. load.time]
<1>1. Key(p) \in Keys /\ since[p] \in 0 .. load.time
  BY AwscacheAssumption DEF TypeOK, Key, Reqs
<1> QED
  BY <1>1, EntryType DEF PutActionIfAbsent, Write, TypeOK

\* What the conditional UpdateItem writes has its type.
LEMMA BumpType ==
  ASSUME TypeOK, NEW k \in Keys, BumpAccessTime(k)
  PROVE  /\ items' \in [Keys -> Item \cup {NoItem}]
         /\ older' \in [Keys -> Item \cup {NoItem}]
         /\ kept' \in [Keys -> 0 .. load.time]
<1>1. time \in 0 .. load.time /\ time \in Nat /\ time + Retention \in Nat
  BY AwscacheAssumption DEF TypeOK
<1>2. items[k] # NoItem => 
        [content |-> items[k].content, atime |-> time, ttl |-> time + Retention] \in Item
  BY <1>1 DEF TypeOK, Item
<1>3. kept' \in [Keys -> 0 .. load.time]
  BY <1>1 DEF BumpAccessTime, TypeOK
<1>4. CASE items[k] # NoItem /\ items[k].atime < time - Relatime
  BY <1>2, <1>3, <1>4 DEF BumpAccessTime, Write, TypeOK
<1>5. CASE UNCHANGED <<items, older>>
  BY <1>3, <1>5 DEF TypeOK
<1> QED
  BY <1>4, <1>5 DEF BumpAccessTime

\* What an access leaves in the queue of a host has its type.
LEMMA EnqueueType ==
  ASSUME TypeOK, NEW h \in Hosts, NEW k \in Keys, NEW atime, MaybeEnqueue(h, k, atime)
  PROVE  /\ kept' \in [Keys -> 0 .. load.time]
         /\ queue' \in [Hosts -> Seq(Keys)] /\ pending' \in [Hosts -> SUBSET Keys]
<1>1. Append(queue[h], k) \in Seq(Keys)
  BY AppendProperties DEF TypeOK
<1>2. kept' \in [Keys -> 0 .. load.time]
  <2>1. kept' = kept \/ kept' = [kept EXCEPT ![k] = time]
    BY DEF MaybeEnqueue
  <2> QED
    BY <2>1 DEF TypeOK
<1>3. \/ UNCHANGED <<queue, pending>>
      \/ /\ queue' = [queue EXCEPT ![h] = Append(queue[h], k)]
         /\ pending' = [pending EXCEPT ![h] = pending[h] \cup {k}]
  BY DEF MaybeEnqueue
<1>4. CASE UNCHANGED <<queue, pending>>
  BY <1>2, <1>4 DEF TypeOK
<1>5. CASE /\ queue' = [queue EXCEPT ![h] = Append(queue[h], k)]
           /\ pending' = [pending EXCEPT ![h] = pending[h] \cup {k}]
  <2>1. queue' \in [Hosts -> Seq(Keys)]
    BY <1>1, <1>5 DEF TypeOK
  <2>2. pending' \in [Hosts -> SUBSET Keys]
    BY <1>5 DEF TypeOK
  <2> QED
    BY <1>2, <2>1, <2>2
<1> QED
  BY <1>3, <1>4, <1>5

\* A GET past its lookup has picked one key with an item, and no other.
PickedOne ==
  \A g \in Gets : pc[g] \in {"fetch", "admit", "wait", "body", "serve"} =>
    \E k \in Keys : /\ found[g][k] \notin {NoItem, Failed, Unread}
                   /\ \A j \in Keys \ {k} : found[g][j] = NoItem

\* Then the key that get and fetchBlob use is that one.
LEMMA PickedIsItem ==
  ASSUME TypeOK, PickedOne, NEW g \in Gets, pc[g] \in {"fetch", "admit", "wait", "body", "serve"}
  PROVE  /\ Picked(g) \in Keys /\ Hit(g) = found[g][Picked(g)]
         /\ Hit(g) \in Item /\ Hit(g) \notin {NoItem, Failed, Unread}
<1>1. PICK k \in Keys : /\ found[g][k] \notin {NoItem, Failed, Unread}
                       /\ \A j \in Keys \ {k} : found[g][j] = NoItem
  BY DEF PickedOne
<1>2. Picked(g) \in Keys /\ found[g][Picked(g)] # NoItem
  BY <1>1 DEF Picked
<1>3. Picked(g) = k
  BY <1>1, <1>2
<1> QED
  BY <1>1, <1>3 DEF Hit, TypeOK

\* No step of a request, a worker, a host or the stores takes a variable out of
\* its type.
LEMMA TypeNext == TypeOK /\ PickedOne /\ [Next]_vars => TypeOK'
<1> SUFFICES ASSUME TypeOK, PickedOne, [Next]_vars
             PROVE  TypeOK'
  OBVIOUS
<1> USE AwscacheAssumption DEF stores, races, bumper, buffers, reqs
<1> DEFINE ReqsTyped == pc \in [Reqs -> Stages] /\ answer \in [Reqs -> Answers]
<1>1. /\ \A r \in Reqs : Host(r) \in Hosts /\ Key(r) \in Keys
      /\ \A p \in Puts : Content(p) \in Contents
      /\ Puts \subseteq Reqs /\ Gets \subseteq Reqs
  BY DEF TypeOK, Host, Key, Content, Reqs
<1>2. /\ \A r \in Reqs, l \in Stages : Goto(r, l) => ReqsTyped'
      /\ \A r \in Reqs, a \in Answers : Answer(r, a) => ReqsTyped'
  <2>1. ASSUME NEW r \in Reqs, NEW l \in Stages, Goto(r, l)
        PROVE  ReqsTyped'
    BY <2>1 DEF Goto, TypeOK
  <2>2. ASSUME NEW r \in Reqs, NEW a \in Answers, Answer(r, a)
        PROVE  ReqsTyped'
    <3>1. "done" \in Stages
      BY DEF Stages
    <3> QED
      BY <2>2, <3>1 DEF Answer, TypeOK
  <2> QED
    BY <2>1, <2>2
<1>3. /\ {"inline", "admit", "wait", "body", "head", "upload", "note", "meta", "lookup", "fetch",
           "serve"} \subseteq Stages
      /\ {"stored", "hit", "miss", "error"} \subseteq Answers
  BY DEF Stages, Answers
<1>4. ASSUME NEW r \in Reqs, NewSpool(r, "body") \/ SpoolGranted(r, "body")
      PROVE  TypeOK'
  <2>1. ReqsTyped'
    BY <1>2, <1>3, <1>4 DEF NewSpool, SpoolGranted, Buffer
  <2>2. waiting' \in [Hosts -> Seq(Reqs)]
    <3>1. CASE waiting' = waiting
      BY <3>1 DEF TypeOK
    <3>2. CASE waiting' = [waiting EXCEPT ![Host(r)] = Append(waiting[Host(r)], r)]
      <4>1. Append(waiting[Host(r)], r) \in Seq(Reqs)
        BY <1>1, AppendProperties DEF TypeOK
      <4> QED
        BY <3>2, <4>1 DEF TypeOK
    <3>3. CASE SpoolGranted(r, "body")
      <4>1. Tail(waiting[Host(r)]) \in Seq(Reqs)
        BY <1>1, <3>3, HeadTailProperties DEF SpoolGranted, TypeOK
      <4> QED
        BY <3>3, <4>1 DEF SpoolGranted, TypeOK
    <3> QED
      BY <1>4, <3>1, <3>2, <3>3 DEF NewSpool
  <2>3. spool' \in [Reqs -> {"none", "mem", "disk"}]
    BY <1>4 DEF NewSpool, SpoolGranted, Buffer, TypeOK
  <2> QED
    BY <1>4, <2>1, <2>2, <2>3 DEF NewSpool, SpoolGranted, TypeOK
<1>5. ASSUME NEW r \in Reqs, GiveUp(r)
      PROVE  TypeOK'
  <2>1. PICK i \in DOMAIN waiting[Host(r)] :
          waiting' = [waiting EXCEPT ![Host(r)] = RemoveAt(waiting[Host(r)], i)]
    BY <1>5 DEF GiveUp
  <2>2. RemoveAt(waiting[Host(r)], i) \in Seq(Reqs)
    BY <1>1, RemoveAtType DEF TypeOK
  <2>3. ReqsTyped'
    BY <1>2, <1>3, <1>5 DEF GiveUp
  <2> QED
    BY <1>5, <2>1, <2>2, <2>3 DEF GiveUp, TypeOK
<1>6. ASSUME NEW p \in Puts, PutStep(p)
      PROVE  TypeOK'
  <2>1. NoteBlobKnown(Host(p), Content(p)) => known' \in [Hosts -> SUBSET Contents]
    BY <1>1 DEF NoteBlobKnown, TypeOK
  <2>2. Release(p) => spool' \in [Reqs -> {"none", "mem", "disk"}]
    BY DEF Release, TypeOK
  <2>3. CASE PutFindsItem(p) \/ PutGoesOn(p) \/ PutReadsInline(p)
    <3>1. ReqsTyped'
      BY <1>1, <1>2, <1>3, <2>3 DEF PutFindsItem, PutGoesOn, PutReadsInline
    <3>2. since' \in [Puts -> 0 .. load.time]
      BY <2>3 DEF PutFindsItem, PutGoesOn, PutReadsInline, TypeOK
    <3> QED
      BY <2>3, <3>1, <3>2 DEF PutFindsItem, PutGoesOn, PutReadsInline, TypeOK
  <2>4. CASE PutReadsBody(p)
    <3>1. ReqsTyped'
      BY <1>1, <1>2, <1>3, <2>4 DEF PutReadsBody
    <3> QED
      BY <2>2, <2>4, <3>1 DEF PutReadsBody, TypeOK
  <2>5. CASE PutHeadsBlob(p) \/ PutNotes(p)
    <3>1. ReqsTyped'
      BY <1>1, <1>2, <1>3, <2>5 DEF PutHeadsBlob, PutNotes
    <3> QED
      BY <2>1, <2>2, <2>5, <3>1 DEF PutHeadsBlob, PutNotes, TypeOK
  <2>6. CASE PutUploads(p) \/ UploadFails(p)
    <3>1. ReqsTyped'
      BY <1>1, <1>2, <1>3, <2>6 DEF PutUploads, UploadFails
    <3>2. blobs' \subseteq Contents /\ conflicted' \subseteq Contents /\ raced' \subseteq Contents
      BY <1>1, <2>6 DEF PutUploads, UploadFails, TypeOK
    <3> QED
      BY <2>1, <2>2, <2>6, <3>1, <3>2 DEF PutUploads, UploadFails, TypeOK
  <2>7. CASE PutStores(p) \/ StoreFails(p)
    <3>1. ReqsTyped'
      BY <1>1, <1>2, <1>3, <2>7 DEF PutStores, StoreFails
    <3>2. /\ items' \in [Keys -> Item \cup {NoItem}]
          /\ older' \in [Keys -> Item \cup {NoItem}]
          /\ kept' \in [Keys -> 0 .. load.time]
      BY <2>7, PutActionType DEF PutStores, StoreFails, TypeOK
    <3> QED
      BY <2>7, <3>1, <3>2 DEF PutStores, StoreFails, TypeOK
  <2> QED
    BY <1>1, <1>4, <1>6, <2>3, <2>4, <2>5, <2>6, <2>7 DEF PutStep
<1>7. ASSUME NEW g \in Gets, GetStep(g)
      PROVE  TypeOK'
  <2>1. ASSUME NEW k \in Keys, GetReads(g, k)
        PROVE  TypeOK'
    <3>1. ReqsTyped'
      BY <1>1, <1>2, <1>3, <2>1 DEF GetReads
    <3>2. Visible(k) \cup {Failed} \subseteq Item \cup {NoItem, Failed, Unread}
      BY DEF Visible, TypeOK
    <3>3. PICK i \in Visible(k) \cup {Failed} : found' = [found EXCEPT ![g][k] = i]
      BY <2>1 DEF GetReads
    <3>4. found' \in [Gets -> [Keys -> Item \cup {NoItem, Failed, Unread}]]
      BY <3>2, <3>3 DEF TypeOK
    <3>5. UNCHANGED <<load, time, stores, since, buffers, known, bumper, restarts>>
      BY <2>1 DEF GetReads
    <3> QED
      BY <3>1, <3>4, <3>5 DEF TypeOK
  <2>2. CASE GetPicks(g)
    <3>1. ReqsTyped'
      BY <1>1, <1>2, <1>3, <2>2 DEF GetPicks
    <3>2. found' \in [Gets -> [Keys -> Item \cup {NoItem, Failed, Unread}]]
      BY <2>2 DEF GetPicks, TypeOK
    <3>3. \/ UNCHANGED <<kept, queue, pending>>
          \/ \E best \in Keys : MaybeEnqueue(Host(g), best, found[g][best].atime)
      BY <1>1, <2>2 DEF GetPicks
    <3>4. /\ kept' \in [Keys -> 0 .. load.time]
          /\ queue' \in [Hosts -> Seq(Keys)] /\ pending' \in [Hosts -> SUBSET Keys]
      <4>1. CASE UNCHANGED <<kept, queue, pending>>
        BY <4>1 DEF TypeOK
      <4>2. ASSUME NEW best \in Keys, MaybeEnqueue(Host(g), best, found[g][best].atime)
            PROVE  /\ kept' \in [Keys -> 0 .. load.time]
                   /\ queue' \in [Hosts -> Seq(Keys)] /\ pending' \in [Hosts -> SUBSET Keys]
        BY <1>1, <4>2, EnqueueType
      <4> QED
        BY <3>3, <4>1, <4>2
    <3> QED
      BY <2>2, <3>1, <3>2, <3>4 DEF GetPicks, TypeOK
  <2>3. CASE GetFetches(g)
    <3>1. ReqsTyped'
      BY <1>1, <1>2, <1>3, <2>3 DEF GetFetches
    <3> QED
      BY <2>3, <3>1 DEF GetFetches, TypeOK
  <2>4. CASE GetVerifies(g)
    <3>1. ReqsTyped'
      BY <1>1, <1>2, <1>3, <2>4 DEF GetVerifies
    <3>2. Picked(g) \in Keys
      BY <2>4, PickedIsItem DEF GetVerifies
    <3>3. MaybeEnqueue(Host(g), Picked(g), Hit(g).atime) =>
            /\ kept' \in [Keys -> 0 .. load.time]
            /\ queue' \in [Hosts -> Seq(Keys)] /\ pending' \in [Hosts -> SUBSET Keys]
      BY <1>1, <3>2, EnqueueType
    <3>4. spool' \in [Reqs -> {"none", "mem", "disk"}]
      BY <1>1, <2>4 DEF GetVerifies, Release, TypeOK
    <3> QED
      BY <2>4, <3>1, <3>3, <3>4 DEF GetVerifies, TypeOK
  <2>5. CASE GetServes(g)
    <3>1. ReqsTyped'
      BY <1>1, <1>2, <1>3, <2>5 DEF GetServes
    <3> QED
      BY <1>1, <2>5, <3>1 DEF GetServes, Release, TypeOK
  <2> QED
    BY <1>1, <1>4, <1>7, <2>1, <2>2, <2>3, <2>4, <2>5 DEF GetStep
<1>8. ASSUME NEW h \in Hosts, WorkerStep(h)
      PROVE  TypeOK'
  <2>1. CASE TakeBump(h)
    <3>1. Head(queue[h]) \in Keys /\ Tail(queue[h]) \in Seq(Keys)
      BY <2>1, HeadTailProperties DEF TakeBump, TypeOK
    <3> QED
      BY <2>1, <3>1 DEF TakeBump, TypeOK
  <2>2. ASSUME NEW k \in Keys, Bump(h, k)
        PROVE  TypeOK'
    BY <2>2, BumpType DEF Bump, BumpDone, TypeOK
  <2>3. ASSUME NEW k \in Keys, BumpFails(h, k)
        PROVE  TypeOK'
    BY <2>3 DEF BumpFails, BumpDone, TypeOK
  <2>4. CASE WorkerEnds(h)
    <3>1. Cardinality(bumping[h]) \in Nat
      BY FS_Subset, FS_CardinalityType DEF TypeOK
    <3>2. workers' \in [Hosts -> 0 .. ATimeWorkers]
      BY <2>4, <3>1 DEF WorkerEnds, TypeOK
    <3>3. phase' \in [Hosts -> {"up", "closing", "cut", "closed"}]
      BY <2>4 DEF WorkerEnds, TypeOK
    <3> QED
      BY <2>4, <3>2, <3>3 DEF WorkerEnds, TypeOK
  <2> QED
    BY <1>8, <2>1, <2>2, <2>3, <2>4 DEF WorkerStep
<1>9. ASSUME NEW h \in Hosts, Close(h) \/ DrainTimeout(h)
      PROVE  TypeOK'
  <2>1. phase' \in [Hosts -> {"up", "closing", "cut", "closed"}]
    BY <1>9 DEF Close, DrainTimeout, TypeOK
  <2> QED
    BY <1>9, <2>1 DEF Close, DrainTimeout, TypeOK
<1>10. ASSUME NEW h \in Hosts, Restart(h)
       PROVE  TypeOK'
  <2>1. ReqsTyped'
    BY <1>10 DEF Restart, TypeOK, Stages, Answers
  <2>2. spool' \in [Reqs -> {"none", "mem", "disk"}]
    BY <1>10 DEF Restart, TypeOK
  <2>3. waiting' \in [Hosts -> Seq(Reqs)] /\ queue' \in [Hosts -> Seq(Keys)]
    BY <1>10 DEF Restart, TypeOK
  <2>4. restarts' \in 0 .. load.restarts
    BY <1>10 DEF Restart, TypeOK
  <2>5. known' \in [Hosts -> SUBSET Contents] /\ pending' \in [Hosts -> SUBSET Keys]
    BY <1>10 DEF Restart, TypeOK
  <2>6. /\ bumping' \in [Hosts -> SUBSET Keys] /\ workers' \in [Hosts -> 0 .. ATimeWorkers]
        /\ phase' \in [Hosts -> {"up", "closing", "cut", "closed"}]
    BY <1>10 DEF Restart, TypeOK
  <2>7. UNCHANGED <<load, time, stores, since, found>>
    BY <1>10 DEF Restart
  <2> QED
    BY <2>1, <2>2, <2>3, <2>4, <2>5, <2>6, <2>7 DEF TypeOK
<1>11. ASSUME NEW k \in Keys, Replicate(k) \/ Expire(k)
       PROVE  TypeOK'
  <2>1. /\ items' \in [Keys -> Item \cup {NoItem}]
        /\ older' \in [Keys -> Item \cup {NoItem}]
    <3>1. items \in [Keys -> Item \cup {NoItem}] /\ older \in [Keys -> Item \cup {NoItem}]
      BY DEF TypeOK
    <3>2. CASE Replicate(k)
      BY <3>1, <3>2 DEF Replicate
    <3>3. CASE Expire(k)
      BY <3>1, <3>3 DEF Expire, Write
    <3> QED
      BY <1>11, <3>2, <3>3
  <2>2. UNCHANGED <<load, time, restarts, kept, blobs, races, since, bumper, buffers, known, reqs>>
    BY <1>11 DEF Replicate, Expire, Write
  <2> QED
    BY <2>1, <2>2 DEF TypeOK
<1>12. ASSUME NEW c \in Contents, Scrub(c)
       PROVE  TypeOK'
  BY <1>12 DEF Scrub, TypeOK
<1>13. CASE Tick
  BY <1>13 DEF Tick, TypeOK
<1>14. CASE UNCHANGED vars
  BY <1>14 DEF vars, TypeOK
<1> QED
  BY <1>5, <1>6, <1>7, <1>8, <1>9, <1>10, <1>11, <1>12, <1>13, <1>14 DEF Next

\* No request has picked anything at the start.
LEMMA PickedInit == Init => PickedOne
BY DEF Init, PickedOne, Reqs

\* Only GetPicks takes a GET past its lookup, and only a lookup changes what it
\* found.
LEMMA PickedNext == TypeOK /\ PickedOne /\ [Next]_vars => PickedOne'
<1> SUFFICES ASSUME TypeOK, PickedOne, [Next]_vars
             PROVE  PickedOne'
  OBVIOUS
<1> DEFINE Past == {"fetch", "admit", "wait", "body", "serve"}
           Rest(g) == found'[g] = found[g] /\ (pc'[g] \in Past => pc[g] \in Past)
<1> USE AwscacheAssumption DEF stores, races, bumper, buffers, reqs, Reqs
<1>1. (\A g \in Gets : Rest(g)) => PickedOne'
  BY DEF PickedOne
<1>2. ASSUME NEW r \in Reqs, NEW l, Goto(r, l)
      PROVE  \A g \in Gets : pc'[g] = IF g = r THEN l ELSE pc[g]
  BY <1>2 DEF Goto, TypeOK
<1>3. ASSUME NEW r \in Reqs, NEW a, Answer(r, a)
      PROVE  \A g \in Gets : pc'[g] = IF g = r THEN "done" ELSE pc[g]
  BY <1>3 DEF Answer, TypeOK
<1>4. ASSUME NEW r \in Reqs, NewSpool(r, "body") \/ SpoolGranted(r, "body") \/ GiveUp(r)
      PROVE  PickedOne'
  BY <1>1, <1>2, <1>3, <1>4 DEF NewSpool, SpoolGranted, GiveUp, Buffer
<1>5. ASSUME NEW p \in Puts, PutStep(p)
      PROVE  PickedOne'
  <2>1. \A g \in Gets : g # p
    OBVIOUS
  <2>2. CASE PutFindsItem(p) \/ PutGoesOn(p) \/ PutReadsInline(p) \/ PutReadsBody(p)
             \/ PutHeadsBlob(p) \/ PutNotes(p)
    BY <1>1, <1>2, <1>3, <2>1, <2>2
    DEF PutFindsItem, PutGoesOn, PutReadsInline, PutReadsBody, PutHeadsBlob, PutNotes
  <2>3. CASE PutUploads(p) \/ UploadFails(p) \/ PutStores(p) \/ StoreFails(p)
    BY <1>1, <1>2, <1>3, <2>1, <2>3 DEF PutUploads, UploadFails, PutStores, StoreFails
  <2> QED
    BY <1>4, <1>5, <2>2, <2>3 DEF PutStep
<1>6. ASSUME NEW g \in Gets, GetStep(g)
      PROVE  PickedOne'
  <2>1. ASSUME NEW k \in Keys, GetReads(g, k)
        PROVE  PickedOne'
    <3>1. \A q \in Gets \ {g} : found'[q] = found[q]
      BY <2>1 DEF GetReads, TypeOK
    <3>2. \A q \in Gets : pc'[q] = IF q = g THEN "lookup" ELSE pc[q]
      BY <1>2, <2>1 DEF GetReads
    <3> QED
      BY <3>1, <3>2 DEF PickedOne
  <2>2. CASE GetPicks(g)
    <3> DEFINE Has(k) == k \in LookupKeys(g) /\ found[g][k] \notin {NoItem, Failed}
               best   == IF Has(GlobalKey) THEN GlobalKey ELSE Key(g)
    <3>1. \A q \in Gets \ {g} : found'[q] = found[q]
      BY <2>2 DEF GetPicks, TypeOK
    <3>2. found'[g] = [k \in Keys |-> IF Has(k) /\ k = best THEN found[g][k] ELSE NoItem]
      BY <2>2 DEF GetPicks, TypeOK
    <3>3. \A k \in LookupKeys(g) : found[g][k] # Unread
      BY <2>2 DEF GetPicks
    <3>4. LookupKeys(g) \subseteq Keys
      BY DEF LookupKeys, Key, TypeOK
    <3>5. \A q \in Gets \ {g} : pc'[q] = pc[q]
      BY <1>2, <1>3, <2>2 DEF GetPicks
    <3>6. CASE Has(best)
      <4>1. best \in Keys /\ found'[g][best] \notin {NoItem, Failed, Unread}
        BY <3>2, <3>3, <3>4, <3>6
      <4>2. \A j \in Keys \ {best} : found'[g][j] = NoItem
        BY <3>2
      <4> HIDE DEF best
      <4> QED
        BY <3>1, <3>5, <4>1, <4>2 DEF PickedOne
    <3>7. CASE ~Has(best)
      <4>1. pc'[g] = "done"
        BY <1>3, <2>2, <3>7 DEF GetPicks
      <4> QED
        BY <3>1, <3>5, <4>1 DEF PickedOne
    <3> QED
      BY <3>6, <3>7
  <2>3. CASE GetFetches(g) \/ GetVerifies(g) \/ GetServes(g)
    BY <1>1, <1>2, <1>3, <2>3 DEF GetFetches, GetVerifies, GetServes
  <2> QED
    BY <1>4, <1>6, <2>1, <2>2, <2>3 DEF GetStep
<1>7. ASSUME NEW h \in Hosts,
             WorkerStep(h) \/ Close(h) \/ DrainTimeout(h)
      PROVE  PickedOne'
  BY <1>1, <1>7 DEF WorkerStep, TakeBump, Bump, BumpFails, WorkerEnds, Close, DrainTimeout
<1>8. ASSUME NEW h \in Hosts, Restart(h)
      PROVE  PickedOne'
  BY <1>1, <1>8 DEF Restart
<1>9. ASSUME NEW k \in Keys, Replicate(k) \/ Expire(k)
      PROVE  PickedOne'
  BY <1>1, <1>9 DEF Replicate, Expire
<1>10. ASSUME NEW c \in Contents, Scrub(c)
       PROVE  PickedOne'
  BY <1>1, <1>10 DEF Scrub
<1>11. CASE Tick \/ UNCHANGED vars
  BY <1>1, <1>11 DEF Tick, vars
<1> QED
  BY <1>4, <1>5, <1>6, <1>7, <1>8, <1>9, <1>10, <1>11 DEF Next

\* Every variable of the cache keeps its type, and a GET that looked up its
\* action works with one item.
LEMMA TypeAlways == Spec => [](TypeOK /\ PickedOne)
BY TypeInit, TypeNext, PickedInit, PickedNext, PTL DEF Spec

-----------------------------------------------------------------------------
(* Blobs come before their actions *)

\* A blob that is there, that a PUT left to a concurrent upload or that was
\* deleted under a PUT.
Held == blobs \cup conflicted \cup raced

\* What StoredIsReadable rests on: a host remembers only such blobs, and a PUT
\* that has looked at S3 and goes on to its metadata has one, unless its object
\* is inline.
BlobsFirst ==
  /\ \A h \in Hosts : known[h] \subseteq Held
  /\ \A p \in Puts : pc[p] = "inline" => Inline(Content(p))
  /\ \A p \in Puts : pc[p] = "note" => Content(p) \in Held
  /\ \A p \in Puts : pc[p] = "meta" /\ ~Inline(Content(p)) => Content(p) \in Held
  /\ StoredIsReadable

\* Nothing is remembered or stored at the start.
LEMMA BlobsInit == Init => BlobsFirst
BY DEF Init, BlobsFirst, StoredIsReadable, Reqs

\* A blob that goes is in no item and no memory, and is raced if a PUT relies on
\* it; a PUT, a memory or an item only comes to rely on one that is held.
LEMMA BlobsNext == TypeOK /\ BlobsFirst /\ [Next]_vars => BlobsFirst'
<1> SUFFICES ASSUME TypeOK, BlobsFirst, [Next]_vars
             PROVE  BlobsFirst'
  OBVIOUS
<1> USE AwscacheAssumption DEF stores, races, bumper, buffers, reqs, Reqs, Content, Held
<1> DEFINE
      KnownOK == \A h \in Hosts : known[h] \subseteq Held
      PutsOK  == /\ \A p \in Puts : pc[p] = "inline" => Inline(Content(p))
                 /\ \A p \in Puts : pc[p] = "note" => Content(p) \in Held
                 /\ \A p \in Puts : pc[p] = "meta" /\ ~Inline(Content(p)) => Content(p) \in Held
<1>1. KnownOK /\ PutsOK /\ StoredIsReadable
  BY DEF BlobsFirst
<1>2. SUFFICES KnownOK' /\ PutsOK' /\ StoredIsReadable'
  BY DEF BlobsFirst
<1>3. UNCHANGED <<known, blobs, races>> => KnownOK'
  BY <1>1
<1>4. ASSUME UNCHANGED load, Held \subseteq Held',
             \A p \in Puts : pc'[p] = pc[p] \/ pc'[p] \notin {"inline", "note", "meta"}
      PROVE  PutsOK'
  BY <1>1, <1>4 DEF Inline
<1>5. UNCHANGED items /\ Held \subseteq Held' => StoredIsReadable'
  BY <1>1 DEF StoredIsReadable, Inline
<1>6. ASSUME NEW r \in Reqs, NEW l, Goto(r, l)
      PROVE  \A p \in Puts : pc'[p] = IF p = r THEN l ELSE pc[p]
  BY <1>6 DEF Goto, TypeOK
<1>7. ASSUME NEW r \in Reqs, NEW a, Answer(r, a)
      PROVE  \A p \in Puts : pc'[p] = IF p = r THEN "done" ELSE pc[p]
  BY <1>7 DEF Answer, TypeOK
<1> HIDE DEF KnownOK, PutsOK
<1>8. ASSUME NEW r \in Reqs, NewSpool(r, "body") \/ SpoolGranted(r, "body") \/ GiveUp(r)
      PROVE  KnownOK' /\ PutsOK' /\ StoredIsReadable'
  BY <1>3, <1>4, <1>5, <1>6, <1>7, <1>8 DEF NewSpool, SpoolGranted, GiveUp, Buffer
<1>9. ASSUME NEW p \in Puts, PutStep(p)
      PROVE  KnownOK' /\ PutsOK' /\ StoredIsReadable'
  <2>1. ASSUME NoteBlobKnown(Host(p), Content(p)), Content(p) \in Held', Held \subseteq Held'
        PROVE  KnownOK'
    <3>1. PICK s \in SUBSET (known[Host(p)] \cup {Content(p)}) :
            known' = [known EXCEPT ![Host(p)] = s]
      BY <2>1 DEF NoteBlobKnown
    <3> QED
      BY <1>1, <2>1, <3>1 DEF KnownOK, TypeOK
  <2>2. ASSUME NEW l \in {"note", "meta"},
               \A q \in Puts : pc'[q] = IF q = p THEN l ELSE pc[q],
               Content(p) \in Held', Held \subseteq Held', UNCHANGED load
        PROVE  PutsOK'
    BY <1>1, <2>2 DEF PutsOK, Inline
  <2>3. CASE PutFindsItem(p)
    BY <1>3, <1>4, <1>5, <1>7, <2>3 DEF PutFindsItem
  <2>4. CASE PutGoesOn(p)
    <3>1. \A q \in Puts : pc'[q] = IF q = p THEN IF Inline(Content(p)) THEN "inline" ELSE "admit"
                           ELSE pc[q]
      BY <1>6, <2>4 DEF PutGoesOn
    <3>2. UNCHANGED <<load, known, blobs, races, items>>
      BY <2>4 DEF PutGoesOn
    <3>3. PutsOK'
      BY <1>1, <3>1, <3>2 DEF PutsOK, Inline
    <3> QED
      BY <1>3, <1>5, <3>2, <3>3
  <2>5. CASE PutReadsInline(p)
    <3>1. \/ \A q \in Puts : pc'[q] = IF q = p THEN "meta" ELSE pc[q]
          \/ \A q \in Puts : pc'[q] = IF q = p THEN "done" ELSE pc[q]
      BY <1>6, <1>7, <2>5 DEF PutReadsInline
    <3>2. UNCHANGED <<load, known, blobs, races, items>> /\ pc[p] = "inline"
      BY <2>5 DEF PutReadsInline
    <3>3. PutsOK'
      BY <1>1, <3>1, <3>2 DEF PutsOK, Inline
    <3> QED
      BY <1>3, <1>5, <3>2, <3>3
  <2>6. CASE PutReadsBody(p)
    <3>1. UNCHANGED <<load, known, blobs, races, items>>
      BY <2>6 DEF PutReadsBody
    <3>2. PutsOK'
      <4>1. CASE Content(p) \in known[Host(p)] /\ Goto(p, "meta")
        <5>1. Content(p) \in Held
          <6>1. Host(p) \in Hosts
            BY DEF TypeOK, Host
          <6> QED
            BY <1>1, <4>1, <6>1 DEF KnownOK
        <5>2. \A q \in Puts : pc'[q] = IF q = p THEN "meta" ELSE pc[q]
          BY <1>6, <4>1, p \in Reqs DEF Reqs
        <5>3. Held' = Held
          BY <3>1
        <5> QED
          BY <2>2, <3>1, <5>1, <5>2, <5>3
      <4>2. CASE Goto(p, "head") \/ Answer(p, "error")
        BY <1>4, <1>6, <1>7, <3>1, <4>2
      <4> QED
        BY <2>6, <4>1, <4>2 DEF PutReadsBody
    <3> QED
      BY <1>3, <1>5, <3>1, <3>2
  <2>7. CASE PutHeadsBlob(p)
    <3>1. UNCHANGED <<load, blobs, races, items>>
      BY <2>7 DEF PutHeadsBlob
    <3>2. UNCHANGED known
      BY <2>7 DEF PutHeadsBlob
    <3>3. CASE Content(p) \in blobs /\ Goto(p, "note")
      <4>1. \A q \in Puts : pc'[q] = IF q = p THEN "note" ELSE pc[q]
        BY <1>6, <3>3
      <4> QED
        BY <1>3, <1>5, <2>2, <3>1, <3>2, <3>3, <4>1
    <3>4. CASE Goto(p, "upload")
      BY <1>3, <1>4, <1>5, <1>6, <3>1, <3>2, <3>4
    <3> QED
      BY <2>7, <3>3, <3>4 DEF PutHeadsBlob
  <2>8. CASE PutUploads(p)
    <3>1. Content(p) \in Held' /\ Held \subseteq Held' /\ UNCHANGED <<load, items, known>>
      BY <2>8 DEF PutUploads
    <3>2. \A q \in Puts : pc'[q] = IF q = p THEN "note" ELSE pc[q]
      BY <1>6, <2>8 DEF PutUploads
    <3>3. KnownOK'
      BY <1>1, <3>1 DEF KnownOK
    <3> QED
      BY <1>5, <2>2, <3>1, <3>2, <3>3
  <2>9. CASE UploadFails(p)
    <3>1. Held \subseteq Held' /\ UNCHANGED <<load, items, known>>
      BY <2>9 DEF UploadFails
    <3>2. KnownOK'
      BY <1>1, <3>1 DEF KnownOK
    <3> QED
      BY <1>4, <1>5, <1>7, <2>9, <3>1, <3>2 DEF UploadFails
  <2>10. CASE PutStores(p) \/ StoreFails(p)
    <3>1. UNCHANGED <<load, known, blobs, races>> /\ pc[p] = "meta"
      BY <2>10 DEF PutStores, StoreFails
    <3>2. \A q \in Puts : pc'[q] = IF q = p THEN "done" ELSE pc[q]
      BY <1>7, <2>10 DEF PutStores, StoreFails
    <3>3. ~Inline(Content(p)) => Content(p) \in Held
      BY <1>1, <3>1 DEF PutsOK
    <3>4. CASE UNCHANGED items
      BY <1>3, <1>4, <1>5, <3>1, <3>2, <3>4
    <3>5. CASE items' = [items EXCEPT ![Key(p)] = Entry(p)]
      <4>1. \A k \in Keys : items'[k] = items[k] \/ items'[k] = Entry(p)
        BY <3>5 DEF TypeOK
      <4>2. StoredIsReadable'
        BY <1>1, <3>1, <3>3, <4>1 DEF StoredIsReadable, Entry, Inline
      <4> QED
        BY <1>3, <1>4, <3>1, <3>2, <4>2
    <3> QED
      BY <2>10, <3>4, <3>5 DEF PutStores, StoreFails, PutActionIfAbsent, Write
  <2>11. CASE PutNotes(p)
    <3>1. /\ UNCHANGED <<load, blobs, races, items>> /\ pc[p] = "note"
          /\ NoteBlobKnown(Host(p), Content(p))
      BY <2>11 DEF PutNotes
    <3>2. \A q \in Puts : pc'[q] = IF q = p THEN "meta" ELSE pc[q]
      BY <1>6, <2>11 DEF PutNotes
    <3>3. Content(p) \in Held
      BY <1>1, <3>1 DEF PutsOK
    <3>4. Held' = Held
      BY <3>1
    <3>5. KnownOK'
      BY <2>1, <3>1, <3>3, <3>4
    <3>6. PutsOK'
      BY <2>2, <3>1, <3>2, <3>3, <3>4
    <3> QED
      BY <1>5, <3>1, <3>4, <3>5, <3>6
  <2> QED
    BY <1>8, <1>9, <2>3, <2>4, <2>5, <2>6, <2>7, <2>8, <2>9, <2>10, <2>11 DEF PutStep
<1>10. ASSUME NEW g \in Gets, GetStep(g)
       PROVE  KnownOK' /\ PutsOK' /\ StoredIsReadable'
  <2>1. \A p \in Puts : g # p
    OBVIOUS
  <2>2. CASE \/ \E k \in Keys : GetReads(g, k)
             \/ GetPicks(g) \/ GetFetches(g) \/ GetVerifies(g) \/ GetServes(g)
    <3>1. UNCHANGED <<load, known, blobs, races, items>>
      BY <2>2 DEF GetReads, GetPicks, GetFetches, GetVerifies, GetServes
    <3>2. \A p \in Puts : pc'[p] = pc[p]
      BY <1>6, <1>7, <2>1, <2>2 DEF GetReads, GetPicks, GetFetches, GetVerifies, GetServes
    <3> QED
      BY <1>3, <1>4, <1>5, <3>1, <3>2
  <2> QED
    BY <1>8, <1>10, <2>2 DEF GetStep
<1>11. ASSUME NEW h \in Hosts, WorkerStep(h)
       PROVE  KnownOK' /\ PutsOK' /\ StoredIsReadable'
  <2>1. UNCHANGED <<load, known, blobs, races, pc>>
    BY <1>11 DEF WorkerStep, TakeBump, Bump, BumpFails, WorkerEnds
  <2>2. CASE UNCHANGED items
    BY <1>3, <1>4, <1>5, <2>1, <2>2
  <2>3. ASSUME NEW k \in Keys, Bump(h, k)
        PROVE  StoredIsReadable'
    <3>1. \A j \in Keys : items[j] = NoItem => items'[j] = NoItem
      BY <2>3 DEF Bump, BumpAccessTime, Write, TypeOK
    <3>2. ASSUME NEW j \in Keys, items[j] # NoItem
          PROVE  items'[j].content = items[j].content
      <4> DEFINE new == [content |-> items[k].content, atime |-> time, ttl |-> time + Retention]
      <4>1. items' = items \/ items' = [items EXCEPT ![k] = new]
        BY <2>3 DEF Bump, BumpAccessTime, Write
      <4>2. items'[j] = items[j] \/ (j = k /\ items'[j] = new)
        BY <4>1 DEF TypeOK
      <4> QED
        BY <4>2
    <3> QED
      BY <1>1, <2>1, <3>1, <3>2 DEF StoredIsReadable, Inline
  <2> QED
    BY <1>3, <1>4, <1>11, <2>1, <2>2, <2>3 DEF WorkerStep, TakeBump, BumpFails, WorkerEnds
<1>12. ASSUME NEW h \in Hosts, Close(h) \/ DrainTimeout(h)
       PROVE  KnownOK' /\ PutsOK' /\ StoredIsReadable'
  BY <1>3, <1>4, <1>5, <1>12 DEF Close, DrainTimeout
<1>13. ASSUME NEW h \in Hosts, Restart(h)
       PROVE  KnownOK' /\ PutsOK' /\ StoredIsReadable'
  <2>1. KnownOK'
    BY <1>1, <1>13 DEF Restart, KnownOK, TypeOK
  <2>2. \A p \in Puts : pc'[p] = pc[p] \/ pc'[p] = "done"
    BY <1>13 DEF Restart
  <2> QED
    BY <1>4, <1>5, <1>13, <2>1, <2>2 DEF Restart
<1>14. ASSUME NEW k \in Keys, Replicate(k) \/ Expire(k)
       PROVE  KnownOK' /\ PutsOK' /\ StoredIsReadable'
  <2>1. UNCHANGED <<load, known, blobs, races, pc>>
    BY <1>14 DEF Replicate, Expire
  <2>2. \A j \in Keys : items'[j] = items[j] \/ items'[j] = NoItem
    BY <1>14 DEF Replicate, Expire, Write, TypeOK
  <2> QED
    BY <1>1, <1>3, <1>4, <2>1, <2>2 DEF StoredIsReadable, Inline
<1>15. ASSUME NEW c \in Contents, Scrub(c)
       PROVE  KnownOK' /\ PutsOK' /\ StoredIsReadable'
  <2>1. /\ UNCHANGED <<load, known, pc, items, conflicted>> /\ blobs' = blobs \ {c}
        /\ raced' = IF c \in ReliedOn THEN raced \cup {c} ELSE raced
    BY <1>15 DEF Scrub
  <2>2. KnownOK'
    BY <1>1, <1>15, <2>1 DEF Scrub, KnownOK
  <2>3. PutsOK'
    BY <1>1, <2>1 DEF ReliedOn, PutsOK, Inline
  <2>4. StoredIsReadable'
    BY <1>1, <1>15, <2>1 DEF Scrub, StoredIsReadable, Inline
  <2> QED
    BY <2>2, <2>3, <2>4
<1>16. CASE Tick \/ UNCHANGED vars
  BY <1>3, <1>4, <1>5, <1>16 DEF Tick, vars
<1> QED
  BY <1>8, <1>9, <1>10, <1>11, <1>12, <1>13, <1>14, <1>15, <1>16 DEF Next

\* An action in DynamoDB refers to a blob that is not in S3 only where a PUT left
\* it to a concurrent upload, or where the scrubber deleted it after a PUT had
\* seen it and before the PUT's metadata was there: nothing else that is put,
\* forgotten, deleted, scrubbed or restarted, in whichever order, leaves an action
\* dangling (awscache.go:760-829, store.go:390-412).
THEOREM ActionsHaveTheirBlobs == Spec => []StoredIsReadable
<1>1. BlobsFirst => StoredIsReadable
  BY DEF BlobsFirst
<1> QED
  BY <1>1, TypeAlways, BlobsInit, BlobsNext, PTL DEF Spec

-----------------------------------------------------------------------------
(* Actions that are read stay *)

\* An item i that was read from a key some time ago is either past its time by
\* now, or the key still has an item that was accessed as recently: x, at time t.
Outlived(i, x, t) ==
  /\ i.ttl = i.atime + Retention
  /\ t > i.ttl \/ (x # NoItem /\ i.atime <= x.atime)

\* What ReadActionsLive rests on: the last access that counted is at most Relatime
\* later than the access time of the item, although it may have been judged by
\* what an eventually consistent read or an old lookup returned.
AccessesKept ==
  /\ \A p \in Puts : since[p] <= time
  /\ \A k \in Keys : items[k] # NoItem =>
       items[k].ttl = items[k].atime + Retention /\ kept[k] <= items[k].atime + Relatime
  /\ \A k \in Keys : older[k] # NoItem => Outlived(older[k], items[k], time)
  /\ \A g \in Gets, k \in Keys :
       found[g][k] \notin {NoItem, Failed, Unread} => Outlived(found[g][k], items[k], time)

\* The four ways in which a key moves on: it stays, is filled, is accessed, or
\* expires.
Succeeds(x, y, t) == \/ y = x
                     \/ x = NoItem
                     \/ y # NoItem /\ x.atime <= y.atime
                     \/ y = NoItem /\ x.ttl < t /\ x.ttl = x.atime + Retention

\* An item that was read stays outlived, however its key moves on.
LEMMA StillOutlived ==
  ASSUME NEW i \in Item, NEW x \in Item \cup {NoItem}, NEW y \in Item \cup {NoItem},
         NEW t \in Nat, NEW u \in Nat, t <= u,
         Outlived(i, x, t), Succeeds(x, y, t)
  PROVE  Outlived(i, y, u)
BY AwscacheAssumption DEF Outlived, Succeeds, Item

\* Nothing is stored at the start.
LEMMA AccessesInit == Init => AccessesKept
BY AwscacheAssumption DEF Init, AccessesKept

\* A step in which every key moves on, and items, what was read and the accesses
\* that count are as before or as new, keeps the invariant.
LEMMA AccessesStep ==
  ASSUME TypeOK, TypeOK', AccessesKept, time <= time',
         \A p \in Puts : since'[p] = since[p] \/ since'[p] = time,
         \A k \in Keys : /\ Succeeds(items[k], items'[k], time)
                         /\ older'[k] \in {older[k], items[k], items'[k]}
                         /\ items'[k] # NoItem =>
                              /\ items'[k].ttl = items'[k].atime + Retention
                              /\ kept'[k] <= items'[k].atime + Relatime,
         \A g \in Gets, k \in Keys :
           found'[g][k] \in {found[g][k], items[k], older[k], NoItem, Failed}
  PROVE  AccessesKept'
<1> USE AwscacheAssumption
<1>1. time \in Nat /\ time' \in Nat
  BY DEF TypeOK
<1>2. ASSUME NEW k \in Keys, NEW i \in Item, Outlived(i, items[k], time)
      PROVE  Outlived(i, items'[k], time')
  <2>1. items[k] \in Item \cup {NoItem} /\ items'[k] \in Item \cup {NoItem}
    BY DEF TypeOK
  <2> QED
    BY <1>1, <1>2, <2>1, StillOutlived
<1>3. ASSUME NEW k \in Keys, items[k] # NoItem
      PROVE  items[k] \in Item /\ Outlived(items[k], items[k], time)
  <2>1. items[k] \in Item
    BY <1>3 DEF TypeOK
  <2> QED
    BY <1>3, <2>1 DEF AccessesKept, Outlived, Item
<1>4. ASSUME NEW k \in Keys, items'[k] # NoItem
      PROVE  items'[k] \in Item /\ Outlived(items'[k], items'[k], time')
  <2>1. items'[k] \in Item
    BY <1>4 DEF TypeOK
  <2> QED
    BY <1>4, <2>1 DEF Outlived, Item
<1>5. ASSUME NEW k \in Keys, older[k] # NoItem
      PROVE  older[k] \in Item /\ Outlived(older[k], items[k], time)
  BY <1>5 DEF AccessesKept, TypeOK
<1>6. ASSUME NEW k \in Keys, older'[k] # NoItem
      PROVE  Outlived(older'[k], items'[k], time')
  BY <1>2, <1>3, <1>4, <1>5, <1>6
<1>7. ASSUME NEW g \in Gets, NEW k \in Keys, found'[g][k] \notin {NoItem, Failed, Unread}
      PROVE  Outlived(found'[g][k], items'[k], time')
  <2>1. CASE found'[g][k] = found[g][k]
    <3>1. found[g][k] \in Item /\ Outlived(found[g][k], items[k], time)
      BY <1>7, <2>1 DEF AccessesKept, TypeOK
    <3> QED
      BY <1>2, <2>1, <3>1
  <2>2. CASE found'[g][k] \in {items[k], older[k]}
    BY <1>2, <1>3, <1>5, <1>7, <2>2
  <2> QED
    BY <1>7, <2>1, <2>2
<1>8. ASSUME NEW p \in Puts
      PROVE  since'[p] <= time'
  <2>1. since[p] \in Nat /\ since[p] <= time
    BY DEF AccessesKept, TypeOK
  <2>2. since'[p] = since[p] \/ since'[p] = time
    OBVIOUS
  <2> QED
    BY <1>1, <2>1, <2>2
<1> QED
  BY <1>6, <1>7, <1>8 DEF AccessesKept

\* A step that leaves the stores alone keeps the invariant.
LEMMA StoresAlone ==
  ASSUME TypeOK, TypeOK', AccessesKept, UNCHANGED <<items, kept>>, time <= time',
         \A k \in Keys : older'[k] \in {older[k], items[k]},
         \A p \in Puts : since'[p] = since[p] \/ since'[p] = time,
         \A g \in Gets, k \in Keys :
           found'[g][k] \in {found[g][k], items[k], older[k], NoItem, Failed}
  PROVE  AccessesKept'
<1>1. \A k \in Keys : /\ Succeeds(items[k], items'[k], time)
                      /\ items'[k] # NoItem =>
                           /\ items'[k].ttl = items'[k].atime + Retention
                           /\ kept'[k] <= items'[k].atime + Relatime
  BY DEF Succeeds, AccessesKept
<1> QED
  BY <1>1, AccessesStep

\* An access that needs no bump is at most Relatime later than the one that its
\* item has, even if it was judged by an item of the past.
LEMMA EnqueueKeeps ==
  ASSUME TypeOK, AccessesKept, UNCHANGED items, NEW h \in Hosts, NEW k \in Keys, NEW i \in Item,
         Outlived(i, items[k], time), MaybeEnqueue(h, k, i.atime)
  PROVE  \A j \in Keys : items'[j] # NoItem =>
           /\ items'[j].ttl = items'[j].atime + Retention
           /\ kept'[j] <= items'[j].atime + Relatime
<1> USE AwscacheAssumption
<1>1. time \in Nat /\ i.atime \in Nat /\ (items[k] # NoItem => items[k].atime \in Nat)
  BY DEF TypeOK, Item
<1>2. CASE kept' = kept
  BY <1>2 DEF AccessesKept
<1>3. CASE kept' # kept
  <2>1. /\ ~(i.atime <= time - Relatime) /\ items[k] # NoItem
        /\ kept' = [kept EXCEPT ![k] = time]
    BY <1>3 DEF MaybeEnqueue
  <2>2. ~(time > i.ttl) /\ i.atime <= items[k].atime
    BY <1>1, <2>1 DEF Outlived
  <2>3. time <= items[k].atime + Relatime
    BY <1>1, <2>1, <2>2
  <2> QED
    BY <2>1, <2>3 DEF AccessesKept, TypeOK
<1> QED
  BY <1>2, <1>3

\* Nothing that a request, a worker or the stores do breaks the invariant.
LEMMA AccessesNext == TypeOK /\ TypeOK' /\ PickedOne /\ AccessesKept /\ [Next]_vars => AccessesKept'
<1> SUFFICES ASSUME TypeOK, TypeOK', PickedOne, AccessesKept, [Next]_vars
             PROVE  AccessesKept'
  OBVIOUS
<1> USE AwscacheAssumption DEF stores, races, bumper, buffers, reqs
<1>1. time \in Nat
  BY DEF TypeOK
<1>2. UNCHANGED <<items, older, kept, since, found, time>> => AccessesKept'
  BY <1>1, StoresAlone
<1>3. ASSUME NEW r \in Reqs, NewSpool(r, "body") \/ SpoolGranted(r, "body") \/ GiveUp(r)
      PROVE  AccessesKept'
  BY <1>2, <1>3 DEF NewSpool, SpoolGranted, GiveUp
<1>4. ASSUME NEW p \in Puts, PutStep(p)
      PROVE  AccessesKept'
  <2>1. CASE PutGoesOn(p)
    <3>1. \A q \in Puts : since'[q] = since[q] \/ since'[q] = time
      BY <2>1 DEF PutGoesOn, TypeOK
    <3> QED
      BY <1>1, <2>1, <3>1, StoresAlone DEF PutGoesOn
  <2>2. CASE \/ PutFindsItem(p) \/ PutReadsInline(p) \/ PutReadsBody(p) \/ PutHeadsBlob(p)
             \/ PutUploads(p) \/ UploadFails(p) \/ PutNotes(p)
    BY <1>2, <2>2
    DEF PutFindsItem, PutReadsInline, PutReadsBody, PutHeadsBlob, PutUploads, UploadFails,
        PutNotes
  <2>3. CASE PutStores(p) \/ StoreFails(p)
    <3>1. UNCHANGED <<since, found, time>>
      BY <2>3 DEF PutStores, StoreFails
    <3>2. CASE UNCHANGED <<items, older, kept>>
      BY <1>2, <3>1, <3>2
    <3>3. CASE /\ items[Key(p)] = NoItem
               /\ Write(Key(p), Entry(p)) /\ kept' = [kept EXCEPT ![Key(p)] = since[p]]
      <4>1. ASSUME NEW k \in Keys
            PROVE  /\ Succeeds(items[k], items'[k], time)
                   /\ older'[k] \in {older[k], items[k], items'[k]}
        BY <3>3 DEF Write, Succeeds, TypeOK
      <4>2. ASSUME NEW k \in Keys, items'[k] # NoItem
            PROVE  /\ items'[k].ttl = items'[k].atime + Retention
                   /\ kept'[k] <= items'[k].atime + Relatime
        <5>1. CASE k = Key(p)
          <6>1. items'[k] = Entry(p) /\ kept'[k] = since[p] /\ since[p] \in Nat
            BY <3>3, <5>1 DEF Write, TypeOK
          <6> QED
            BY <6>1 DEF Entry
        <5>2. CASE k # Key(p)
          <6>1. items'[k] = items[k] /\ kept'[k] = kept[k]
            BY <3>3, <5>2 DEF Write, TypeOK
          <6> QED
            BY <4>2, <6>1 DEF AccessesKept
        <5> QED
          BY <5>1, <5>2
      <4> QED
        BY <1>1, <3>1, <4>1, <4>2, AccessesStep
    <3> QED
      BY <2>3, <3>2, <3>3 DEF PutStores, StoreFails, PutActionIfAbsent
  <2> QED
    BY <1>3, <1>4, <2>1, <2>2, <2>3 DEF PutStep, Reqs
<1>5. ASSUME NEW g \in Gets, GetStep(g)
      PROVE  AccessesKept'
  <2>1. ASSUME NEW k \in Keys, GetReads(g, k)
        PROVE  AccessesKept'
    <3>1. \A q \in Gets, j \in Keys :
            found'[q][j] \in {found[q][j], items[j], older[j], NoItem, Failed}
      BY <2>1 DEF GetReads, Visible, TypeOK
    <3> QED
      BY <1>1, <2>1, <3>1, StoresAlone DEF GetReads
  <2>2. CASE GetPicks(g)
    <3> DEFINE Has(k) == k \in LookupKeys(g) /\ found[g][k] \notin {NoItem, Failed}
               best   == IF Has(GlobalKey) THEN GlobalKey ELSE Key(g)
    <3>1. \A q \in Gets, j \in Keys : found'[q][j] \in {found[q][j], NoItem}
      BY <2>2 DEF GetPicks, TypeOK
    <3>2. UNCHANGED <<items, older, since, time>>
      BY <2>2 DEF GetPicks
    <3>3. best \in Keys /\ Host(g) \in Hosts /\ LookupKeys(g) \subseteq Keys
      BY DEF Key, Host, Reqs, TypeOK, LookupKeys
    <3>4. CASE UNCHANGED kept
      BY <1>1, <3>1, <3>2, <3>4, StoresAlone
    <3>5. CASE Has(best) /\ MaybeEnqueue(Host(g), best, found[g][best].atime)
      <4>1. found[g][best] \notin {NoItem, Failed, Unread}
        BY <2>2, <3>5 DEF GetPicks
      <4>2. found[g][best] \in Item
        BY <3>3, <4>1 DEF TypeOK
      <4>3. Outlived(found[g][best], items[best], time)
        BY <3>3, <4>1 DEF AccessesKept
      <4> HIDE DEF best
      <4>4. \A j \in Keys : items'[j] # NoItem =>
              /\ items'[j].ttl = items'[j].atime + Retention
              /\ kept'[j] <= items'[j].atime + Relatime
        BY <3>2, <3>3, <3>5, <4>2, <4>3, EnqueueKeeps
      <4>5. \A j \in Keys : Succeeds(items[j], items'[j], time)
        BY <3>2 DEF Succeeds
      <4> QED
        BY <1>1, <3>1, <3>2, <4>4, <4>5, AccessesStep
    <3> QED
      BY <2>2, <3>4, <3>5 DEF GetPicks
  <2>3. CASE GetVerifies(g)
    <3>1. UNCHANGED <<items, older, since, found, time>>
      BY <2>3 DEF GetVerifies
    <3>2. CASE UNCHANGED kept
      BY <1>2, <3>1, <3>2
    <3>3. CASE MaybeEnqueue(Host(g), Picked(g), Hit(g).atime)
      <4>1. /\ Picked(g) \in Keys /\ Hit(g) = found[g][Picked(g)]
            /\ Hit(g) \in Item /\ Hit(g) \notin {NoItem, Failed, Unread}
        BY <2>3, PickedIsItem DEF GetVerifies
      <4>2. Outlived(Hit(g), items[Picked(g)], time) /\ Host(g) \in Hosts
        BY <4>1 DEF AccessesKept, Host, Reqs, TypeOK
      <4>3. \A j \in Keys : items'[j] # NoItem =>
              /\ items'[j].ttl = items'[j].atime + Retention
              /\ kept'[j] <= items'[j].atime + Relatime
        BY <3>1, <3>3, <4>1, <4>2, EnqueueKeeps
      <4>4. \A j \in Keys : Succeeds(items[j], items'[j], time)
        BY <3>1 DEF Succeeds
      <4> QED
        BY <1>1, <3>1, <4>3, <4>4, AccessesStep
    <3> QED
      BY <2>3, <3>2, <3>3 DEF GetVerifies
  <2>4. CASE GetFetches(g) \/ GetServes(g)
    BY <1>2, <2>4 DEF GetFetches, GetServes
  <2> QED
    BY <1>3, <1>5, <2>1, <2>2, <2>3, <2>4 DEF GetStep, Reqs
<1>6. ASSUME NEW h \in Hosts, NEW k \in Keys, Bump(h, k)
      PROVE  AccessesKept'
  <2>1. UNCHANGED <<since, found, time>> /\ BumpAccessTime(k)
    BY <1>6 DEF Bump
  <2>2. kept' = [kept EXCEPT ![k] = time]
    BY <2>1 DEF BumpAccessTime
  <2>3. CASE items[k] # NoItem /\ items[k].atime < time - Relatime
    <3> DEFINE new == [content |-> items[k].content, atime |-> time, ttl |-> time + Retention]
    <3>1. items' = [items EXCEPT ![k] = new] /\ older' = [older EXCEPT ![k] = items[k]]
      BY <2>1, <2>3 DEF BumpAccessTime, Write
    <3>2. items[k] \in Item /\ items'[k] = new
      BY <2>3, <3>1 DEF TypeOK
    <3>3. new \in Item
      BY <1>1, <3>2 DEF Item
    <3>4. ASSUME NEW j \in Keys
          PROVE  /\ Succeeds(items[j], items'[j], time)
                 /\ older'[j] \in {older[j], items[j], items'[j]}
                 /\ items'[j] # NoItem =>
                      /\ items'[j].ttl = items'[j].atime + Retention
                      /\ kept'[j] <= items'[j].atime + Relatime
      <4>1. CASE j = k
        <5>1. kept'[j] = time /\ older'[j] = items[j]
          BY <2>2, <3>1, <4>1 DEF TypeOK
        <5>2. items'[k].atime = time /\ items'[k].ttl = time + Retention /\ items'[k] # NoItem
          BY <3>2, <3>3
        <5>3. items[k].atime <= time
          BY <1>1, <2>3, <3>2 DEF Item
        <5> QED
          BY <1>1, <4>1, <5>1, <5>2, <5>3 DEF Succeeds
      <4>2. CASE j # k
        <5>1. items'[j] = items[j] /\ older'[j] = older[j] /\ kept'[j] = kept[j]
          BY <2>2, <3>1, <4>2 DEF TypeOK
        <5> QED
          BY <5>1 DEF Succeeds, AccessesKept
      <4> QED
        BY <4>1, <4>2
    <3> QED
      BY <1>1, <2>1, <3>4, AccessesStep
  <2>4. CASE ~(items[k] # NoItem /\ items[k].atime < time - Relatime)
    <3>1. UNCHANGED <<items, older>>
      BY <2>1, <2>4 DEF BumpAccessTime
    <3>2. ASSUME NEW j \in Keys
          PROVE  /\ Succeeds(items[j], items'[j], time)
                 /\ older'[j] \in {older[j], items[j], items'[j]}
                 /\ items'[j] # NoItem =>
                      /\ items'[j].ttl = items'[j].atime + Retention
                      /\ kept'[j] <= items'[j].atime + Relatime
      <4>1. CASE j = k /\ items[k] # NoItem
        <5>1. kept'[k] = time /\ items[k].atime \in Nat
          BY <2>2, <4>1 DEF TypeOK, Item
        <5>2. time <= items[k].atime + Relatime
          BY <1>1, <2>4, <4>1, <5>1
        <5> QED
          BY <3>1, <4>1, <5>1, <5>2 DEF Succeeds, AccessesKept
      <4>2. CASE j # k \/ items[k] = NoItem
        BY <2>2, <3>1, <4>2 DEF Succeeds, AccessesKept, TypeOK
      <4> QED
        BY <4>1, <4>2
    <3> QED
      BY <1>1, <2>1, <3>1, <3>2, AccessesStep
  <2> QED
    BY <2>3, <2>4
<1>7. ASSUME NEW h \in Hosts, WorkerStep(h)
      PROVE  AccessesKept'
  BY <1>2, <1>6, <1>7 DEF WorkerStep, TakeBump, BumpFails, WorkerEnds
<1>8. ASSUME NEW h \in Hosts, Close(h) \/ DrainTimeout(h) \/ Restart(h)
      PROVE  AccessesKept'
  BY <1>2, <1>8 DEF Close, DrainTimeout, Restart
<1>9. ASSUME NEW k \in Keys, Replicate(k)
      PROVE  AccessesKept'
  <2>1. \A j \in Keys : older'[j] \in {older[j], items[j]}
    BY <1>9 DEF Replicate, TypeOK
  <2> QED
    BY <1>1, <1>9, <2>1, StoresAlone DEF Replicate
<1>10. ASSUME NEW k \in Keys, Expire(k)
       PROVE  AccessesKept'
  <2>1. ASSUME NEW j \in Keys
        PROVE  /\ Succeeds(items[j], items'[j], time)
               /\ older'[j] \in {older[j], items[j], items'[j]}
               /\ items'[j] # NoItem =>
                    /\ items'[j].ttl = items'[j].atime + Retention
                    /\ kept'[j] <= items'[j].atime + Relatime
    <3>1. CASE j = k
      <4>1. items'[k] = NoItem /\ older'[k] = items[k]
        BY <1>10 DEF Expire, Write, TypeOK
      <4>2. items[k].ttl < time /\ items[k].ttl = items[k].atime + Retention
        BY <1>10 DEF Expire, AccessesKept
      <4> QED
        BY <3>1, <4>1, <4>2 DEF Succeeds
    <3>2. CASE j # k
      BY <1>10, <3>2 DEF Expire, Write, TypeOK, Succeeds, AccessesKept
    <3> QED
      BY <3>1, <3>2
  <2> QED
    BY <1>1, <1>10, <2>1, AccessesStep DEF Expire
<1>11. ASSUME NEW c \in Contents, Scrub(c)
       PROVE  AccessesKept'
  BY <1>2, <1>11 DEF Scrub
<1>12. CASE Tick
  BY <1>1, <1>12, StoresAlone DEF Tick
<1>13. CASE UNCHANGED vars
  BY <1>2, <1>13 DEF vars
<1> QED
  BY <1>3, <1>4, <1>5, <1>7, <1>8, <1>9, <1>10, <1>11, <1>12, <1>13 DEF Next

\* DynamoDB's TTL never deletes an action within the retention time of an access
\* that counted, less Relatime, although hosts judge accesses by stale items, and
\* old PUTs and bumps arrive late (atime.go:56-74, 126-140, store.go:315-339).
THEOREM ReadActionsStay == Spec => ReadActionsLive
<1> DEFINE Live == \A k \in Keys : items[k] # NoItem /\ items'[k] = NoItem =>
                     time > kept[k] + Retention - Relatime
<1>1. ASSUME TypeOK, AccessesKept, [Next]_vars
      PROVE  [Live]_vars
  <2> SUFFICES ASSUME NEW k \in Keys, items[k] # NoItem, items'[k] = NoItem
               PROVE  time > kept[k] + Retention - Relatime
    OBVIOUS
  <2> USE <1>1, AwscacheAssumption DEF stores, races, bumper, buffers, reqs
  <2>1. ASSUME items[k].ttl < time
        PROVE  time > kept[k] + Retention - Relatime
    <3>1. items[k].atime \in Nat /\ kept[k] \in Nat /\ time \in Nat
      BY DEF TypeOK, Item
    <3>2. items[k].ttl = items[k].atime + Retention /\ kept[k] <= items[k].atime + Relatime
      BY DEF AccessesKept
    <3> QED
      BY <2>1, <3>1, <3>2
  <2>2. items' # items
    OBVIOUS
  <2>3. ASSUME NEW p \in Puts, PutStep(p)
        PROVE  FALSE
    <3>1. PutActionIfAbsent(p)
      BY <2>2, <2>3
      DEF PutStep, NewSpool, SpoolGranted, PutFindsItem, PutGoesOn, PutReadsInline,
          PutReadsBody, PutHeadsBlob, PutUploads, UploadFails, PutNotes, PutStores,
          StoreFails
    <3>2. items' = [items EXCEPT ![Key(p)] = Entry(p)]
      BY <2>2, <3>1 DEF PutActionIfAbsent, Write
    <3>3. Entry(p) \in Item /\ NoItem \notin Item
      BY EntryType
    <3>4. items \in [Keys -> Item \cup {NoItem}]
      BY DEF TypeOK
    <3> QED
      BY <3>2, <3>3, <3>4
  <2>4. ASSUME NEW h \in Hosts, NEW j \in Keys, Bump(h, j)
        PROVE  FALSE
    <3> DEFINE new == [content |-> items[j].content, atime |-> time, ttl |-> time + Retention]
    <3>1. items' = [items EXCEPT ![j] = new] /\ items[j] # NoItem
      BY <2>2, <2>4 DEF Bump, BumpAccessTime, Write
    <3>2. new \in Item
      <4>1. items \in [Keys -> Item \cup {NoItem}]
        BY DEF TypeOK
      <4>2. items[j].content \in Contents
        BY <3>1, <4>1 DEF Item
      <4>3. time \in Nat /\ time + Retention \in Nat
        BY DEF TypeOK
      <4> QED
        BY <4>2, <4>3 DEF Item
    <3> QED
      BY <3>1, <3>2 DEF TypeOK
  <2>5. ASSUME NEW j \in Keys, Expire(j)
        PROVE  time > kept[k] + Retention - Relatime
    <3>1. j = k
      BY <2>5 DEF Expire, Write, TypeOK
    <3> QED
      BY <2>1, <2>5, <3>1 DEF Expire
  <2>6. ASSUME NEW g \in Gets, GetStep(g)
        PROVE  FALSE
    BY <2>2, <2>6 DEF GetStep, GetReads, GetPicks, GetFetches, GetVerifies, GetServes,
                      NewSpool, SpoolGranted
  <2> QED
    BY <2>2, <2>3, <2>4, <2>5, <2>6
    DEF Next, vars, WorkerStep, TakeBump, BumpFails, WorkerEnds, Close, DrainTimeout, Restart,
        GiveUp, Replicate, Scrub, Tick
<1>2. Spec => [](TypeOK /\ PickedOne /\ AccessesKept)
  BY TypeAlways, AccessesInit, AccessesNext, PTL DEF Spec
<1> QED
  BY <1>1, <1>2, PTL DEF Spec, ReadActionsLive
=============================================================================
