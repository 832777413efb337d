------------------------------ MODULE Snapshot ------------------------------
(***************************************************************************)
(* A writable snapshot of guestbd (guestbd/snapshot.go): pages written by  *)
(* clients go to fresh slots of a dirty file, other pages come from the    *)
(* base image, and a cache that is shared by all snapshots holds page      *)
(* contents by their hash.  Requests work page by page; a part of a page   *)
(* is written by reading the page, changing it and storing all of it.      *)
(*                                                                         *)
(* The clients are the connections that use the snapshot (more than one    *)
(* with WithSharedSnapshot), each a request at a time (serveTransmission). *)
(***************************************************************************)
EXTENDS Integers, Sequences, FiniteSets

CONSTANTS
  Clients,
  WriteRanges, \* the ranges that clients write and trim: <<offset, end>>
  ReadRanges,  \* the ranges that they read
  PageSize,    \* s.pageSize
  NumPages,    \* pages that requests reach; they may lie past the image's end
  Size,        \* bytes of the image
  CachePages,  \* c.maxPages, 0 for no cache (WithMaxMem(0))
  MaxOps       \* bound: requests that change the snapshot

Least(a, b) == IF a <= b THEN a ELSE b

Bytes == 0..(NumPages * PageSize - 1)

ASSUME SnapshotAssumption ==
  /\ PageSize \in Nat \ {0} /\ NumPages \in Nat \ {0} /\ CachePages \in Nat /\ MaxOps \in Nat
  /\ Size \in 1..(NumPages * PageSize)
  /\ WriteRanges \cup ReadRanges \subseteq
       {r \in Bytes \X (1..(NumPages * PageSize)) : r[1] < r[2]}

VARIABLES
  dirtyPages,  \* per page: its slot in the dirty file and its hash, or Clean
  dirtyFile,   \* the slots written so far; the next one is nextDirtyNum
  closed,      \* Close has set c.dirtyFile to nil
  pageHashes,  \* the pages of the base image whose hash is known
  cache,       \* pageCache: set of [hash, data]
  client,      \* per client: its request in progress
  copy,        \* the copy of the base image that WriteDirtyTo writes to
  met,         \* ghost: clients whose last write or trim met another at one of its pages
  ops

vars == <<dirtyPages, dirtyFile, closed, pageHashes, cache, client, copy, met, ops>>

Pages      == 0..(NumPages - 1)
PageOf(b)  == b \div PageSize
BytesOf(p) == {b \in Bytes : PageOf(b) = p}

\* A byte's value is what it was last set to: 2 by the base image, 1 by a
\* write, 0 by zeroing (and past the end of the image).
Values == 0..2
Base   == [b \in Bytes |-> IF b < Size THEN 2 ELSE 0]

\* A file of the image's size; what is past its end is not there.
Absent    == 3
ImageCopy == [b \in Bytes |-> IF b < Size THEN 2 ELSE Absent]

\* hashPage: SHA-256 is taken to be injective, so that a hash is the list of
\* the page's bytes, wherever the page lies.
HashPage(p, data) == [i \in 0..(PageSize - 1) |-> data[p * PageSize + i]]
Hashes == [0..(PageSize - 1) -> Values]

Clean == [slot |-> 0, hash |-> <<>>]

\* A request goes through the ranges of todo page by page.
Request(op, r, todo) ==
  [op |-> op, range |-> r, todo |-> todo,
   pc |-> IF todo = <<>> THEN "end" ELSE "page", dp |-> Clean, want |-> <<>>, buf |-> <<>>]

IdleClient == Request("none", <<0, 0>>, <<>>)

\* A request at the step pc of its current page, with what was looked up of the
\* page and the bytes that were read.
AtPage(cl, pc, dp, want, buf) ==
  [op |-> cl.op, range |-> cl.range, todo |-> cl.todo,
   pc |-> pc, dp |-> dp, want |-> want, buf |-> buf]

\* The page as a reader sees it at this moment, and the whole snapshot.
PageView(p) ==
  IF dirtyPages[p] = Clean THEN HashPage(p, Base) ELSE dirtyFile[dirtyPages[p].slot]
View == [b \in Bytes |-> PageView(PageOf(b))[b % PageSize]]

-----------------------------------------------------------------------------
(* Requests *)

FirstFullPage(off)    == (off + PageSize - 1) \div PageSize
LastFullPageExcl(end) == end \div PageSize

\* Fault: the partial page at the end is forgotten.
TrimWrites_SkipsEnd(off, end) ==
  IF off % PageSize # 0
  THEN << <<off, off + Least(PageSize - (off % PageSize), end - off)>> >> ELSE <<>>

\* handleTrim zeroes the partial pages at both ends of the range, once if they
\* are the same page.
TrimWrites(off, end) ==
  (IF off % PageSize # 0
   THEN << <<off, off + Least(PageSize - (off % PageSize), end - off)>> >> ELSE <<>>)
  \o
  (IF end % PageSize # 0 /\ LastFullPageExcl(end) >= FirstFullPage(off)
   THEN << <<LastFullPageExcl(end) * PageSize, end>> >> ELSE <<>>)

Writing(c) == client[c].op \in {"write", "trim"}

\* The callers of WriteDirtyTo ensure that nothing writes meanwhile.
NoSave  == \A d \in Clients : client[d].op # "save"
NoWrite == \A d \in Clients : ~Writing(d)

MayWrite(c) == client[c].op = "none" /\ ops < MaxOps /\ NoSave

\* Nothing keeps writers of other connections from the pages of c's range r.
AtSamePages(c, r) ==
  {d \in Clients \ {c} : /\ Writing(d)
                         /\ PageOf(client[d].range[1]) <= PageOf(r[2] - 1)
                         /\ PageOf(r[1]) <= PageOf(client[d].range[2] - 1)}

Meets(c, r) ==
  LET others == AtSamePages(c, r)
  IN met' = (met \ {c}) \cup others \cup (IF others = {} THEN {} ELSE {c})

StartRead(c, r) ==
  /\ client[c].op = "none"
  /\ client' = [client EXCEPT ![c] = Request("read", r, <<r>>)]
  /\ UNCHANGED <<dirtyPages, dirtyFile, closed, pageHashes, cache, copy, met, ops>>

StartWrite(c, r) ==
  /\ MayWrite(c) /\ Meets(c, r)
  /\ ops' = ops + 1
  /\ client' = [client EXCEPT ![c] = Request("write", r, <<r>>)]
  /\ UNCHANGED <<dirtyPages, dirtyFile, closed, pageHashes, cache, copy>>

StartTrim(c, r) ==
  /\ MayWrite(c) /\ Meets(c, r)
  /\ ops' = ops + 1
  /\ client' = [client EXCEPT ![c] = Request("trim", r, TrimWrites(r[1], r[2]))]
  /\ UNCHANGED <<dirtyPages, dirtyFile, closed, pageHashes, cache, copy>>

\* WriteDirtyTo lists the dirty pages under c.mu, in order, and skips those
\* past the end of the image.
DirtyRanges ==
  LET dirty == {p \in Pages : dirtyPages[p] # Clean /\ p * PageSize < Size}
      nth(i) == CHOOSE p \in dirty : Cardinality({q \in dirty : q < p}) = i - 1
  IN [i \in 1..Cardinality(dirty) |-> <<nth(i) * PageSize, (nth(i) + 1) * PageSize>>]

StartSave(c) ==
  /\ client[c].op = "none" /\ NoSave /\ NoWrite
  /\ client' = [client EXCEPT ![c] = Request("save", <<0, Size>>, DirtyRanges)]
  /\ copy' = ImageCopy
  /\ UNCHANGED <<dirtyPages, dirtyFile, closed, pageHashes, cache, met, ops>>

-----------------------------------------------------------------------------
(* One page of ReadAt, WriteAt or WriteDirtyTo *)

Page(c) == PageOf(client[c].todo[1][1])

\* The bytes of the current page that the request covers.
Covered(c) ==
  {b \in BytesOf(Page(c)) : client[c].todo[1][1] <= b /\ b < client[c].todo[1][2]}

\* Go on with the next page, the next range, or what follows them.
Advance(cl) ==
  LET r    == cl.todo[1]
      next == (PageOf(r[1]) + 1) * PageSize
      todo == IF next < r[2] THEN [cl.todo EXCEPT ![1] = <<next, r[2]>>] ELSE Tail(cl.todo)
  IN Request(cl.op, cl.range, todo)

\* readPageData looks the page up under c.mu (want is what it held then) ...
Lookup(c) ==
  /\ client[c].op # "none" /\ client[c].pc = "page"
  /\ Writing(c) => Covered(c) # BytesOf(Page(c))
  /\ client' = [client EXCEPT ![c] =
                  AtPage(@, "data", dirtyPages[Page(c)], PageView(Page(c)), <<>>)]
  /\ UNCHANGED <<dirtyPages, dirtyFile, closed, pageHashes, cache, copy, met, ops>>

\* Put: which pages the cache evicts is left open.
CachePut(h, data) ==
  IF CachePages = 0 \/ \E x \in cache : x.hash = h THEN cache' = cache
  ELSE \E kept \in SUBSET cache :
         /\ Cardinality(kept) = Least(Cardinality(cache), CachePages - 1)
         /\ cache' = kept \cup {[hash |-> h, data |-> data]}

\* ... and then, unlocked, takes the bytes from the cache or from the file,
ReadDirty(c) ==
  LET dp  == client[c].dp
      hit == {x \in cache : x.hash = dp.hash}
  IN
  /\ client[c].op # "none" /\ client[c].pc = "data" /\ dp # Clean
  /\ \/ \E x \in hit : client' = [client EXCEPT ![c] = AtPage(@, "got", @.dp, @.want, x.data)]
                       /\ UNCHANGED cache
     \/ /\ hit = {} /\ ~closed
        /\ client' = [client EXCEPT ![c] = AtPage(@, "got", dp, @.want, dirtyFile[dp.slot])]
        /\ CachePut(dp.hash, dirtyFile[dp.slot])
  /\ UNCHANGED <<dirtyPages, dirtyFile, closed, pageHashes, copy, met, ops>>

\* or, for a clean page, from the base image (readPage), which is asked for the
\* bytes unless the page's hash is known and cached.
ReadBase(c) ==
  LET h   == HashPage(Page(c), Base)
      hit == IF Page(c) \in pageHashes THEN {x \in cache : x.hash = h} ELSE {}
  IN
  /\ client[c].op # "none" /\ client[c].pc = "data" /\ client[c].dp = Clean
  /\ \/ \E x \in hit : client' = [client EXCEPT ![c] = AtPage(@, "got", @.dp, @.want, x.data)]
                       /\ UNCHANGED <<cache, pageHashes>>
     \/ /\ hit = {}
        /\ client' = [client EXCEPT ![c] = AtPage(@, "got", Clean, @.want, h)]
        /\ pageHashes' = IF CachePages = 0 THEN pageHashes ELSE pageHashes \cup {Page(c)}
        /\ CachePut(h, h)
  /\ UNCHANGED <<dirtyPages, dirtyFile, closed, copy, met, ops>>

\* Reading fails, as it must when the dirty file is closed.
ReadFails(c) ==
  /\ client[c].op # "none" /\ client[c].pc = "data"
  /\ client' = [client EXCEPT ![c] = IdleClient]
  /\ UNCHANGED <<dirtyPages, dirtyFile, closed, pageHashes, cache, copy, met, ops>>

\* A read request copies its part of the page out.
Deliver(c) ==
  /\ client[c].op = "read" /\ client[c].pc = "got"
  /\ client' = [client EXCEPT ![c] = Advance(@)]
  /\ UNCHANGED <<dirtyPages, dirtyFile, closed, pageHashes, cache, copy, met, ops>>

\* Fault: the last page is written in full.
SavePage_NotTruncated(c) ==
  /\ client[c].op = "save" /\ client[c].pc = "got"
  /\ copy' = [b \in Bytes |-> IF PageOf(b) = Page(c)
                              THEN client[c].buf[b % PageSize] ELSE copy[b]]
  /\ client' = [client EXCEPT ![c] = Advance(@)]
  /\ UNCHANGED <<dirtyPages, dirtyFile, closed, pageHashes, cache, met, ops>>

\* WriteDirtyTo writes the page up to the end of the image.
SavePage(c) ==
  /\ client[c].op = "save" /\ client[c].pc = "got"
  /\ copy' = [b \in Bytes |-> IF PageOf(b) = Page(c) /\ b < Size
                              THEN client[c].buf[b % PageSize] ELSE copy[b]]
  /\ client' = [client EXCEPT ![c] = Advance(@)]
  /\ UNCHANGED <<dirtyPages, dirtyFile, closed, pageHashes, cache, met, ops>>

\* Fault: what the write does not cover is not taken from the page as it was.
NewPage_Zeroes(c) ==
  [i \in 0..(PageSize - 1) |-> IF Page(c) * PageSize + i \notin Covered(c) THEN 0
                               ELSE IF client[c].op = "write" THEN 1 ELSE 0]

\* The page that a write stores: its bytes over those it has read, if any.
NewPage(c) ==
  [i \in 0..(PageSize - 1) |-> IF Page(c) * PageSize + i \notin Covered(c) THEN client[c].buf[i]
                               ELSE IF client[c].op = "write" THEN 1 ELSE 0]

ReadyToStore(c) ==
  /\ Writing(c)
  /\ client[c].pc = "got" \/ (client[c].pc = "page" /\ Covered(c) = BytesOf(Page(c)))

HashIfCaching(data) == IF CachePages = 0 THEN <<>> ELSE data

\* Fault: a page that is dirty already is overwritten in its slot.
Store_InPlace(c) ==
  LET p    == Page(c)
      data == NewPage(c)
      slot == IF dirtyPages[p] = Clean THEN Len(dirtyFile) + 1 ELSE dirtyPages[p].slot
  IN
  /\ ReadyToStore(c) /\ ~closed
  /\ dirtyFile' = IF slot > Len(dirtyFile) THEN Append(dirtyFile, data)
                  ELSE [dirtyFile EXCEPT ![slot] = data]
  /\ dirtyPages' = [dirtyPages EXCEPT ![p] = [slot |-> slot, hash |-> HashIfCaching(data)]]
  /\ CachePut(data, data)
  /\ client' = [client EXCEPT ![c] = Advance(@)]
  /\ UNCHANGED <<closed, pageHashes, copy, met, ops>>

\* Under c.mu: a new slot gets the whole page, and dirtyPages points to it.
Store(c) ==
  LET data == NewPage(c) IN
  /\ ReadyToStore(c) /\ ~closed
  /\ dirtyFile' = Append(dirtyFile, data)
  /\ dirtyPages' = [dirtyPages EXCEPT ![Page(c)] = [slot |-> Len(dirtyFile) + 1,
                                                    hash |-> HashIfCaching(data)]]
  /\ CachePut(data, data)
  /\ client' = [client EXCEPT ![c] = Advance(@)]
  /\ UNCHANGED <<closed, pageHashes, copy, met, ops>>

\* The write to the dirty file fails; its slot is used up.
StoreFails(c) ==
  /\ ReadyToStore(c)
  /\ dirtyFile' = Append(dirtyFile, [i \in 0..(PageSize - 1) |-> 0])
  /\ client' = [client EXCEPT ![c] = IdleClient]
  /\ UNCHANGED <<dirtyPages, closed, pageHashes, cache, copy, met, ops>>

\* The last step of handleTrim: fully covered pages revert to the base image.
TrimEnd(c) ==
  /\ client[c].op = "trim" /\ client[c].pc = "end"
  /\ dirtyPages' = [p \in Pages |->
       IF FirstFullPage(client[c].range[1]) <= p /\ p < LastFullPageExcl(client[c].range[2])
       THEN Clean ELSE dirtyPages[p]]
  /\ client' = [client EXCEPT ![c] = AtPage(@, "done", Clean, <<>>, <<>>)]
  /\ UNCHANGED <<dirtyFile, closed, pageHashes, cache, copy, met, ops>>

\* The request is answered; a copy is done with.
Reply(c) ==
  /\ client[c].op # "none" /\ client[c].pc = IF client[c].op = "trim" THEN "done" ELSE "end"
  /\ client' = [client EXCEPT ![c] = IdleClient]
  /\ copy' = IF client[c].op = "save" THEN ImageCopy ELSE copy
  /\ UNCHANGED <<dirtyPages, dirtyFile, closed, pageHashes, cache, met, ops>>

Close ==
  /\ ~closed /\ closed' = TRUE
  /\ UNCHANGED <<dirtyPages, dirtyFile, pageHashes, cache, client, copy, met, ops>>

-----------------------------------------------------------------------------

Init ==
  /\ dirtyPages = [p \in Pages |-> Clean]
  /\ dirtyFile = <<>> /\ closed = FALSE
  /\ pageHashes = {} /\ cache = {}
  /\ client = [c \in Clients |-> IdleClient]
  /\ copy = ImageCopy
  /\ met = {} /\ ops = 0

ReadPageData(c) == Lookup(c) \/ ReadDirty(c) \/ ReadBase(c) \/ ReadFails(c)
WriteAt(c)      == \/ \E r \in WriteRanges : StartWrite(c, r)
                   \/ Store(c) \/ StoreFails(c)
HandleTrim(c)   == (\E r \in WriteRanges : StartTrim(c, r)) \/ TrimEnd(c)
ReadAt(c)       == (\E r \in ReadRanges : StartRead(c, r)) \/ Deliver(c)
WriteDirtyTo(c) == StartSave(c) \/ SavePage(c)

Next ==
  \/ Close
  \/ \E c \in Clients : \/ ReadAt(c) \/ WriteAt(c) \/ HandleTrim(c) \/ WriteDirtyTo(c)
                        \/ ReadPageData(c) \/ Reply(c)

Spec == Init /\ [][Next]_vars

-----------------------------------------------------------------------------
(* Properties *)

Buffers    == Hashes \cup {<<>>}
DirtyPages == [slot : Nat, hash : Buffers]
Requests   == [op : {"none", "read", "write", "trim", "save"}, range : Nat \X Nat,
               todo : Seq(Nat \X Nat), pc : {"page", "data", "got", "end", "done"},
               dp : DirtyPages, want : Buffers, buf : Buffers]

\* Type invariant.
TypeOK ==
  /\ dirtyPages \in [Pages -> DirtyPages] /\ dirtyFile \in Seq(Hashes)
  /\ closed \in BOOLEAN /\ pageHashes \subseteq Pages
  /\ cache \subseteq [hash : Hashes, data : Hashes]
  /\ IsFiniteSet(cache) /\ Cardinality(cache) <= CachePages
  /\ client \in [Clients -> Requests]
  /\ copy \in [Bytes -> Values \cup {Absent}] /\ met \subseteq Clients /\ ops \in 0..MaxOps

\* readPageData returns the page as it was when it looked it up, although the
\* lock is free while the bytes are fetched: a writer that stores the page
\* meanwhile never shows through.
ReadIsCurrent ==
  \A c \in Clients : client[c].op # "none" /\ client[c].pc = "got" => client[c].buf = client[c].want

\* The page cache, which every snapshot of the server shares, never holds bytes
\* under the hash of others.
CacheSound == \A x \in cache : x.hash = x.data

\* c's request is past the step at which it has done all its work.
Finished(c, op) == client[c].op = op /\ client[c].pc = IF op = "trim" THEN "done" ELSE "end"

\* When a write or a trim is answered, every byte of its range is what the
\* request makes it, through partial first and last pages and pages that revert
\* to the base image, unless another writer was at one of its pages meanwhile.
WritesLand ==
  \A c \in Clients \ met : \A b \in Bytes :
    Writing(c) /\ client[c].range[1] <= b /\ b < client[c].range[2] =>
      /\ Finished(c, "write") => View[b] = 1
      /\ Finished(c, "trim") =>
           View[b] = IF \A d \in BytesOf(PageOf(b)) :
                          client[c].range[1] <= d /\ d < client[c].range[2]
                     THEN Base[b] ELSE 0

\* The page that c is about to store was stored or trimmed after c read it.
ReadStale(c) == client[c].pc = "got" /\ client[c].dp # dirtyPages[Page(c)]

\* A request changes bytes outside its range only by taking back what was done to
\* the page after its read-modify-write had read it: nothing that was written
\* before is lost, and no byte of another page.
OnlyOwnBytesChange ==
  [][\A b \in Bytes : View'[b] # View[b] =>
       \E c \in Clients :
         /\ Writing(c) /\ client'[c] # client[c]
         /\ \/ client[c].range[1] <= b /\ b < client[c].range[2]
            \/ PageOf(b) = Page(c) /\ ReadStale(c)]_vars

\* WriteDirtyTo makes a copy of the base image equal to the snapshot, with the
\* last page cut at the image's size.
SaveIsExact ==
  \A c \in Clients : Finished(c, "save") =>
    copy = [b \in Bytes |-> IF b < Size THEN View[b] ELSE Absent]
=============================================================================
