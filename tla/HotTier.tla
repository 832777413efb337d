------------------------------ MODULE HotTier ------------------------------
(***************************************************************************)
(* The hot tier of gocached (hottier.go, gocached.go, putqueue.go): a      *)
(* bounded directory of copies of recently used blob files, the LRU index  *)
(* of it that lives in memory, and the goroutines that race over both: GET *)
(* handlers, promotions, the flusher, the cleanup loop and the scan at     *)
(* startup.  The index has a mutex; the files have none.                   *)
(*                                                                         *)
(* A name is the base name of a blob file.  Temporary files ("upload-*")   *)
(* are not entries of the tier and are left out.                           *)
(***************************************************************************)
EXTENDS Integers, Sequences, FiniteSets, FiniteSetsExt

CONSTANTS
  Names,       \* blob files
  NoName,      \* no blob file
  SizeOf,      \* [Names -> Nat \ {0}]
  HotCap,      \* srv.hotCap
  Readers,     \* GET handlers
  Promoters    \* goroutines of promoteToHot (bound: as many at a time)

\* The goroutines of which there is one.
Flusher == "flusher"
Cleaner == "cleaner"
Scanner == "scanner"

ASSUME HotTierAssumption ==
  /\ NoName \notin Names
  /\ SizeOf \in [Names -> Nat \ {0}] /\ HotCap \in Nat \ {0}
  /\ Readers \cap Promoters = {}
  /\ (Readers \cup Promoters) \cap {Flusher, Cleaner, Scanner} = {}

VARIABLES
  main,      \* files of the main blob directory (all of them have rows)
  hotFile,   \* files of the hot directory
  lru,       \* hotIndex.ll and ents: the entries, most recently used first
  usage,     \* hotIndex.usage
  ready,     \* hotIndex.ready
  inflight,  \* hotIndex.inflight
  w,         \* per goroutine: where it is
  scanned    \* the scan: names it has yet to visit and the ones it has recorded;
             \* history, until it ends: the files whose entry a GET dropped

index == <<lru, usage>>
files == <<main, hotFile>>
vars  == <<files, index, ready, inflight, w, scanned>>

Workers == Readers \cup Promoters \cup {Flusher, Cleaner, Scanner}

\* A goroutine: where it is, the blob file it is about, and the evicted files
\* that it still has to unlink.
At(pc, n)   == [pc |-> pc, name |-> n, vict |-> {}]
Idle        == At("idle", NoName)
Go(g, st)   == w' = [w EXCEPT ![g] = st]

Listed(s) == {s[i] : i \in 1..Len(s)}
Entries   == Listed(lru)

\* The bytes of the files in S, one by one, and their number.
BytesOf(S) == UNION {{n} \X (1..SizeOf[n]) : n \in S}
Bytes(S)   == Cardinality(BytesOf(S))

-----------------------------------------------------------------------------
(* hotIndex: each operation is one critical section of its mutex *)

\* The list without the element of n, which the map ents finds.
Without(n) ==
  IF n \in Entries
  THEN LET e == CHOOSE i \in 1..Len(lru) : lru[i] = n
       IN SubSeq(lru, 1, e - 1) \o SubSeq(lru, e + 1, Len(lru))
  ELSE lru

ToFront(n) == <<n>> \o Without(n)

Touch(n) == lru' = IF n \in Entries THEN ToFront(n) ELSE lru

\* Fault: an entry that is already there is counted again.
Add_CountsAgain(n) == lru' = ToFront(n) /\ usage' = usage + SizeOf[n]

\* add: an entry that is already there is not counted again.
Add(n) ==
  /\ lru' = ToFront(n)
  /\ usage' = usage + (IF n \in Entries THEN 0 ELSE SizeOf[n])

Remove(n) ==
  /\ lru' = Without(n)
  /\ usage' = usage - (IF n \in Entries THEN SizeOf[n] ELSE 0)

\* evictLRU: how many entries stay when the oldest ones go until usage is at
\* most target.
Kept(target) == Max({k \in 0..Len(lru) : Bytes({lru[i] : i \in 1..k}) <= target})

\* Fault: the check of the promotions that are under way is missing.
MayPromote_Again(n) == ready /\ n \notin Entries

\* tryStartPromotion's condition.
MayPromote(n) == ready /\ n \notin Entries /\ n \notin inflight

-----------------------------------------------------------------------------
(* getObjectFromDiskOrPeer *)

\* A GET has found the row of a blob that is stored as a file, and opens the hot
\* file ...
GetHit(r, n) ==
  /\ w[r] = Idle /\ n \in main
  /\ n \in hotFile
  /\ Touch(n)
  /\ UNCHANGED <<files, usage, ready, inflight, w, scanned>>

\* ... or goes on to the main directory, after any error: the file is not there,
\* or it is and cannot be opened.
GetMissesHot(r, n) ==
  /\ w[r] = Idle /\ n \in main
  /\ Go(r, At("openMain", n))
  /\ UNCHANGED <<files, index, ready, inflight, scanned>>

\* The file is served from main, or the open fails: the blob was evicted since,
\* or another error.
GetOpenMain(r) ==
  /\ w[r].pc = "openMain"
  /\ \/ w[r].name \in main /\ Go(r, At("drop", w[r].name))
     \/ Go(r, Idle)
  /\ UNCHANGED <<files, index, ready, inflight, scanned>>

\* "The index may still hold an entry if the hot file vanished": it is dropped
\* without another look at the file, which may be there all the same.
GetDropEntry(r) ==
  /\ w[r].pc = "drop"
  /\ Remove(w[r].name)
  /\ Go(r, At("try", w[r].name))
  /\ scanned' = [scanned EXCEPT !.dropped =
                    IF w[Scanner].pc = "walk" THEN @ \cup ({w[r].name} \cap Entries \cap hotFile) ELSE {}]
  /\ UNCHANGED <<files, ready, inflight>>

GetStartPromotion(r) ==
  /\ w[r].pc = "try" /\ MayPromote(w[r].name)
  /\ inflight' = inflight \cup {w[r].name}
  /\ \E g \in Promoters :
       /\ w[g] = Idle
       /\ w' = [w EXCEPT ![r] = Idle, ![g] = At("open", w[r].name)]
  /\ UNCHANGED <<files, index, ready, scanned>>

GetNoPromotion(r) ==
  /\ w[r].pc = "try" /\ ~MayPromote(w[r].name)
  /\ Go(r, Idle)
  /\ UNCHANGED <<files, index, ready, inflight, scanned>>

Reader(r) == \/ \E n \in Names : GetHit(r, n) \/ GetMissesHot(r, n)
             \/ GetOpenMain(r) \/ GetDropEntry(r) \/ GetStartPromotion(r)
             \/ GetNoPromotion(r)

-----------------------------------------------------------------------------
(* evictHotIfOver, as the last thing a promotion, an install, the scan or   *)
(* the start of a cleanup tick does                                         *)

\* endPromotion is deferred to the end of promoteToHot.
Done(g) == IF g \in Promoters THEN At("end", w[g].name) ELSE Idle

\* Fault: the check is skipped.
CheckCap_Skipped(g) ==
  /\ w[g].pc = "check"
  /\ Go(g, Done(g))
  /\ UNCHANGED <<files, index, ready, inflight, scanned>>

CheckCap(g) ==
  /\ w[g].pc = "check"
  /\ Go(g, IF ready /\ usage > HotCap THEN [w[g] EXCEPT !.pc = "evict"] ELSE Done(g))
  /\ UNCHANGED <<files, index, ready, inflight, scanned>>

\* The oldest entries leave the index down to 95% of the capacity ...
EvictLRU(g) ==
  LET k == Kept((HotCap * 95) \div 100)
      V == {lru[i] : i \in (k + 1)..Len(lru)}
  IN
  /\ w[g].pc = "evict"
  /\ lru' = SubSeq(lru, 1, k)
  /\ usage' = usage - Bytes(V)
  /\ Go(g, [w[g] EXCEPT !.pc = "unlink", !.vict = V])
  /\ UNCHANGED <<files, ready, inflight, scanned>>

\* ... and their files are removed afterwards, one by one.
RemoveVictim(g, n) ==
  /\ w[g].pc = "unlink" /\ n \in w[g].vict
  /\ hotFile' = hotFile \ {n}
  /\ Go(g, [w[g] EXCEPT !.vict = @ \ {n}])
  /\ UNCHANGED <<main, index, ready, inflight, scanned>>

EvictDone(g) ==
  /\ w[g].pc = "unlink" /\ w[g].vict = {}
  /\ Go(g, Done(g))
  /\ UNCHANGED <<files, index, ready, inflight, scanned>>

EvictHotIfOver(g) == \/ CheckCap(g) \/ EvictLRU(g) \/ EvictDone(g)
                     \/ \E n \in Names : RemoveVictim(g, n)

-----------------------------------------------------------------------------
(* promoteToHot *)

\* The source is opened (unless the server is shutting down or the blob was
\* evicted) ...
PromoteOpen(g) ==
  /\ w[g].pc = "open"
  /\ Go(g, At(IF w[g].name \in main THEN "copy" ELSE "end", w[g].name))
  /\ UNCHANGED <<files, index, ready, inflight, scanned>>

\* ... copied to a temporary file, which is renamed into place: the source may
\* have been unlinked meanwhile, the open file is still read ...
PromoteRename(g) ==
  /\ w[g].pc = "copy"
  /\ hotFile' = hotFile \cup {w[g].name}
  /\ Go(g, At("add", w[g].name))
  /\ UNCHANGED <<main, index, ready, inflight, scanned>>

\* ... or the copy fails.
PromoteFails(g) ==
  /\ w[g].pc \in {"open", "copy"}
  /\ Go(g, At("end", w[g].name))
  /\ UNCHANGED <<files, index, ready, inflight, scanned>>

\* The installed file enters the index; the flusher and the promotions go on to
\* evictHotIfOver.
AddInstalled(g) ==
  /\ w[g].pc = "add"
  /\ Add(w[g].name)
  /\ Go(g, At("check", IF g \in Promoters THEN w[g].name ELSE NoName))
  /\ UNCHANGED <<files, ready, inflight, scanned>>

EndPromotion(g) ==
  /\ w[g].pc = "end"
  /\ inflight' = inflight \ {w[g].name}
  /\ Go(g, Idle)
  /\ UNCHANGED <<files, index, ready, scanned>>

Promoter(g) == PromoteOpen(g) \/ PromoteRename(g) \/ AddInstalled(g)
               \/ EvictHotIfOver(g) \/ EndPromotion(g)

-----------------------------------------------------------------------------
(* The flusher's finishCommitted and the eviction of blobs from the cache,   *)
(* both under sqliteWriteMu                                                  *)

WriteLockFree == w[Flusher] = Idle /\ w[Cleaner].pc \notin {"dropHot", "unlinkHot"}

\* Fault: the spool file is installed before the scan has finished.
FinishCommitted_NotReady(n) ==
  /\ WriteLockFree
  /\ main' = main \cup {n}
  /\ hotFile' = hotFile \cup {n}
  /\ Go(Flusher, At("add", n))
  /\ UNCHANGED <<index, ready, inflight, scanned>>

\* A blob is committed: it is in the main directory, and its spool file is
\* renamed into the hot tier once the index is ready (or deleted, also when the
\* rename fails).
FinishCommitted(n) ==
  /\ WriteLockFree
  /\ main' = main \cup {n}
  /\ \/ /\ ready
        /\ hotFile' = hotFile \cup {n}
        /\ Go(Flusher, At("add", n))
     \/ UNCHANGED <<hotFile, w>>
  /\ UNCHANGED <<index, ready, inflight, scanned>>

\* cleanupTick starts with evictHotIfOver ...
TickEvictHot ==
  /\ w[Cleaner] = Idle
  /\ Go(Cleaner, At("check", NoName))
  /\ UNCHANGED <<files, index, ready, inflight, scanned>>

\* ... and may evict blobs: a blob's file, its index entry, its hot file.
EvictBlob(n) ==
  /\ w[Cleaner] = Idle /\ WriteLockFree /\ n \in main
  /\ main' = main \ {n}
  /\ Go(Cleaner, At("dropHot", n))
  /\ UNCHANGED <<hotFile, index, ready, inflight, scanned>>

DropHot ==
  /\ w[Cleaner].pc = "dropHot"
  /\ Remove(w[Cleaner].name)
  /\ Go(Cleaner, At("unlinkHot", w[Cleaner].name))
  /\ UNCHANGED <<files, ready, inflight, scanned>>

UnlinkHot ==
  /\ w[Cleaner].pc = "unlinkHot"
  /\ hotFile' = hotFile \ {w[Cleaner].name}
  /\ Go(Cleaner, Idle)
  /\ UNCHANGED <<main, index, ready, inflight, scanned>>

-----------------------------------------------------------------------------
(* The startup scan *)

\* The walk visits the files; one that has vanished is skipped.
ScanVisit(n) ==
  /\ w[Scanner].pc = "walk" /\ n \in scanned.todo
  /\ scanned' = [scanned EXCEPT !.todo = @ \ {n},
                                !.seen = @ \cup ({n} \cap hotFile)]
  /\ UNCHANGED <<files, index, ready, inflight, w>>

\* A walk that fails (or is stopped) leaves the tier without new writes.
ScanFails ==
  /\ w[Scanner].pc = "walk"
  /\ Go(Scanner, Idle)
  /\ scanned' = [todo |-> {}, seen |-> {}, dropped |-> {}]
  /\ UNCHANGED <<files, index, ready, inflight>>

\* After the walk the files are indexed in the order of their modification
\* times (any order here).
ScanAdd(n) ==
  /\ w[Scanner].pc = "walk" /\ scanned.todo = {} /\ n \in scanned.seen
  /\ Add(n)
  /\ scanned' = [scanned EXCEPT !.seen = @ \ {n}]
  /\ UNCHANGED <<files, ready, inflight, w>>

ScanReady ==
  /\ w[Scanner].pc = "walk" /\ scanned.todo = {} /\ scanned.seen = {}
  /\ ready' = TRUE
  /\ Go(Scanner, At("check", NoName))
  /\ scanned' = [scanned EXCEPT !.dropped = {}]
  /\ UNCHANGED <<files, index, inflight>>

-----------------------------------------------------------------------------

\* The disk of the hot tier is disposable: "files in the hot directory can be
\* deleted at any time".
HotFileVanishes(n) ==
  /\ n \in hotFile
  /\ hotFile' = hotFile \ {n}
  /\ UNCHANGED <<main, index, ready, inflight, w, scanned>>

\* A process starts, the first one or one after a crash: the index is empty, the
\* scan begins, and the directories hold whatever earlier processes left.
Init ==
  /\ main \in SUBSET Names /\ hotFile \in SUBSET Names
  /\ lru = <<>> /\ usage = 0 /\ ready = FALSE /\ inflight = {}
  /\ w = [g \in Workers |-> IF g = Scanner THEN At("walk", NoName) ELSE Idle]
  /\ scanned = [todo |-> Names, seen |-> {}, dropped |-> {}]

Background == \/ \E g \in Promoters : Promoter(g)
              \/ AddInstalled(Flusher) \/ EvictHotIfOver(Flusher)
              \/ EvictHotIfOver(Cleaner) \/ DropHot \/ UnlinkHot
              \/ EvictHotIfOver(Scanner)

Next == \/ \E r \in Readers : Reader(r)
        \/ Background
        \/ \E g \in Promoters : PromoteFails(g)
        \/ \E n \in Names : \/ FinishCommitted(n) \/ EvictBlob(n) \/ HotFileVanishes(n)
                            \/ ScanVisit(n) \/ ScanAdd(n)
        \/ TickEvictHot \/ ScanFails \/ ScanReady

Spec == Init /\ [][Next]_vars

-----------------------------------------------------------------------------
(* Properties *)

PCs == {"idle", "openMain", "drop", "try", "open", "copy", "add", "check",
        "evict", "unlink", "end", "dropHot", "unlinkHot", "walk"}

\* Type invariant.
TypeOK ==
  /\ main \subseteq Names /\ hotFile \subseteq Names /\ inflight \subseteq Names
  /\ lru \in Seq(Names) /\ usage \in Int /\ ready \in BOOLEAN
  /\ w \in [Workers -> [pc : PCs, name : Names \cup {NoName}, vict : SUBSET Names]]
  /\ scanned \in [todo : SUBSET Names, seen : SUBSET Names, dropped : SUBSET Names]

\* The usage that decides about evictions is the size of the indexed files,
\* each counted once, whichever goroutines added, dropped or evicted them.
UsageExact ==
  /\ \A i, j \in 1..Len(lru) : lru[i] = lru[j] => i = j
  /\ usage = Bytes(Entries)

\* A name is registered as in flight exactly while one promotion of it runs:
\* two promotions never install the same file, and none stays registered,
\* which would bar the blob from the hot tier until the next restart.
PromotionsPaired ==
  \A n \in Names :
    Cardinality({g \in Promoters : w[g].name = n}) = IF n \in inflight THEN 1 ELSE 0

\* Whenever the ready index is over capacity, a goroutine is on its way to
\* evictHotIfOver: no order of adds, checks and evictions leaves the tier over
\* its capacity with nobody about to shrink it.
OverCapIsEvicted ==
  ready /\ usage > HotCap => \E g \in Workers : w[g].pc \in {"check", "evict"}

\* The scan misses no file: when the index becomes ready, every file of the hot
\* directory is in it, although blobs are committed, read and evicted during the
\* walk.  Two files may be missing: the one removeFromHot is just about to unlink,
\* and one that the scan had indexed and a GET failed to open: its entry goes, the
\* file stays.
ScanAccountsAll ==
  [][~ready /\ ready' =>
       hotFile \subseteq Entries \cup scanned.dropped \cup {w[Cleaner].name}]_vars
=============================================================================
