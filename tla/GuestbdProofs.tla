--------------------------- MODULE GuestbdProofs ---------------------------
(***************************************************************************)
(* Proofs about guestbd: the sharing of base images, for any number of     *)
(* connections, keys and calls of getBase and any bound on idle entries;   *)
(* and a snapshot, for any page and image size, any number of connections, *)
(* pages and requests, and any size of the page cache.                     *)
(***************************************************************************)
EXTENDS BaseImages, Snapshot, FiniteSetTheorems, SequenceTheorems, TLAPS

-----------------------------------------------------------------------------
(* Base images: the inductive invariant *)

\* Snapshots are told apart by their ids, each has a base image, and a shared one
\* exists only if the server shares one.
SnapsNamed ==
  /\ \A c \in Conns : Owns(c) => conn[c].snap.id \in 1..gets
                                 /\ conn[c].snap.entry \in 1..Len(entries)
                                 /\ conn[c].snap.id # sharedSnap.id
  /\ \A c, d \in Conns : Owns(c) /\ Owns(d) /\ c # d => conn[c].snap.id # conn[d].snap.id
  /\ sharedSnap # NoSnap => /\ shared /\ sharedSnap.id \in 1..gets
                            /\ sharedSnap.entry \in 1..Len(entries)
  /\ \A c \in Conns : conn[c].pc = "zero" => conn[c].snap.entry \in 1..Len(entries)
  /\ \A c \in Conns : conn[c].pc = "install" => shared

\* What the server's maps lead to is open and found under its own key; the lock
\* keeps the entry that is about to be shared in its place.
CachedOpen ==
  /\ \A k \in Keys : roFiles[k] # 0 => entries[roFiles[k]].key = k /\ entries[roFiles[k]].open
  /\ roFileNoKey # 0 => entries[roFileNoKey].key = NoKey /\ entries[roFileNoKey].open
  /\ \A c \in Conns : conn[c].pc = "sharing" =>
       lock = c /\ roFileNoKey # 0 /\ conn[c].snap.entry = roFileNoKey
  /\ serverClosed => \A k \in Keys : roFiles[k] = 0

\* The idle entries whose last user is still on its way to the lock.
Leaving == {k \in Keys : \E c \in Conns : conn[c].pc = "zero" /\ conn[c].snap.entry = roFiles[k]}

\* The others are within the bound.
SettledBounded == Cardinality(Idle(entries, roFiles) \ Leaving) <= MaxIdleBase

-----------------------------------------------------------------------------
(* Counting references *)

\* Snapshots are finitely many.
LEMMA SnapsFinite ==
  ASSUME ServerTypeOK
  PROVE  IsFiniteSet(Snaps) /\ \A e : IsFiniteSet({s \in Snaps : s.entry = e})
<1>1. IsFiniteSet({d \in Conns : Owns(d)})
  BY BaseImagesAssumption, FS_Subset
<1>2. IsFiniteSet({conn[c].snap : c \in {d \in Conns : Owns(d)}})
  <2> DEFINE S == {d \in Conns : Owns(d)}
             f == [d \in S |-> conn[d].snap]
  <2>1. f \in Surjection(S, {conn[c].snap : c \in S})
    BY DEF Surjection
  <2> QED
    BY <1>1, <2>1, FS_Surjection
<1>3. IsFiniteSet({sharedSnap} \ {NoSnap})
  BY FS_Singleton, FS_Subset
<1>4. IsFiniteSet(Snaps)
  BY <1>2, <1>3, FS_Union DEF Snaps
<1> QED
  BY <1>4, FS_Subset

\* A snapshot that appears is counted at its base image.
LEMMA SnapEnters ==
  ASSUME ServerTypeOK, RefcountExact, NEW t, t \notin Snaps, Snaps' = Snaps \cup {t},
         \A s \in Snaps : s.entry \in 1..Len(entries),
         DOMAIN entries \subseteq DOMAIN entries',
         \A e \in DOMAIN entries' :
           entries'[e].refcount = (IF e \in DOMAIN entries THEN entries[e].refcount ELSE 0)
                                  + (IF e = t.entry THEN 1 ELSE 0)
  PROVE  RefcountExact'
<1> SUFFICES ASSUME NEW e \in DOMAIN entries'
             PROVE  entries'[e].refcount = Cardinality({s \in Snaps' : s.entry = e})
  BY DEF RefcountExact
<1> DEFINE M == {s \in Snaps : s.entry = e}
<1>1. IsFiniteSet(M)
  BY SnapsFinite
<1>2. Cardinality(M) = IF e \in DOMAIN entries THEN entries[e].refcount ELSE 0
  <2>1. CASE e \in DOMAIN entries
    BY <2>1 DEF RefcountExact
  <2>2. CASE e \notin DOMAIN entries
    <3>1. M = {}
      BY <2>2 DEF ServerTypeOK
    <3> QED
      BY <2>2, <3>1, FS_EmptySet
  <2> QED
    BY <2>1, <2>2
<1>3. CASE e = t.entry
  <2>1. {s \in Snaps' : s.entry = e} = M \cup {t} /\ t \notin M
    BY <1>3
  <2>2. Cardinality(M \cup {t}) = Cardinality(M) + 1
    BY <1>1, <2>1, FS_AddElement
  <2> QED
    BY <1>2, <1>3, <2>1, <2>2
<1>4. CASE e # t.entry
  <2>1. {s \in Snaps' : s.entry = e} = M
    BY <1>4
  <2>2. Cardinality(M) \in Nat
    BY <1>1, FS_CardinalityType
  <2>3. entries'[e].refcount = Cardinality(M) + 0
    BY <1>2, <1>4
  <2>4. Cardinality(M) + 0 = Cardinality(M)
    BY <2>2
  <2>5. entries'[e].refcount = Cardinality(M)
    BY <2>3, <2>4
  <2> QED
    BY <2>1, <2>5
<1> QED
  BY <1>3, <1>4

\* One that goes is no longer counted, and its base image had a reference.
LEMMA SnapLeaves ==
  ASSUME ServerTypeOK, RefcountExact, NEW t \in Snaps, Snaps' = Snaps \ {t},
         DOMAIN entries' = DOMAIN entries,
         \A e \in DOMAIN entries' :
           entries'[e].refcount = entries[e].refcount - (IF e = t.entry THEN 1 ELSE 0)
  PROVE  RefcountExact'
<1> SUFFICES ASSUME NEW e \in DOMAIN entries
             PROVE  entries'[e].refcount = Cardinality({s \in Snaps' : s.entry = e})
  BY DEF RefcountExact
<1> DEFINE M == {s \in Snaps : s.entry = e}
<1>1. IsFiniteSet(M) /\ Cardinality(M) \in Nat
  BY SnapsFinite, FS_CardinalityType
<1>2. Cardinality(M) = entries[e].refcount
  BY DEF RefcountExact
<1>3. CASE e = t.entry
  <2>1. {s \in Snaps' : s.entry = e} = M \ {t} /\ t \in M
    BY <1>3
  <2>2. Cardinality(M \ {t}) = Cardinality(M) - 1
    BY <1>1, <2>1, FS_RemoveElement
  <2> QED
    BY <1>2, <1>3, <2>1, <2>2
<1>4. CASE e # t.entry
  <2>1. {s \in Snaps' : s.entry = e} = M
    BY <1>4
  <2>2. entries'[e].refcount = Cardinality(M) - 0
    BY <1>2, <1>4
  <2>3. Cardinality(M) - 0 = Cardinality(M)
    BY <1>1
  <2>4. entries'[e].refcount = Cardinality(M)
    BY <2>2, <2>3
  <2> QED
    BY <2>1, <2>4
<1> QED
  BY <1>3, <1>4

\* A base image that a snapshot uses has a count above zero.
LEMMA UsedIsCounted ==
  ASSUME ServerTypeOK, RefcountExact, NEW t \in Snaps, t.entry \in DOMAIN entries
  PROVE  entries[t.entry].refcount > 0
<1> DEFINE M == {s \in Snaps : s.entry = t.entry}
<1>1. IsFiniteSet(M) /\ t \in M /\ Cardinality(M) = entries[t.entry].refcount
  BY SnapsFinite DEF RefcountExact
<1>2. Cardinality(M) \in Nat /\ Cardinality(M) # 0
  BY <1>1, FS_CardinalityType, FS_EmptySet
<1> QED
  BY <1>1, <1>2
-----------------------------------------------------------------------------
(* What the steps do *)

\* Entries that differ from those of ents in their fields only are a sequence.
LEMMA EntriesType ==
  ASSUME NEW ents \in Seq(States), NEW f, DOMAIN f = DOMAIN ents,
         f = [e \in DOMAIN ents |-> f[e]],
         \A e \in DOMAIN ents : f[e] \in States
  PROVE  f \in Seq(States) /\ Len(f) = Len(ents)
<1>1. DOMAIN ents = 1..Len(ents) /\ Len(ents) \in Nat
  OBVIOUS
<1>2. f \in [1..Len(ents) -> States]
  BY <1>1
<1> QED
  BY <1>1, <1>2, SeqDef

\* Closing the base of an entry changes nothing else of it.
LEMMA ShutState ==
  ASSUME NEW r \in States, NEW q, q = [r EXCEPT !.open = FALSE]
  PROVE  q \in States /\ q.open = FALSE /\ q.refcount = r.refcount /\ q.key = r.key
BY DEF States

\* Eviction closes and forgets entries that nobody uses, both or neither.
Evicted(ents, files) ==
  /\ entries' \in Seq(States) /\ Len(entries') = Len(ents)
  /\ roFiles' \in [Keys -> 0..Len(ents)]
  /\ \A e \in 1..Len(ents) :
       /\ entries'[e].key = ents[e].key
       /\ entries'[e].refcount = ents[e].refcount
       /\ entries'[e].open => ents[e].open
  /\ \A e \in 1..Len(ents) : ents[e].open /\ ~entries'[e].open =>
       \E k \in Keys : files[k] = e /\ roFiles'[k] = 0 /\ ents[e].refcount = 0
  /\ \A k \in Keys : files[k] # 0 /\ ents[files[k]].refcount # 0 => roFiles'[k] = files[k]
  /\ \A k \in Keys : roFiles'[k] = files[k] \/ (roFiles'[k] = 0 /\ ~entries'[files[k]].open)

\* That is what evictIdleLocked does.
LEMMA EvictIdleDoes ==
  ASSUME NEW ents \in Seq(States), NEW files \in [Keys -> 0..Len(ents)], EvictIdle(ents, files)
  PROVE  Evicted(ents, files)
<1> DEFINE idle == Idle(ents, files)
<1>1. PICK E \in SUBSET idle :
        /\ roFiles' = [k \in Keys |-> IF k \in E THEN 0 ELSE files[k]]
        /\ entries' = [e \in DOMAIN ents |->
             IF \E k \in E : files[k] = e THEN [ents[e] EXCEPT !.open = FALSE] ELSE ents[e]]
  BY Zenon DEF EvictIdle
<1>2. \A k \in E : k \in Keys /\ files[k] # 0 /\ ents[files[k]].refcount = 0
  BY DEF Idle
<1>3. DOMAIN ents = 1..Len(ents) /\ Len(ents) \in Nat
  OBVIOUS
<1>4. \A e \in DOMAIN ents :
        /\ (~ \E k \in E : files[k] = e) => entries'[e] = ents[e]
        /\ (\E k \in E : files[k] = e) =>
             /\ entries'[e] \in States /\ entries'[e].open = FALSE
             /\ entries'[e].refcount = ents[e].refcount
             /\ entries'[e].key = ents[e].key
  <2> SUFFICES ASSUME NEW e \in DOMAIN ents
               PROVE  /\ (~ \E k \in E : files[k] = e) => entries'[e] = ents[e]
                      /\ (\E k \in E : files[k] = e) =>
                           /\ entries'[e] \in States /\ entries'[e].open = FALSE
                           /\ entries'[e].refcount = ents[e].refcount
                           /\ entries'[e].key = ents[e].key
    OBVIOUS
  <2>1. ents[e] \in States
    BY <1>3
  <2>2. entries'[e] = IF \E k \in E : files[k] = e THEN [ents[e] EXCEPT !.open = FALSE] ELSE ents[e]
    BY <1>1, Zenon
  <2> QED
    BY <2>1, <2>2, ShutState
<1>5. \A e \in DOMAIN ents : ents[e] \in States /\ entries'[e] \in States
  BY <1>3, <1>4
<1>6. entries' \in Seq(States) /\ Len(entries') = Len(ents)
  <2>1. entries' = [e \in DOMAIN ents |-> entries'[e]]
    BY <1>1
  <2> QED
    BY <1>5, <2>1, EntriesType
<1>7. roFiles' \in [Keys -> 0..Len(ents)]
  BY <1>1, <1>3
<1>8. \A k \in Keys : roFiles'[k] = IF k \in E THEN 0 ELSE files[k]
  BY <1>1
<1> HIDE DEF idle
<1>9. \A e \in 1..Len(ents) : ents[e].open /\ ~entries'[e].open =>
        \E k \in Keys : files[k] = e /\ roFiles'[k] = 0 /\ ents[e].refcount = 0
  BY <1>2, <1>3, <1>4, <1>8
<1>10. \A k \in Keys : roFiles'[k] = files[k] \/ (roFiles'[k] = 0 /\ ~entries'[files[k]].open)
  <2> SUFFICES ASSUME NEW k \in Keys
               PROVE  roFiles'[k] = files[k] \/ (roFiles'[k] = 0 /\ ~entries'[files[k]].open)
    OBVIOUS
  <2>1. CASE k \in E
    <3>1. files[k] \in DOMAIN ents
      BY <1>2, <1>3, <2>1
    <3>2. entries'[files[k]].open = FALSE
      BY <1>4, <2>1, <3>1
    <3> QED
      BY <1>8, <2>1, <3>2
  <2> QED
    BY <1>8, <2>1
<1>11. \A e \in 1..Len(ents) :
         /\ entries'[e].key = ents[e].key
         /\ entries'[e].refcount = ents[e].refcount
         /\ entries'[e].open => ents[e].open
  BY <1>3, <1>4
<1> QED
  BY <1>2, <1>6, <1>7, <1>8, <1>9, <1>10, <1>11 DEF Evicted

\* Eviction leaves no more idle entries than it may.
LEMMA EvictIdleBounds ==
  ASSUME NEW ents \in Seq(States), NEW files \in [Keys -> 0..Len(ents)], EvictIdle(ents, files)
  PROVE  Cardinality(Idle(entries', roFiles')) <= MaxIdleBase
<1> DEFINE idle == Idle(ents, files)
<1>1. PICK E \in SUBSET idle :
        /\ Cardinality(idle \ E) = IF Cardinality(idle) <= MaxIdleBase
                                   THEN Cardinality(idle) ELSE MaxIdleBase
        /\ roFiles' = [k \in Keys |-> IF k \in E THEN 0 ELSE files[k]]
  BY Zenon DEF EvictIdle
<1>2. \A e \in 1..Len(ents) : entries'[e].refcount = ents[e].refcount
  <2>1. Evicted(ents, files)
    BY EvictIdleDoes
  <2> QED
    BY <2>1 DEF Evicted
<1>3. Idle(entries', roFiles') = idle \ E
  BY <1>1, <1>2 DEF Idle
<1>4. IsFiniteSet(idle)
  BY BaseImagesAssumption, FS_Subset DEF Idle
<1>5. Cardinality(idle) \in Nat
  BY <1>4, FS_CardinalityType
<1>6. MaxIdleBase \in Nat
  BY BaseImagesAssumption
<1> HIDE DEF idle
<1>7. Cardinality(idle \ E) <= MaxIdleBase
  BY <1>1, <1>5, <1>6
<1> QED
  BY <1>3, <1>7
-----------------------------------------------------------------------------
(* Type correctness *)

\* Nothing is open at first.
LEMMA TypeInit == ServerInit => ServerTypeOK
<1> SUFFICES ASSUME ServerInit
             PROVE  ServerTypeOK
  OBVIOUS
<1>1. NoSnap \in Snapshots /\ IdleConn \in Handlers
  BY DEF NoSnap, Snapshots, IdleConn, Handlers, Stages
<1>2. entries \in Seq(States) /\ Len(entries) = 0
  BY DEF ServerInit
<1>3. roFiles \in [Keys -> 0..Len(entries)] /\ roFileNoKey \in 0..Len(entries)
  BY <1>2 DEF ServerInit
<1>4. nextIdleSeq \in Nat /\ active \in Int /\ gets \in Nat
  BY DEF ServerInit
<1> QED
  BY <1>1, <1>2, <1>3, <1>4, Zenon DEF ServerInit, ServerTypeOK

\* A handler that moves is the only one that does.
Moves(c, h) ==
  /\ conn' \in [Conns -> Handlers] /\ h \in Handlers
  /\ conn'[c] = h /\ \A d \in Conns : d # c => conn'[d] = conn[d]

\* A handler whose record is replaced moves.
LEMMA HandlerMoves ==
  ASSUME ServerTypeOK, NEW c \in Conns, NEW h \in Handlers, conn' = [conn EXCEPT ![c] = h]
  PROVE  Moves(c, h)
BY DEF Moves, ServerTypeOK

\* Making a snapshot gives it a new id.
LEMMA OpenedMoves ==
  ASSUME ServerTypeOK, NEW c \in Conns, NEW e \in Nat, Opened(c, e)
  PROVE  /\ gets' = gets + 1 /\ gets' \in Nat
         /\ Moves(c, [pc   |-> IF shared THEN "install" ELSE "serving",
                      snap |-> [id |-> gets + 1, entry |-> e], then |-> "idle"])
<1> DEFINE h == [pc   |-> IF shared THEN "install" ELSE "serving",
                 snap |-> [id |-> gets + 1, entry |-> e], then |-> "idle"]
<1>1. gets' = gets + 1 /\ conn' = [conn EXCEPT ![c] = h]
  BY DEF Opened
<1>2. h \in Handlers
  BY DEF Handlers, Snapshots, Stages, ServerTypeOK
<1> HIDE DEF h
<1>3. Moves(c, h)
  BY <1>1, <1>2, HandlerMoves
<1> QED
  BY <1>1, <1>3 DEF h, ServerTypeOK

\* The handler after a release.
LEMMA ReleasedType ==
  ASSUME ServerTypeOK, NEW c \in Conns
  PROVE  Released(c) \in Handlers
<1>1. NoSnap \in Snapshots /\ sharedSnap \in Snapshots
  BY DEF NoSnap, Snapshots, ServerTypeOK
<1> QED
  BY <1>1 DEF Released, IdleConn, Handlers, Stages
-----------------------------------------------------------------------------
(* What the steps do to the entries *)

\* The count of entry e changes by n.
Counts(e, n) ==
  /\ entries' \in Seq(States) /\ Len(entries') = Len(entries)
  /\ \A i \in 1..Len(entries) :
       /\ entries'[i].key = entries[i].key /\ entries'[i].open = entries[i].open
       /\ entries'[i].refcount = entries[i].refcount + (IF i = e THEN n ELSE 0)

\* An entry whose count and time change counts so.
LEMMA CountsChange ==
  ASSUME ServerTypeOK, NEW e \in 1..Len(entries), NEW n \in Int, NEW q \in States,
         q.key = entries[e].key, q.open = entries[e].open,
         q.refcount = entries[e].refcount + n, entries' = [entries EXCEPT ![e] = q]
  PROVE  Counts(e, n)
<1>1. entries' \in Seq(States) /\ Len(entries') = Len(entries)
  BY DEF ServerTypeOK
<1>2. \A i \in 1..Len(entries) : entries[i] \in States /\ entries[i].refcount \in Nat
  <2>1. \A i \in 1..Len(entries) : entries[i] \in States
    BY DEF ServerTypeOK
  <2> QED
    BY <2>1 DEF States
<1>3. \A i \in 1..Len(entries) : entries'[i] = IF i = e THEN q ELSE entries[i]
  BY DEF ServerTypeOK
<1>4. \A i \in 1..Len(entries) :
        entries'[i].refcount = entries[i].refcount + (IF i = e THEN n ELSE 0)
  <2> SUFFICES ASSUME NEW i \in 1..Len(entries)
               PROVE  entries'[i].refcount = entries[i].refcount + (IF i = e THEN n ELSE 0)
    OBVIOUS
  <2>1. CASE i = e
    BY <1>3, <2>1
  <2>2. CASE i # e
    <3>1. entries'[i].refcount = entries[i].refcount /\ entries[i].refcount \in Nat
      BY <1>2, <1>3, <2>2
    <3>2. entries[i].refcount = entries[i].refcount + 0
      BY <3>1
    <3> QED
      BY <2>2, <3>1, <3>2
  <2> QED
    BY <2>1, <2>2
<1>5. \A i \in 1..Len(entries) :
        entries'[i].key = entries[i].key /\ entries'[i].open = entries[i].open
  BY <1>3
<1> QED
  BY <1>1, <1>4, <1>5 DEF Counts

\* A new entry for key comes after the others.
LEMMA NewEntryLast ==
  ASSUME ServerTypeOK, NEW key \in Keys \cup {NoKey}
  PROVE  /\ NewEntry(key) \in States /\ NewEntry(key).refcount = 1
         /\ NewEntry(key).key = key /\ NewEntry(key).open
         /\ Append(entries, NewEntry(key)) \in Seq(States)
         /\ Len(Append(entries, NewEntry(key))) = Len(entries) + 1
         /\ \A i \in 1..Len(entries) : Append(entries, NewEntry(key))[i] = entries[i]
         /\ Append(entries, NewEntry(key))[Len(entries) + 1] = NewEntry(key)
         /\ Len(entries) \in Nat /\ DOMAIN entries = 1..Len(entries)
<1>1. /\ NewEntry(key) \in States /\ NewEntry(key).refcount = 1
      /\ NewEntry(key).key = key /\ NewEntry(key).open
  BY DEF NewEntry, States
<1> QED
  BY <1>1 DEF ServerTypeOK

\* Entry e is used once more, and the base opened for it is closed.
Shares(e) ==
  /\ entries' \in Seq(States) /\ Len(entries') = Len(entries) + 1
  /\ \A i \in 1..Len(entries) :
       /\ entries'[i].key = entries[i].key /\ entries'[i].open = entries[i].open
       /\ entries'[i].refcount = entries[i].refcount + (IF i = e THEN 1 ELSE 0)
  /\ ~entries'[Len(entries) + 1].open /\ entries'[Len(entries) + 1].refcount = 0

LEMMA SharesEntry ==
  ASSUME ServerTypeOK, NEW e \in 1..Len(entries), NEW q \in States, NEW key \in Keys \cup {NoKey},
         q.key = entries[e].key, q.open = entries[e].open, q.refcount = entries[e].refcount + 1,
         entries' = Append([entries EXCEPT ![e] = q], SpareBase(key))
  PROVE  Shares(e)
<1> DEFINE mid == [entries EXCEPT ![e] = q]
<1>1. SpareBase(key) \in States /\ ~SpareBase(key).open /\ SpareBase(key).refcount = 0
  BY DEF SpareBase, States
<1>2. /\ mid \in Seq(States) /\ Len(mid) = Len(entries) /\ Len(entries) \in Nat
      /\ \A i \in 1..Len(entries) : mid[i] = IF i = e THEN q ELSE entries[i]
  BY DEF ServerTypeOK
<1> HIDE DEF mid
<1>3. entries' = Append(mid, SpareBase(key))
  BY DEF mid
<1>4. /\ entries' \in Seq(States) /\ Len(entries') = Len(entries) + 1
      /\ \A i \in 1..Len(entries) : entries'[i] = mid[i]
      /\ entries'[Len(entries) + 1] = SpareBase(key)
  <2> DEFINE x == SpareBase(key)
  <2>1. x \in States /\ entries' = Append(mid, x)
    BY <1>1, <1>3
  <2> HIDE DEF x
  <2>2. /\ Append(mid, x) \in Seq(States) /\ Len(Append(mid, x)) = Len(mid) + 1
        /\ \A i \in 1..Len(mid) : Append(mid, x)[i] = mid[i]
        /\ Append(mid, x)[Len(mid) + 1] = x
    BY <1>2, <2>1, AppendProperties
  <2> QED
    BY <1>2, <2>1, <2>2 DEF x
<1>5. \A i \in 1..Len(entries) : entries[i] \in States
  BY DEF ServerTypeOK
<1>6. ASSUME NEW i \in 1..Len(entries)
      PROVE  /\ entries'[i].key = entries[i].key /\ entries'[i].open = entries[i].open
             /\ entries'[i].refcount = entries[i].refcount + (IF i = e THEN 1 ELSE 0)
  <2>1. CASE i = e
    BY <1>2, <1>4, <2>1
  <2>2. CASE i # e
    <3>1. entries'[i] = entries[i]
      BY <1>2, <1>4, <2>2
    <3>2. entries[i].refcount \in Nat
      BY <1>5 DEF States
    <3>3. entries[i].refcount = entries[i].refcount + 0
      BY <3>2
    <3> QED
      BY <2>2, <3>1, <3>3
  <2> QED
    BY <2>1, <2>2
<1> QED
  BY <1>1, <1>4, <1>6 DEF Shares

\* A keyed source that is cached.
LEMMA ReuseDoes ==
  ASSUME ServerTypeOK, NEW c \in Conns, NEW key \in Keys, GetKeyed(c, key), roFiles[key] # 0
  PROVE  /\ Shares(roFiles[key]) /\ Opened(c, roFiles[key]) /\ active' \in Int
         /\ roFiles[key] \in 1..Len(entries) /\ roFiles' = roFiles
<1> DEFINE e == roFiles[key]
           q == [key |-> entries[e].key, refcount |-> entries[e].refcount + 1,
                 idleSince |-> IF entries[e].refcount = 0 THEN 0 ELSE entries[e].idleSince,
                 open |-> entries[e].open]
<1>1. e \in 1..Len(entries) /\ entries[e] \in States
  BY DEF ServerTypeOK
<1>2. /\ q \in States /\ q.key = entries[e].key /\ q.open = entries[e].open
      /\ q.refcount = entries[e].refcount + 1
  BY <1>1 DEF States
<1>3. entries' = Append([entries EXCEPT ![e] = q], SpareBase(key)) /\ Opened(c, e) /\ roFiles' = roFiles
  BY DEF GetKeyed
<1>4. active' \in Int
  BY DEF GetKeyed, ServerTypeOK
<1> HIDE DEF q, e
<1>5. Shares(e)
  BY <1>1, <1>2, <1>3, SharesEntry, Zenon
<1> QED
  BY <1>1, <1>3, <1>4, <1>5 DEF e

\* A keyed source that is not.
LEMMA AddDoes ==
  ASSUME ServerTypeOK, NEW c \in Conns, NEW key \in Keys, GetKeyed(c, key), roFiles[key] = 0
  PROVE  /\ Evicted(Append(entries, NewEntry(key)), [roFiles EXCEPT ![key] = Len(entries) + 1])
         /\ Cardinality(Idle(entries', roFiles')) <= MaxIdleBase
         /\ Opened(c, Len(entries) + 1) /\ active' \in Int
<1> DEFINE ents  == Append(entries, NewEntry(key))
           files == [roFiles EXCEPT ![key] = Len(entries) + 1]
<1>1. ents \in Seq(States)
  BY NewEntryLast
<1>2. files \in [Keys -> 0..Len(ents)]
  BY NewEntryLast DEF ServerTypeOK
<1>3. EvictIdle(ents, files) /\ Opened(c, Len(entries) + 1) /\ active' \in Int
  BY DEF GetKeyed, ServerTypeOK
<1> HIDE DEF ents, files
<1>4. Evicted(ents, files) /\ Cardinality(Idle(entries', roFiles')) <= MaxIdleBase
  BY <1>1, <1>2, <1>3, EvictIdleDoes, EvictIdleBounds
<1> QED
  BY <1>3, <1>4 DEF ents, files

\* Only the count of an entry changes.
LEMMA CountOnly ==
  ASSUME ServerTypeOK, NEW e \in 1..Len(entries), NEW n \in Int, entries[e].refcount + n \in Nat,
         entries' = [entries EXCEPT ![e].refcount = entries[e].refcount + n]
  PROVE  Counts(e, n)
<1> DEFINE q == [entries[e] EXCEPT !.refcount = entries[e].refcount + n]
<1>1. entries[e] \in States
  BY DEF ServerTypeOK
<1>2. /\ q \in States /\ q.key = entries[e].key /\ q.open = entries[e].open
      /\ q.refcount = entries[e].refcount + n
  BY <1>1 DEF States
<1>3. entries' = [entries EXCEPT ![e] = q]
  OBVIOUS
<1> HIDE DEF q
<1> QED
  BY <1>2, <1>3, CountsChange, Zenon

\* The second half of sharing an entry that has no key.
LEMMA ShareNoKeyDoes ==
  ASSUME ServerTypeOK, CachedOpen, NEW c \in Conns, ShareNoKey(c)
  PROVE  Shares(roFileNoKey) /\ Opened(c, roFileNoKey) /\ roFileNoKey \in 1..Len(entries)
<1> DEFINE e == conn[c].snap.entry
           q == [entries[e] EXCEPT !.refcount = entries[e].refcount + 1]
<1>1. e = roFileNoKey /\ e \in 1..Len(entries)
  BY DEF ShareNoKey, CachedOpen, ServerTypeOK
<1>2. entries' = Append([entries EXCEPT ![e] = q], SpareBase(NoKey)) /\ Opened(c, e)
  BY DEF ShareNoKey
<1>3. entries[e] \in States
  BY <1>1 DEF ServerTypeOK
<1>4. /\ q \in States /\ q.key = entries[e].key /\ q.open = entries[e].open
      /\ q.refcount = entries[e].refcount + 1
  BY <1>3 DEF States
<1> HIDE DEF e, q
<1>5. Shares(e)
  BY <1>1, <1>2, <1>4, SharesEntry, Zenon
<1> QED
  BY <1>1, <1>2, <1>5

\* A release takes one reference off the base image of the handler's snapshot.
LEMMA ReleaseDoes ==
  ASSUME ServerTypeOK, SnapsNamed, RefcountExact, NEW c \in Conns, Release(c)
  PROVE  LET e == conn[c].snap.entry IN
         /\ Counts(e, -1) /\ e \in 1..Len(entries) /\ entries[e].refcount > 0 /\ active' \in Int
         /\ conn[c].snap \in Snaps /\ Owns(c)
<1> DEFINE e == conn[c].snap.entry
<1>1. Owns(c) /\ conn[c].snap \in Snaps
  BY DEF Release, Owns, Snaps
<1>2. e \in 1..Len(entries) /\ DOMAIN entries = 1..Len(entries)
  BY <1>1 DEF SnapsNamed, ServerTypeOK
<1>3. entries[e].refcount > 0
  <2>1. conn[c].snap.entry \in DOMAIN entries
    BY <1>2
  <2> QED
    BY <1>1, <2>1, UsedIsCounted, Zenon
<1>4. entries[e] \in States
  BY <1>2 DEF ServerTypeOK
<1>5. entries[e].refcount + (-1) \in Nat /\ entries[e].refcount - 1 = entries[e].refcount + (-1)
  BY <1>3, <1>4 DEF States
<1>6. entries' = [entries EXCEPT ![e].refcount = entries[e].refcount - 1]
  BY DEF Release
<1>7. active' \in Int
  BY DEF Release, ServerTypeOK
<1> HIDE DEF e
<1>8. Counts(e, -1)
  <2>1. -1 \in Int
    OBVIOUS
  <2> QED
    BY <1>2, <1>5, <1>6, <2>1, CountOnly
<1> QED
  BY <1>1, <1>2, <1>3, <1>7, <1>8 DEF e

\* An idle entry without a key is closed and a new one takes its place.
Replaces ==
  /\ entries' \in Seq(States) /\ Len(entries') = Len(entries) + 1
  /\ \A i \in 1..Len(entries) :
       /\ entries'[i].key = entries[i].key /\ entries'[i].refcount = entries[i].refcount
       /\ entries'[i].open <=> entries[i].open /\ i # roFileNoKey
  /\ entries'[Len(entries) + 1] = NewEntry(NoKey)
  /\ roFileNoKey' = Len(entries) + 1

\* That is what getBaseImageState does without a key and without users.
LEMMA ReplaceDoes ==
  ASSUME ServerTypeOK, NEW c \in Conns, GetNoKey(c),
         ~(roFileNoKey # 0 /\ entries[roFileNoKey].refcount > 0)
  PROVE  Replaces /\ Opened(c, Len(entries) + 1) /\ active' \in Int
<1> DEFINE f == [i \in DOMAIN entries |-> IF i = roFileNoKey THEN [entries[i] EXCEPT !.open = FALSE]
                                          ELSE entries[i]]
<1>1. entries' = Append(f, NewEntry(NoKey)) /\ roFileNoKey' = Len(entries) + 1
  BY DEF GetNoKey
<1>2. Opened(c, Len(entries) + 1) /\ active' \in Int
  BY DEF GetNoKey, ServerTypeOK
<1>3. \A i \in DOMAIN entries : entries[i] \in States
  BY DEF ServerTypeOK
<1>4. \A i \in DOMAIN entries :
        /\ f[i] \in States /\ f[i].key = entries[i].key /\ f[i].refcount = entries[i].refcount
        /\ f[i].open <=> entries[i].open /\ i # roFileNoKey
  BY <1>3, ShutState
<1>5. f \in Seq(States) /\ Len(f) = Len(entries)
  <2>1. f = [i \in DOMAIN entries |-> f[i]] /\ entries \in Seq(States) /\ DOMAIN f = DOMAIN entries
    BY DEF ServerTypeOK
  <2> HIDE DEF f
  <2> QED
    BY <1>4, <2>1, EntriesType
<1>6. NewEntry(NoKey) \in States /\ Len(entries) \in Nat /\ DOMAIN entries = 1..Len(entries)
  BY NewEntryLast
<1> HIDE DEF f
<1>7. /\ entries' \in Seq(States) /\ Len(entries') = Len(entries) + 1
      /\ \A i \in 1..Len(entries) : entries'[i] = f[i]
      /\ entries'[Len(entries) + 1] = NewEntry(NoKey)
  BY <1>1, <1>5, <1>6
<1> QED
  BY <1>1, <1>2, <1>4, <1>6, <1>7 DEF Replaces

\* With the lock, a keyed entry joins the idle ones; the oldest of them may go.
LEMMA ReleaseIdleDoes ==
  ASSUME ServerTypeOK, SnapsNamed, NEW c \in Conns, ReleaseIdle(c),
         entries[conn[c].snap.entry].key # NoKey
  PROVE  Evicted(entries, roFiles) /\ Cardinality(Idle(entries', roFiles')) <= MaxIdleBase
         /\ nextIdleSeq' \in Nat
<1> DEFINE e    == conn[c].snap.entry
           ents == [entries EXCEPT ![e].idleSince = nextIdleSeq + 1]
<1>1. e \in 1..Len(entries) /\ entries[e] \in States
  BY DEF SnapsNamed, ServerTypeOK, ReleaseIdle
<1>2. EvictIdle(ents, roFiles) /\ nextIdleSeq' \in Nat
  BY DEF ReleaseIdle, ServerTypeOK
<1>3. \A q : q = [entries[e] EXCEPT !.idleSince = nextIdleSeq + 1] =>
        /\ q \in States /\ q.key = entries[e].key /\ q.open = entries[e].open
        /\ q.refcount = entries[e].refcount
  <2>1. nextIdleSeq + 1 \in Nat
    BY DEF ServerTypeOK
  <2> QED
    BY <1>1, <2>1 DEF States
<1>4. /\ ents \in Seq(States) /\ Len(ents) = Len(entries)
      /\ \A i \in 1..Len(entries) :
           ents[i] = IF i = e THEN [entries[e] EXCEPT !.idleSince = nextIdleSeq + 1] ELSE entries[i]
  <2>1. \A i \in 1..Len(entries) :
          ents[i] = IF i = e THEN [entries[e] EXCEPT !.idleSince = nextIdleSeq + 1] ELSE entries[i]
    BY DEF ServerTypeOK
  <2>2. \A i \in DOMAIN entries : ents[i] \in States
    BY <1>3, <2>1 DEF ServerTypeOK
  <2>3. ents = [i \in DOMAIN entries |-> ents[i]] /\ DOMAIN ents = DOMAIN entries
        /\ entries \in Seq(States)
    BY DEF ServerTypeOK
  <2> HIDE DEF ents, e
  <2>4. ents \in Seq(States) /\ Len(ents) = Len(entries)
    BY <2>2, <2>3, EntriesType
  <2> QED
    BY <2>1, <2>4
<1>5. roFiles \in [Keys -> 0..Len(ents)]
  BY <1>4 DEF ServerTypeOK
<1>6. \A i \in 1..Len(entries) :
        /\ ents[i].key = entries[i].key /\ ents[i].open = entries[i].open
        /\ ents[i].refcount = entries[i].refcount
  BY <1>3, <1>4
<1> HIDE DEF ents, e
<1>7. Evicted(ents, roFiles) /\ Cardinality(Idle(entries', roFiles')) <= MaxIdleBase
  BY <1>2, <1>4, <1>5, EvictIdleDoes, EvictIdleBounds
<1>8. Evicted(entries, roFiles)
  <2>1. \A k \in Keys : roFiles[k] # 0 => roFiles[k] \in 1..Len(entries)
    BY DEF ServerTypeOK
  <2>2. \A i \in 1..Len(entries) :
          /\ entries'[i].key = entries[i].key
          /\ entries'[i].refcount = entries[i].refcount
          /\ entries'[i].open => entries[i].open
    BY <1>4, <1>6, <1>7 DEF Evicted
  <2>3. \A i \in 1..Len(entries) : entries[i].open /\ ~entries'[i].open =>
          \E k \in Keys : roFiles[k] = i /\ roFiles'[k] = 0 /\ entries[i].refcount = 0
    BY <1>4, <1>6, <1>7 DEF Evicted
  <2>4. \A k \in Keys : roFiles[k] # 0 /\ entries[roFiles[k]].refcount # 0 => roFiles'[k] = roFiles[k]
    BY <1>4, <1>6, <1>7, <2>1 DEF Evicted
  <2> QED
    BY <1>4, <1>7, <2>2, <2>3, <2>4 DEF Evicted
<1> QED
  BY <1>2, <1>7, <1>8

\* Close forgets and closes what is cached and gives the shared snapshot back.
Closes ==
  /\ entries' \in Seq(States) /\ Len(entries') = Len(entries)
  /\ \A i \in 1..Len(entries) :
       /\ entries'[i].key = entries[i].key
       /\ entries'[i].refcount = entries[i].refcount
            - (IF sharedSnap # NoSnap /\ i = sharedSnap.entry THEN 1 ELSE 0)

\* Close does that.
LEMMA ServerCloseDoes ==
  ASSUME ServerTypeOK, SnapsNamed, RefcountExact, ServerClose
  PROVE  Closes /\ active' \in Int
<1> DEFINE rc == IF sharedSnap = NoSnap THEN 1 ELSE entries[sharedSnap.entry].refcount - 1
<1>1. DOMAIN entries = 1..Len(entries) /\ Len(entries) \in Nat
  BY DEF ServerTypeOK
<1>2. \A i \in 1..Len(entries) : entries[i] \in States
  BY DEF ServerTypeOK
<1>3. sharedSnap # NoSnap => /\ sharedSnap.entry \in 1..Len(entries)
                             /\ entries[sharedSnap.entry].refcount > 0
  <2> SUFFICES ASSUME sharedSnap # NoSnap
               PROVE  /\ sharedSnap.entry \in 1..Len(entries)
                      /\ entries[sharedSnap.entry].refcount > 0
    OBVIOUS
  <2>1. sharedSnap \in Snaps /\ sharedSnap.entry \in DOMAIN entries
    BY <1>1 DEF Snaps, SnapsNamed
  <2> QED
    BY <1>1, <2>1, UsedIsCounted, Zenon
<1>4. sharedSnap = NoSnap => sharedSnap.entry = 0
  BY DEF NoSnap
<1>5. \A i \in 1..Len(entries) :
        /\ entries'[i].key = entries[i].key /\ entries'[i].idleSince = entries[i].idleSince
        /\ entries'[i].refcount = IF i = sharedSnap.entry THEN rc ELSE entries[i].refcount
        /\ entries'[i].open \in BOOLEAN
        /\ entries'[i] = [key |-> entries'[i].key, refcount |-> entries'[i].refcount,
                          idleSince |-> entries'[i].idleSince, open |-> entries'[i].open]
  BY <1>1 DEF ServerClose
<1>6. \A i \in 1..Len(entries) :
        /\ entries'[i].refcount \in Nat
        /\ entries'[i].refcount = entries[i].refcount
             - (IF sharedSnap # NoSnap /\ i = sharedSnap.entry THEN 1 ELSE 0)
  <2> SUFFICES ASSUME NEW i \in 1..Len(entries)
               PROVE  /\ entries'[i].refcount \in Nat
                      /\ entries'[i].refcount = entries[i].refcount
                           - (IF sharedSnap # NoSnap /\ i = sharedSnap.entry THEN 1 ELSE 0)
    OBVIOUS
  <2>1. entries[i].refcount \in Nat
    BY <1>2 DEF States
  <2>2. CASE i = sharedSnap.entry
    <3>1. sharedSnap # NoSnap
      BY <1>4, <2>2
    <3>2. entries'[i].refcount = entries[i].refcount - 1
      BY <1>5, <2>2, <3>1
    <3>3. entries[i].refcount > 0
      BY <1>3, <2>2, <3>1
    <3> QED
      BY <2>1, <2>2, <3>1, <3>2, <3>3
  <2>3. CASE i # sharedSnap.entry
    <3>1. entries'[i].refcount = entries[i].refcount
      BY <1>5, <2>3
    <3>2. entries[i].refcount = entries[i].refcount - 0
      BY <2>1
    <3> QED
      BY <2>1, <2>3, <3>1, <3>2
  <2> QED
    BY <2>2, <2>3
<1>7. \A i \in DOMAIN entries : entries'[i] \in States
  <2> SUFFICES ASSUME NEW i \in 1..Len(entries)
               PROVE  entries'[i] \in States
    BY <1>1
  <2>1. entries[i] \in States /\ entries'[i].refcount \in Nat
    BY <1>2, <1>6
  <2>2. entries[i].key \in Keys \cup {NoKey} /\ entries[i].idleSince \in Nat
    BY <2>1 DEF States
  <2>3. /\ entries'[i].key = entries[i].key /\ entries'[i].idleSince = entries[i].idleSince
        /\ entries'[i].open \in BOOLEAN
        /\ entries'[i] = [key |-> entries'[i].key, refcount |-> entries'[i].refcount,
                          idleSince |-> entries'[i].idleSince, open |-> entries'[i].open]
    BY <1>5
  <2> QED
    BY <2>1, <2>2, <2>3 DEF States
<1>8. entries' = [i \in DOMAIN entries |-> entries'[i]] /\ DOMAIN entries' = DOMAIN entries
      /\ entries \in Seq(States)
  BY DEF ServerClose, ServerTypeOK
<1>9. entries' \in Seq(States) /\ Len(entries') = Len(entries)
  BY <1>7, <1>8, EntriesType
<1>10. active' \in Int
  BY DEF ServerClose, ServerTypeOK
<1> QED
  BY <1>5, <1>6, <1>9, <1>10 DEF Closes
-----------------------------------------------------------------------------
(* The invariant is inductive *)

Inv == ServerTypeOK /\ SnapsNamed /\ CachedOpen /\ RefcountExact /\ InUseIsOpen /\ NoBaseLeaks

\* The steps that change only a handler and the shared snapshot.
ServerQuiet(c) == Connect(c) \/ GetFails(c) \/ GetAfterClose(c) \/ Install(c) \/ SnapshotFails(c)
            \/ Disconnect(c)

\* A quiet step leaves the entries, the maps and the lock alone.
LEMMA QuietKeeps ==
  ASSUME NEW c \in Conns, ServerQuiet(c)
  PROVE  /\ UNCHANGED <<entries, roFiles, roFileNoKey, nextIdleSeq, active, shared, lock, gets>>
         /\ UNCHANGED serverClosed
BY DEF ServerQuiet, Connect, GetFails, GetAfterClose, Install, SnapshotFails, Disconnect

\* What becomes of a handler in a quiet step.
LEMMA QuietMoves ==
  ASSUME ServerTypeOK, SnapsNamed, NEW c \in Conns, ServerQuiet(c)
  PROVE  /\ sharedSnap' \in Snapshots
         /\ \E h \in Handlers :
              /\ Moves(c, h)
              /\ h.pc \notin {"sharing", "zero"} /\ conn[c].pc \notin {"sharing", "zero"}
              /\ \/ h.pc \in {"idle", "get", "panic"} /\ ~Owns(c) /\ sharedSnap' = sharedSnap
                 \/ h.pc = "serving" /\ shared /\ ~Owns(c) /\ sharedSnap' = sharedSnap
                 \/ /\ h.pc = "serving" /\ shared /\ conn[c].pc = "install"
                    /\ sharedSnap = NoSnap /\ sharedSnap' = conn[c].snap
                 \/ /\ h.pc = "close" /\ h.snap = conn[c].snap /\ Owns(c) /\ sharedSnap' = sharedSnap
<1> USE DEF ServerQuiet
<1>1. /\ conn[c] \in Handlers /\ sharedSnap \in Snapshots /\ conn[c].snap \in Snapshots
      /\ IdleConn \in Handlers /\ (conn[c].pc = "install" => shared)
  BY DEF ServerTypeOK, SnapsNamed, Handlers, IdleConn, Stages, NoSnap, Snapshots
<1>2. CASE Connect(c)
  <2>1. CASE shared /\ sharedSnap # NoSnap
    <3> DEFINE h == [pc |-> "serving", snap |-> sharedSnap, then |-> "idle"]
    <3>1. conn' = [conn EXCEPT ![c] = h] /\ sharedSnap' = sharedSnap /\ conn[c].pc = "idle"
      BY <1>2, <2>1 DEF Connect
    <3>2. h \in Handlers /\ h.pc = "serving"
      BY <1>1 DEF Handlers, Stages
    <3> HIDE DEF h
    <3>3. Moves(c, h)
      BY <3>1, <3>2, HandlerMoves
    <3> QED
      BY <1>1, <2>1, <3>1, <3>2, <3>3 DEF Owns
  <2>2. CASE ~(shared /\ sharedSnap # NoSnap)
    <3> DEFINE h == [conn[c] EXCEPT !.pc = "get"]
    <3>1. conn' = [conn EXCEPT ![c] = h] /\ sharedSnap' = sharedSnap /\ conn[c].pc = "idle"
      BY <1>2, <2>2 DEF Connect
    <3>2. h \in Handlers /\ h.pc = "get"
      BY <1>1 DEF Handlers, Stages
    <3> HIDE DEF h
    <3>3. Moves(c, h)
      BY <3>1, <3>2, HandlerMoves
    <3> QED
      BY <1>1, <3>1, <3>2, <3>3 DEF Owns
  <2> QED
    BY <2>1, <2>2
<1>3. CASE GetFails(c)
  <2> DEFINE h == IdleConn
  <2>1. conn' = [conn EXCEPT ![c] = h] /\ sharedSnap' = sharedSnap /\ conn[c].pc = "get"
    BY <1>3 DEF GetFails
  <2>2. h \in Handlers /\ h.pc = "idle"
    BY <1>1 DEF Handlers, Stages, IdleConn
  <2> HIDE DEF h
  <2>3. Moves(c, h)
    BY <2>1, <2>2, HandlerMoves
  <2> QED
    BY <1>1, <1>3, <2>1, <2>2, <2>3 DEF Owns
<1>4. CASE GetAfterClose(c)
  <2> DEFINE h == [conn[c] EXCEPT !.pc = "panic"]
  <2>1. conn' = [conn EXCEPT ![c] = h] /\ sharedSnap' = sharedSnap /\ conn[c].pc = "get"
    BY <1>4 DEF GetAfterClose
  <2>2. h \in Handlers /\ h.pc = "panic"
    BY <1>1 DEF Handlers, Stages, IdleConn
  <2> HIDE DEF h
  <2>3. Moves(c, h)
    BY <2>1, <2>2, HandlerMoves
  <2> QED
    BY <1>1, <1>4, <2>1, <2>2, <2>3 DEF Owns
<1>5. CASE Install(c) /\ sharedSnap = NoSnap
  <2> DEFINE h == [conn[c] EXCEPT !.pc = "serving"]
  <2>1. conn' = [conn EXCEPT ![c] = h] /\ sharedSnap' = conn[c].snap /\ conn[c].pc = "install"
    BY <1>5 DEF Install
  <2>2. h \in Handlers /\ h.pc = "serving"
    BY <1>1 DEF Handlers, Stages, IdleConn
  <2> HIDE DEF h
  <2>3. Moves(c, h)
    BY <2>1, <2>2, HandlerMoves
  <2> QED
    BY <1>1, <1>5, <2>1, <2>2, <2>3 DEF Owns
<1>6. CASE Install(c) /\ sharedSnap # NoSnap
  <2> DEFINE h == [pc |-> "close", snap |-> conn[c].snap, then |-> "serving"]
  <2>1. conn' = [conn EXCEPT ![c] = h] /\ sharedSnap' = sharedSnap /\ conn[c].pc = "install"
    BY <1>6 DEF Install
  <2>2. h \in Handlers /\ h.pc = "close" /\ h.snap = conn[c].snap
    BY <1>1 DEF Handlers, Stages, IdleConn
  <2> HIDE DEF h
  <2>3. Moves(c, h)
    BY <2>1, <2>2, HandlerMoves
  <2> QED
    BY <1>1, <1>6, <2>1, <2>2, <2>3 DEF Owns
<1>7. CASE SnapshotFails(c)
  <2> DEFINE h == [conn[c] EXCEPT !.pc = "close"]
  <2>1. conn' = [conn EXCEPT ![c] = h] /\ sharedSnap' = sharedSnap /\ conn[c].pc = "install"
    BY <1>7 DEF SnapshotFails
  <2>2. h \in Handlers /\ h.pc = "close" /\ h.snap = conn[c].snap
    BY <1>1 DEF Handlers, Stages, IdleConn
  <2> HIDE DEF h
  <2>3. Moves(c, h)
    BY <2>1, <2>2, HandlerMoves
  <2> QED
    BY <1>1, <1>7, <2>1, <2>2, <2>3 DEF Owns
<1>8. CASE Disconnect(c) /\ shared
  <2> DEFINE h == IdleConn
  <2>1. conn' = [conn EXCEPT ![c] = h] /\ sharedSnap' = sharedSnap /\ conn[c].pc = "serving"
    BY <1>8 DEF Disconnect
  <2>2. h \in Handlers /\ h.pc = "idle"
    BY <1>1 DEF Handlers, Stages, IdleConn
  <2> HIDE DEF h
  <2>3. Moves(c, h)
    BY <2>1, <2>2, HandlerMoves
  <2> QED
    BY <1>1, <1>8, <2>1, <2>2, <2>3 DEF Owns
<1>9. CASE Disconnect(c) /\ ~shared
  <2> DEFINE h == [conn[c] EXCEPT !.pc = "close"]
  <2>1. conn' = [conn EXCEPT ![c] = h] /\ sharedSnap' = sharedSnap /\ conn[c].pc = "serving"
    BY <1>9 DEF Disconnect
  <2>2. h \in Handlers /\ h.pc = "close" /\ h.snap = conn[c].snap
    BY <1>1 DEF Handlers, Stages, IdleConn
  <2> HIDE DEF h
  <2>3. Moves(c, h)
    BY <2>1, <2>2, HandlerMoves
  <2> QED
    BY <1>1, <1>9, <2>1, <2>2, <2>3 DEF Owns
<1> QED
  BY <1>2, <1>3, <1>4, <1>5, <1>6, <1>7, <1>8, <1>9

\* Who has which snapshot after a handler has moved.
LEMMA OwnersAfter ==
  ASSUME NEW c \in Conns, NEW h, Moves(c, h), shared' = shared
  PROVE  /\ Owns(c)' <=> h.pc \in {"install", "close"} \/ (h.pc = "serving" /\ ~shared)
         /\ \A d \in Conns : d # c => (Owns(d)' <=> Owns(d)) /\ conn'[d] = conn[d]
         /\ conn'[c] = h
BY DEF Owns, Moves

\* A step that makes no snapshot and gives none back.
LEMMA SnapsStay ==
  ASSUME ServerTypeOK, SnapsNamed, NEW c \in Conns, NEW h, Moves(c, h), shared' = shared,
         sharedSnap' = sharedSnap, gets' = gets, Len(entries') = Len(entries),
         Owns(c)' <=> Owns(c), Owns(c) => h.snap = conn[c].snap,
         h.pc = "zero" => h.snap.entry \in 1..Len(entries), h.pc # "install"
  PROVE  SnapsNamed' /\ Snaps' = Snaps
<1>1. SnapsNamed'
  BY OwnersAfter DEF SnapsNamed
<1>2. \A s : s \in Snaps' <=> s \in Snaps
  BY OwnersAfter DEF Snaps
<1> QED
  BY <1>1, <1>2

\* A step in which a handler shares its snapshot.
LEMMA SnapsShared ==
  ASSUME ServerTypeOK, SnapsNamed, NEW c \in Conns, NEW h, Moves(c, h), shared, shared' = shared,
         sharedSnap = NoSnap, sharedSnap' = conn[c].snap, gets' = gets, Len(entries') = Len(entries),
         Owns(c), h.pc = "serving"
  PROVE  SnapsNamed' /\ Snaps' = Snaps
<1>1. conn[c].snap # NoSnap
  BY DEF SnapsNamed, NoSnap, ServerTypeOK
<1>2. ~Owns(c)'
  BY OwnersAfter
<1>3. SnapsNamed'
  BY <1>2, OwnersAfter DEF SnapsNamed
<1>4. \A s : s \in Snaps' <=> s \in Snaps
  BY <1>1, <1>2, OwnersAfter DEF Snaps
<1> QED
  BY <1>3, <1>4

\* A quiet step neither makes nor loses a snapshot.
LEMMA SnapsQuiet ==
  ASSUME ServerTypeOK, SnapsNamed, NEW c \in Conns, ServerQuiet(c)
  PROVE  SnapsNamed' /\ Snaps' = Snaps
<1>1. PICK h \in Handlers :
        /\ Moves(c, h)
        /\ h.pc \notin {"sharing", "zero"} /\ conn[c].pc \notin {"sharing", "zero"}
        /\ \/ h.pc \in {"idle", "get", "panic"} /\ ~Owns(c) /\ sharedSnap' = sharedSnap
           \/ h.pc = "serving" /\ shared /\ ~Owns(c) /\ sharedSnap' = sharedSnap
           \/ /\ h.pc = "serving" /\ shared /\ conn[c].pc = "install"
              /\ sharedSnap = NoSnap /\ sharedSnap' = conn[c].snap
           \/ /\ h.pc = "close" /\ h.snap = conn[c].snap /\ Owns(c) /\ sharedSnap' = sharedSnap
  BY QuietMoves
<1>2. entries' = entries /\ shared' = shared /\ gets' = gets
  BY QuietKeeps
<1>3. CASE sharedSnap' = sharedSnap /\ ~Owns(c) /\ (h.pc \in {"idle", "get", "panic"} \/ (h.pc = "serving" /\ shared))
  BY <1>1, <1>2, <1>3, OwnersAfter, SnapsStay
<1>4. CASE h.pc = "close" /\ h.snap = conn[c].snap /\ Owns(c) /\ sharedSnap' = sharedSnap
  BY <1>1, <1>2, <1>4, OwnersAfter, SnapsStay
<1>5. CASE /\ h.pc = "serving" /\ shared /\ conn[c].pc = "install"
           /\ sharedSnap = NoSnap /\ sharedSnap' = conn[c].snap
  BY <1>1, <1>2, <1>5, SnapsShared DEF Owns
<1> QED
  BY <1>1, <1>3, <1>4, <1>5

\* A handler that opens a base image has one snapshot more, with an id of its own.
LEMMA SnapsOpened ==
  ASSUME ServerTypeOK, SnapsNamed, NEW c \in Conns, NEW e \in 1..Len(entries'), Opened(c, e),
         ~Owns(c), shared' = shared, sharedSnap' = sharedSnap,
         Len(entries) \in Nat, Len(entries') \in Nat, Len(entries) <= Len(entries')
  PROVE  /\ SnapsNamed' /\ [id |-> gets + 1, entry |-> e] \notin Snaps
         /\ Snaps' = Snaps \cup {[id |-> gets + 1, entry |-> e]}
<1> DEFINE t == [id |-> gets + 1, entry |-> e]
           h == [pc |-> IF shared THEN "install" ELSE "serving", snap |-> t, then |-> "idle"]
<1>1. gets' = gets + 1 /\ gets \in Nat /\ Moves(c, h)
  BY OpenedMoves DEF ServerTypeOK
<1>2. h.snap = t /\ t.id = gets + 1 /\ t.entry = e /\ h.pc # "zero"
      /\ h.pc = IF shared THEN "install" ELSE "serving"
  OBVIOUS
<1> HIDE DEF h, t
<1>3. Owns(c)'
  BY <1>1, <1>2, OwnersAfter
<1>4. sharedSnap.id # gets + 1
  BY <1>1 DEF SnapsNamed, NoSnap
<1>5. SnapsNamed'
  <2>1. \A d \in Conns : Owns(d)' => \/ d = c /\ conn'[d] = h
                                     \/ d # c /\ Owns(d) /\ conn'[d] = conn[d]
    BY <1>1, OwnersAfter
  <2>2. \A d \in Conns : d # c => conn'[d] = conn[d]
    BY <1>1, OwnersAfter
  <2>3. \A d \in Conns : Owns(d) =>
          /\ conn[d].snap.id \in 1..gets /\ conn[d].snap.entry \in 1..Len(entries)
          /\ conn[d].snap.id # sharedSnap.id
    BY DEF SnapsNamed
  <2>4. \A d \in Conns : Owns(d)' =>
          /\ conn'[d].snap.id \in 1..gets' /\ conn'[d].snap.entry \in 1..Len(entries')
          /\ conn'[d].snap.id # sharedSnap'.id
    BY <1>1, <1>2, <1>4, <2>1, <2>3
  <2>5. \A d, f \in Conns : Owns(d)' /\ Owns(f)' /\ d # f => conn'[d].snap.id # conn'[f].snap.id
    <3>1. \A d \in Conns : Owns(d) => conn[d].snap.id # gets + 1
      BY <1>1, <2>3
    <3>2. \A d, f \in Conns : Owns(d) /\ Owns(f) /\ d # f => conn[d].snap.id # conn[f].snap.id
      BY DEF SnapsNamed
    <3> QED
      BY <1>2, <2>1, <3>1, <3>2
  <2>6. sharedSnap' # NoSnap => /\ shared' /\ sharedSnap'.id \in 1..gets'
                                /\ sharedSnap'.entry \in 1..Len(entries')
    BY <1>1 DEF SnapsNamed
  <2>7. \A d \in Conns : /\ conn'[d].pc = "zero" => conn'[d].snap.entry \in 1..Len(entries')
                         /\ conn'[d].pc = "install" => shared'
    <3> SUFFICES ASSUME NEW d \in Conns
                 PROVE  /\ conn'[d].pc = "zero" => conn'[d].snap.entry \in 1..Len(entries')
                        /\ conn'[d].pc = "install" => shared'
      OBVIOUS
    <3>1. CASE d = c
      BY <1>1, <1>2, <3>1, OwnersAfter
    <3>2. CASE d # c
      BY <2>2, <3>2 DEF SnapsNamed
    <3> QED
      BY <3>1, <3>2
  <2> QED
    BY <2>4, <2>5, <2>6, <2>7 DEF SnapsNamed
<1>6. \A s : s \in Snaps' <=> s \in Snaps \/ s = t
  BY <1>1, <1>2, <1>3, OwnersAfter DEF Snaps
<1>7. t \notin Snaps
  BY <1>1, <1>2, <1>4 DEF Snaps, SnapsNamed
<1> QED
  BY <1>5, <1>6, <1>7 DEF t

\* A handler that gives its snapshot back has it no more, and nobody else had it.
LEMMA SnapsReleased ==
  ASSUME ServerTypeOK, SnapsNamed, NEW c \in Conns, NEW h, Moves(c, h), Owns(c), ~Owns(c)',
         shared' = shared, sharedSnap' = sharedSnap, gets' = gets, Len(entries') = Len(entries),
         h.pc = "zero" => h.snap = conn[c].snap, h.pc # "install"
  PROVE  SnapsNamed' /\ Snaps' = Snaps \ {conn[c].snap}
<1>1. SnapsNamed'
  BY OwnersAfter DEF SnapsNamed
<1>2. \A s : s \in Snaps' <=> s \in Snaps /\ s # conn[c].snap
  <2>1. \A d \in Conns : (Owns(d)' <=> Owns(d) /\ d # c) /\ (d # c => conn'[d] = conn[d])
    BY OwnersAfter
  <2>2. \A d \in Conns : Owns(d) /\ d # c => conn[d].snap # conn[c].snap
    BY DEF SnapsNamed
  <2>3. sharedSnap # conn[c].snap
    BY DEF SnapsNamed
  <2> QED
    BY <2>1, <2>2, <2>3 DEF Snaps
<1> QED
  BY <1>1, <1>2

\* What a handler does after a release owns nothing.
LEMMA ReleasedOwnsNothing ==
  ASSUME ServerTypeOK, SnapsNamed, NEW c \in Conns
  PROVE  /\ Released(c).pc \in {"idle", "panic", "serving"}
         /\ Released(c).pc = "serving" => shared
BY DEF Released, IdleConn, SnapsNamed

\* Counts that stay as they are.
LEMMA RefcountStays ==
  ASSUME ServerTypeOK, RefcountExact, Snaps' = Snaps, DOMAIN entries' = DOMAIN entries,
         \A e \in DOMAIN entries : entries'[e].refcount = entries[e].refcount
  PROVE  RefcountExact'
BY DEF RefcountExact

\* Every snapshot has a base image.
LEMMA SnapsHaveEntries ==
  ASSUME SnapsNamed
  PROVE  \A s \in Snaps : s.entry \in 1..Len(entries)
BY DEF Snaps, SnapsNamed

\* A quiet step.
LEMMA QuietInv ==
  ASSUME Inv, NEW c \in Conns, ServerQuiet(c)
  PROVE  Inv'
<1> USE DEF Inv
<1>1. PICK h \in Handlers : /\ Moves(c, h)
                            /\ h.pc # "sharing" /\ conn[c].pc # "sharing"
  BY QuietMoves
<1>2. UNCHANGED <<entries, roFiles, roFileNoKey, nextIdleSeq, active, shared, lock, gets, serverClosed>>
  BY QuietKeeps
<1>3. ServerTypeOK'
  <2>1. sharedSnap' \in Snapshots /\ conn' \in [Conns -> Handlers]
    BY <1>1, QuietMoves DEF Moves
  <2> QED
    BY <1>2, <2>1 DEF ServerTypeOK
<1>4. SnapsNamed' /\ Snaps' = Snaps
  BY SnapsQuiet
<1>5. CachedOpen'
  BY <1>1, <1>2 DEF CachedOpen, Moves
<1>6. RefcountExact'
  BY <1>2, <1>4, RefcountStays
<1>7. InUseIsOpen' /\ NoBaseLeaks'
  BY <1>2, <1>4 DEF InUseIsOpen, NoBaseLeaks
<1> QED
  BY <1>3, <1>4, <1>5, <1>6, <1>7

\* A snapshot of an entry that is there already.
LEMMA SharedEntryInv ==
  ASSUME Inv, NEW c \in Conns, NEW e \in 1..Len(entries), Shares(e), Opened(c, e), entries[e].open,
         conn[c].pc \in {"get", "sharing"}, active' \in Int,
         UNCHANGED <<roFiles, roFileNoKey, nextIdleSeq, shared, sharedSnap, serverClosed>>,
         lock' \in Conns \cup {NoConn},
         \A d \in Conns : d # c /\ conn[d].pc = "sharing" => lock' = lock
  PROVE  Inv'
<1> USE DEF Inv
<1> DEFINE t == [id |-> gets + 1, entry |-> e]
           h == [pc |-> IF shared THEN "install" ELSE "serving", snap |-> t, then |-> "idle"]
<1>1. e \in Nat /\ Len(entries) \in Nat /\ DOMAIN entries = 1..Len(entries)
  BY DEF ServerTypeOK
<1>2. /\ entries' \in Seq(States) /\ Len(entries') = Len(entries) + 1
      /\ DOMAIN entries' = 1..(Len(entries) + 1)
      /\ \A i \in 1..Len(entries) :
           /\ entries'[i].key = entries[i].key /\ entries'[i].open = entries[i].open
           /\ entries'[i].refcount = entries[i].refcount + (IF i = e THEN 1 ELSE 0)
      /\ ~entries'[Len(entries) + 1].open /\ entries'[Len(entries) + 1].refcount = 0
  BY DEF Shares
<1>3. gets' \in Nat /\ Moves(c, h) /\ h.pc # "sharing"
  BY <1>1, OpenedMoves
<1> HIDE DEF h
<1>4. ServerTypeOK'
  BY <1>2, <1>3 DEF ServerTypeOK, Moves
<1>5. SnapsNamed' /\ t \notin Snaps /\ Snaps' = Snaps \cup {t}
  <2>1. e \in 1..Len(entries') /\ Len(entries') \in Nat /\ Len(entries) <= Len(entries')
    BY <1>1, <1>2
  <2> QED
    BY <1>1, <2>1, SnapsOpened DEF Owns
<1>6. CachedOpen'
  <2>1. \A k \in Keys : roFiles[k] # 0 => roFiles[k] \in 1..Len(entries)
    BY DEF ServerTypeOK
  <2>2. \A k \in Keys : roFiles'[k] # 0 => entries'[roFiles'[k]].key = k /\ entries'[roFiles'[k]].open
    BY <1>2, <2>1 DEF CachedOpen
  <2>3. roFileNoKey' # 0 => entries'[roFileNoKey'].key = NoKey /\ entries'[roFileNoKey'].open
    BY <1>2 DEF CachedOpen, ServerTypeOK
  <2>4. \A d \in Conns : conn'[d].pc = "sharing" =>
          lock' = d /\ roFileNoKey' # 0 /\ conn'[d].snap.entry = roFileNoKey'
    BY <1>3 DEF CachedOpen, Moves
  <2>5. serverClosed' => \A k \in Keys : roFiles'[k] = 0
    BY DEF CachedOpen
  <2> QED
    BY <2>2, <2>3, <2>4, <2>5 DEF CachedOpen
<1>7. RefcountExact'
  <2>1. t.entry = e
    OBVIOUS
  <2>2. \A i \in DOMAIN entries' :
          entries'[i].refcount = (IF i \in DOMAIN entries THEN entries[i].refcount ELSE 0)
                                 + (IF i = t.entry THEN 1 ELSE 0)
    <3> SUFFICES ASSUME NEW i \in 1..(Len(entries) + 1)
                 PROVE  entries'[i].refcount = (IF i \in DOMAIN entries THEN entries[i].refcount ELSE 0)
                                               + (IF i = e THEN 1 ELSE 0)
      BY <1>2, <2>1
    <3>1. CASE i = Len(entries) + 1
      <4>1. i \notin DOMAIN entries /\ i # e /\ entries'[i].refcount = 0
        BY <1>1, <1>2, <3>1
      <4> QED
        BY <4>1
    <3>2. CASE i # Len(entries) + 1
      <4>1. i \in DOMAIN entries
        BY <1>1, <3>2
      <4> QED
        BY <1>1, <1>2, <4>1
    <3> QED
      BY <3>1, <3>2
  <2>3. DOMAIN entries \subseteq DOMAIN entries'
    BY <1>1, <1>2
  <2> HIDE DEF t
  <2> QED
    BY <1>5, <2>2, <2>3, SnapsHaveEntries, SnapEnters
<1>8. InUseIsOpen'
  <2>1. t.entry = e
    OBVIOUS
  <2>2. \A s \in Snaps' : s.entry = e \/ (s \in Snaps /\ s.entry \in 1..Len(entries))
    BY <1>5, <2>1, SnapsHaveEntries
  <2> QED
    BY <1>2, <2>2 DEF InUseIsOpen
<1>9. NoBaseLeaks'
  BY <1>1, <1>2 DEF NoBaseLeaks
<1> QED
  BY <1>4, <1>5, <1>6, <1>7, <1>8, <1>9

\* A keyed source that is cached.
LEMMA ReuseInv ==
  ASSUME Inv, NEW c \in Conns, NEW key \in Keys, GetKeyed(c, key), roFiles[key] # 0
  PROVE  Inv'
<1>1. /\ conn[c].pc \in {"get", "sharing"} /\ lock' = lock /\ lock \in Conns \cup {NoConn}
      /\ UNCHANGED <<roFileNoKey, nextIdleSeq, shared, sharedSnap, serverClosed>>
  BY DEF GetKeyed, Inv, ServerTypeOK
<1>2. /\ Shares(roFiles[key]) /\ Opened(c, roFiles[key]) /\ active' \in Int
      /\ roFiles[key] \in 1..Len(entries) /\ roFiles' = roFiles
  BY ReuseDoes DEF Inv
<1>3. entries[roFiles[key]].open
  BY DEF Inv, CachedOpen
<1> QED
  BY <1>1, <1>2, <1>3, SharedEntryInv

\* A source without a key whose entry is in use.
LEMMA ShareInv ==
  ASSUME Inv, NEW c \in Conns, ShareNoKey(c)
  PROVE  Inv'
<1>1. /\ conn[c].pc = "sharing" /\ lock' = NoConn
      /\ UNCHANGED <<roFiles, roFileNoKey, nextIdleSeq, active, shared, sharedSnap, serverClosed>>
  BY DEF ShareNoKey
<1>2. Shares(roFileNoKey) /\ Opened(c, roFileNoKey) /\ roFileNoKey \in 1..Len(entries)
  BY ShareNoKeyDoes DEF Inv
<1>3. \A d \in Conns : d # c => conn[d].pc # "sharing"
  BY <1>1 DEF Inv, CachedOpen
<1>4. active' \in Int
  BY <1>1 DEF Inv, ServerTypeOK
<1>5. entries[roFileNoKey].open
  BY <1>1 DEF Inv, CachedOpen
<1> QED
  BY <1>1, <1>2, <1>3, <1>4, <1>5, SharedEntryInv

\* A source without a key: its entry is in use and is about to be shared.
LEMMA LookInv ==
  ASSUME Inv, NEW c \in Conns, GetNoKey(c), roFileNoKey # 0 /\ entries[roFileNoKey].refcount > 0
  PROVE  Inv' /\ Snaps' = Snaps /\ UNCHANGED <<entries, roFiles, roFileNoKey, serverClosed>>
         /\ \A d \in Conns : conn'[d].pc = "zero" <=> conn[d].pc = "zero"
<1> USE DEF Inv
<1> DEFINE h == [pc |-> "sharing", snap |-> [id |-> 0, entry |-> roFileNoKey], then |-> "idle"]
<1>1. /\ conn[c].pc = "get" /\ lock = NoConn /\ lock' = c /\ conn' = [conn EXCEPT ![c] = h]
      /\ UNCHANGED <<entries, roFiles, roFileNoKey, active, gets, nextIdleSeq, shared, sharedSnap, serverClosed>>
  BY DEF GetNoKey
<1>2. h \in Handlers /\ h.pc = "sharing" /\ h.snap.entry = roFileNoKey
  BY DEF Handlers, Snapshots, Stages, ServerTypeOK
<1> HIDE DEF h
<1>3. Moves(c, h)
  BY <1>1, <1>2, HandlerMoves
<1>4. ServerTypeOK'
  BY <1>1, <1>3 DEF ServerTypeOK, Moves
<1>5. ~Owns(c) /\ ~Owns(c)'
  BY <1>1, <1>2, <1>3, OwnersAfter DEF Owns
<1>6. SnapsNamed' /\ Snaps' = Snaps
  BY <1>1, <1>2, <1>3, <1>5, SnapsStay
<1>7. CachedOpen'
  <2>1. \A d \in Conns : conn[d].pc # "sharing"
    BY <1>1, BaseImagesAssumption DEF CachedOpen
  <2> QED
    BY <1>1, <1>2, <1>3, <2>1 DEF CachedOpen, Moves
<1>8. RefcountExact'
  BY <1>1, <1>6, RefcountStays
<1>9. InUseIsOpen' /\ NoBaseLeaks'
  BY <1>1, <1>6 DEF InUseIsOpen, NoBaseLeaks
<1> QED
  BY <1>1, <1>2, <1>3, <1>4, <1>6, <1>7, <1>8, <1>9 DEF Moves

\* Nobody is about to share an entry while the lock is free.
LEMMA LockFree ==
  ASSUME CachedOpen, lock = NoConn
  PROVE  \A d \in Conns : conn[d].pc # "sharing"
BY BaseImagesAssumption DEF CachedOpen

\* A snapshot of a new entry: what is common to keyed sources and others.
LEMMA NewEntryInv ==
  ASSUME Inv, NEW c \in Conns, Opened(c, Len(entries) + 1), conn[c].pc = "get",
         entries' \in Seq(States), Len(entries') = Len(entries) + 1,
         \A i \in 1..Len(entries) : entries'[i].refcount = entries[i].refcount,
         entries'[Len(entries) + 1].refcount = 1,
         UNCHANGED <<nextIdleSeq, shared, sharedSnap, lock, serverClosed>>, lock = NoConn, active' \in Int,
         roFiles' \in [Keys -> 0..(Len(entries) + 1)], roFileNoKey' \in 0..(Len(entries) + 1)
  PROVE  /\ ServerTypeOK' /\ SnapsNamed' /\ RefcountExact'
         /\ \A d \in Conns : conn'[d].pc # "sharing" /\ (conn'[d].pc = "zero" <=> conn[d].pc = "zero")
         /\ \A d \in Conns : conn'[d].pc = "zero" => conn'[d] = conn[d]
         /\ Snaps' = Snaps \cup {[id |-> gets + 1, entry |-> Len(entries) + 1]}
<1> USE DEF Inv
<1> DEFINE e == Len(entries) + 1
           t == [id |-> gets + 1, entry |-> e]
           h == [pc |-> IF shared THEN "install" ELSE "serving", snap |-> t, then |-> "idle"]
<1>1. /\ e \in Nat /\ Len(entries) \in Nat /\ DOMAIN entries = 1..Len(entries)
      /\ DOMAIN entries' = 1..e
  BY DEF ServerTypeOK
<1>2. gets' \in Nat /\ Moves(c, h) /\ h.pc # "sharing" /\ h.pc # "zero"
  BY <1>1, OpenedMoves
<1> HIDE DEF h
<1>3. ServerTypeOK'
  BY <1>2 DEF ServerTypeOK, Moves
<1>4. SnapsNamed' /\ t \notin Snaps /\ Snaps' = Snaps \cup {t}
  <2>1. e \in 1..Len(entries') /\ Len(entries') \in Nat /\ Len(entries) <= Len(entries')
    BY <1>1
  <2>2. ~Owns(c)
    BY DEF Owns
  <2> QED
    BY <1>1, <2>1, <2>2, SnapsOpened
<1>5. RefcountExact'
  <2>1. t.entry = e
    OBVIOUS
  <2>2. \A i \in DOMAIN entries : entries[i].refcount \in Nat
    <3>1. \A i \in DOMAIN entries : entries[i] \in States
      BY DEF ServerTypeOK
    <3> QED
      BY <3>1 DEF States
  <2>3. \A i \in DOMAIN entries' :
          entries'[i].refcount = (IF i \in DOMAIN entries THEN entries[i].refcount ELSE 0)
                                 + (IF i = t.entry THEN 1 ELSE 0)
    <3> SUFFICES ASSUME NEW i \in 1..e
                 PROVE  entries'[i].refcount = (IF i \in DOMAIN entries THEN entries[i].refcount ELSE 0)
                                               + (IF i = t.entry THEN 1 ELSE 0)
      BY <1>1
    <3>1. CASE i = e
      <4>1. i \notin DOMAIN entries /\ entries'[i].refcount = 0 + 1
        BY <1>1, <3>1
      <4> QED
        BY <2>1, <3>1, <4>1
    <3>2. CASE i # e
      <4>1. i \in DOMAIN entries /\ entries'[i].refcount = entries[i].refcount
        BY <1>1, <3>2
      <4>2. entries[i].refcount = entries[i].refcount + 0
        BY <2>2, <4>1
      <4> QED
        BY <2>1, <3>2, <4>1, <4>2
    <3> QED
      BY <3>1, <3>2
  <2>4. DOMAIN entries \subseteq DOMAIN entries'
    BY <1>1
  <2> HIDE DEF t
  <2> QED
    BY <1>4, <2>3, <2>4, SnapsHaveEntries, SnapEnters
<1>6. \A d \in Conns : conn[d].pc # "sharing"
  BY LockFree
<1> QED
  BY <1>2, <1>3, <1>4, <1>5, <1>6 DEF Moves

\* What eviction leaves in the map is open, what it closes was not used, and what it
\* leaves open stays in the map.
LEMMA EvictedKeeps ==
  ASSUME NEW ents \in Seq(States), NEW files, Evicted(ents, files),
         \A k \in Keys : files[k] # 0 =>
           files[k] \in 1..Len(ents) /\ ents[files[k]].key = k /\ ents[files[k]].open
  PROVE  /\ \A k \in Keys : roFiles'[k] # 0 =>
              entries'[roFiles'[k]].key = k /\ entries'[roFiles'[k]].open
         /\ \A i \in 1..Len(ents) : ents[i].open /\ (ents[i].key = NoKey \/ ents[i].refcount # 0) =>
              entries'[i].open /\ entries'[i].key = ents[i].key
         /\ \A i \in 1..Len(ents) : entries'[i].open =>
              /\ ents[i].open
              /\ (\E k \in Keys : files[k] = i) => \E k \in Keys : roFiles'[k] = i
<1>1. /\ \A i \in 1..Len(ents) :
           /\ entries'[i].key = ents[i].key
           /\ entries'[i].refcount = ents[i].refcount
           /\ entries'[i].open => ents[i].open
      /\ \A i \in 1..Len(ents) : ents[i].open /\ ~entries'[i].open =>
           \E k \in Keys : files[k] = i /\ roFiles'[k] = 0 /\ ents[i].refcount = 0
      /\ \A k \in Keys : roFiles'[k] = files[k] \/ (roFiles'[k] = 0 /\ ~entries'[files[k]].open)
  BY DEF Evicted
<1>2. \A k \in Keys : roFiles'[k] # 0 => entries'[roFiles'[k]].key = k /\ entries'[roFiles'[k]].open
  <2> SUFFICES ASSUME NEW k \in Keys, roFiles'[k] # 0
               PROVE  entries'[roFiles'[k]].key = k /\ entries'[roFiles'[k]].open
    OBVIOUS
  <2>1. /\ roFiles'[k] = files[k] /\ files[k] \in 1..Len(ents)
        /\ ents[files[k]].key = k /\ ents[files[k]].open
    BY <1>1
  <2>2. ASSUME NEW j \in Keys, files[j] = files[k], roFiles'[j] = 0
        PROVE  FALSE
    BY <2>1, <2>2
  <2> QED
    BY <1>1, <2>1, <2>2
<1>3. \A k \in Keys : files[k] # 0 => ents[files[k]].key # NoKey
  BY BaseImagesAssumption
<1>4. \A i \in 1..Len(ents) : ents[i].open /\ (ents[i].key = NoKey \/ ents[i].refcount # 0) =>
        entries'[i].open /\ entries'[i].key = ents[i].key
  <2> SUFFICES ASSUME NEW i \in 1..Len(ents), ents[i].open,
                      ents[i].key = NoKey \/ ents[i].refcount # 0
               PROVE  entries'[i].open /\ entries'[i].key = ents[i].key
    OBVIOUS
  <2>1. ASSUME NEW k \in Keys, files[k] = i, ents[i].refcount = 0
        PROVE  FALSE
    BY <1>3, <2>1
  <2> QED
    BY <1>1, <2>1
<1> QED
  BY <1>1, <1>2, <1>4

\* A keyed source that is not cached.
LEMMA AddInv ==
  ASSUME Inv, NEW c \in Conns, NEW key \in Keys, GetKeyed(c, key), roFiles[key] = 0
  PROVE  Inv' /\ \A d \in Conns : conn'[d].pc = "zero" <=> conn[d].pc = "zero"
<1> USE DEF Inv
<1> DEFINE e     == Len(entries) + 1
           ents  == Append(entries, NewEntry(key))
           files == [roFiles EXCEPT ![key] = e]
<1>1. /\ conn[c].pc = "get" /\ lock = NoConn /\ ~serverClosed
      /\ UNCHANGED <<roFileNoKey, nextIdleSeq, shared, sharedSnap, lock, serverClosed>>
  BY DEF GetKeyed
<1>2. Evicted(ents, files) /\ Opened(c, e) /\ active' \in Int
  BY AddDoes
<1>3. /\ Len(ents) = e /\ Len(entries) \in Nat /\ DOMAIN entries = 1..Len(entries)
      /\ \A i \in 1..Len(entries) : ents[i] = entries[i]
      /\ ents[e].refcount = 1 /\ ents[e].key = key /\ ents[e].open
  BY NewEntryLast
<1>4. \A k \in Keys : /\ files[k] = IF k = key THEN e ELSE roFiles[k]
                      /\ roFiles[k] \in 0..Len(entries)
  BY DEF ServerTypeOK
<1> HIDE DEF ents, files
<1>5. /\ entries' \in Seq(States) /\ Len(entries') = e /\ roFiles' \in [Keys -> 0..e]
      /\ \A i \in 1..e :
           /\ entries'[i].key = ents[i].key
           /\ entries'[i].refcount = ents[i].refcount
           /\ entries'[i].open => ents[i].open
      /\ \A i \in 1..e : ents[i].open /\ ~entries'[i].open =>
           \E k \in Keys : files[k] = i /\ roFiles'[k] = 0 /\ ents[i].refcount = 0
      /\ \A k \in Keys : files[k] # 0 /\ ents[files[k]].refcount # 0 => roFiles'[k] = files[k]
      /\ \A k \in Keys : roFiles'[k] = files[k] \/ (roFiles'[k] = 0 /\ ~entries'[files[k]].open)
  BY <1>2, <1>3 DEF Evicted
<1>6. /\ \A i \in 1..Len(entries) : entries'[i].refcount = entries[i].refcount
      /\ entries'[e].refcount = 1
  BY <1>3, <1>5
<1>7. roFileNoKey' \in 0..e
  BY <1>1, <1>3 DEF ServerTypeOK
<1>8. /\ ServerTypeOK' /\ SnapsNamed' /\ RefcountExact'
      /\ \A d \in Conns : conn'[d].pc # "sharing" /\ (conn'[d].pc = "zero" <=> conn[d].pc = "zero")
      /\ Snaps' = Snaps \cup {[id |-> gets + 1, entry |-> e]}
  BY <1>1, <1>2, <1>5, <1>6, <1>7, NewEntryInv
<1>9. \A k \in Keys : files[k] # 0 =>
        files[k] \in 1..e /\ ents[files[k]].key = k /\ ents[files[k]].open
  <2> SUFFICES ASSUME NEW k \in Keys, files[k] # 0
               PROVE  files[k] \in 1..e /\ ents[files[k]].key = k /\ ents[files[k]].open
    OBVIOUS
  <2>1. CASE k = key
    BY <1>3, <1>4, <2>1
  <2>2. CASE k # key
    BY <1>3, <1>4, <2>2 DEF CachedOpen
  <2> QED
    BY <2>1, <2>2
<1>10. /\ \A k \in Keys : roFiles'[k] # 0 =>
            entries'[roFiles'[k]].key = k /\ entries'[roFiles'[k]].open
       /\ \A i \in 1..e : ents[i].open /\ (ents[i].key = NoKey \/ ents[i].refcount # 0) =>
            entries'[i].open /\ entries'[i].key = ents[i].key
       /\ \A i \in 1..e : entries'[i].open =>
            /\ ents[i].open
            /\ (\E k \in Keys : files[k] = i) => \E k \in Keys : roFiles'[k] = i
  <2>1. ents \in Seq(States)
    BY NewEntryLast DEF ents
  <2> QED
    BY <1>2, <1>3, <1>9, <2>1, EvictedKeeps
<1>11. roFileNoKey # 0 => entries'[roFileNoKey].key = NoKey /\ entries'[roFileNoKey].open
  <2> SUFFICES ASSUME roFileNoKey # 0
               PROVE  entries'[roFileNoKey].key = NoKey /\ entries'[roFileNoKey].open
    OBVIOUS
  <2>1. roFileNoKey \in 1..Len(entries) /\ roFileNoKey \in 1..e
    BY <1>3 DEF ServerTypeOK
  <2>2. ents[roFileNoKey].key = NoKey /\ ents[roFileNoKey].open
    BY <1>3, <2>1 DEF CachedOpen
  <2> QED
    BY <1>10, <2>1, <2>2
<1>12. CachedOpen'
  BY <1>1, <1>8, <1>10, <1>11 DEF CachedOpen
<1>13. InUseIsOpen'
  <2>1. \A s \in Snaps : s.entry \in 1..Len(entries) /\ entries[s.entry].open
                         /\ entries[s.entry].refcount > 0
    BY <1>1, <1>3, SnapsHaveEntries, UsedIsCounted DEF InUseIsOpen
  <2>2. \A s \in Snaps' : /\ s.entry \in 1..e
                          /\ ents[s.entry].open /\ ents[s.entry].refcount # 0
    BY <1>3, <1>8, <2>1
  <2> QED
    BY <1>10, <2>2 DEF InUseIsOpen
<1>14. NoBaseLeaks'
  <2> SUFFICES ASSUME NEW i \in 1..e, entries'[i].open
               PROVE  i = roFileNoKey \/ \E k \in Keys : roFiles'[k] = i
    BY <1>1, <1>5 DEF NoBaseLeaks
  <2>1. i = roFileNoKey \/ \E k \in Keys : files[k] = i
    <3>1. CASE i = e
      BY <1>4, <3>1
    <3>2. CASE i # e
      <4>1. i \in DOMAIN entries /\ entries[i].open
        BY <1>3, <1>10, <3>2
      <4>2. i = roFileNoKey \/ \E k \in Keys : roFiles[k] = i
        BY <1>1, <4>1 DEF NoBaseLeaks
      <4> QED
        BY <1>3, <1>4, <4>1, <4>2
    <3> QED
      BY <3>1, <3>2
  <2> QED
    BY <1>10, <2>1
<1> QED
  BY <1>8, <1>12, <1>13, <1>14

\* A source without a key and without users: its entry is replaced.
LEMMA ReplaceInv ==
  ASSUME Inv, NEW c \in Conns, GetNoKey(c),
         ~(roFileNoKey # 0 /\ entries[roFileNoKey].refcount > 0)
  PROVE  Inv' /\ \A d \in Conns : conn'[d].pc = "zero" <=> conn[d].pc = "zero"
<1> USE DEF Inv
<1> DEFINE e == Len(entries) + 1
<1>1. /\ conn[c].pc = "get" /\ lock = NoConn
      /\ UNCHANGED <<roFiles, nextIdleSeq, shared, sharedSnap, serverClosed, lock>>
  BY DEF GetNoKey
<1>2. Replaces /\ Opened(c, e) /\ active' \in Int
  BY ReplaceDoes
<1>3. /\ Len(entries) \in Nat /\ DOMAIN entries = 1..Len(entries)
      /\ NewEntry(NoKey).refcount = 1 /\ NewEntry(NoKey).key = NoKey /\ NewEntry(NoKey).open
  BY NewEntryLast
<1>4. /\ entries' \in Seq(States) /\ Len(entries') = e /\ DOMAIN entries' = 1..e
      /\ \A i \in 1..Len(entries) :
           /\ entries'[i].key = entries[i].key /\ entries'[i].refcount = entries[i].refcount
           /\ entries'[i].open <=> entries[i].open /\ i # roFileNoKey
      /\ entries'[e].refcount = 1 /\ entries'[e].key = NoKey /\ entries'[e].open
      /\ roFileNoKey' = e
  BY <1>2, <1>3 DEF Replaces
<1>5. roFiles' \in [Keys -> 0..e] /\ roFileNoKey' \in 0..e
      /\ \A k \in Keys : roFiles[k] \in 0..Len(entries)
  BY <1>1, <1>3, <1>4 DEF ServerTypeOK
<1>6. /\ ServerTypeOK' /\ SnapsNamed' /\ RefcountExact'
      /\ \A d \in Conns : conn'[d].pc # "sharing" /\ (conn'[d].pc = "zero" <=> conn[d].pc = "zero")
      /\ Snaps' = Snaps \cup {[id |-> gets + 1, entry |-> e]}
  BY <1>1, <1>2, <1>4, <1>5, NewEntryInv
<1>7. \A k \in Keys : roFiles[k] # 0 => roFiles[k] # roFileNoKey
  BY BaseImagesAssumption DEF CachedOpen
<1>8. CachedOpen'
  BY <1>1, <1>3, <1>4, <1>5, <1>6, <1>7 DEF CachedOpen
<1>9. InUseIsOpen'
  <2>1. \A s \in Snaps : s.entry \in 1..Len(entries) /\ entries[s.entry].refcount > 0
    BY <1>3, SnapsHaveEntries, UsedIsCounted
  <2>2. \A s \in Snaps : s.entry # roFileNoKey
    BY <1>3, <2>1
  <2>3. \A s \in Snaps : ~serverClosed => entries'[s.entry].open
    BY <1>4, <2>1, <2>2 DEF InUseIsOpen
  <2> QED
    BY <1>1, <1>4, <1>6, <2>3 DEF InUseIsOpen
<1>10. NoBaseLeaks'
  BY <1>1, <1>3, <1>4 DEF NoBaseLeaks
<1> QED
  BY <1>6, <1>8, <1>9, <1>10

\* A handler that gives a reference back, to go on or to wait for the lock.
LEMMA ReleaseMoves ==
  ASSUME ServerTypeOK, SnapsNamed, NEW c \in Conns, Release(c)
  PROVE  \E h \in Handlers :
           /\ Moves(c, h) /\ h.pc \notin {"sharing", "install"} /\ ~Owns(c)'
           /\ h.pc = "zero" => h.snap = conn[c].snap
           /\ entries[conn[c].snap.entry].refcount - 1 > 0 \/ h.pc = "zero"
<1>1. shared' = shared /\ conn[c] \in Handlers
  BY DEF Release, ServerTypeOK
<1>2. CASE entries[conn[c].snap.entry].refcount - 1 > 0
  <2>1. conn' = [conn EXCEPT ![c] = Released(c)]
    BY <1>2 DEF Release
  <2>2. Moves(c, Released(c)) /\ Released(c) \in Handlers
    BY <2>1, HandlerMoves, ReleasedType
  <2>3. ~Owns(c)'
    BY <1>1, <2>2, OwnersAfter, ReleasedOwnsNothing
  <2> QED
    BY <1>2, <2>2, <2>3, ReleasedOwnsNothing
<1>3. CASE ~(entries[conn[c].snap.entry].refcount - 1 > 0)
  <2> DEFINE h == [conn[c] EXCEPT !.pc = "zero"]
  <2>1. conn' = [conn EXCEPT ![c] = h]
    BY <1>3 DEF Release
  <2>2. h \in Handlers /\ h.pc = "zero" /\ h.snap = conn[c].snap
    BY <1>1 DEF Handlers, Stages
  <2> HIDE DEF h
  <2>3. Moves(c, h)
    BY <2>1, <2>2, HandlerMoves
  <2>4. ~Owns(c)'
    BY <1>1, <2>2, <2>3, OwnersAfter
  <2> QED
    BY <2>2, <2>3, <2>4
<1> QED
  BY <1>2, <1>3

\* A reference given back, outside the lock.
LEMMA ReleaseInv ==
  ASSUME Inv, NEW c \in Conns, Release(c)
  PROVE  Inv'
<1> USE DEF Inv
<1> DEFINE e == conn[c].snap.entry
<1>1. /\ Counts(e, -1) /\ e \in 1..Len(entries) /\ entries[e].refcount > 0 /\ active' \in Int
      /\ conn[c].snap \in Snaps /\ Owns(c)
  BY ReleaseDoes
<1>2. PICK h \in Handlers :
        /\ Moves(c, h) /\ h.pc \notin {"sharing", "install"} /\ ~Owns(c)'
        /\ h.pc = "zero" => h.snap = conn[c].snap
  BY ReleaseMoves
<1>3. /\ UNCHANGED <<roFiles, roFileNoKey, nextIdleSeq, shared, sharedSnap, lock, gets, serverClosed>>
      /\ conn[c].pc = "close"
  BY DEF Release
<1> HIDE DEF e
<1>4. /\ entries' \in Seq(States) /\ Len(entries') = Len(entries)
      /\ DOMAIN entries = 1..Len(entries) /\ DOMAIN entries' = 1..Len(entries)
      /\ \A i \in 1..Len(entries) :
           /\ entries'[i].key = entries[i].key /\ entries'[i].open = entries[i].open
           /\ entries'[i].refcount = entries[i].refcount + (IF i = e THEN -1 ELSE 0)
  BY <1>1 DEF Counts, ServerTypeOK
<1>5. ServerTypeOK'
  BY <1>1, <1>2, <1>3, <1>4 DEF ServerTypeOK, Moves
<1>6. SnapsNamed' /\ Snaps' = Snaps \ {conn[c].snap}
  BY <1>1, <1>2, <1>3, <1>4, SnapsReleased
<1>7. CachedOpen'
  <2>1. \A k \in Keys : roFiles[k] # 0 => roFiles[k] \in 1..Len(entries)
    BY DEF ServerTypeOK
  <2>2. roFileNoKey # 0 => roFileNoKey \in 1..Len(entries)
    BY DEF ServerTypeOK
  <2> QED
    BY <1>2, <1>3, <1>4, <2>1, <2>2 DEF CachedOpen, Moves
<1>8. RefcountExact'
  <2>1. \A i \in DOMAIN entries' :
          entries'[i].refcount = entries[i].refcount - (IF i = conn[c].snap.entry THEN 1 ELSE 0)
    <3> SUFFICES ASSUME NEW i \in 1..Len(entries)
                 PROVE  entries'[i].refcount = entries[i].refcount - (IF i = e THEN 1 ELSE 0)
      BY <1>4 DEF e
    <3>1. entries[i] \in States
      BY DEF ServerTypeOK
    <3>2. entries[i].refcount \in Nat
      BY <3>1 DEF States
    <3>3. entries'[i].refcount = entries[i].refcount + (IF i = e THEN -1 ELSE 0)
      BY <1>4
    <3> QED
      BY <3>2, <3>3
  <2> QED
    BY <1>1, <1>4, <1>6, <2>1, SnapLeaves
<1>9. InUseIsOpen'
  <2>1. \A s \in Snaps' : s \in Snaps /\ s.entry \in 1..Len(entries)
    BY <1>6, SnapsHaveEntries
  <2> QED
    BY <1>3, <1>4, <2>1 DEF InUseIsOpen
<1>10. NoBaseLeaks'
  BY <1>3, <1>4 DEF NoBaseLeaks
<1> QED
  BY <1>5, <1>6, <1>7, <1>8, <1>9, <1>10

\* The end of a release, with the lock.
LEMMA ReleaseIdleInv ==
  ASSUME Inv, NEW c \in Conns, ReleaseIdle(c)
  PROVE  Inv'
<1> USE DEF Inv
<1> DEFINE h == Released(c)
<1>1. /\ UNCHANGED <<roFileNoKey, active, shared, sharedSnap, lock, gets, serverClosed>>
      /\ conn[c].pc = "zero" /\ lock = NoConn /\ conn' = [conn EXCEPT ![c] = h]
  BY DEF ReleaseIdle
<1>2. /\ h \in Handlers /\ h.pc \notin {"sharing", "install", "zero", "close"}
      /\ h.pc = "serving" => shared
  BY ReleasedType, ReleasedOwnsNothing
<1> HIDE DEF h
<1>3. Moves(c, h)
  BY <1>1, <1>2, HandlerMoves
<1>4. ~Owns(c) /\ ~Owns(c)'
  BY <1>1, <1>2, <1>3, OwnersAfter DEF Owns
<1>5. \A k \in Keys : roFiles[k] # 0 => roFiles[k] \in 1..Len(entries)
  BY DEF ServerTypeOK
<1>6. /\ entries' \in Seq(States) /\ Len(entries') = Len(entries) /\ nextIdleSeq' \in Nat
      /\ DOMAIN entries = 1..Len(entries) /\ DOMAIN entries' = 1..Len(entries)
      /\ roFiles' \in [Keys -> 0..Len(entries)]
      /\ \A k \in Keys : roFiles'[k] = 0 \/ roFiles'[k] = roFiles[k]
      /\ \A i \in 1..Len(entries) : /\ entries'[i].refcount = entries[i].refcount
                                    /\ entries'[i].key = entries[i].key
      /\ \A k \in Keys : roFiles'[k] # 0 =>
           entries'[roFiles'[k]].key = k /\ entries'[roFiles'[k]].open
      /\ \A i \in 1..Len(entries) :
           entries[i].open /\ (entries[i].key = NoKey \/ entries[i].refcount # 0) =>
             entries'[i].open /\ entries'[i].key = entries[i].key
      /\ \A i \in 1..Len(entries) : entries'[i].open =>
           /\ entries[i].open
           /\ (\E k \in Keys : roFiles[k] = i) => \E k \in Keys : roFiles'[k] = i
  <2>1. CASE entries[conn[c].snap.entry].key = NoKey
    <3>1. UNCHANGED <<entries, roFiles, nextIdleSeq>>
      BY <2>1 DEF ReleaseIdle
    <3> QED
      BY <3>1 DEF ServerTypeOK, CachedOpen
  <2>2. CASE entries[conn[c].snap.entry].key # NoKey
    <3>1. Evicted(entries, roFiles) /\ nextIdleSeq' \in Nat
      BY <2>2, ReleaseIdleDoes
    <3>2. entries \in Seq(States) /\ DOMAIN entries = 1..Len(entries)
      BY DEF ServerTypeOK
    <3>3. \A k \in Keys : roFiles[k] # 0 =>
            roFiles[k] \in 1..Len(entries) /\ entries[roFiles[k]].key = k /\ entries[roFiles[k]].open
      BY <1>5 DEF CachedOpen
    <3>4. /\ entries' \in Seq(States) /\ Len(entries') = Len(entries)
          /\ roFiles' \in [Keys -> 0..Len(entries)]
          /\ \A k \in Keys : roFiles'[k] = 0 \/ roFiles'[k] = roFiles[k]
          /\ \A i \in 1..Len(entries) : /\ entries'[i].refcount = entries[i].refcount
                                        /\ entries'[i].key = entries[i].key
      BY <3>1 DEF Evicted
    <3>5. /\ \A k \in Keys : roFiles'[k] # 0 =>
               entries'[roFiles'[k]].key = k /\ entries'[roFiles'[k]].open
          /\ \A i \in 1..Len(entries) :
               entries[i].open /\ (entries[i].key = NoKey \/ entries[i].refcount # 0) =>
                 entries'[i].open /\ entries'[i].key = entries[i].key
          /\ \A i \in 1..Len(entries) : entries'[i].open =>
               /\ entries[i].open
               /\ (\E k \in Keys : roFiles[k] = i) => \E k \in Keys : roFiles'[k] = i
      <4> HIDE DEF Evicted
      <4> QED
        BY <3>1, <3>2, <3>3, EvictedKeeps
    <3>6. DOMAIN entries' = 1..Len(entries)
      BY <3>4
    <3> QED
      BY <3>1, <3>2, <3>4, <3>5, <3>6
  <2> QED
    BY <2>1, <2>2
<1>7. ServerTypeOK'
  BY <1>1, <1>3, <1>6 DEF ServerTypeOK, Moves
<1>8. SnapsNamed' /\ Snaps' = Snaps
  BY <1>1, <1>2, <1>3, <1>4, <1>6, SnapsStay
<1>9. CachedOpen'
  <2>1. \A d \in Conns : conn'[d].pc # "sharing"
    BY <1>1, <1>2, <1>3, LockFree DEF Moves
  <2>2. roFileNoKey # 0 => roFileNoKey \in 1..Len(entries)
    BY DEF ServerTypeOK
  <2>3. roFileNoKey # 0 => entries'[roFileNoKey].key = NoKey /\ entries'[roFileNoKey].open
    BY <1>6, <2>2 DEF CachedOpen
  <2>4. serverClosed' => \A k \in Keys : roFiles'[k] = 0
    BY <1>1, <1>6 DEF CachedOpen
  <2> QED
    BY <1>1, <1>6, <2>1, <2>3, <2>4 DEF CachedOpen
<1>10. RefcountExact'
  BY <1>6, <1>8, RefcountStays
<1>11. InUseIsOpen'
  <2>1. \A s \in Snaps : s.entry \in 1..Len(entries) /\ entries[s.entry].refcount > 0
    BY <1>6, SnapsHaveEntries, UsedIsCounted
  <2> QED
    BY <1>1, <1>6, <1>8, <2>1 DEF InUseIsOpen
<1>12. NoBaseLeaks'
  <2> SUFFICES ASSUME ~serverClosed, NEW i \in 1..Len(entries), entries'[i].open
               PROVE  i = roFileNoKey \/ \E k \in Keys : roFiles'[k] = i
    BY <1>1, <1>6 DEF NoBaseLeaks
  <2>1. i = roFileNoKey \/ \E k \in Keys : roFiles[k] = i
    BY <1>6 DEF NoBaseLeaks
  <2> QED
    BY <1>6, <2>1
<1> QED
  BY <1>7, <1>8, <1>9, <1>10, <1>11, <1>12

\* Server.Close.
LEMMA CloseInv ==
  ASSUME Inv, ServerClose
  PROVE  Inv'
<1> USE DEF Inv
<1>1. /\ UNCHANGED <<nextIdleSeq, shared, conn, lock, gets>> /\ lock = NoConn /\ serverClosed' = TRUE
      /\ roFiles' = [k \in Keys |-> 0] /\ roFileNoKey' = 0 /\ sharedSnap' = NoSnap
  BY DEF ServerClose
<1>2. Closes /\ active' \in Int
  BY ServerCloseDoes
<1>3. /\ entries' \in Seq(States) /\ Len(entries') = Len(entries)
      /\ DOMAIN entries = 1..Len(entries) /\ DOMAIN entries' = 1..Len(entries)
      /\ \A i \in 1..Len(entries) : entries'[i].refcount = entries[i].refcount
           - (IF sharedSnap # NoSnap /\ i = sharedSnap.entry THEN 1 ELSE 0)
  BY <1>2 DEF Closes, ServerTypeOK
<1>4. ServerTypeOK'
  <2>1. NoSnap \in Snapshots
    BY DEF NoSnap, Snapshots
  <2>2. roFiles' \in [Keys -> 0..Len(entries')] /\ roFileNoKey' \in 0..Len(entries')
    BY <1>1, <1>3 DEF ServerTypeOK
  <2> QED
    BY <1>1, <1>2, <1>3, <2>1, <2>2 DEF ServerTypeOK
<1>5. \A d \in Conns : Owns(d)' <=> Owns(d)
  BY <1>1 DEF Owns
<1>6. SnapsNamed'
  <2>1. \A d \in Conns : Owns(d) => conn[d].snap.id # NoSnap.id
    BY DEF SnapsNamed, NoSnap, ServerTypeOK
  <2> QED
    BY <1>1, <1>3, <1>5, <2>1 DEF SnapsNamed
<1>7. CachedOpen'
  BY <1>1, LockFree DEF CachedOpen
<1>8. RefcountExact'
  <2>1. \A d \in Conns : Owns(d) => conn[d].snap # sharedSnap
    BY DEF SnapsNamed
  <2>2. \A i \in 1..Len(entries) : entries[i].refcount \in Nat
    <3>1. \A i \in 1..Len(entries) : entries[i] \in States
      BY DEF ServerTypeOK
    <3> QED
      BY <3>1 DEF States
  <2>3. CASE sharedSnap = NoSnap
    <3>1. \A s : s \in Snaps' <=> s \in Snaps
      BY <1>1, <1>5, <2>3 DEF Snaps
    <3>2. \A i \in 1..Len(entries) : entries'[i].refcount = entries[i].refcount - 0
      BY <1>3, <2>3
    <3>3. \A i \in 1..Len(entries) : entries'[i].refcount = entries[i].refcount
      BY <2>2, <3>2
    <3> QED
      BY <1>3, <3>1, <3>3, RefcountStays
  <2>4. CASE sharedSnap # NoSnap
    <3>1. sharedSnap \in Snaps
      BY <2>4 DEF Snaps
    <3>2. \A s : s \in Snaps' <=> s \in Snaps /\ s # sharedSnap
      BY <1>1, <1>5, <2>1, <2>4 DEF Snaps
    <3>3. Snaps' = Snaps \ {sharedSnap}
      BY <3>2
    <3>4. \A i \in DOMAIN entries' :
            entries'[i].refcount = entries[i].refcount - (IF i = sharedSnap.entry THEN 1 ELSE 0)
      BY <1>3, <2>4
    <3> QED
      BY <1>3, <3>1, <3>3, <3>4, SnapLeaves
  <2> QED
    BY <2>3, <2>4
<1>9. InUseIsOpen' /\ NoBaseLeaks'
  BY <1>1 DEF InUseIsOpen, NoBaseLeaks
<1> QED
  BY <1>4, <1>6, <1>7, <1>8, <1>9

\* Nothing is open and nothing is counted at first.
LEMMA InvInit == ServerInit => Inv
<1> SUFFICES ASSUME ServerInit
             PROVE  Inv
  OBVIOUS
<1>1. DOMAIN entries = {}
  BY DEF ServerInit
<1>2. \A c \in Conns : ~Owns(c) /\ conn[c].pc = "idle"
  BY DEF ServerInit, Owns, IdleConn
<1>3. SnapsNamed
  BY <1>2 DEF ServerInit, SnapsNamed
<1>4. Snaps = {}
  BY <1>2 DEF ServerInit, Snaps
<1>5. CachedOpen
  BY <1>2 DEF ServerInit, CachedOpen
<1>6. RefcountExact /\ InUseIsOpen /\ NoBaseLeaks
  BY <1>1, <1>4 DEF RefcountExact, InUseIsOpen, NoBaseLeaks
<1> QED
  BY <1>3, <1>5, <1>6, TypeInit DEF Inv

\* No step of a handler or of Close breaks the invariant.
LEMMA InvNext == Inv /\ [ServerNext]_serverVars => Inv'
<1> SUFFICES ASSUME Inv, [ServerNext]_serverVars
             PROVE  Inv'
  OBVIOUS
<1>1. ASSUME NEW c \in Conns, HandleConn(c)
      PROVE  Inv'
  <2>1. CASE ServerQuiet(c)
    BY <2>1, QuietInv
  <2>2. CASE \E key \in Keys : GetKeyed(c, key)
    BY <2>2, ReuseInv, AddInv
  <2>3. CASE GetNoKey(c)
    BY <2>3, LookInv, ReplaceInv
  <2>4. CASE ShareNoKey(c)
    BY <2>4, ShareInv
  <2>5. CASE Release(c)
    BY <2>5, ReleaseInv
  <2>6. CASE ReleaseIdle(c)
    BY <2>6, ReleaseIdleInv
  <2> QED
    BY <1>1, <2>1, <2>2, <2>3, <2>4, <2>5, <2>6 DEF HandleConn, ServerQuiet
<1>2. CASE UNCHANGED serverVars
  <2>1. Snaps' = Snaps
    BY <1>2 DEF serverVars, Snaps, Owns
  <2> QED
    BY <1>2, <2>1 DEF serverVars, Inv, ServerTypeOK, SnapsNamed, CachedOpen, RefcountExact, InUseIsOpen,
                      NoBaseLeaks, Owns
<1> QED
  BY <1>1, <1>2, CloseInv DEF ServerNext

\* Every reference is counted once and given back once, on all paths through
\* getOrCreateSnapshot and releaseBaseImageState.
THEOREM ReferencesAreExact == ServerSpec => []RefcountExact
<1>1. Inv => RefcountExact
  BY DEF Inv
<1> QED
  BY <1>1, InvInit, InvNext, PTL DEF ServerSpec

\* No base image is closed under a snapshot, although releaseBaseImageState lets
\* counts drop to zero without the lock that evictIdleLocked runs under.
THEOREM BasesInUseAreOpen == ServerSpec => []InUseIsOpen
<1>1. Inv => InUseIsOpen
  BY DEF Inv
<1> QED
  BY <1>1, InvInit, InvNext, PTL DEF ServerSpec

\* An open base image is in one of the server's maps until Server.Close.
THEOREM OpenBasesAreCached == ServerSpec => []NoBaseLeaks
<1>1. Inv => NoBaseLeaks
  BY DEF Inv
<1> QED
  BY <1>1, InvInit, InvNext, PTL DEF ServerSpec

-----------------------------------------------------------------------------
(* The bound on idle entries *)

\* Fewer settled entries are within the bound too.
LEMMA SettledShrinks ==
  ASSUME SettledBounded, Idle(entries', roFiles') \ Leaving' \subseteq Idle(entries, roFiles) \ Leaving
  PROVE  SettledBounded'
<1> DEFINE S == Idle(entries, roFiles) \ Leaving
           T == Idle(entries', roFiles') \ Leaving'
<1>1. IsFiniteSet(S)
  BY BaseImagesAssumption, FS_Subset DEF Idle
<1>2. IsFiniteSet(T) /\ Cardinality(T) <= Cardinality(S)
  BY <1>1, FS_Subset
<1>3. Cardinality(S) \in Nat /\ Cardinality(T) \in Nat /\ MaxIdleBase \in Nat
  BY <1>1, <1>2, FS_CardinalityType, BaseImagesAssumption
<1>4. Cardinality(S) <= MaxIdleBase
  BY DEF SettledBounded
<1> HIDE DEF S, T
<1>5. Cardinality(T) <= MaxIdleBase
  BY <1>2, <1>3, <1>4
<1> QED
  BY <1>5 DEF T, SettledBounded

\* All idle entries being within the bound is more than enough.
LEMMA SettledAfterEviction ==
  ASSUME Cardinality(Idle(entries', roFiles')) <= MaxIdleBase
  PROVE  SettledBounded'
<1> DEFINE S == Idle(entries', roFiles')
           T == S \ Leaving'
<1>1. IsFiniteSet(S)
  BY BaseImagesAssumption, FS_Subset DEF Idle
<1>2. IsFiniteSet(T) /\ Cardinality(T) <= Cardinality(S)
  BY <1>1, FS_Subset
<1>3. Cardinality(S) \in Nat /\ Cardinality(T) \in Nat /\ MaxIdleBase \in Nat
  BY <1>1, <1>2, FS_CardinalityType, BaseImagesAssumption
<1> HIDE DEF S
<1>4. Cardinality(T) <= MaxIdleBase
  BY <1>2, <1>3 DEF S
<1> QED
  BY <1>4 DEF S, SettledBounded

\* A step that forgets no entry, makes none idle unless its last user is on its
\* way to the lock, and lets no other user get there.
LEMMA SettledStays ==
  ASSUME SettledBounded, roFiles' = roFiles,
         \A k \in Keys : roFiles[k] # 0 /\ entries'[roFiles[k]].refcount = 0 =>
           \/ entries[roFiles[k]].refcount = 0
           \/ \E c \in Conns : conn'[c].pc = "zero" /\ conn'[c].snap.entry = roFiles[k],
         \A c \in Conns, k \in Keys :
           conn[c].pc = "zero" /\ conn[c].snap.entry = roFiles[k] /\ roFiles[k] # 0 => conn'[c] = conn[c]
  PROVE  SettledBounded'
<1>1. \A k \in Idle(entries', roFiles') \ Leaving' : k \in Idle(entries, roFiles) \ Leaving
  BY DEF Idle, Leaving
<1> QED
  BY <1>1, SettledShrinks

\* No idle entry is cached at first.
LEMMA SettledInit == ServerInit => SettledBounded
<1> SUFFICES ASSUME ServerInit
             PROVE  SettledBounded
  OBVIOUS
<1>1. Idle(entries, roFiles) \ Leaving = {}
  BY DEF ServerInit, Idle
<1> QED
  BY <1>1, FS_EmptySet, BaseImagesAssumption DEF SettledBounded

\* Entries become idle outside the lock, but their users are then on their way to it.
LEMMA SettledNext == Inv /\ SettledBounded /\ [ServerNext]_serverVars => SettledBounded'
<1> SUFFICES ASSUME Inv, SettledBounded, [ServerNext]_serverVars
             PROVE  SettledBounded'
  OBVIOUS
<1> USE DEF Inv
<1>1. /\ \A k \in Keys : roFiles[k] # 0 => roFiles[k] \in 1..Len(entries)
      /\ \A i \in 1..Len(entries) : entries[i].refcount \in Nat
  <2>1. \A i \in 1..Len(entries) : entries[i] \in States
    BY DEF ServerTypeOK
  <2> QED
    BY <2>1 DEF ServerTypeOK, States
<1>2. ASSUME NEW c \in Conns, HandleConn(c)
      PROVE  SettledBounded'
  <2>1. CASE ServerQuiet(c)
    <3>1. entries' = entries /\ roFiles' = roFiles
      BY <2>1, QuietKeeps
    <3>2. PICK h \in Handlers : Moves(c, h) /\ conn[c].pc # "zero"
      BY <2>1, QuietMoves
    <3> QED
      BY <3>1, <3>2, SettledStays DEF Moves
  <2>2. ASSUME NEW e \in 1..Len(entries), Shares(e), Opened(c, e), conn[c].pc # "zero",
               roFiles' = roFiles
        PROVE  SettledBounded'
    <3>1. PICK h : Moves(c, h)
      <4>1. e \in Nat
        BY <2>2 DEF ServerTypeOK
      <4> QED
        BY <2>2, <4>1, OpenedMoves
    <3>2. \A i \in 1..Len(entries) : entries'[i].refcount = 0 => entries[i].refcount = 0
      <4>1. \A i \in 1..Len(entries) :
              entries'[i].refcount = entries[i].refcount + (IF i = e THEN 1 ELSE 0)
        BY <2>2 DEF Shares
      <4> QED
        BY <1>1, <4>1
    <3> QED
      BY <1>1, <2>2, <3>1, <3>2, SettledStays DEF Moves
  <2>3. ASSUME NEW key \in Keys, GetKeyed(c, key)
        PROVE  SettledBounded'
    <3>1. CASE roFiles[key] # 0
      <4>1. /\ Shares(roFiles[key]) /\ Opened(c, roFiles[key])
            /\ roFiles[key] \in 1..Len(entries) /\ roFiles' = roFiles
        BY <2>3, <3>1, ReuseDoes
      <4>2. conn[c].pc # "zero"
        BY <2>3 DEF GetKeyed
      <4> QED
        BY <2>2, <4>1, <4>2
    <3>2. CASE roFiles[key] = 0
      BY <2>3, <3>2, AddDoes, SettledAfterEviction
    <3> QED
      BY <3>1, <3>2
  <2>4. CASE GetNoKey(c)
    <3>1. roFiles' = roFiles /\ conn[c].pc = "get"
      BY <2>4 DEF GetNoKey
    <3>2. CASE roFileNoKey # 0 /\ entries[roFileNoKey].refcount > 0
      <4>1. entries' = entries /\ \A d \in Conns : d # c => conn'[d] = conn[d]
        BY <2>4, <3>2 DEF GetNoKey, ServerTypeOK
      <4> QED
        BY <3>1, <4>1, SettledStays
    <3>3. CASE ~(roFileNoKey # 0 /\ entries[roFileNoKey].refcount > 0)
      <4>1. Replaces /\ Opened(c, Len(entries) + 1)
        BY <2>4, <3>3, ReplaceDoes
      <4>2. Len(entries) + 1 \in Nat
        BY DEF ServerTypeOK
      <4>3. PICK h : Moves(c, h)
        BY <4>1, <4>2, OpenedMoves
      <4>4. \A i \in 1..Len(entries) : entries'[i].refcount = entries[i].refcount
        BY <4>1 DEF Replaces
      <4> QED
        BY <1>1, <3>1, <4>3, <4>4, SettledStays DEF Moves
    <3> QED
      BY <3>2, <3>3
  <2>5. CASE ShareNoKey(c)
    <3>1. Shares(roFileNoKey) /\ Opened(c, roFileNoKey) /\ roFileNoKey \in 1..Len(entries)
      BY <2>5, ShareNoKeyDoes
    <3>2. conn[c].pc # "zero" /\ roFiles' = roFiles
      BY <2>5 DEF ShareNoKey
    <3> QED
      BY <2>2, <3>1, <3>2
  <2>6. CASE Release(c)
    <3> DEFINE e == conn[c].snap.entry
    <3>1. Counts(e, -1) /\ e \in 1..Len(entries)
      BY <2>6, ReleaseDoes
    <3>2. PICK h \in Handlers :
            /\ Moves(c, h)
            /\ h.pc = "zero" => h.snap = conn[c].snap
            /\ entries[e].refcount - 1 > 0 \/ h.pc = "zero"
      BY <2>6, ReleaseMoves
    <3>3. conn[c].pc # "zero" /\ roFiles' = roFiles
      BY <2>6 DEF Release
    <3>4. \A i \in 1..Len(entries) :
            entries'[i].refcount = entries[i].refcount + (IF i = e THEN -1 ELSE 0)
      BY <3>1 DEF Counts
    <3>5. \A i \in 1..Len(entries) : entries'[i].refcount = 0 =>
            \/ entries[i].refcount = 0
            \/ i = e /\ h.pc = "zero"
      <4> SUFFICES ASSUME NEW i \in 1..Len(entries), entries'[i].refcount = 0
                   PROVE  entries[i].refcount = 0 \/ (i = e /\ h.pc = "zero")
        OBVIOUS
      <4>1. CASE i = e
        BY <1>1, <3>2, <3>4, <4>1
      <4>2. CASE i # e
        BY <1>1, <3>4, <4>2
      <4> QED
        BY <4>1, <4>2
    <3>6. \A k \in Keys : roFiles[k] # 0 /\ entries'[roFiles[k]].refcount = 0 =>
            \/ entries[roFiles[k]].refcount = 0
            \/ conn'[c].pc = "zero" /\ conn'[c].snap.entry = roFiles[k]
      BY <1>1, <3>2, <3>5 DEF Moves
    <3>7. \A d \in Conns : d # c => conn'[d] = conn[d]
      BY <3>2 DEF Moves
    <3> QED
      BY <3>3, <3>6, <3>7, SettledStays
  <2>7. CASE ReleaseIdle(c)
    <3>1. CASE entries[conn[c].snap.entry].key = NoKey
      <4>1. /\ UNCHANGED <<entries, roFiles>> /\ conn[c].pc = "zero"
            /\ \A d \in Conns : d # c => conn'[d] = conn[d]
        BY <2>7, <3>1 DEF ReleaseIdle, ServerTypeOK
      <4>2. \A k \in Keys : roFiles[k] # 0 => conn[c].snap.entry # roFiles[k]
        BY <3>1, BaseImagesAssumption DEF CachedOpen
      <4> QED
        BY <4>1, <4>2, SettledStays
    <3>2. CASE entries[conn[c].snap.entry].key # NoKey
      BY <2>7, <3>2, ReleaseIdleDoes, SettledAfterEviction
    <3> QED
      BY <3>1, <3>2
  <2> QED
    BY <1>2, <2>1, <2>3, <2>4, <2>5, <2>6, <2>7 DEF HandleConn, ServerQuiet
<1>3. CASE ServerClose
  <2>1. Idle(entries', roFiles') = {}
    BY <1>3 DEF ServerClose, Idle
  <2>2. Cardinality(Idle(entries', roFiles')) <= MaxIdleBase
    BY <2>1, FS_EmptySet, BaseImagesAssumption
  <2> QED
    BY <2>2, SettledAfterEviction
<1>4. CASE UNCHANGED serverVars
  BY <1>4 DEF serverVars, SettledBounded, Idle, Leaving
<1> QED
  BY <1>2, <1>3, <1>4 DEF ServerNext

\* At most MaxIdleBase idle entries stay cached once the releases in progress have
\* got the lock, whatever connections did while evictIdleLocked was not running.
THEOREM IdleEntriesAreBounded == ServerSpec => []IdleBounded
<1>1. Inv /\ SettledBounded => IdleBounded
  <2> SUFFICES ASSUME SettledBounded, \A c \in Conns : conn[c].pc # "zero"
               PROVE  Cardinality(Idle(entries, roFiles)) <= MaxIdleBase
    BY DEF IdleBounded
  <2>1. Idle(entries, roFiles) \ Leaving = Idle(entries, roFiles)
    BY DEF Leaving
  <2> QED
    BY <2>1 DEF SettledBounded
<1> QED
  BY <1>1, InvInit, InvNext, SettledInit, SettledNext, PTL DEF ServerSpec

-----------------------------------------------------------------------------
(* Snapshots: the inductive invariant *)

\* The byte b is in one of the ranges of todo, which c's request has yet to go
\* through.
In(b, todo)  == \E i \in 1..Len(todo) : todo[i][1] <= b /\ b < todo[i][2]
Awaits(c, b) == In(b, client[c].todo)

\* The byte b, or all of the page p, is in the range of c's request.
Has(c, b)     == client[c].range[1] <= b /\ b < client[c].range[2]
HasPage(c, p) == client[c].range[1] <= p * PageSize /\ p * PageSize + PageSize <= client[c].range[2]

\* A dirty page has a slot that was written, and its hash is that of the slot.
Slots ==
  \A p \in Pages : dirtyPages[p] # Clean =>
    /\ dirtyPages[p].slot \in 1..Len(dirtyFile)
    /\ CachePages # 0 => dirtyPages[p].hash = dirtyFile[dirtyPages[p].slot]

\* What a request looked up of its page still is where it was found, though the
\* page may have changed since.
Fetched(c) ==
  /\ client[c].pc \in {"data", "got"} /\ client[c].dp # Clean =>
       /\ client[c].dp.slot \in 1..Len(dirtyFile) /\ client[c].want = dirtyFile[client[c].dp.slot]
       /\ CachePages # 0 => client[c].dp.hash = client[c].want
  /\ client[c].pc \in {"data", "got"} /\ client[c].dp = Clean => client[c].want = HashPage(Page(c), Base)
  /\ client[c].pc = "got" => client[c].buf = client[c].want
  /\ client[c].pc \in {"data", "got"} => client[c].want \in Hashes

\* The ranges that a request has yet to go through are in the snapshot and within
\* the range of the request; a save goes through whole pages.
Within(op, r, x) ==
  /\ x[1] < x[2] /\ x[2] <= NumPages * PageSize
  /\ op \in {"write", "trim"} => r[1] <= x[1] /\ x[2] <= r[2]
  /\ op = "save" => \E p \in Pages : x = <<p * PageSize, p * PageSize + PageSize>>

Ranged(c) ==
  /\ client[c].pc \in {"page", "data", "got"} <=> client[c].todo # <<>>
  /\ client[c].pc = "done" => client[c].op = "trim"
  /\ Writing(c) => client[c].range[1] < client[c].range[2] /\ client[c].range[2] <= NumPages * PageSize
  /\ \A i \in 1..Len(client[c].todo) : Within(client[c].op, client[c].range, client[c].todo[i])

\* Saves exclude writers and each other, and a writer that has met no other shares
\* no page with one.
Apart ==
  \A c, d \in Clients : c # d =>
    /\ client[c].op = "save" => client[d].op # "save" /\ ~Writing(d)
    /\ c \notin met /\ Writing(c) /\ Writing(d) =>
         \/ PageOf(client[c].range[2] - 1) < PageOf(client[d].range[1])
         \/ PageOf(client[d].range[2] - 1) < PageOf(client[c].range[1])

\* Nobody changes a page between the lookup of such a writer or a save and its end.
Unchanged(c) ==
  /\ (c \notin met /\ Writing(c)) \/ client[c].op = "save"
  /\ client[c].pc \in {"data", "got"}
  => client[c].want = PageView(Page(c))

\* What it has gone through is as the request makes it.
Landed(c) ==
  c \notin met => \A b \in Bytes : Has(c, b) =>
    /\ client[c].op = "write" => Awaits(c, b) \/ View[b] = 1
    /\ client[c].op = "trim" /\ ~HasPage(c, PageOf(b)) => Awaits(c, b) \/ View[b] = 0
    /\ client[c].op = "trim" /\ HasPage(c, PageOf(b)) /\ client[c].pc = "done" => View[b] = Base[b]

\* What a save has gone through is in the copy, and nothing is past the end.
Saved(c) ==
  client[c].op = "save" => \A b \in Bytes :
    copy[b] = IF b < Size THEN IF Awaits(c, b) THEN copy[b] ELSE View[b] ELSE Absent

-----------------------------------------------------------------------------
(* Pages and bytes *)

\* A byte is in the page that its offset divides to, at the remainder.
LEMMA DivMod ==
  ASSUME NEW b \in Nat
  PROVE  /\ PageOf(b) \in Nat /\ b % PageSize \in 0..(PageSize - 1)
         /\ b = PageOf(b) * PageSize + (b % PageSize)
<1>1. PageSize \in Nat /\ PageSize > 0
  BY SnapshotAssumption
<1> QED
  BY <1>1 DEF PageOf

\* A product of naturals grows with its factor.
LEMMA Products ==
  ASSUME NEW p \in Nat, NEW q \in Nat, p < q
  PROVE  /\ p * PageSize \in Nat /\ q * PageSize \in Nat
         /\ p * PageSize + PageSize <= q * PageSize
         /\ (p + 1) * PageSize = p * PageSize + PageSize
<1>1. PageSize \in Nat /\ PageSize > 0
  BY SnapshotAssumption
<1>2. PICK k \in Nat : q = p + 1 + k
  <2>1. q - p - 1 \in Nat /\ q = p + 1 + (q - p - 1)
    OBVIOUS
  <2> QED
    BY <2>1
<1>3. q * PageSize = p * PageSize + PageSize + k * PageSize
  BY <1>1, <1>2
<1>4. p * PageSize \in Nat /\ k * PageSize \in Nat
  BY <1>1
<1>5. (p + 1) * PageSize = p * PageSize + PageSize
  BY <1>1
<1> QED
  BY <1>1, <1>3, <1>4, <1>5

\* Between a page's first byte and the next page's there are its bytes only.
LEMMA PageUnique ==
  ASSUME NEW b \in Nat, NEW p \in Nat
  PROVE  PageOf(b) = p <=> p * PageSize <= b /\ b < p * PageSize + PageSize
<1>1. PageSize \in Nat /\ PageSize > 0
  BY SnapshotAssumption
<1>2. /\ PageOf(b) \in Nat /\ b % PageSize \in 0..(PageSize - 1)
      /\ b = PageOf(b) * PageSize + (b % PageSize)
  BY DivMod
<1>3. p * PageSize \in Nat /\ PageOf(b) * PageSize \in Nat
  BY <1>1, <1>2
<1>4. CASE p = PageOf(b)
  BY <1>1, <1>2, <1>3, <1>4
<1>5. CASE p < PageOf(b)
  <2>1. p * PageSize + PageSize <= PageOf(b) * PageSize
    BY <1>2, <1>5, Products
  <2> QED
    BY <1>1, <1>2, <1>3, <1>5, <2>1
<1>6. CASE PageOf(b) < p
  <2>1. PageOf(b) * PageSize + PageSize <= p * PageSize
    BY <1>2, <1>6, Products
  <2> QED
    BY <1>1, <1>2, <1>3, <1>6, <2>1
<1> QED
  BY <1>2, <1>4, <1>5, <1>6

\* Pages are in the order of their bytes.
LEMMA PageOrder ==
  ASSUME NEW a \in Nat, NEW b \in Nat, a <= b
  PROVE  PageOf(a) <= PageOf(b)
<1>1. PageSize \in Nat /\ PageSize > 0
  BY SnapshotAssumption
<1>2. PageOf(a) \in Nat /\ PageOf(b) \in Nat
  BY DivMod
<1>3. PageOf(a) * PageSize <= a /\ b < PageOf(b) * PageSize + PageSize
  BY <1>2, PageUnique
<1>4. ASSUME PageOf(b) < PageOf(a)
      PROVE  FALSE
  <2>1. PageOf(b) * PageSize + PageSize <= PageOf(a) * PageSize
    BY <1>2, <1>4, Products
  <2>2. PageOf(a) * PageSize \in Nat /\ PageOf(b) * PageSize \in Nat
    BY <1>1, <1>2
  <2> QED
    BY <1>1, <1>3, <2>1, <2>2
<1> QED
  BY <1>2, <1>4

\* The bytes of the snapshot are those of its pages.
LEMMA BytesAndPages ==
  /\ Bytes \subseteq Nat /\ Pages \subseteq Nat /\ NumPages * PageSize \in Nat
  /\ \A b \in Bytes : PageOf(b) \in Pages
  /\ \A p \in Pages, i \in 0..(PageSize - 1) :
       p * PageSize + i \in Bytes /\ PageOf(p * PageSize + i) = p /\ (p * PageSize + i) % PageSize = i
<1>1. PageSize \in Nat /\ PageSize > 0 /\ NumPages \in Nat /\ NumPages > 0
  BY SnapshotAssumption
<1>2. NumPages * PageSize \in Nat
  BY <1>1
<1>3. Bytes \subseteq Nat /\ Pages \subseteq Nat
  BY <1>1, <1>2 DEF Bytes, Pages
<1>4. ASSUME NEW b \in Bytes
      PROVE  PageOf(b) \in Pages
  <2>1. b \in Nat /\ b < NumPages * PageSize /\ PageOf(b) \in Nat
    BY <1>2, <1>3, DivMod DEF Bytes
  <2>2. PageOf(b) * PageSize <= b
    BY <2>1, PageUnique
  <2>3. ASSUME NumPages <= PageOf(b)
        PROVE  FALSE
    <3>1. NumPages * PageSize <= PageOf(b) * PageSize
      <4>1. CASE NumPages = PageOf(b)
        BY <1>2, <4>1
      <4>2. CASE NumPages < PageOf(b)
        <5>1. NumPages * PageSize + PageSize <= PageOf(b) * PageSize
          BY <1>1, <2>1, <4>2, Products
        <5>2. PageOf(b) * PageSize \in Nat
          BY <1>1, <2>1
        <5> QED
          BY <1>1, <1>2, <5>1, <5>2
      <4> QED
        BY <1>1, <2>1, <2>3, <4>1, <4>2
    <3>2. PageOf(b) * PageSize \in Nat
      BY <1>1, <2>1
    <3> QED
      BY <1>2, <2>1, <2>2, <3>1, <3>2
  <2> QED
    BY <1>1, <2>1, <2>3 DEF Pages
<1>5. ASSUME NEW p \in Pages, NEW i \in 0..(PageSize - 1)
      PROVE  p * PageSize + i \in Bytes /\ PageOf(p * PageSize + i) = p /\ (p * PageSize + i) % PageSize = i
  <2>1. p \in Nat /\ p < NumPages /\ i \in Nat /\ i < PageSize
    BY <1>1 DEF Pages
  <2>2. p * PageSize \in Nat /\ p * PageSize + PageSize <= NumPages * PageSize
    BY <1>1, <2>1, Products
  <2>3. p * PageSize + i \in Nat /\ p * PageSize + i < NumPages * PageSize
    BY <1>1, <1>2, <2>1, <2>2
  <2>4. PageOf(p * PageSize + i) = p
    BY <1>1, <2>1, <2>2, <2>3, PageUnique
  <2>5. p * PageSize + i = p * PageSize + ((p * PageSize + i) % PageSize)
    BY <2>3, <2>4, DivMod
  <2>6. (p * PageSize + i) % PageSize \in 0..(PageSize - 1)
    BY <2>3, DivMod
  <2>7. (p * PageSize + i) % PageSize = i
    BY <1>1, <2>1, <2>2, <2>5, <2>6
  <2> QED
    BY <1>2, <2>3, <2>4, <2>7 DEF Bytes
<1> QED
  BY <1>2, <1>3, <1>4, <1>5

-----------------------------------------------------------------------------
(* Requests and the cache *)

\* The fields of a request that starts or goes on.
LEMMA RequestIs ==
  ASSUME NEW op \in {"none", "read", "write", "trim", "save"}, NEW r \in Nat \X Nat,
         NEW todo \in Seq(Nat \X Nat)
  PROVE  LET q == Request(op, r, todo) IN
         /\ q \in Requests /\ q.op = op /\ q.range = r /\ q.todo = todo
         /\ q.pc = IF todo = <<>> THEN "end" ELSE "page"
<1>1. <<>> \in Buffers /\ Clean \in DirtyPages
  BY DEF Buffers, DirtyPages, Clean
<1> QED
  BY <1>1 DEF Request, Requests

\* The fields of a request at a step of its page.
LEMMA AtPageIs ==
  ASSUME NEW cl \in Requests, NEW pc \in {"page", "data", "got", "end", "done"},
         NEW dp \in DirtyPages, NEW want \in Buffers, NEW buf \in Buffers
  PROVE  LET q == AtPage(cl, pc, dp, want, buf) IN
         /\ q \in Requests /\ q.op = cl.op /\ q.range = cl.range /\ q.todo = cl.todo
         /\ q.pc = pc /\ q.dp = dp /\ q.want = want /\ q.buf = buf
BY DEF AtPage, Requests

\* The fields of no request.
LEMMA IdleIs ==
  /\ IdleClient \in Requests /\ IdleClient.op = "none" /\ IdleClient.todo = <<>>
  /\ IdleClient.pc = "end"
<1>1. <<>> \in Seq(Nat \X Nat) /\ <<0, 0>> \in Nat \X Nat
  OBVIOUS
<1>2. <<>> \in Buffers /\ Clean \in DirtyPages
  BY DEF Buffers, DirtyPages, Clean
<1> QED
  BY <1>1, <1>2 DEF IdleClient, Request, Requests

\* A client's request changes, the others' do not.
LEMMA ClientIs ==
  ASSUME TypeOK, NEW c \in Clients, NEW r \in Requests, client' = [client EXCEPT ![c] = r]
  PROVE  /\ client' \in [Clients -> Requests] /\ client'[c] = r
         /\ \A d \in Clients : d # c => client'[d] = client[d]
BY DEF TypeOK

\* No value of a page is the empty buffer, and a slot that was written makes a page
\* dirty.
LEMMA PageValues ==
  /\ <<>> \notin Hashes
  /\ \A h \in Hashes, i \in 0..(PageSize - 1) : h[i] \in Values
  /\ Clean \in DirtyPages /\ Clean.slot = 0
  /\ \A p \in Pages : HashPage(p, Base) \in Hashes
<1>1. PageSize \in Nat /\ PageSize > 0
  BY SnapshotAssumption
<1>2. <<>> \notin Hashes
  <2>1. DOMAIN <<>> = 1..0 /\ 0 \in 0..(PageSize - 1)
    BY <1>1
  <2>2. ASSUME <<>> \in Hashes
        PROVE  FALSE
    <3>1. DOMAIN <<>> = 0..(PageSize - 1)
      BY <2>2 DEF Hashes
    <3>2. 0 \in 1..0
      BY <2>1, <3>1
    <3> QED
      BY <3>2
  <2> QED
    BY <2>2
<1>3. \A h \in Hashes, i \in 0..(PageSize - 1) : h[i] \in Values
  BY DEF Hashes
<1>4. Clean \in DirtyPages /\ Clean.slot = 0
  BY DEF Clean, DirtyPages, Buffers
<1>5. ASSUME NEW p \in Pages
      PROVE  HashPage(p, Base) \in Hashes
  <2>1. \A i \in 0..(PageSize - 1) : p * PageSize + i \in Bytes
    BY BytesAndPages
  <2>2. \A b \in Bytes : Base[b] \in Values
    BY DEF Base, Values
  <2> QED
    BY <2>1, <2>2 DEF HashPage, Hashes
<1> QED
  BY <1>2, <1>3, <1>4, <1>5

\* A put keeps the cache within its bound, and sound.
LEMMA CachePutDoes ==
  ASSUME TypeOK, CacheSound, NEW h, NEW data \in Hashes, CachePages # 0 => h = data,
         CachePut(h, data)
  PROVE  /\ cache' \subseteq [hash : Hashes, data : Hashes]
         /\ IsFiniteSet(cache') /\ Cardinality(cache') <= CachePages
         /\ CacheSound'
<1>1. /\ cache \subseteq [hash : Hashes, data : Hashes] /\ IsFiniteSet(cache)
      /\ Cardinality(cache) <= CachePages /\ CachePages \in Nat
  BY SnapshotAssumption DEF TypeOK
<1>2. CASE cache' = cache
  BY <1>1, <1>2 DEF CacheSound
<1>3. CASE cache' # cache
  <2>1. CachePages # 0 /\ h = data
    BY <1>3 DEF CachePut
  <2>2. PICK kept \in SUBSET cache :
          /\ Cardinality(kept) = Least(Cardinality(cache), CachePages - 1)
          /\ cache' = kept \cup {[hash |-> h, data |-> data]}
    BY <1>3 DEF CachePut
  <2> DEFINE x == [hash |-> h, data |-> data]
  <2>3. x \in [hash : Hashes, data : Hashes] /\ x.hash = x.data
    BY <2>1
  <2> HIDE DEF x
  <2>4. cache' = kept \cup {x}
    BY <2>2 DEF x
  <2>5. /\ IsFiniteSet(kept) /\ Cardinality(kept) \in Nat
        /\ IsFiniteSet(kept \cup {x})
        /\ Cardinality(kept \cup {x}) <= Cardinality(kept) + 1
    <3>1. IsFiniteSet(kept) /\ Cardinality(kept) \in Nat
      BY <1>1, <2>2, FS_Subset, FS_CardinalityType
    <3>2. /\ IsFiniteSet(kept \cup {x})
          /\ x \notin kept => Cardinality(kept \cup {x}) = Cardinality(kept) + 1
          /\ x \in kept => Cardinality(kept \cup {x}) = Cardinality(kept)
      BY <3>1, FS_AddElement
    <3> QED
      BY <3>1, <3>2
  <2>6. Cardinality(cache) \in Nat /\ Cardinality(cache') \in Nat
    BY <1>1, <2>4, <2>5, FS_CardinalityType
  <2>7. Cardinality(cache') <= CachePages
    BY <1>1, <2>1, <2>2, <2>4, <2>5, <2>6 DEF Least
  <2>8. CacheSound'
    BY <2>3, <2>4 DEF CacheSound
  <2> QED
    BY <1>1, <2>3, <2>4, <2>5, <2>7, <2>8
<1> QED
  BY <1>2, <1>3

\* Going on with the next page leaves all bytes awaited but those of the page.
LEMMA AdvanceDoes ==
  ASSUME NEW cl \in Requests, cl.todo # <<>>,
         \A i \in 1..Len(cl.todo) : Within(cl.op, cl.range, cl.todo[i])
  PROVE  LET a == Advance(cl) IN
         /\ a \in Requests /\ a.op = cl.op /\ a.range = cl.range /\ a.todo # cl.todo
         /\ a.pc = IF a.todo = <<>> THEN "end" ELSE "page"
         /\ \A i \in 1..Len(a.todo) : Within(cl.op, cl.range, a.todo[i])
         /\ \A b \in Nat : In(b, cl.todo) =>
              \/ In(b, a.todo)
              \/ PageOf(b) = PageOf(cl.todo[1][1]) /\ cl.todo[1][1] <= b /\ b < cl.todo[1][2]
<1> DEFINE r    == cl.todo[1]
           next == (PageOf(r[1]) + 1) * PageSize
           todo == IF next < r[2] THEN [cl.todo EXCEPT ![1] = <<next, r[2]>>] ELSE Tail(cl.todo)
<1>1. /\ cl.todo \in Seq(Nat \X Nat) /\ cl.range \in Nat \X Nat
      /\ cl.op \in {"none", "read", "write", "trim", "save"}
  BY DEF Requests
<1>2. Len(cl.todo) \in Nat /\ Len(cl.todo) >= 1 /\ 1 \in 1..Len(cl.todo)
  BY <1>1
<1>3. /\ r \in Nat \X Nat /\ r[1] \in Nat /\ r[2] \in Nat /\ Within(cl.op, cl.range, r)
      /\ cl.range[1] \in Nat /\ cl.range[2] \in Nat
  BY <1>1, <1>2
<1>4. PageSize \in Nat /\ PageSize > 0
  BY SnapshotAssumption
<1>5. /\ PageOf(r[1]) \in Nat /\ PageOf(r[1]) * PageSize \in Nat
      /\ PageOf(r[1]) * PageSize <= r[1] /\ r[1] < PageOf(r[1]) * PageSize + PageSize
      /\ next = PageOf(r[1]) * PageSize + PageSize
  <2>1. PageOf(r[1]) \in Nat
    BY <1>3, DivMod
  <2>2. /\ PageOf(r[1]) * PageSize \in Nat
        /\ (PageOf(r[1]) + 1) * PageSize = PageOf(r[1]) * PageSize + PageSize
    BY <2>1, Products
  <2>3. PageOf(r[1]) * PageSize <= r[1] /\ r[1] < PageOf(r[1]) * PageSize + PageSize
    BY <1>3, <2>1, PageUnique
  <2> QED
    BY <2>1, <2>2, <2>3
<1>6. next \in Nat /\ r[1] < next
  BY <1>3, <1>4, <1>5
<1>7. Advance(cl) = Request(cl.op, cl.range, todo)
  BY DEF Advance
<1> HIDE DEF next
<1>8. \A b \in Nat : r[1] <= b /\ b < next => PageOf(b) = PageOf(r[1])
  <2> SUFFICES ASSUME NEW b \in Nat, r[1] <= b, b < next
               PROVE  PageOf(b) = PageOf(r[1])
    OBVIOUS
  <2>1. PageOf(r[1]) * PageSize <= b /\ b < PageOf(r[1]) * PageSize + PageSize
    BY <1>3, <1>5
  <2> QED
    BY <1>5, <2>1, PageUnique
<1>9. CASE next < r[2]
  <2>1. todo = [cl.todo EXCEPT ![1] = <<next, r[2]>>]
    BY <1>9
  <2>2. /\ todo \in Seq(Nat \X Nat) /\ Len(todo) = Len(cl.todo) /\ todo[1] = <<next, r[2]>>
        /\ \A i \in 1..Len(cl.todo) : i # 1 => todo[i] = cl.todo[i]
    <3>1. <<next, r[2]>> \in Nat \X Nat
      BY <1>3, <1>6
    <3>2. /\ [cl.todo EXCEPT ![1] = <<next, r[2]>>] \in [1..Len(cl.todo) -> Nat \X Nat]
          /\ cl.todo \in [1..Len(cl.todo) -> Nat \X Nat]
      <4>1. cl.todo \in [1..Len(cl.todo) -> Nat \X Nat]
        BY <1>1
      <4> QED
        BY <1>2, <3>1, <4>1
    <3> HIDE DEF todo
    <3>3. /\ todo \in [1..Len(cl.todo) -> Nat \X Nat] /\ todo[1] = <<next, r[2]>>
          /\ \A i \in 1..Len(cl.todo) : i # 1 => todo[i] = cl.todo[i]
      BY <1>2, <2>1, <3>2
    <3> QED
      BY <1>2, <3>3
  <2> HIDE DEF todo
  <2>3. cl.op # "save"
    <3> SUFFICES ASSUME cl.op = "save"
                 PROVE  FALSE
      OBVIOUS
    <3>1. PICK p \in Pages : r = <<p * PageSize, p * PageSize + PageSize>>
      BY <1>3 DEF Within
    <3>2. p \in Nat /\ r[1] = p * PageSize /\ r[2] = p * PageSize + PageSize /\ p * PageSize \in Nat
      BY <1>3, <3>1, BytesAndPages
    <3>3. PageOf(r[1]) = p
      BY <1>4, <3>2, PageUnique
    <3>4. next = p * PageSize + PageSize
      BY <1>5, <3>3
    <3> QED
      BY <1>6, <1>9, <3>2, <3>4
  <2>4. Within(cl.op, cl.range, <<next, r[2]>>)
    BY <1>3, <1>6, <1>9, <2>3 DEF Within
  <2>5. \A i \in 1..Len(todo) : Within(cl.op, cl.range, todo[i])
    BY <2>2, <2>4
  <2>6. ASSUME NEW b \in Nat, In(b, cl.todo), ~In(b, todo)
        PROVE  PageOf(b) = PageOf(r[1]) /\ r[1] <= b /\ b < r[2]
    <3>1. PICK i \in 1..Len(cl.todo) : cl.todo[i][1] <= b /\ b < cl.todo[i][2]
      BY <2>6 DEF In
    <3>2. i = 1
      BY <2>2, <2>6, <3>1 DEF In
    <3>3. ~(next <= b /\ b < r[2])
      <4>1. ~(todo[1][1] <= b /\ b < todo[1][2])
        BY <1>2, <2>2, <2>6 DEF In
      <4> QED
        BY <2>2, <4>1
    <3> QED
      BY <1>3, <1>6, <1>8, <3>1, <3>2, <3>3
  <2> DEFINE a == Request(cl.op, cl.range, todo)
  <2>7. /\ a \in Requests /\ a.op = cl.op /\ a.range = cl.range /\ a.todo = todo
        /\ a.pc = IF todo = <<>> THEN "end" ELSE "page"
    <3>1. cl.op \in {"none", "read", "write", "trim", "save"} /\ cl.range \in Nat \X Nat
      BY <1>1 DEF Requests
    <3>2. todo \in Seq(Nat \X Nat)
      BY <2>2
    <3> QED
      BY <3>1, <3>2, RequestIs
  <2> HIDE DEF a
  <2>8. Advance(cl) = a
    BY <1>7 DEF a
  <2>9. todo # cl.todo
    <3>1. todo[1][1] = next /\ cl.todo[1][1] = r[1] /\ r[1] # next
      BY <1>3, <1>6, <2>2
    <3> QED
      BY <3>1
  <2> QED
    BY <2>5, <2>6, <2>7, <2>8, <2>9
<1>10. CASE ~(next < r[2])
  <2>1. todo = Tail(cl.todo)
    BY <1>10
  <2>2. /\ todo \in Seq(Nat \X Nat) /\ Len(todo) = Len(cl.todo) - 1
        /\ \A i \in 1..(Len(cl.todo) - 1) : todo[i] = cl.todo[i + 1]
    <3> DEFINE s == cl.todo
    <3>1. s \in Seq(Nat \X Nat) /\ s # <<>> /\ todo = Tail(s)
      BY <1>1, <2>1
    <3> HIDE DEF s, todo
    <3>2. /\ Tail(s) \in Seq(Nat \X Nat) /\ Len(Tail(s)) = Len(s) - 1
          /\ \A i \in 1..(Len(s) - 1) : Tail(s)[i] = s[i + 1]
      BY <3>1
    <3> QED
      BY <3>1, <3>2 DEF s
  <2> HIDE DEF todo
  <2>3. ASSUME NEW i \in 1..Len(todo)
        PROVE  Within(cl.op, cl.range, todo[i])
    <3>1. i \in 1..(Len(cl.todo) - 1) /\ i + 1 \in 1..Len(cl.todo)
      BY <1>2, <2>2
    <3>2. todo[i] = cl.todo[i + 1]
      BY <2>2, <3>1
    <3> QED
      BY <3>1, <3>2
  <2>4. ASSUME NEW b \in Nat, In(b, cl.todo), ~In(b, todo)
        PROVE  PageOf(b) = PageOf(r[1]) /\ r[1] <= b /\ b < r[2]
    <3>1. PICK i \in 1..Len(cl.todo) : cl.todo[i][1] <= b /\ b < cl.todo[i][2]
      BY <2>4 DEF In
    <3>2. i = 1
      <4> SUFFICES ASSUME i # 1
                   PROVE  FALSE
        OBVIOUS
      <4>1. i - 1 \in 1..(Len(cl.todo) - 1) /\ (i - 1) + 1 = i
        BY <1>2
      <4>2. todo[i - 1] = cl.todo[i] /\ i - 1 \in 1..Len(todo)
        BY <1>2, <2>2, <4>1
      <4> QED
        BY <2>4, <3>1, <4>2 DEF In
    <3> QED
      BY <1>3, <1>6, <1>8, <1>10, <3>1, <3>2
  <2> DEFINE a == Request(cl.op, cl.range, todo)
  <2>5. /\ a \in Requests /\ a.op = cl.op /\ a.range = cl.range /\ a.todo = todo
        /\ a.pc = IF todo = <<>> THEN "end" ELSE "page"
    BY <1>1, <2>2, RequestIs
  <2> HIDE DEF a
  <2>6. Advance(cl) = a
    BY <1>7 DEF a
  <2>7. todo # cl.todo
    BY <1>2, <2>2
  <2> QED
    BY <2>3, <2>4, <2>5, <2>6, <2>7
<1> QED
  BY <1>9, <1>10

-----------------------------------------------------------------------------
(* The dirty file and the view *)

\* The page that a request is at.
LEMMA PageIs ==
  ASSUME TypeOK, NEW c \in Clients, Ranged(c), client[c].todo # <<>>
  PROVE  /\ client[c].todo[1][1] \in Bytes /\ client[c].todo[1][2] \in Nat
         /\ client[c].todo[1][1] < client[c].todo[1][2]
         /\ Page(c) \in Pages /\ Page(c) = PageOf(client[c].todo[1][1])
         /\ Within(client[c].op, client[c].range, client[c].todo[1])
<1>1. client[c].todo \in Seq(Nat \X Nat)
  BY DEF TypeOK, Requests
<1>2. 1 \in 1..Len(client[c].todo) /\ client[c].todo[1] \in Nat \X Nat
  BY <1>1
<1>3. /\ client[c].todo[1][1] \in Nat /\ client[c].todo[1][2] \in Nat
      /\ Within(client[c].op, client[c].range, client[c].todo[1])
  BY <1>2 DEF Ranged
<1>4. client[c].todo[1][1] \in Bytes
  BY <1>3, BytesAndPages DEF Within, Bytes
<1> QED
  BY <1>3, <1>4, BytesAndPages DEF Page, Within

\* The dirty file only grows.
Grows ==
  /\ dirtyFile' \in Seq(Hashes) /\ Len(dirtyFile) <= Len(dirtyFile')
  /\ \A i \in 1..Len(dirtyFile) : dirtyFile'[i] = dirtyFile[i]

LEMMA GrowsIf ==
  ASSUME TypeOK, UNCHANGED dirtyFile \/ \E h \in Hashes : dirtyFile' = Append(dirtyFile, h)
  PROVE  Grows
<1>1. dirtyFile \in Seq(Hashes) /\ Len(dirtyFile) \in Nat
  BY DEF TypeOK
<1>2. CASE UNCHANGED dirtyFile
  BY <1>1, <1>2 DEF Grows
<1>3. ASSUME NEW h \in Hashes, dirtyFile' = Append(dirtyFile, h)
      PROVE  Grows
  <2>1. /\ Append(dirtyFile, h) \in Seq(Hashes) /\ Len(Append(dirtyFile, h)) = Len(dirtyFile) + 1
        /\ \A i \in 1..Len(dirtyFile) : Append(dirtyFile, h)[i] = dirtyFile[i]
    BY <1>1, AppendProperties
  <2> QED
    BY <1>1, <1>3, <2>1 DEF Grows
<1> QED
  BY <1>2, <1>3

\* A page's view is its bytes, and the view of a byte that of its page.
LEMMA ViewIs ==
  ASSUME TypeOK, Slots
  PROVE  /\ \A p \in Pages : PageView(p) \in Hashes
         /\ \A b \in Bytes : View[b] = PageView(PageOf(b))[b % PageSize] /\ View[b] \in Values
<1>1. ASSUME NEW p \in Pages
      PROVE  PageView(p) \in Hashes
  <2>1. CASE dirtyPages[p] = Clean
    BY <2>1, PageValues DEF PageView
  <2>2. CASE dirtyPages[p] # Clean
    <3>1. dirtyPages[p].slot \in 1..Len(dirtyFile) /\ dirtyFile \in Seq(Hashes)
      BY <2>2 DEF Slots, TypeOK
    <3>2. PageView(p) = dirtyFile[dirtyPages[p].slot]
      BY <2>2 DEF PageView
    <3> QED
      BY <3>1, <3>2
  <2> QED
    BY <2>1, <2>2
<1>2. ASSUME NEW b \in Bytes
      PROVE  View[b] = PageView(PageOf(b))[b % PageSize] /\ View[b] \in Values
  <2>1. View[b] = PageView(PageOf(b))[b % PageSize]
    BY DEF View
  <2>2. b % PageSize \in 0..(PageSize - 1) /\ PageOf(b) \in Pages
    BY BytesAndPages, DivMod
  <2> QED
    BY <1>1, <2>1, <2>2, PageValues
<1> QED
  BY <1>1, <1>2

\* A growing file changes no page, unless the page gets another slot.
LEMMA ViewKept ==
  ASSUME TypeOK, Slots, Grows, NEW p \in Pages, dirtyPages'[p] = dirtyPages[p]
  PROVE  /\ PageView(p)' = PageView(p)
         /\ dirtyPages'[p] # Clean =>
              /\ dirtyPages'[p].slot \in 1..Len(dirtyFile')
              /\ CachePages # 0 => dirtyPages'[p].hash = dirtyFile'[dirtyPages'[p].slot]
<1>1. CASE dirtyPages[p] = Clean
  BY <1>1 DEF PageView
<1>2. CASE dirtyPages[p] # Clean
  <2>1. /\ dirtyPages[p].slot \in 1..Len(dirtyFile)
        /\ CachePages # 0 => dirtyPages[p].hash = dirtyFile[dirtyPages[p].slot]
    BY <1>2 DEF Slots
  <2>2. /\ dirtyFile'[dirtyPages[p].slot] = dirtyFile[dirtyPages[p].slot]
        /\ dirtyPages[p].slot \in 1..Len(dirtyFile')
    <3>1. Len(dirtyFile) \in Nat /\ Len(dirtyFile') \in Nat /\ Len(dirtyFile) <= Len(dirtyFile')
      BY DEF Grows, TypeOK
    <3> QED
      BY <2>1, <3>1 DEF Grows
  <2> QED
    BY <1>2, <2>1, <2>2 DEF PageView
<1> QED
  BY <1>1, <1>2

\* A request that no step touches is where it was.
LEMMA OthersKeep ==
  ASSUME TypeOK, Grows, NEW c \in Clients, client'[c] = client[c], Fetched(c), Ranged(c)
  PROVE  Fetched(c)' /\ Ranged(c)'
<1>1. Ranged(c)'
  BY DEF Ranged, Writing
<1>2. Len(dirtyFile) \in Nat /\ Len(dirtyFile') \in Nat /\ Len(dirtyFile) <= Len(dirtyFile')
  BY DEF Grows, TypeOK
<1>3. Fetched(c)'
  BY <1>2 DEF Fetched, Grows, Page
<1> QED
  BY <1>1, <1>3

\* A request that starts or goes on has fetched nothing.
LEMMA StartsAt ==
  ASSUME NEW c \in Clients, client'[c].pc = (IF client'[c].todo = <<>> THEN "end" ELSE "page"),
         \A i \in 1..Len(client'[c].todo) : Within(client'[c].op, client'[c].range, client'[c].todo[i]),
         client'[c].op \in {"write", "trim"} =>
           client'[c].range[1] < client'[c].range[2] /\ client'[c].range[2] <= NumPages * PageSize
  PROVE  Fetched(c)' /\ Ranged(c)'
BY DEF Fetched, Ranged, Writing

\* A request at another step of its page.
LEMMA StaysAt ==
  ASSUME NEW c \in Clients, Ranged(c), client'[c].op = client[c].op, client'[c].range = client[c].range,
         client'[c].todo = client[c].todo, client'[c].todo # <<>>, client'[c].pc \in {"data", "got"}
  PROVE  Ranged(c)'
BY DEF Ranged, Writing

-----------------------------------------------------------------------------
(* Trims *)

\* Which pages a range covers in full.
LEMMA FullPages ==
  ASSUME NEW off \in Nat, NEW end \in Nat, NEW p \in Nat
  PROVE  /\ FirstFullPage(off) \in Nat /\ LastFullPageExcl(end) \in Nat
         /\ FirstFullPage(off) <= p <=> off <= p * PageSize
         /\ p < LastFullPageExcl(end) <=> p * PageSize + PageSize <= end
<1>1. PageSize \in Nat /\ PageSize > 0
  BY SnapshotAssumption
<1> DEFINE f == FirstFullPage(off)
           l == LastFullPageExcl(end)
           P == p * PageSize
           F == f * PageSize
           L == l * PageSize
<1>2. f = PageOf(off + PageSize - 1) /\ l = PageOf(end) /\ off + PageSize - 1 \in Nat
  BY <1>1 DEF FirstFullPage, LastFullPageExcl, PageOf
<1>3. f \in Nat /\ l \in Nat
  BY <1>2, DivMod
<1> HIDE DEF f, l
<1>4. F \in Nat /\ L \in Nat /\ P \in Nat
  BY <1>1, <1>3
<1>5. F <= off + PageSize - 1 /\ off + PageSize - 1 < F + PageSize /\ L <= end /\ end < L + PageSize
  BY <1>2, <1>3, PageUnique
<1>6. /\ p < f => P + PageSize <= F
      /\ f < p => F + PageSize <= P
      /\ p < l => P + PageSize <= L
      /\ l < p => L + PageSize <= P
      /\ p = f => P = F
      /\ p = l => P = L
  BY <1>3, Products
<1> HIDE DEF P, F, L
<1>7. f <= p <=> off <= P
  BY <1>1, <1>3, <1>4, <1>5, <1>6
<1>8. p < l <=> P + PageSize <= end
  BY <1>1, <1>3, <1>4, <1>5, <1>6
<1> QED
  BY <1>3, <1>7, <1>8 DEF f, l, P

\* One range or none, and two of those.
AtMost(s, x) == s = <<>> \/ s = <<x>>

Joined(S, s, s1, s2, x, y) ==
  /\ s \in Seq(S)
  /\ \A i \in 1..Len(s) : (s1 # <<>> /\ s[i] = x) \/ (s2 # <<>> /\ s[i] = y)
  /\ s1 # <<>> => \E i \in 1..Len(s) : s[i] = x
  /\ s2 # <<>> => \E i \in 1..Len(s) : s[i] = y

LEMMA OneOrTwo ==
  ASSUME NEW S, NEW x \in S, NEW y \in S, NEW s1 \in Seq(S), NEW s2 \in Seq(S),
         AtMost(s1, x), AtMost(s2, y)
  PROVE  Joined(S, s1 \o s2, s1, s2, x, y)
<1> DEFINE s  == s1 \o s2
           n1 == Len(s1)
           n2 == Len(s2)
<1>1. /\ n1 \in {0, 1} /\ (n1 = 1 <=> s1 # <<>>) /\ (n1 = 1 => s1[1] = x)
      /\ n2 \in {0, 1} /\ (n2 = 1 <=> s2 # <<>>) /\ (n2 = 1 => s2[1] = y)
  <2>1. n1 \in {0, 1} /\ (n1 = 1 <=> s1 # <<>>) /\ (n1 = 1 => s1[1] = x)
    BY DEF AtMost
  <2>2. n2 \in {0, 1} /\ (n2 = 1 <=> s2 # <<>>) /\ (n2 = 1 => s2[1] = y)
    BY DEF AtMost
  <2> QED
    BY <2>1, <2>2
<1>2. /\ s \in Seq(S) /\ Len(s) = n1 + n2
      /\ \A i \in 1..(n1 + n2) : s[i] = IF i <= n1 THEN s1[i] ELSE s2[i - n1]
  BY ConcatProperties, Zenon
<1> HIDE DEF s, n1, n2
<1>3. \A i \in 1..(n1 + n2) : (n1 = 1 /\ i = 1 /\ s[i] = x) \/ (n2 = 1 /\ i = n1 + 1 /\ s[i] = y)
  BY <1>1, <1>2
<1>4. (n1 = 1 => s[1] = x) /\ (n2 = 1 => s[n1 + 1] = y)
  BY <1>1, <1>2
<1>5. (n1 = 1 => 1 \in 1..Len(s)) /\ (n2 = 1 => n1 + 1 \in 1..Len(s))
  BY <1>1, <1>2
<1> QED
  BY <1>1, <1>2, <1>3, <1>4, <1>5 DEF s, Joined

\* What a trim writes is in its range, and is all of it but the full pages.
LEMMA TrimIs ==
  ASSUME NEW off \in Nat, NEW end \in Nat, off < end
  PROVE  LET s == TrimWrites(off, end) IN
         /\ s \in Seq(Nat \X Nat)
         /\ \A i \in 1..Len(s) : off <= s[i][1] /\ s[i][1] < s[i][2] /\ s[i][2] <= end
         /\ \A b \in Nat : /\ off <= b /\ b < end
                           /\ ~(off <= PageOf(b) * PageSize /\ PageOf(b) * PageSize + PageSize <= end)
                           => In(b, s)
<1>1. PageSize \in Nat /\ PageSize > 0
  BY SnapshotAssumption
<1> DEFINE m   == off % PageSize
           o   == PageOf(off)
           O   == o * PageSize
           l   == LastFullPageExcl(end)
           L   == l * PageSize
           one == m # 0
           two == end % PageSize # 0 /\ l >= FirstFullPage(off)
           n   == Least(PageSize - m, end - off)
           x   == <<off, off + n>>
           y   == <<L, end>>
           s   == TrimWrites(off, end)
<1>2. s = (IF one THEN <<x>> ELSE <<>>) \o (IF two THEN <<y>> ELSE <<>>)
  BY DEF TrimWrites
<1>3. m \in 0..(PageSize - 1) /\ o \in Nat /\ off = O + m
  BY DivMod
<1>4. l = PageOf(end) /\ l \in Nat /\ end % PageSize \in 0..(PageSize - 1) /\ end = L + (end % PageSize)
  BY DivMod DEF LastFullPageExcl, PageOf
<1>5. O \in Nat /\ L \in Nat
  BY <1>1, <1>3, <1>4
<1> HIDE DEF m, o, O, l, L
<1>6. n \in Nat /\ n > 0 /\ off + n <= end /\ (n = PageSize - m \/ off + n = end)
  BY <1>1, <1>3 DEF Least
<1> HIDE DEF n
<1>7. x \in Nat \X Nat /\ y \in Nat \X Nat /\ x[1] = off /\ x[2] = off + n /\ y[1] = L /\ y[2] = end
  BY <1>5, <1>6
<1>9. two => off <= L /\ L < end
  <2>1. FirstFullPage(off) \in Nat /\ (FirstFullPage(off) <= l <=> off <= L)
    BY <1>4, FullPages DEF L
  <2>2. end % PageSize # 0 => L < end
    BY <1>1, <1>4, <1>5
  <2> QED
    BY <1>4, <2>1, <2>2
<1> HIDE DEF x, y, s
<1>10. /\ s \in Seq(Nat \X Nat)
       /\ \A i \in 1..Len(s) : (one /\ s[i] = x) \/ (two /\ s[i] = y)
       /\ one => \E i \in 1..Len(s) : s[i] = x
       /\ two => \E i \in 1..Len(s) : s[i] = y
  <2> DEFINE s1 == IF one THEN <<x>> ELSE <<>>
             s2 == IF two THEN <<y>> ELSE <<>>
  <2>1. s = s1 \o s2
    BY <1>2
  <2> HIDE DEF one, two
  <2>2. s1 \in Seq(Nat \X Nat) /\ (s1 = <<>> \/ s1 = <<x>>) /\ (one <=> s1 # <<>>)
    <3>1. CASE one
      BY <1>7, <3>1
    <3>2. CASE ~one
      BY <3>2
    <3> QED
      BY <3>1, <3>2
  <2>3. s2 \in Seq(Nat \X Nat) /\ (s2 = <<>> \/ s2 = <<y>>) /\ (two <=> s2 # <<>>)
    <3>1. CASE two
      BY <1>7, <3>1
    <3>2. CASE ~two
      BY <3>2
    <3> QED
      BY <3>1, <3>2
  <2> HIDE DEF s1, s2
  <2> DEFINE S == Nat \X Nat
  <2>4. x \in S /\ y \in S /\ s1 \in Seq(S) /\ s2 \in Seq(S)
    BY <1>7, <2>2, <2>3
  <2> HIDE DEF S
  <2>5. AtMost(s1, x) /\ AtMost(s2, y)
    BY <2>2, <2>3 DEF AtMost
  <2>6. Joined(S, s, s1, s2, x, y)
    BY <2>1, <2>4, <2>5, OneOrTwo
  <2>7. s \in Seq(Nat \X Nat)
    BY <2>6 DEF S, Joined
  <2> QED
    BY <2>2, <2>3, <2>6, <2>7, Zenon DEF Joined
<1>11. ASSUME NEW i \in 1..Len(s)
       PROVE  off <= s[i][1] /\ s[i][1] < s[i][2] /\ s[i][2] <= end
  <2>1. CASE one /\ s[i] = x
    BY <1>6, <1>7, <2>1
  <2>2. CASE two /\ s[i] = y
    BY <1>5, <1>7, <1>9, <2>2
  <2> QED
    BY <1>10, <2>1, <2>2
<1>12. ASSUME NEW b \in Nat, off <= b, b < end,
              ~(off <= PageOf(b) * PageSize /\ PageOf(b) * PageSize + PageSize <= end)
       PROVE  In(b, s)
  <2> DEFINE p == PageOf(b)
             P == p * PageSize
  <2>1. p \in Nat
    BY DivMod
  <2>2. P \in Nat /\ P <= b /\ b < P + PageSize
    BY <1>1, <2>1, PageUnique
  <2>3. CASE P < off
    <3>1. o = p
      <4>1. P <= off /\ off < P + PageSize
        BY <1>1, <1>12, <2>2, <2>3
      <4> QED
        BY <2>1, <4>1, PageUnique DEF o
    <3>2. O = P
      BY <3>1 DEF O
    <3> HIDE DEF P, p
    <3>3. one /\ off + (PageSize - m) = P + PageSize
      BY <1>1, <1>3, <1>5, <2>2, <2>3, <3>2
    <3>4. x[1] <= b /\ b < x[2]
      BY <1>1, <1>3, <1>6, <1>7, <1>12, <2>2, <3>3
    <3> QED
      BY <1>10, <3>3, <3>4 DEF In
  <2>4. CASE off <= P
    <3>1. end < P + PageSize
      BY <1>1, <1>12, <2>2, <2>4
    <3>2. l = p
      <4>1. P <= end /\ end < P + PageSize
        BY <1>12, <2>2, <3>1
      <4> QED
        BY <1>4, <2>1, <4>1, PageUnique
    <3>3. L = P
      BY <3>2 DEF L
    <3>4. FirstFullPage(off) \in Nat /\ FirstFullPage(off) <= l
      BY <2>1, <2>4, <3>2, FullPages
    <3> HIDE DEF P, p
    <3>5. end % PageSize # 0
      BY <1>1, <1>4, <1>5, <1>12, <2>2, <3>3
    <3>6. two
      BY <1>4, <3>4, <3>5
    <3>7. y[1] <= b /\ b < y[2]
      BY <1>7, <1>12, <2>2, <3>3
    <3> QED
      BY <1>10, <3>6, <3>7 DEF In
  <2> QED
    BY <2>2, <2>3, <2>4
<1> QED
  BY <1>10, <1>11, <1>12 DEF s

-----------------------------------------------------------------------------
(* The ranges of a save *)

Below(D, p) == {q \in D : q < p}

\* Counting the smaller elements numbers a finite set of naturals.
LEMMA Ranks ==
  ASSUME NEW D \in SUBSET Nat, IsFiniteSet(D)
  PROVE  /\ Cardinality(D) \in Nat
         /\ \A p \in D : Cardinality(Below(D, p)) \in 0..(Cardinality(D) - 1)
         /\ \A p, q \in D : Cardinality(Below(D, p)) = Cardinality(Below(D, q)) => p = q
         /\ \A i \in 1..Cardinality(D) : \E p \in D : Cardinality(Below(D, p)) = i - 1
<1> DEFINE n == Cardinality(D)
<1>1. n \in Nat
  BY FS_CardinalityType
<1>2. \A p \in D : /\ Below(D, p) \in SUBSET D /\ IsFiniteSet(Below(D, p))
                   /\ Cardinality(Below(D, p)) \in Nat /\ p \notin Below(D, p)
  <2> SUFFICES ASSUME NEW p \in D
               PROVE  /\ Below(D, p) \in SUBSET D /\ IsFiniteSet(Below(D, p))
                      /\ Cardinality(Below(D, p)) \in Nat /\ p \notin Below(D, p)
    OBVIOUS
  <2>1. Below(D, p) \in SUBSET D /\ p \notin Below(D, p)
    BY DEF Below
  <2>2. IsFiniteSet(Below(D, p))
    BY <2>1, FS_Subset
  <2> QED
    BY <2>1, <2>2, FS_CardinalityType
<1>3. \A p \in D : Cardinality(Below(D, p)) < n
  <2> SUFFICES ASSUME NEW p \in D
               PROVE  Cardinality(Below(D, p)) < n
    OBVIOUS
  <2>1. /\ Cardinality(Below(D, p)) <= n
        /\ n = Cardinality(Below(D, p)) => D = Below(D, p)
    BY <1>2, FS_Subset
  <2>2. D # Below(D, p)
    BY <1>2
  <2> QED
    BY <1>1, <1>2, <2>1, <2>2
<1>4. \A p, q \in D : p < q => Cardinality(Below(D, p)) < Cardinality(Below(D, q))
  <2> SUFFICES ASSUME NEW p \in D, NEW q \in D, p < q
               PROVE  Cardinality(Below(D, p)) < Cardinality(Below(D, q))
    OBVIOUS
  <2>1. Below(D, p) \in SUBSET Below(D, q) /\ p \in Below(D, q) /\ p \notin Below(D, p)
    <3>1. p \in Nat /\ q \in Nat /\ \A d \in D : d \in Nat
      OBVIOUS
    <3>2. \A d \in D : d < p => d < q
      BY <3>1
    <3>3. ~(p < p)
      BY <3>1
    <3> QED
      BY <3>2, <3>3 DEF Below
  <2>2. /\ Cardinality(Below(D, p)) <= Cardinality(Below(D, q))
        /\ Cardinality(Below(D, q)) = Cardinality(Below(D, p)) => Below(D, q) = Below(D, p)
    BY <1>2, <2>1, FS_Subset
  <2>3. Below(D, q) # Below(D, p)
    BY <2>1
  <2>4. Cardinality(Below(D, p)) \in Nat /\ Cardinality(Below(D, q)) \in Nat
    BY <1>2
  <2> QED
    BY <2>2, <2>3, <2>4
<1>5. \A p, q \in D : Cardinality(Below(D, p)) = Cardinality(Below(D, q)) => p = q
  <2> SUFFICES ASSUME NEW p \in D, NEW q \in D, Cardinality(Below(D, p)) = Cardinality(Below(D, q)), p # q
               PROVE  FALSE
    OBVIOUS
  <2>1. p < q \/ q < p
    OBVIOUS
  <2>2. Cardinality(Below(D, p)) \in Nat
    BY <1>2
  <2> QED
    BY <1>4, <2>1, <2>2
<1>6. \A i \in 1..n : \E p \in D : Cardinality(Below(D, p)) = i - 1
  <2> DEFINE T == 0..(n - 1)
             f == [p \in D |-> Cardinality(Below(D, p))]
  <2>1. f \in [D -> T] /\ \A p \in D : f[p] = Cardinality(Below(D, p))
    BY <1>1, <1>2, <1>3
  <2>2. IsFiniteSet(T) /\ Cardinality(T) = n
    <3>1. /\ IsFiniteSet(0..(n - 1))
          /\ Cardinality(0..(n - 1)) = IF 0 > n - 1 THEN 0 ELSE (n - 1) - 0 + 1
      <4>1. 0 \in Int /\ n - 1 \in Int
        BY <1>1
      <4> QED
        BY <4>1, FS_Interval
    <3> QED
      BY <1>1, <3>1
  <2> HIDE DEF f, T
  <2>3. f \in Injection(D, T)
    BY <1>5, <2>1 DEF Injection, IsInjective
  <2>4. f \in Surjection(D, T)
    BY <2>2, <2>3, FS_Injection
  <2>5. \A j \in T : \E p \in D : f[p] = j
    BY <2>4 DEF Surjection
  <2> QED
    BY <1>1, <2>1, <2>5 DEF T
<1> QED
  BY <1>1, <1>2, <1>3, <1>5, <1>6

\* WriteDirtyTo goes through exactly the dirty pages that are in the image.
LEMMA DirtyRangesAre ==
  ASSUME TypeOK
  PROVE  /\ DirtyRanges \in Seq(Nat \X Nat)
         /\ \A i \in 1..Len(DirtyRanges) :
              \E p \in Pages : DirtyRanges[i] = <<p * PageSize, p * PageSize + PageSize>>
         /\ \A p \in Pages : dirtyPages[p] # Clean /\ p * PageSize < Size =>
              \E i \in 1..Len(DirtyRanges) : DirtyRanges[i] = <<p * PageSize, p * PageSize + PageSize>>
<1> DEFINE D == {p \in Pages : dirtyPages[p] # Clean /\ p * PageSize < Size}
           n == Cardinality(D)
           nth(i) == CHOOSE p \in D : Cardinality(Below(D, p)) = i - 1
           range(p) == <<p * PageSize, p * PageSize + PageSize>>
<1>1. PageSize \in Nat /\ PageSize > 0 /\ NumPages \in Nat /\ NumPages > 0 /\ Pages \subseteq Nat
  BY SnapshotAssumption, BytesAndPages
<1>2. D \in SUBSET Nat /\ D \subseteq Pages
  BY <1>1
<1>3. IsFiniteSet(D)
  <2>1. IsFiniteSet(Pages)
    BY <1>1, FS_Interval DEF Pages
  <2> QED
    BY <1>2, <2>1, FS_Subset
<1>4. DirtyRanges = [i \in 1..n |-> <<nth(i) * PageSize, (nth(i) + 1) * PageSize>>]
  BY DEF DirtyRanges, Below
<1>5. \A p \in Pages : dirtyPages[p] # Clean /\ p * PageSize < Size => p \in D
  OBVIOUS
<1> HIDE DEF D
<1>6. /\ n \in Nat
      /\ \A p \in D : Cardinality(Below(D, p)) \in 0..(n - 1)
      /\ \A p, q \in D : Cardinality(Below(D, p)) = Cardinality(Below(D, q)) => p = q
      /\ \A i \in 1..n : \E p \in D : Cardinality(Below(D, p)) = i - 1
  BY <1>2, <1>3, Ranks
<1> HIDE DEF n
<1>7. \A i \in 1..n : nth(i) \in D /\ Cardinality(Below(D, nth(i))) = i - 1
  BY <1>6
<1>8. \A p \in D : Cardinality(Below(D, p)) + 1 \in 1..n /\ nth(Cardinality(Below(D, p)) + 1) = p
  <2> SUFFICES ASSUME NEW p \in D
               PROVE  Cardinality(Below(D, p)) + 1 \in 1..n /\ nth(Cardinality(Below(D, p)) + 1) = p
    OBVIOUS
  <2> DEFINE i == Cardinality(Below(D, p)) + 1
  <2>1. i \in 1..n /\ i - 1 = Cardinality(Below(D, p))
    BY <1>6
  <2> HIDE DEF i, nth
  <2>2. nth(i) \in D /\ Cardinality(Below(D, nth(i))) = Cardinality(Below(D, p))
    BY <1>7, <2>1
  <2>3. nth(i) = p
    BY <1>6, <2>2
  <2> QED
    BY <2>1, <2>3 DEF i
<1> HIDE DEF nth
<1>9. \A i \in 1..n : DirtyRanges[i] = range(nth(i)) /\ range(nth(i)) \in Nat \X Nat
  <2> SUFFICES ASSUME NEW i \in 1..n
               PROVE  DirtyRanges[i] = range(nth(i)) /\ range(nth(i)) \in Nat \X Nat
    OBVIOUS
  <2>1. nth(i) \in Nat
    BY <1>2, <1>7
  <2>2. nth(i) * PageSize \in Nat /\ (nth(i) + 1) * PageSize = nth(i) * PageSize + PageSize
    <3>1. nth(i) + 1 \in Nat /\ nth(i) < nth(i) + 1
      BY <2>1
    <3> QED
      BY <2>1, <3>1, Products
  <2>3. DirtyRanges[i] = <<nth(i) * PageSize, (nth(i) + 1) * PageSize>>
    BY <1>4
  <2> QED
    BY <1>1, <2>2, <2>3
<1>10. Len(DirtyRanges) = n /\ DirtyRanges \in Seq(Nat \X Nat)
  <2>1. DOMAIN DirtyRanges = 1..n /\ DirtyRanges \in [1..n -> Nat \X Nat]
    BY <1>4, <1>9
  <2> QED
    BY <1>6, <2>1
<1> QED
  BY <1>2, <1>5, <1>7, <1>8, <1>9, <1>10

-----------------------------------------------------------------------------
(* What a read returns *)

Basics ==
  /\ TypeOK /\ CacheSound /\ Slots
  /\ \A c \in Clients : Fetched(c) /\ Ranged(c)

LEMMA BasicsInit == Init => Basics
<1> SUFFICES ASSUME Init
             PROVE  Basics
  OBVIOUS
<1>1. client \in [Clients -> Requests] /\ \A c \in Clients : client[c] = IdleClient
  BY IdleIs DEF Init
<1>2. dirtyPages \in [Pages -> DirtyPages] /\ \A p \in Pages : dirtyPages[p] = Clean
  BY PageValues DEF Init
<1>3. IsFiniteSet(cache) /\ Cardinality(cache) <= CachePages
  BY FS_EmptySet, SnapshotAssumption DEF Init
<1>4. copy \in [Bytes -> Values \cup {Absent}]
  BY DEF Init, ImageCopy, Values, Absent
<1>5. /\ dirtyFile \in Seq(Hashes) /\ closed \in BOOLEAN /\ pageHashes \subseteq Pages
      /\ met \subseteq Clients /\ ops \in 0..MaxOps
  <2>1. closed \in BOOLEAN /\ pageHashes \subseteq Pages
    BY Zenon DEF Init
  <2>2. dirtyFile \in Seq(Hashes)
    BY DEF Init
  <2>3. met \subseteq Clients /\ ops \in 0..MaxOps
    BY SnapshotAssumption DEF Init
  <2> QED
    BY <2>1, <2>2, <2>3
<1>6. cache = {}
  BY DEF Init
<1>7. TypeOK
  BY <1>1, <1>2, <1>3, <1>4, <1>5, <1>6 DEF TypeOK
<1>8. CacheSound /\ Slots
  BY <1>2, <1>6 DEF CacheSound, Slots
<1>9. ASSUME NEW c \in Clients
      PROVE  Fetched(c) /\ Ranged(c)
  BY <1>1, IdleIs DEF Fetched, Ranged, Writing
<1> QED
  BY <1>7, <1>8, <1>9 DEF Basics

\* The requests of other clients stay; a request starts, goes on with the next page,
\* is at another step of its page, or ends.
Others(c) == \A d \in Clients : d # c => client'[d] = client[d]

Starts(c, op, r, todo) ==
  /\ Others(c) /\ client'[c].op = op /\ client'[c].range = r /\ client'[c].todo = todo
  /\ client'[c].pc \in {"page", "end"}

GoesOn(c) ==
  /\ Others(c) /\ client'[c].op = client[c].op /\ client'[c].range = client[c].range
  /\ client'[c] # client[c] /\ client'[c].pc \in {"page", "end"}
  /\ \A b \in Bytes : Awaits(c, b) => Awaits(c, b)' \/ (PageOf(b) = Page(c) /\ b \in Covered(c))

MovesTo(c, pc, want) ==
  /\ Others(c) /\ client'[c].op = client[c].op /\ client'[c].range = client[c].range
  /\ client'[c].todo = client[c].todo /\ client'[c].pc = pc /\ client'[c].want = want

Ends(c) == Others(c) /\ client'[c].op = "none"

\* The requests are as they should be after the step.
RequestsAre == client' \in [Clients -> Requests] /\ \A d \in Clients : Fetched(d)' /\ Ranged(d)'

\* What holds of every request holds still, when it does of the one that changed.
LEMMA RequestStep ==
  ASSUME Basics, Grows, NEW c \in Clients, NEW r \in Requests,
         client' = [client EXCEPT ![c] = r], Fetched(c)', Ranged(c)'
  PROVE  RequestsAre
<1>1. /\ client' \in [Clients -> Requests]
      /\ \A d \in Clients : d # c => client'[d] = client[d]
  BY ClientIs DEF Basics
<1>2. ASSUME NEW d \in Clients, d # c
      PROVE  Fetched(d)' /\ Ranged(d)'
  <2>1. client'[d] = client[d] /\ Fetched(d) /\ Ranged(d) /\ TypeOK
    BY <1>1, <1>2 DEF Basics
  <2> QED
    BY <2>1, OthersKeep
<1> QED
  BY <1>1, <1>2 DEF RequestsAre

\* A request starts.
LEMMA StartStep ==
  ASSUME Basics, Grows, NEW c \in Clients, NEW op \in {"read", "write", "trim", "save"},
         NEW r \in Nat \X Nat, NEW todo \in Seq(Nat \X Nat),
         client' = [client EXCEPT ![c] = Request(op, r, todo)],
         \A i \in 1..Len(todo) : Within(op, r, todo[i]),
         op \in {"write", "trim"} => r[1] < r[2] /\ r[2] <= NumPages * PageSize
  PROVE  RequestsAre /\ Starts(c, op, r, todo)
<1> DEFINE q == Request(op, r, todo)
<1>1. /\ q \in Requests /\ q.op = op /\ q.range = r /\ q.todo = todo
      /\ q.pc = IF todo = <<>> THEN "end" ELSE "page"
  BY RequestIs
<1>2. client' = [client EXCEPT ![c] = q]
  OBVIOUS
<1> HIDE DEF q
<1>3. client'[c] = q /\ \A d \in Clients : d # c => client'[d] = client[d]
  BY <1>1, <1>2, ClientIs DEF Basics
<1>4. Fetched(c)' /\ Ranged(c)'
  BY <1>1, <1>3, StartsAt
<1>5. RequestsAre
  BY <1>1, <1>2, <1>4, RequestStep
<1> QED
  BY <1>1, <1>3, <1>5 DEF Starts, Others

\* A request ends.
LEMMA IdleStep ==
  ASSUME Basics, Grows, NEW c \in Clients, client' = [client EXCEPT ![c] = IdleClient]
  PROVE  RequestsAre /\ Ends(c)
<1>1. client'[c] = IdleClient /\ \A d \in Clients : d # c => client'[d] = client[d]
  BY IdleIs, ClientIs DEF Basics
<1>2. Fetched(c)' /\ Ranged(c)'
  BY <1>1, IdleIs, StartsAt
<1>3. RequestsAre
  BY <1>2, IdleIs, RequestStep
<1> QED
  BY <1>1, <1>3, IdleIs DEF Ends, Others

\* A request goes on with the next page.
LEMMA AdvanceStep ==
  ASSUME Basics, Grows, NEW c \in Clients, client[c].todo # <<>>,
         client' = [client EXCEPT ![c] = Advance(client[c])]
  PROVE  RequestsAre /\ GoesOn(c)
<1> DEFINE q == Advance(client[c])
<1>1. client[c] \in Requests /\ Ranged(c) /\ TypeOK
  BY DEF Basics, TypeOK
<1>2. \A i \in 1..Len(client[c].todo) : Within(client[c].op, client[c].range, client[c].todo[i])
  BY <1>1 DEF Ranged
<1>3. /\ q \in Requests /\ q.op = client[c].op /\ q.range = client[c].range
      /\ q.todo # client[c].todo /\ q.pc = IF q.todo = <<>> THEN "end" ELSE "page"
      /\ \A i \in 1..Len(q.todo) : Within(client[c].op, client[c].range, q.todo[i])
      /\ \A b \in Nat : In(b, client[c].todo) =>
              \/ In(b, q.todo)
              \/ /\ PageOf(b) = PageOf(client[c].todo[1][1])
                 /\ client[c].todo[1][1] <= b /\ b < client[c].todo[1][2]
  BY <1>1, <1>2, AdvanceDoes
<1>4. client' = [client EXCEPT ![c] = q]
  OBVIOUS
<1> HIDE DEF q
<1>5. client'[c] = q /\ \A d \in Clients : d # c => client'[d] = client[d]
  BY <1>1, <1>3, <1>4, ClientIs
<1>6. Fetched(c)' /\ Ranged(c)'
  <2>1. client'[c].op \in {"write", "trim"} =>
           client'[c].range[1] < client'[c].range[2] /\ client'[c].range[2] <= NumPages * PageSize
    BY <1>1, <1>3, <1>5 DEF Ranged, Writing
  <2>2. /\ client'[c].pc = (IF client'[c].todo = <<>> THEN "end" ELSE "page")
        /\ \A i \in 1..Len(client'[c].todo) : Within(client'[c].op, client'[c].range, client'[c].todo[i])
    BY <1>3, <1>5
  <2> QED
    BY <2>1, <2>2, StartsAt
<1>7. RequestsAre
  BY <1>3, <1>4, <1>6, RequestStep
<1>8. ASSUME NEW b \in Bytes, Awaits(c, b), ~Awaits(c, b)'
      PROVE  PageOf(b) = Page(c) /\ b \in Covered(c)
  <2>1. b \in Nat /\ In(b, client[c].todo) /\ ~In(b, q.todo)
    BY <1>5, <1>8, BytesAndPages DEF Awaits
  <2> QED
    BY <1>3, <2>1 DEF Page, Covered, BytesOf
<1> QED
  BY <1>3, <1>5, <1>7, <1>8 DEF GoesOn, Others

\* A request is at another step of its page.
LEMMA PageStep ==
  ASSUME Basics, Grows, NEW c \in Clients, NEW pc \in {"data", "got"}, NEW dp \in DirtyPages,
         NEW want \in Buffers, NEW buf \in Buffers, client[c].todo # <<>>,
         client' = [client EXCEPT ![c] = AtPage(client[c], pc, dp, want, buf)],
         want \in Hashes, pc = "got" => buf = want,
         dp # Clean =>
           /\ dp.slot \in 1..Len(dirtyFile') /\ want = dirtyFile'[dp.slot]
           /\ CachePages # 0 => dp.hash = want,
         dp = Clean => want = HashPage(Page(c), Base)
  PROVE  RequestsAre /\ MovesTo(c, pc, want)
<1> DEFINE q == AtPage(client[c], pc, dp, want, buf)
<1>1. client[c] \in Requests /\ Ranged(c) /\ TypeOK
  BY DEF Basics, TypeOK
<1>2. /\ q \in Requests /\ q.op = client[c].op /\ q.range = client[c].range /\ q.todo = client[c].todo
      /\ q.pc = pc /\ q.dp = dp /\ q.want = want /\ q.buf = buf
  <2>1. pc \in {"page", "data", "got", "end", "done"}
    OBVIOUS
  <2> QED
    BY <1>1, <2>1 DEF AtPage, Requests
<1>3. client' = [client EXCEPT ![c] = q]
  OBVIOUS
<1> HIDE DEF q
<1>4. client'[c] = q /\ \A d \in Clients : d # c => client'[d] = client[d]
  BY <1>1, <1>2, <1>3, ClientIs
<1>5. Ranged(c)'
  BY <1>1, <1>2, <1>4, StaysAt
<1>6. Fetched(c)'
  BY <1>2, <1>4 DEF Fetched, Page
<1>7. RequestsAre
  BY <1>2, <1>3, <1>5, <1>6, RequestStep
<1> QED
  BY <1>2, <1>4, <1>7 DEF MovesTo, Others

\* A step that gives no page another slot.
Quiet == UNCHANGED dirtyPages /\ Grows

LEMMA QuietStep ==
  ASSUME Basics, Quiet, RequestsAre, UNCHANGED closed \/ closed' = TRUE, pageHashes' \subseteq Pages,
         UNCHANGED cache \/ \E h \in Buffers, data \in Hashes : (CachePages # 0 => h = data) /\ CachePut(h, data),
         copy' \in [Bytes -> Values \cup {Absent}], met' \subseteq Clients, ops' \in 0..MaxOps
  PROVE  Basics'
<1>1. TypeOK /\ CacheSound /\ Slots
  BY DEF Basics
<1>2. /\ cache' \subseteq [hash : Hashes, data : Hashes] /\ CacheSound'
      /\ IsFiniteSet(cache') /\ Cardinality(cache') <= CachePages
  <2>1. CASE UNCHANGED cache
    BY <1>1, <2>1 DEF TypeOK, CacheSound
  <2>2. ASSUME NEW h \in Buffers, NEW data \in Hashes, CachePages # 0 => h = data, CachePut(h, data)
        PROVE  /\ cache' \subseteq [hash : Hashes, data : Hashes] /\ CacheSound'
               /\ IsFiniteSet(cache') /\ Cardinality(cache') <= CachePages
    BY <1>1, <2>2, CachePutDoes
  <2> QED
    BY <2>1, <2>2
<1>3. closed' \in BOOLEAN
  BY <1>1, Zenon DEF TypeOK
<1>4. dirtyPages' \in [Pages -> DirtyPages] /\ dirtyFile' \in Seq(Hashes)
  BY <1>1 DEF TypeOK, Quiet, Grows
<1>5. TypeOK'
  BY <1>2, <1>3, <1>4 DEF TypeOK, RequestsAre
<1>6. Slots'
  <2> SUFFICES ASSUME NEW p \in Pages, dirtyPages'[p] # Clean
               PROVE  /\ dirtyPages'[p].slot \in 1..Len(dirtyFile')
                      /\ CachePages # 0 => dirtyPages'[p].hash = dirtyFile'[dirtyPages'[p].slot]
    BY DEF Slots
  <2>1. dirtyPages'[p] = dirtyPages[p] /\ Grows
    BY DEF Quiet
  <2> QED
    BY <1>1, <2>1, ViewKept
<1> QED
  BY <1>2, <1>5, <1>6 DEF Basics, RequestsAre

\* The ranges that clients ask for are in the snapshot.
LEMMA RangesAre ==
  ASSUME NEW r \in WriteRanges \cup ReadRanges
  PROVE  /\ r \in Nat \X Nat /\ r[1] \in Nat /\ r[2] \in Nat
         /\ r[1] < r[2] /\ r[2] <= NumPages * PageSize
         /\ <<r>> \in Seq(Nat \X Nat) /\ Len(<<r>>) = 1 /\ <<r>>[1] = r
<1>1. r \in Bytes \X (1..(NumPages * PageSize)) /\ r[1] < r[2]
  BY SnapshotAssumption
<1>2. NumPages * PageSize \in Nat /\ Bytes \subseteq Nat
  BY BytesAndPages
<1> DEFINE n == NumPages * PageSize
           T == 1..n
<1>3. r \in Bytes \X T /\ n \in Nat
  BY <1>1, <1>2
<1> HIDE DEF n, T
<1>4. r[1] \in Bytes /\ r[2] \in T
  BY <1>3
<1>5. r[1] \in Nat /\ r[2] \in Nat /\ r[2] <= n
  <2>1. \A x \in Bytes : x \in Nat
    BY <1>2
  <2>2. \A x \in T : x \in Nat /\ x <= n
    <3>1. n \in Nat
      BY <1>3
    <3> QED
      BY <3>1 DEF T
  <2> HIDE <1>3
  <2> QED
    BY <1>4, <2>1, <2>2
<1>6. r \in Nat \X Nat
  <2>1. r = <<r[1], r[2]>>
    BY <1>3
  <2> QED
    BY <1>5, <2>1
<1> QED
  BY <1>1, <1>5, <1>6 DEF n

LEMMA StartReadDoes ==
  ASSUME Basics, NEW c \in Clients, NEW r \in ReadRanges, StartRead(c, r)
  PROVE  Basics' /\ Quiet /\ Starts(c, "read", r, <<r>>)
<1>1. TypeOK /\ Quiet /\ Grows
  BY GrowsIf DEF Basics, StartRead, Quiet
<1>2. client' = [client EXCEPT ![c] = Request("read", r, <<r>>)]
  BY DEF StartRead
<1>3. /\ r \in Nat \X Nat /\ r[1] < r[2] /\ r[2] <= NumPages * PageSize
      /\ <<r>> \in Seq(Nat \X Nat) /\ \A i \in 1..Len(<<r>>) : <<r>>[i] = r
  BY RangesAre
<1>4. \A i \in 1..Len(<<r>>) : Within("read", r, <<r>>[i])
  BY <1>3 DEF Within
<1>5. RequestsAre /\ Starts(c, "read", r, <<r>>)
  BY <1>1, <1>2, <1>3, <1>4, StartStep
<1>6. /\ UNCHANGED <<closed, cache>> /\ pageHashes' \subseteq Pages
      /\ copy' \in [Bytes -> Values \cup {Absent}] /\ met' \subseteq Clients /\ ops' \in 0..MaxOps
  BY <1>1 DEF StartRead, TypeOK
<1> QED
  BY <1>1, <1>5, <1>6, QuietStep

LEMMA StartWriteDoes ==
  ASSUME Basics, NEW c \in Clients, NEW r \in WriteRanges, StartWrite(c, r)
  PROVE  Basics' /\ Quiet /\ Starts(c, "write", r, <<r>>)
<1>1. TypeOK /\ Quiet /\ Grows
  BY GrowsIf DEF Basics, StartWrite, Quiet
<1>2. client' = [client EXCEPT ![c] = Request("write", r, <<r>>)]
  BY DEF StartWrite
<1>3. /\ r \in Nat \X Nat /\ r[1] \in Nat /\ r[2] \in Nat /\ r[1] < r[2] /\ r[2] <= NumPages * PageSize
      /\ <<r>> \in Seq(Nat \X Nat) /\ \A i \in 1..Len(<<r>>) : <<r>>[i] = r
  BY RangesAre
<1>4. \A i \in 1..Len(<<r>>) : Within("write", r, <<r>>[i])
  BY <1>3 DEF Within
<1>5. RequestsAre /\ Starts(c, "write", r, <<r>>)
  BY <1>1, <1>2, <1>3, <1>4, StartStep
<1>6. /\ UNCHANGED <<closed, cache>> /\ pageHashes' \subseteq Pages
      /\ copy' \in [Bytes -> Values \cup {Absent}]
  BY <1>1 DEF StartWrite, TypeOK
<1>7. met' \subseteq Clients /\ ops' \in 0..MaxOps
  BY <1>1, SnapshotAssumption DEF StartWrite, MayWrite, Meets, AtSamePages, TypeOK
<1> QED
  BY <1>1, <1>5, <1>6, <1>7, QuietStep

LEMMA StartTrimDoes ==
  ASSUME Basics, NEW c \in Clients, NEW r \in WriteRanges, StartTrim(c, r)
  PROVE  Basics' /\ Quiet /\ Starts(c, "trim", r, TrimWrites(r[1], r[2]))
<1> DEFINE todo == TrimWrites(r[1], r[2])
<1>1. TypeOK /\ Quiet /\ Grows
  BY GrowsIf DEF Basics, StartTrim, Quiet
<1>2. client' = [client EXCEPT ![c] = Request("trim", r, todo)]
  BY DEF StartTrim
<1>3. r \in Nat \X Nat /\ r[1] \in Nat /\ r[2] \in Nat /\ r[1] < r[2] /\ r[2] <= NumPages * PageSize
  BY RangesAre
<1>4. /\ todo \in Seq(Nat \X Nat)
      /\ \A i \in 1..Len(todo) : r[1] <= todo[i][1] /\ todo[i][1] < todo[i][2] /\ todo[i][2] <= r[2]
  BY <1>3, TrimIs
<1> HIDE DEF todo
<1>5. \A i \in 1..Len(todo) : Within("trim", r, todo[i])
  <2> SUFFICES ASSUME NEW i \in 1..Len(todo)
               PROVE  Within("trim", r, todo[i])
    OBVIOUS
  <2>1. todo[i] \in Nat \X Nat /\ todo[i][1] \in Nat /\ todo[i][2] \in Nat
    BY <1>4
  <2> QED
    BY <1>3, <1>4, <2>1, BytesAndPages DEF Within
<1>6. RequestsAre /\ Starts(c, "trim", r, todo)
  BY <1>1, <1>2, <1>3, <1>4, <1>5, StartStep
<1>7. /\ UNCHANGED <<closed, cache>> /\ pageHashes' \subseteq Pages
      /\ copy' \in [Bytes -> Values \cup {Absent}]
  BY <1>1 DEF StartTrim, TypeOK
<1>8. met' \subseteq Clients /\ ops' \in 0..MaxOps
  BY <1>1, SnapshotAssumption DEF StartTrim, MayWrite, Meets, AtSamePages, TypeOK
<1> QED
  BY <1>1, <1>6, <1>7, <1>8, QuietStep DEF todo

LEMMA StartSaveDoes ==
  ASSUME Basics, NEW c \in Clients, StartSave(c)
  PROVE  Basics' /\ Quiet /\ Starts(c, "save", <<0, Size>>, DirtyRanges)
<1> DEFINE todo == DirtyRanges
           r    == <<0, Size>>
<1>1. TypeOK /\ Quiet /\ Grows
  BY GrowsIf DEF Basics, StartSave, Quiet
<1>2. client' = [client EXCEPT ![c] = Request("save", r, todo)]
  BY DEF StartSave
<1>3. r \in Nat \X Nat
  BY SnapshotAssumption, BytesAndPages
<1>4. /\ todo \in Seq(Nat \X Nat)
      /\ \A i \in 1..Len(todo) : \E p \in Pages : todo[i] = <<p * PageSize, p * PageSize + PageSize>>
  BY <1>1, DirtyRangesAre
<1> HIDE DEF todo, r
<1>5. \A i \in 1..Len(todo) : Within("save", r, todo[i])
  <2> SUFFICES ASSUME NEW i \in 1..Len(todo)
               PROVE  Within("save", r, todo[i])
    OBVIOUS
  <2>1. PICK p \in Pages : todo[i] = <<p * PageSize, p * PageSize + PageSize>>
    BY <1>4
  <2>2. PageSize \in Nat /\ PageSize > 0 /\ NumPages \in Nat /\ p \in Nat /\ p < NumPages
    BY SnapshotAssumption DEF Pages
  <2>3. p * PageSize \in Nat /\ p * PageSize + PageSize <= NumPages * PageSize
    BY <2>2, Products
  <2>4. p * PageSize < p * PageSize + PageSize
    BY <2>2, <2>3
  <2> QED
    BY <2>1, <2>3, <2>4 DEF Within
<1>6. RequestsAre /\ Starts(c, "save", r, todo)
  BY <1>1, <1>2, <1>3, <1>4, <1>5, StartStep
<1>7. UNCHANGED <<closed, cache>> /\ pageHashes' \subseteq Pages /\ met' \subseteq Clients /\ ops' \in 0..MaxOps
  BY <1>1 DEF StartSave, TypeOK
<1>8. copy' \in [Bytes -> Values \cup {Absent}]
  BY DEF StartSave, ImageCopy, Values, Absent
<1> QED
  BY <1>1, <1>6, <1>7, <1>8, QuietStep DEF todo, r

LEMMA LookupDoes ==
  ASSUME Basics, NEW c \in Clients, Lookup(c)
  PROVE  Basics' /\ Quiet /\ MovesTo(c, "data", PageView(Page(c)))
<1>1. TypeOK /\ Slots /\ Ranged(c) /\ Quiet /\ Grows /\ UNCHANGED dirtyFile
  BY GrowsIf DEF Basics, Lookup, Quiet
<1> DEFINE p    == Page(c)
           dp   == dirtyPages[p]
           want == PageView(p)
<1>2. client' = [client EXCEPT ![c] = AtPage(client[c], "data", dp, want, <<>>)]
  BY DEF Lookup
<1>3. client[c].todo # <<>>
  BY <1>1 DEF Lookup, Ranged
<1>4. p \in Pages
  BY <1>1, <1>3, PageIs
<1>5. dp \in DirtyPages /\ want \in Hashes /\ want \in Buffers /\ <<>> \in Buffers
  BY <1>1, <1>4, ViewIs DEF TypeOK, Buffers
<1>6. /\ dp # Clean =>
           /\ dp.slot \in 1..Len(dirtyFile') /\ want = dirtyFile'[dp.slot]
           /\ CachePages # 0 => dp.hash = want
      /\ dp = Clean => want = HashPage(p, Base)
  BY <1>1, <1>4 DEF Slots, PageView
<1> HIDE DEF dp, want
<1>7. RequestsAre /\ MovesTo(c, "data", want)
  BY <1>1, <1>2, <1>3, <1>5, <1>6, PageStep
<1>8. /\ UNCHANGED <<closed, cache>> /\ pageHashes' \subseteq Pages
      /\ copy' \in [Bytes -> Values \cup {Absent}] /\ met' \subseteq Clients /\ ops' \in 0..MaxOps
  BY <1>1 DEF Lookup, TypeOK
<1> QED
  BY <1>1, <1>7, <1>8, QuietStep DEF want

LEMMA ReadDirtyDoes ==
  ASSUME Basics, NEW c \in Clients, ReadDirty(c)
  PROVE  Basics' /\ Quiet /\ MovesTo(c, "got", client[c].want)
<1>1. /\ TypeOK /\ Ranged(c) /\ Fetched(c) /\ CacheSound /\ Quiet /\ Grows
      /\ UNCHANGED dirtyFile /\ client[c] \in Requests
  BY GrowsIf DEF Basics, ReadDirty, Quiet, TypeOK
<1> DEFINE dp   == client[c].dp
           want == client[c].want
<1>2. client[c].pc = "data" /\ dp # Clean
  BY DEF ReadDirty
<1>3. client[c].todo # <<>>
  BY <1>1, <1>2 DEF Ranged
<1>4. /\ dp \in DirtyPages /\ want \in Hashes /\ want \in Buffers /\ dp.hash \in Buffers
      /\ dp.slot \in 1..Len(dirtyFile') /\ want = dirtyFile'[dp.slot] /\ want = dirtyFile[dp.slot]
      /\ (CachePages # 0 => dp.hash = want)
  BY <1>1, <1>2 DEF Fetched, Buffers, Requests, DirtyPages
<1>5. /\ client' = [client EXCEPT ![c] = AtPage(client[c], "got", dp, want, want)]
      /\ UNCHANGED cache \/ CachePut(dp.hash, want)
  <2>1. ASSUME NEW x \in cache, x.hash = dp.hash,
               client' = [client EXCEPT ![c] = AtPage(client[c], "got", dp, want, x.data)]
        PROVE  client' = [client EXCEPT ![c] = AtPage(client[c], "got", dp, want, want)]
    <3>1. CachePages # 0
      <4>1. Cardinality(cache) # 0
        BY <1>1, FS_EmptySet DEF TypeOK
      <4>2. Cardinality(cache) \in Nat
        BY <1>1, FS_CardinalityType DEF TypeOK
      <4> QED
        BY <1>1, <4>1, <4>2, SnapshotAssumption DEF TypeOK
    <3>2. x.data = want
      BY <1>1, <1>4, <2>1, <3>1 DEF CacheSound
    <3> QED
      BY <2>1, <3>2
  <2> QED
    BY <1>4, <2>1 DEF ReadDirty
<1> HIDE DEF dp, want
<1>6. RequestsAre /\ MovesTo(c, "got", want)
  BY <1>1, <1>2, <1>3, <1>4, <1>5, PageStep
<1>7. /\ UNCHANGED closed /\ pageHashes' \subseteq Pages
      /\ copy' \in [Bytes -> Values \cup {Absent}] /\ met' \subseteq Clients /\ ops' \in 0..MaxOps
  BY <1>1 DEF ReadDirty, TypeOK
<1> QED
  BY <1>1, <1>4, <1>5, <1>6, <1>7, QuietStep DEF want

LEMMA ReadBaseDoes ==
  ASSUME Basics, NEW c \in Clients, ReadBase(c)
  PROVE  Basics' /\ Quiet /\ MovesTo(c, "got", client[c].want)
<1>1. /\ TypeOK /\ Ranged(c) /\ Fetched(c) /\ CacheSound /\ Quiet /\ Grows
      /\ UNCHANGED dirtyFile /\ client[c] \in Requests
  BY GrowsIf DEF Basics, ReadBase, Quiet, TypeOK
<1> DEFINE h    == HashPage(Page(c), Base)
           want == client[c].want
<1>2. client[c].pc = "data" /\ client[c].dp = Clean
  BY DEF ReadBase
<1>3. client[c].todo # <<>>
  BY <1>1, <1>2 DEF Ranged
<1>4. want = h /\ want \in Hashes /\ want \in Buffers /\ Clean \in DirtyPages
  BY <1>1, <1>2, PageValues DEF Fetched, Buffers
<1>5. /\ client' = [client EXCEPT ![c] = AtPage(client[c], "got", Clean, want, want)]
      /\ UNCHANGED cache \/ CachePut(want, want)
  <2>1. ASSUME NEW x \in cache, x.hash = h,
               client' = [client EXCEPT ![c] = AtPage(client[c], "got", client[c].dp, want, x.data)]
        PROVE  client' = [client EXCEPT ![c] = AtPage(client[c], "got", Clean, want, want)]
    <3>1. x.data = want
      BY <1>1, <1>4, <2>1 DEF CacheSound
    <3> QED
      BY <1>2, <2>1, <3>1
  <2> QED
    BY <1>4, <2>1 DEF ReadBase
<1>6. pageHashes' \subseteq Pages
  <2>1. Page(c) \in Pages
    BY <1>1, <1>3, PageIs
  <2> QED
    BY <1>1, <2>1 DEF ReadBase, TypeOK
<1> HIDE DEF want
<1>7. RequestsAre /\ MovesTo(c, "got", want)
  BY <1>1, <1>3, <1>4, <1>5, PageStep
<1>8. /\ UNCHANGED closed
      /\ copy' \in [Bytes -> Values \cup {Absent}] /\ met' \subseteq Clients /\ ops' \in 0..MaxOps
  BY <1>1 DEF ReadBase, TypeOK
<1> QED
  BY <1>1, <1>4, <1>5, <1>6, <1>7, <1>8, QuietStep DEF want

LEMMA ReadFailsDoes ==
  ASSUME Basics, NEW c \in Clients, ReadFails(c)
  PROVE  Basics' /\ Quiet /\ Ends(c)
<1>1. TypeOK /\ Quiet /\ Grows
  BY GrowsIf DEF Basics, ReadFails, Quiet
<1>2. RequestsAre /\ Ends(c)
  BY <1>1, IdleStep DEF ReadFails
<1>3. /\ UNCHANGED <<closed, cache>> /\ pageHashes' \subseteq Pages
      /\ copy' \in [Bytes -> Values \cup {Absent}] /\ met' \subseteq Clients /\ ops' \in 0..MaxOps
  BY <1>1 DEF ReadFails, TypeOK
<1> QED
  BY <1>1, <1>2, <1>3, QuietStep

LEMMA DeliverDoes ==
  ASSUME Basics, NEW c \in Clients, Deliver(c)
  PROVE  Basics' /\ Quiet /\ GoesOn(c)
<1>1. TypeOK /\ Ranged(c) /\ Quiet /\ Grows
  BY GrowsIf DEF Basics, Deliver, Quiet
<1>2. client[c].todo # <<>> /\ client' = [client EXCEPT ![c] = Advance(client[c])]
  BY <1>1 DEF Deliver, Ranged
<1>3. RequestsAre /\ GoesOn(c)
  BY <1>1, <1>2, AdvanceStep
<1>4. /\ UNCHANGED <<closed, cache>> /\ pageHashes' \subseteq Pages
      /\ copy' \in [Bytes -> Values \cup {Absent}] /\ met' \subseteq Clients /\ ops' \in 0..MaxOps
  BY <1>1 DEF Deliver, TypeOK
<1> QED
  BY <1>1, <1>3, <1>4, QuietStep

LEMMA SavePageDoes ==
  ASSUME Basics, NEW c \in Clients, SavePage(c)
  PROVE  Basics' /\ Quiet /\ GoesOn(c)
<1>1. TypeOK /\ Ranged(c) /\ Fetched(c) /\ Quiet /\ Grows
  BY GrowsIf DEF Basics, SavePage, Quiet
<1>2. client[c].todo # <<>> /\ client' = [client EXCEPT ![c] = Advance(client[c])]
  BY <1>1 DEF SavePage, Ranged
<1>3. RequestsAre /\ GoesOn(c)
  BY <1>1, <1>2, AdvanceStep
<1>4. UNCHANGED <<closed, cache>> /\ pageHashes' \subseteq Pages /\ met' \subseteq Clients /\ ops' \in 0..MaxOps
  BY <1>1 DEF SavePage, TypeOK
<1>5. copy' \in [Bytes -> Values \cup {Absent}]
  <2>1. client[c].buf \in Hashes
    BY <1>1 DEF SavePage, Fetched
  <2>2. \A b \in Bytes : client[c].buf[b % PageSize] \in Values
    BY <2>1, BytesAndPages, DivMod, PageValues
  <2> QED
    BY <1>1, <2>2 DEF SavePage, TypeOK
<1> QED
  BY <1>1, <1>3, <1>4, <1>5, QuietStep

\* The page that a write stores covers its range, and keeps the rest as it was read.
LEMMA NewPageIs ==
  ASSUME Basics, NEW c \in Clients, ReadyToStore(c)
  PROVE  /\ client[c].todo # <<>> /\ Page(c) \in Pages /\ NewPage(c) \in Hashes
         /\ \A b \in Bytes : PageOf(b) = Page(c) =>
              NewPage(c)[b % PageSize] =
                IF b \notin Covered(c) THEN client[c].buf[b % PageSize]
                ELSE IF client[c].op = "write" THEN 1 ELSE 0
         /\ client[c].pc # "got" => \A b \in Bytes : PageOf(b) = Page(c) => b \in Covered(c)
         /\ client[c].pc = "got" => client[c].buf = client[c].want
<1>1. TypeOK /\ Ranged(c) /\ Fetched(c)
  BY DEF Basics
<1>2. client[c].todo # <<>>
  BY <1>1 DEF ReadyToStore, Ranged
<1>3. Page(c) \in Pages
  BY <1>1, <1>2, PageIs
<1>4. client[c].pc # "got" => \A b \in Bytes : PageOf(b) = Page(c) => b \in Covered(c)
  BY DEF ReadyToStore, BytesOf
<1>5. client[c].pc = "got" => client[c].buf = client[c].want /\ client[c].buf \in Hashes
  BY <1>1 DEF Fetched
<1>6. \A i \in 0..(PageSize - 1) :
        /\ NewPage(c)[i] = IF Page(c) * PageSize + i \notin Covered(c) THEN client[c].buf[i]
                           ELSE IF client[c].op = "write" THEN 1 ELSE 0
        /\ NewPage(c)[i] \in Values
  <2> SUFFICES ASSUME NEW i \in 0..(PageSize - 1)
               PROVE  /\ NewPage(c)[i] = IF Page(c) * PageSize + i \notin Covered(c) THEN client[c].buf[i]
                                         ELSE IF client[c].op = "write" THEN 1 ELSE 0
                      /\ NewPage(c)[i] \in Values
    OBVIOUS
  <2>1. NewPage(c)[i] = IF Page(c) * PageSize + i \notin Covered(c) THEN client[c].buf[i]
                        ELSE IF client[c].op = "write" THEN 1 ELSE 0
    BY DEF NewPage
  <2>2. Page(c) * PageSize + i \in Bytes /\ PageOf(Page(c) * PageSize + i) = Page(c)
    BY <1>3, BytesAndPages
  <2>3. client[c].pc = "got" => client[c].buf[i] \in Values
    BY <1>5, PageValues
  <2>4. 1 \in Values /\ 0 \in Values
    BY DEF Values
  <2> QED
    BY <1>4, <2>1, <2>2, <2>3, <2>4
<1>7. NewPage(c) \in Hashes
  BY <1>6 DEF NewPage, Hashes
<1>8. ASSUME NEW b \in Bytes, PageOf(b) = Page(c)
      PROVE  NewPage(c)[b % PageSize] =
               IF b \notin Covered(c) THEN client[c].buf[b % PageSize]
               ELSE IF client[c].op = "write" THEN 1 ELSE 0
  <2>1. b % PageSize \in 0..(PageSize - 1) /\ b = PageOf(b) * PageSize + (b % PageSize)
    BY BytesAndPages, DivMod
  <2>2. Page(c) * PageSize + (b % PageSize) = b
    BY <1>8, <2>1
  <2> DEFINE i == b % PageSize
  <2> HIDE DEF i
  <2>3. i \in 0..(PageSize - 1) /\ Page(c) * PageSize + i = b
    BY <2>1, <2>2 DEF i
  <2> QED
    BY <1>6, <2>3 DEF i
<1> QED
  BY <1>2, <1>3, <1>4, <1>5, <1>7, <1>8

LEMMA StoreDoes ==
  ASSUME Basics, NEW c \in Clients, Store(c)
  PROVE  /\ Basics' /\ GoesOn(c) /\ UNCHANGED copy /\ Page(c) \in Pages
         /\ \A p \in Pages : PageView(p)' = IF p = Page(c) THEN NewPage(c) ELSE PageView(p)
<1> DEFINE data == NewPage(c)
           slot == Len(dirtyFile) + 1
           dp   == [slot |-> slot, hash |-> HashIfCaching(data)]
<1>1. TypeOK /\ CacheSound /\ Slots /\ Ranged(c) /\ ReadyToStore(c) /\ dirtyFile \in Seq(Hashes)
  BY DEF Basics, Store, TypeOK
<1>2. client[c].todo # <<>> /\ Page(c) \in Pages /\ data \in Hashes
  BY <1>1, NewPageIs
<1>3. /\ dirtyFile' = Append(dirtyFile, data) /\ dirtyPages' = [dirtyPages EXCEPT ![Page(c)] = dp]
      /\ CachePut(data, data) /\ client' = [client EXCEPT ![c] = Advance(client[c])]
      /\ UNCHANGED <<closed, pageHashes, copy, met, ops>>
  BY DEF Store
<1> HIDE DEF data
<1>4. Grows
  BY <1>1, <1>2, <1>3, GrowsIf
<1>5. Len(dirtyFile) \in Nat /\ Len(dirtyFile') = slot /\ dirtyFile'[slot] = data
  BY <1>1, <1>2, <1>3, AppendProperties
<1>6. RequestsAre /\ GoesOn(c)
  BY <1>2, <1>3, <1>4, AdvanceStep
<1>7. /\ dp \in DirtyPages /\ dp.slot = slot /\ dp # Clean
      /\ CachePages # 0 => dp.hash = data
  <2>1. HashIfCaching(data) \in Buffers
    BY <1>2 DEF HashIfCaching, Buffers
  <2>2. slot # 0 /\ slot \in Nat
    BY <1>5
  <2> QED
    BY <2>1, <2>2 DEF DirtyPages, Clean, HashIfCaching
<1> HIDE DEF dp
<1>8. /\ dirtyPages' \in [Pages -> DirtyPages] /\ dirtyPages'[Page(c)] = dp
      /\ \A p \in Pages : p # Page(c) => dirtyPages'[p] = dirtyPages[p]
  BY <1>1, <1>2, <1>3, <1>7 DEF TypeOK
<1>9. /\ cache' \subseteq [hash : Hashes, data : Hashes] /\ CacheSound'
      /\ IsFiniteSet(cache') /\ Cardinality(cache') <= CachePages
  BY <1>1, <1>2, <1>3, CachePutDoes
<1>10. TypeOK'
  <2>1. closed' \in BOOLEAN
    BY <1>1, <1>3, Zenon DEF TypeOK
  <2>2. /\ pageHashes' \subseteq Pages /\ copy' \in [Bytes -> Values \cup {Absent}] /\ met' \subseteq Clients /\ ops' \in 0..MaxOps
    BY <1>1, <1>3 DEF TypeOK
  <2>3. dirtyFile' \in Seq(Hashes)
    BY <1>4 DEF Grows
  <2> QED
    BY <1>6, <1>8, <1>9, <2>1, <2>2, <2>3 DEF TypeOK, RequestsAre
<1>11. ASSUME NEW p \in Pages
       PROVE  /\ PageView(p)' = IF p = Page(c) THEN data ELSE PageView(p)
              /\ dirtyPages'[p] # Clean =>
                   /\ dirtyPages'[p].slot \in 1..Len(dirtyFile')
                   /\ CachePages # 0 => dirtyPages'[p].hash = dirtyFile'[dirtyPages'[p].slot]
  <2>1. CASE p = Page(c)
    <3>1. dirtyPages'[p] = dp /\ slot \in 1..Len(dirtyFile')
      BY <1>5, <1>8, <2>1
    <3>2. PageView(p)' = data
      BY <1>5, <1>7, <3>1 DEF PageView
    <3> QED
      BY <1>5, <1>7, <2>1, <3>1, <3>2
  <2>2. CASE p # Page(c)
    <3>1. dirtyPages'[p] = dirtyPages[p]
      BY <1>8, <2>2
    <3> QED
      BY <1>1, <1>4, <2>2, <3>1, ViewKept
  <2> QED
    BY <2>1, <2>2
<1>12. Slots'
  BY <1>11 DEF Slots
<1> QED
  BY <1>2, <1>3, <1>6, <1>9, <1>10, <1>11, <1>12 DEF Basics, RequestsAre, data

LEMMA StoreFailsDoes ==
  ASSUME Basics, NEW c \in Clients, StoreFails(c)
  PROVE  Basics' /\ Quiet /\ Ends(c)
<1>1. TypeOK
  BY DEF Basics
<1>2. Quiet /\ Grows
  <2>1. [i \in 0..(PageSize - 1) |-> 0] \in Hashes
    BY DEF Hashes, Values
  <2> QED
    BY <1>1, <2>1, GrowsIf DEF StoreFails, Quiet
<1>3. RequestsAre /\ Ends(c)
  BY <1>2, IdleStep DEF StoreFails
<1>4. /\ UNCHANGED <<closed, cache>> /\ pageHashes' \subseteq Pages
      /\ copy' \in [Bytes -> Values \cup {Absent}] /\ met' \subseteq Clients /\ ops' \in 0..MaxOps
  BY <1>1 DEF StoreFails, TypeOK
<1> QED
  BY <1>2, <1>3, <1>4, QuietStep

LEMMA TrimEndDoes ==
  ASSUME Basics, NEW c \in Clients, TrimEnd(c)
  PROVE  /\ Basics' /\ MovesTo(c, "done", <<>>) /\ UNCHANGED copy
         /\ \A p \in Pages : PageView(p)' = IF HasPage(c, p) THEN HashPage(p, Base) ELSE PageView(p)
<1>1. TypeOK /\ CacheSound /\ Slots /\ Ranged(c) /\ Grows /\ client[c] \in Requests
  BY GrowsIf DEF Basics, TrimEnd, TypeOK
<1>2. client[c].todo = <<>> /\ client[c].op = "trim"
  BY <1>1 DEF TrimEnd, Ranged
<1> DEFINE q == AtPage(client[c], "done", Clean, <<>>, <<>>)
<1>3. /\ q \in Requests /\ q.op = client[c].op /\ q.range = client[c].range /\ q.todo = client[c].todo
      /\ q.pc = "done" /\ q.want = <<>>
  BY <1>1, PageValues DEF AtPage, Requests, Buffers
<1>4. client' = [client EXCEPT ![c] = q]
  BY DEF TrimEnd
<1> HIDE DEF q
<1>5. client'[c] = q /\ Others(c)
  BY <1>1, <1>3, <1>4, ClientIs DEF Others
<1>6. MovesTo(c, "done", <<>>)
  BY <1>3, <1>5 DEF MovesTo
<1>7. Fetched(c)' /\ Ranged(c)'
  BY <1>1, <1>2, <1>3, <1>5 DEF Fetched, Ranged, Writing
<1>8. RequestsAre
  BY <1>1, <1>3, <1>4, <1>7, RequestStep
<1>9. \A p \in Pages : dirtyPages'[p] = IF HasPage(c, p) THEN Clean ELSE dirtyPages[p]
  <2> SUFFICES ASSUME NEW p \in Pages
               PROVE  dirtyPages'[p] = IF HasPage(c, p) THEN Clean ELSE dirtyPages[p]
    OBVIOUS
  <2> DEFINE off == client[c].range[1]
             end == client[c].range[2]
  <2>1. off \in Nat /\ end \in Nat /\ p \in Nat
    BY <1>1, BytesAndPages DEF Requests
  <2>2. dirtyPages'[p] = IF FirstFullPage(off) <= p /\ p < LastFullPageExcl(end)
                         THEN Clean ELSE dirtyPages[p]
    BY DEF TrimEnd
  <2> HIDE DEF off, end
  <2>3. /\ FirstFullPage(off) <= p <=> off <= p * PageSize
        /\ p < LastFullPageExcl(end) <=> p * PageSize + PageSize <= end
    BY <2>1, FullPages
  <2>4. HasPage(c, p) <=> off <= p * PageSize /\ p * PageSize + PageSize <= end
    BY DEF HasPage, off, end
  <2> QED
    BY <2>2, <2>3, <2>4
<1>10. dirtyPages' \in [Pages -> DirtyPages]
  <2>1. \A p \in Pages : dirtyPages'[p] \in DirtyPages
    BY <1>1, <1>9, PageValues DEF TypeOK
  <2>2. dirtyPages' = [p \in Pages |-> dirtyPages'[p]]
    BY DEF TrimEnd
  <2> QED
    BY <2>1, <2>2
<1>11. TypeOK' /\ CacheSound'
  <2>1. closed' \in BOOLEAN
    BY <1>1, Zenon DEF TypeOK, TrimEnd
  <2>2. /\ pageHashes' \subseteq Pages /\ copy' \in [Bytes -> Values \cup {Absent}] /\ met' \subseteq Clients /\ ops' \in 0..MaxOps
        /\ cache' \subseteq [hash : Hashes, data : Hashes] /\ CacheSound'
        /\ IsFiniteSet(cache') /\ Cardinality(cache') <= CachePages
    BY <1>1 DEF TypeOK, TrimEnd, CacheSound
  <2>3. dirtyFile' \in Seq(Hashes)
    BY <1>1 DEF Grows
  <2> QED
    BY <1>8, <1>10, <2>1, <2>2, <2>3 DEF TypeOK, RequestsAre
<1>12. ASSUME NEW p \in Pages
       PROVE  /\ PageView(p)' = IF HasPage(c, p) THEN HashPage(p, Base) ELSE PageView(p)
              /\ dirtyPages'[p] # Clean =>
                   /\ dirtyPages'[p].slot \in 1..Len(dirtyFile')
                   /\ CachePages # 0 => dirtyPages'[p].hash = dirtyFile'[dirtyPages'[p].slot]
  <2>1. CASE HasPage(c, p)
    BY <1>9, <2>1 DEF PageView
  <2>2. CASE ~HasPage(c, p)
    <3>1. dirtyPages'[p] = dirtyPages[p]
      BY <1>9, <2>2
    <3> QED
      BY <1>1, <2>2, <3>1, ViewKept
  <2> QED
    BY <2>1, <2>2
<1>13. Slots'
  BY <1>12 DEF Slots
<1>14. UNCHANGED copy
  BY DEF TrimEnd
<1> QED
  BY <1>6, <1>8, <1>11, <1>12, <1>13, <1>14 DEF Basics, RequestsAre

LEMMA ReplyDoes ==
  ASSUME Basics, NEW c \in Clients, Reply(c)
  PROVE  Basics' /\ Quiet /\ Ends(c)
<1>1. TypeOK /\ Quiet /\ Grows
  BY GrowsIf DEF Basics, Reply, Quiet
<1>2. RequestsAre /\ Ends(c)
  BY <1>1, IdleStep DEF Reply
<1>3. UNCHANGED <<closed, cache>> /\ pageHashes' \subseteq Pages /\ met' \subseteq Clients /\ ops' \in 0..MaxOps
  BY <1>1 DEF Reply, TypeOK
<1>4. copy' \in [Bytes -> Values \cup {Absent}]
  BY <1>1 DEF Reply, TypeOK, ImageCopy, Values, Absent
<1> QED
  BY <1>1, <1>2, <1>3, <1>4, QuietStep

LEMMA CloseDoes ==
  ASSUME Basics, Close \/ UNCHANGED vars
  PROVE  Basics' /\ Quiet /\ UNCHANGED <<client, copy>>
<1>1. TypeOK /\ Quiet /\ Grows /\ UNCHANGED <<client, copy>>
  BY GrowsIf DEF Basics, Close, vars, Quiet
<1>2. RequestsAre
  <2>1. client' \in [Clients -> Requests]
    BY <1>1 DEF TypeOK
  <2>2. ASSUME NEW d \in Clients
        PROVE  Fetched(d)' /\ Ranged(d)'
    <3>1. client'[d] = client[d] /\ Fetched(d) /\ Ranged(d)
      BY <1>1 DEF Basics
    <3> QED
      BY <1>1, <3>1, OthersKeep
  <2> QED
    BY <2>1, <2>2 DEF RequestsAre
<1>3. /\ UNCHANGED cache /\ pageHashes' \subseteq Pages
      /\ copy' \in [Bytes -> Values \cup {Absent}] /\ met' \subseteq Clients /\ ops' \in 0..MaxOps
  BY <1>1 DEF Close, vars, TypeOK
<1>4. UNCHANGED closed \/ closed' = TRUE
  BY DEF Close, vars
<1> QED
  BY <1>1, <1>2, <1>3, <1>4, QuietStep

LEMMA BasicsNext == Basics /\ [Next]_vars => Basics'
<1> SUFFICES ASSUME Basics, [Next]_vars
             PROVE  Basics'
  OBVIOUS
<1>1. CASE Close \/ UNCHANGED vars
  BY <1>1, CloseDoes
<1>2. ASSUME NEW c \in Clients, ReadAt(c)
      PROVE  Basics'
  BY <1>2, StartReadDoes, DeliverDoes DEF ReadAt
<1>3. ASSUME NEW c \in Clients, WriteAt(c)
      PROVE  Basics'
  BY <1>3, StartWriteDoes, StoreDoes, StoreFailsDoes DEF WriteAt
<1>4. ASSUME NEW c \in Clients, HandleTrim(c)
      PROVE  Basics'
  BY <1>4, StartTrimDoes, TrimEndDoes DEF HandleTrim
<1>5. ASSUME NEW c \in Clients, WriteDirtyTo(c)
      PROVE  Basics'
  BY <1>5, StartSaveDoes, SavePageDoes DEF WriteDirtyTo
<1>6. ASSUME NEW c \in Clients, ReadPageData(c)
      PROVE  Basics'
  BY <1>6, LookupDoes, ReadDirtyDoes, ReadBaseDoes, ReadFailsDoes DEF ReadPageData
<1>7. ASSUME NEW c \in Clients, Reply(c)
      PROVE  Basics'
  BY <1>7, ReplyDoes
<1> QED
  BY <1>1, <1>2, <1>3, <1>4, <1>5, <1>6, <1>7 DEF Next

LEMMA BasicsHold == Spec => []Basics
<1>1. Init => Basics
  BY BasicsInit
<1>2. Basics /\ [Next]_vars => Basics'
  BY BasicsNext
<1> QED
  BY <1>1, <1>2, PTL DEF Spec

\* readPageData returns the page as it was when it looked it up under the lock,
\* whatever other clients store and evict while it fetches the bytes.
THEOREM ReadsAreCurrent == Spec => []ReadIsCurrent
<1>1. Basics => ReadIsCurrent
  BY DEF Basics, Fetched, ReadIsCurrent
<1> QED
  BY <1>1, BasicsHold, PTL

-----------------------------------------------------------------------------
(* What writes, trims and saves leave behind *)

Whole(c) == Unchanged(c) /\ Landed(c) /\ Saved(c)

\* The operation and the range of a request are those it has started with.
Same(c) == client'[c].op = client[c].op /\ client'[c].range = client[c].range

LEMMA ApartKept ==
  ASSUME Apart, NEW c \in Clients, Others(c), UNCHANGED met,
         Same(c) \/ client'[c].op \in {"none", "read"}
  PROVE  Apart'
<1>1. \A d \in Clients : Same(d) \/ client'[d].op \in {"none", "read"}
  BY DEF Others, Same
<1> SUFFICES ASSUME NEW d \in Clients, NEW e \in Clients, d # e
             PROVE  /\ client'[d].op = "save" => client'[e].op # "save" /\ ~Writing(e)'
                    /\ d \notin met' /\ Writing(d)' /\ Writing(e)' =>
                         \/ PageOf(client'[d].range[2] - 1) < PageOf(client'[e].range[1])
                         \/ PageOf(client'[e].range[2] - 1) < PageOf(client'[d].range[1])
  BY DEF Apart
<1>2. CASE Same(d) /\ Same(e)
  BY <1>2 DEF Apart, Same, Writing
<1>3. CASE client'[d].op \in {"none", "read"}
  BY <1>3 DEF Writing
<1>4. CASE client'[e].op \in {"none", "read"}
  BY <1>4 DEF Writing
<1> QED
  BY <1>1, <1>2, <1>3, <1>4

LEMMA ApartWrite ==
  ASSUME Basics, Apart, NEW c \in Clients, Others(c), NEW r \in WriteRanges, MayWrite(c), Meets(c, r),
         client'[c].op \in {"write", "trim"}, client'[c].range = r
  PROVE  Apart'
<1> SUFFICES ASSUME NEW d \in Clients, NEW e \in Clients, d # e
             PROVE  /\ client'[d].op = "save" => client'[e].op # "save" /\ ~Writing(e)'
                    /\ d \notin met' /\ Writing(d)' /\ Writing(e)' =>
                         \/ PageOf(client'[d].range[2] - 1) < PageOf(client'[e].range[1])
                         \/ PageOf(client'[e].range[2] - 1) < PageOf(client'[d].range[1])
  BY DEF Apart
<1>1. \A x \in Clients : client[x].op # "save" /\ (x # c => client'[x] = client[x])
  BY DEF MayWrite, NoSave, Others
<1>2. \A x \in Clients : client'[x].op # "save"
  BY <1>1
<1>3. CASE d # c /\ e # c
  <2>1. d \notin met' => d \notin met
    BY <1>3 DEF Meets
  <2> QED
    BY <1>1, <1>2, <1>3, <2>1 DEF Apart, Writing
<1>4. ASSUME NEW x \in Clients, x # c, Writing(x), x \notin met' \/ c \notin met'
      PROVE  \/ PageOf(r[2] - 1) < PageOf(client[x].range[1])
             \/ PageOf(client[x].range[2] - 1) < PageOf(r[1])
  <2>1. x \notin AtSamePages(c, r)
    BY <1>4 DEF Meets
  <2>2. ~(/\ PageOf(client[x].range[1]) <= PageOf(r[2] - 1)
          /\ PageOf(r[1]) <= PageOf(client[x].range[2] - 1))
    BY <1>4, <2>1 DEF AtSamePages
  <2>3. /\ PageOf(client[x].range[1]) \in Nat /\ PageOf(r[2] - 1) \in Nat
        /\ PageOf(r[1]) \in Nat /\ PageOf(client[x].range[2] - 1) \in Nat
    <3>1. client[x].range[1] \in Nat /\ client[x].range[2] \in Nat /\ client[x].range[1] < client[x].range[2]
      BY <1>4 DEF Basics, TypeOK, Requests, Ranged
    <3>2. r[1] \in Nat /\ r[2] \in Nat /\ r[1] < r[2]
      BY RangesAre
    <3>3. client[x].range[2] - 1 \in Nat /\ r[2] - 1 \in Nat
      BY <3>1, <3>2
    <3> QED
      BY <3>1, <3>2, <3>3, DivMod
  <2> QED
    BY <2>2, <2>3
<1>5. CASE d = c
  BY <1>1, <1>2, <1>4, <1>5 DEF Writing
<1>6. CASE e = c
  BY <1>1, <1>2, <1>4, <1>6 DEF Writing
<1> QED
  BY <1>3, <1>5, <1>6

LEMMA ApartSave ==
  ASSUME Apart, NEW c \in Clients, Others(c), NoSave, NoWrite, client'[c].op = "save"
  PROVE  Apart'
<1>1. \A x \in Clients : x # c => client'[x].op # "save" /\ ~Writing(x)'
  BY DEF NoSave, NoWrite, Others, Writing
<1>2. ~Writing(c)'
  BY DEF Writing
<1> QED
  BY <1>1, <1>2 DEF Apart

\* The view of a byte before and after a step.
LEMMA ViewStep ==
  ASSUME NEW b \in Bytes
  PROVE  /\ View[b] = PageView(PageOf(b))[b % PageSize]
         /\ View'[b] = PageView(PageOf(b))'[b % PageSize]
         /\ PageOf(b) \in Pages /\ b \in Nat
<1>1. View[b] = PageView(PageOf(b))[b % PageSize]
  BY DEF View
<1>2. View'[b] = PageView(PageOf(b))'[b % PageSize]
  BY DEF View
<1> QED
  BY <1>1, <1>2, BytesAndPages

\* A step that gives no page another slot changes no page.
SameView == \A p \in Pages : PageView(p)' = PageView(p)

LEMMA QuietView ==
  ASSUME Basics, Quiet
  PROVE  SameView /\ \A b \in Bytes : View'[b] = View[b]
<1>1. ASSUME NEW p \in Pages
      PROVE  PageView(p)' = PageView(p)
  BY ViewKept DEF Basics, Quiet
<1>2. ASSUME NEW b \in Bytes
      PROVE  View'[b] = View[b]
  BY <1>1, ViewStep
<1> QED
  BY <1>1, <1>2 DEF SameView

\* A request that is neither a write, nor a trim, nor a save.
LEMMA WholeIdle ==
  ASSUME NEW c \in Clients, client'[c].op \in {"none", "read"}
  PROVE  Whole(c)'
BY DEF Whole, Unchanged, Landed, Saved, Writing

\* A request that no step touches, while the pages stay.
LEMMA WholeKept ==
  ASSUME Basics, NEW d \in Clients, Whole(d), client'[d] = client[d], Quiet,
         d \in met => d \in met', client[d].op = "save" => UNCHANGED copy
  PROVE  Whole(d)'
<1>1. SameView /\ \A b \in Bytes : View'[b] = View[b]
  BY QuietView
<1>2. Unchanged(d)'
  <2>1. client[d].pc \in {"data", "got"} => Page(d) \in Pages
    BY PageIs DEF Basics, Ranged
  <2>2. Page(d)' = Page(d) /\ Writing(d)' = Writing(d)
    BY DEF Page, Writing
  <2>3. client[d].pc \in {"data", "got"} => PageView(Page(d))' = PageView(Page(d))
    <3>1. \A p \in Pages : p = Page(d) => PageView(p)' = PageView(p)
      BY <1>1 DEF SameView
    <3> QED
      BY <2>1, <2>2, <3>1 DEF PageView
  <2> QED
    BY <2>2, <2>3 DEF Whole, Unchanged
<1>3. \A b \in Bytes : Awaits(d, b)' = Awaits(d, b) /\ Has(d, b)' = Has(d, b)
  BY DEF Awaits, Has
<1>4. \A p : HasPage(d, p)' = HasPage(d, p)
  BY DEF HasPage
<1>5. Landed(d)'
  BY <1>1, <1>3, <1>4 DEF Whole, Landed
<1>6. Saved(d)'
  BY <1>1, <1>3 DEF Whole, Saved
<1> QED
  BY <1>2, <1>5, <1>6 DEF Whole

\* A writer that has met no other has no page in common with one.
LEMMA NoCommonPage ==
  ASSUME Basics, Apart, NEW c \in Clients, NEW d \in Clients, c # d, Writing(c), Writing(d), d \notin met,
         NEW x \in Nat, Has(c, x), NEW y \in Nat, Has(d, y)
  PROVE  PageOf(x) # PageOf(y)
<1> DEFINE c1 == client[c].range[1]
           c2 == client[c].range[2] - 1
           d1 == client[d].range[1]
           d2 == client[d].range[2] - 1
<1>1. client[c].range \in Nat \X Nat /\ client[d].range \in Nat \X Nat
  BY DEF Basics, TypeOK, Requests
<1>2. c1 <= x /\ x <= c2 /\ d1 <= y /\ y <= d2 /\ c1 \in Nat /\ c2 \in Nat /\ d1 \in Nat /\ d2 \in Nat
  BY <1>1 DEF Has
<1>3. PageOf(c2) < PageOf(d1) \/ PageOf(d2) < PageOf(c1)
  BY DEF Apart
<1> HIDE DEF c1, c2, d1, d2
<1>4. PageOf(c1) <= PageOf(x) /\ PageOf(x) <= PageOf(c2)
  BY <1>2, PageOrder
<1>5. PageOf(d1) <= PageOf(y) /\ PageOf(y) <= PageOf(d2)
  BY <1>2, PageOrder
<1>6. /\ PageOf(c1) \in Nat /\ PageOf(c2) \in Nat /\ PageOf(d1) \in Nat /\ PageOf(d2) \in Nat
      /\ PageOf(x) \in Nat /\ PageOf(y) \in Nat
  BY <1>2, DivMod
<1> QED
  BY <1>3, <1>4, <1>5, <1>6

\* The first byte that a writer awaits is in its range.
LEMMA FirstIsOwn ==
  ASSUME Basics, NEW c \in Clients, Writing(c), client[c].todo # <<>>
  PROVE  /\ Page(c) \in Pages
         /\ \E x \in Nat : Has(c, x) /\ PageOf(x) = Page(c)
         /\ \A b \in Covered(c) : Has(c, b)
<1> DEFINE x == client[c].todo[1][1]
           y == client[c].todo[1][2]
<1>1. TypeOK /\ Ranged(c) /\ client[c].range \in Nat \X Nat
  BY DEF Basics, TypeOK, Requests
<1>2. /\ x \in Bytes /\ y \in Nat /\ x < y /\ Page(c) \in Pages /\ Page(c) = PageOf(x)
      /\ Within(client[c].op, client[c].range, client[c].todo[1])
  BY <1>1, PageIs
<1>3. /\ x \in Nat /\ client[c].range[1] \in Nat /\ client[c].range[2] \in Nat
      /\ client[c].range[1] <= x /\ y <= client[c].range[2]
  BY <1>1, <1>2, BytesAndPages DEF Within, Writing
<1>4. Has(c, x)
  BY <1>2, <1>3 DEF Has
<1>5. ASSUME NEW b \in Covered(c)
      PROVE  Has(c, b)
  <2>1. b \in Bytes /\ x <= b /\ b < y
    BY DEF Covered, BytesOf
  <2>2. b \in Nat
    BY <2>1, BytesAndPages
  <2>3. y \in Nat
    BY <1>2
  <2> HIDE DEF x, y
  <2> QED
    BY <1>3, <2>1, <2>2, <2>3 DEF Has
<1>6. \E z \in Nat : Has(c, z) /\ PageOf(z) = Page(c)
  <2> HIDE DEF x
  <2> QED
    BY <1>2, <1>3, <1>4
<1> QED
  BY <1>2, <1>5, <1>6

\* A request that no step touches, while a writer changes pages of its range.
LEMMA WholeApart ==
  ASSUME Basics, Apart, NEW c \in Clients, NEW d \in Clients, c # d, Writing(c), Whole(d),
         client'[d] = client[d], UNCHANGED met,
         \A p \in Pages : PageView(p)' = PageView(p) \/ \E x \in Nat : Has(c, x) /\ PageOf(x) = p
  PROVE  Whole(d)'
<1>1. client[d].op # "save"
  BY DEF Apart
<1>2. Saved(d)'
  BY <1>1 DEF Saved
<1>3. ASSUME NEW y \in Nat, Has(d, y), PageOf(y) \in Pages, d \notin met, Writing(d)
      PROVE  PageView(PageOf(y))' = PageView(PageOf(y))
  <2>1. ASSUME NEW x \in Nat, Has(c, x), PageOf(x) = PageOf(y)
        PROVE  FALSE
    BY <1>3, <2>1, NoCommonPage
  <2> QED
    BY <1>3, <2>1
<1>4. Writing(d)' = Writing(d)
  BY DEF Writing
<1>5. Unchanged(d)'
  <2> SUFFICES ASSUME d \notin met, Writing(d), client[d].pc \in {"data", "got"}
               PROVE  client'[d].want = PageView(Page(d))'
    BY <1>1, <1>4 DEF Unchanged
  <2>1. client[d].todo # <<>>
    BY DEF Basics, Ranged
  <2>2. Page(d) \in Pages /\ \E x \in Nat : Has(d, x) /\ PageOf(x) = Page(d)
    BY <2>1, FirstIsOwn
  <2>3. PICK x \in Nat : Has(d, x) /\ PageOf(x) = Page(d)
    BY <2>2
  <2>4. PageView(PageOf(x))' = PageView(PageOf(x))
    BY <1>3, <2>2, <2>3
  <2>5. Page(d)' = Page(d)
    BY DEF Page
  <2>6. PageView(Page(d))' = PageView(Page(d))
    BY <2>3, <2>4, <2>5 DEF PageView
  <2>7. client[d].want = PageView(Page(d))
    BY DEF Whole, Unchanged
  <2> QED
    BY <2>6, <2>7
<1>6. \A b \in Bytes : Awaits(d, b)' = Awaits(d, b) /\ Has(d, b)' = Has(d, b)
  BY DEF Awaits, Has
<1>7. \A p : HasPage(d, p)' = HasPage(d, p)
  BY DEF HasPage
<1>8. ASSUME NEW b \in Bytes, Has(d, b), d \notin met, Writing(d)
      PROVE  View'[b] = View[b]
  BY <1>3, <1>8, ViewStep
<1>9. Landed(d)'
  <2> SUFFICES ASSUME d \notin met, Writing(d), NEW b \in Bytes, Has(d, b)
               PROVE  /\ client[d].op = "write" => Awaits(d, b)' \/ View'[b] = 1
                      /\ client[d].op = "trim" /\ ~HasPage(d, PageOf(b))' => Awaits(d, b)' \/ View'[b] = 0
                      /\ client[d].op = "trim" /\ HasPage(d, PageOf(b))' /\ client[d].pc = "done" =>
                           View'[b] = Base[b]
    BY <1>6 DEF Landed, Writing
  <2>1. View'[b] = View[b]
    BY <1>8
  <2> QED
    BY <1>6, <1>7, <2>1 DEF Whole, Landed
<1> QED
  BY <1>2, <1>5, <1>9 DEF Whole

\* A write awaits all of its range, a trim all but the pages it covers in full.
LEMMA WholeWrite ==
  ASSUME NEW c \in Clients, NEW r \in WriteRanges, Starts(c, "write", r, <<r>>)
  PROVE  Whole(c)'
<1>1. client'[c].op = "write" /\ client'[c].range = r /\ client'[c].todo = <<r>> /\ client'[c].pc \in {"page", "end"}
  BY DEF Starts
<1>2. Unchanged(c)' /\ Saved(c)'
  BY <1>1 DEF Unchanged, Saved
<1>3. ASSUME NEW b \in Bytes, Has(c, b)'
      PROVE  Awaits(c, b)'
  <2>1. r[1] <= b /\ b < r[2]
    BY <1>1, <1>3 DEF Has
  <2>2. Len(<<r>>) = 1 /\ <<r>>[1] = r /\ 1 \in 1..Len(<<r>>)
    OBVIOUS
  <2>3. In(b, <<r>>)
    BY <2>1, <2>2 DEF In
  <2> QED
    BY <1>1, <2>3 DEF Awaits
<1>4. Landed(c)'
  BY <1>1, <1>3 DEF Landed
<1> QED
  BY <1>2, <1>4 DEF Whole

LEMMA WholeTrim ==
  ASSUME NEW c \in Clients, NEW r \in WriteRanges, Starts(c, "trim", r, TrimWrites(r[1], r[2]))
  PROVE  Whole(c)'
<1> DEFINE todo == TrimWrites(r[1], r[2])
<1>1. client'[c].op = "trim" /\ client'[c].range = r /\ client'[c].todo = todo /\ client'[c].pc \in {"page", "end"}
  BY DEF Starts
<1>2. Unchanged(c)' /\ Saved(c)'
  BY <1>1 DEF Unchanged, Saved
<1>3. r[1] \in Nat /\ r[2] \in Nat /\ r[1] < r[2]
  BY RangesAre
<1>4. \A b \in Nat : /\ r[1] <= b /\ b < r[2]
                     /\ ~(r[1] <= PageOf(b) * PageSize /\ PageOf(b) * PageSize + PageSize <= r[2])
                     => In(b, todo)
  BY <1>3, TrimIs
<1> HIDE DEF todo
<1>5. ASSUME NEW b \in Bytes, Has(c, b)', ~HasPage(c, PageOf(b))'
      PROVE  Awaits(c, b)'
  <2>1. b \in Nat /\ r[1] <= b /\ b < r[2]
    BY <1>1, <1>5, BytesAndPages DEF Has
  <2>2. ~(r[1] <= PageOf(b) * PageSize /\ PageOf(b) * PageSize + PageSize <= r[2])
    BY <1>1, <1>5 DEF HasPage
  <2>3. In(b, todo)
    BY <1>4, <2>1, <2>2
  <2> QED
    BY <1>1, <2>3 DEF Awaits
<1>6. Landed(c)'
  BY <1>1, <1>5 DEF Landed
<1> QED
  BY <1>2, <1>6 DEF Whole

\* What a save does not await is as in the base image, of which it has a copy.
LEMMA WholeSave ==
  ASSUME Basics, NEW c \in Clients, Quiet, Starts(c, "save", <<0, Size>>, DirtyRanges), copy' = ImageCopy
  PROVE  Whole(c)'
<1> DEFINE todo == DirtyRanges
<1>1. client'[c].op = "save" /\ client'[c].todo = todo /\ client'[c].pc \in {"page", "end"}
  BY DEF Starts
<1>2. Unchanged(c)' /\ Landed(c)'
  BY <1>1 DEF Unchanged, Landed
<1>3. \A p \in Pages : dirtyPages[p] # Clean /\ p * PageSize < Size =>
        \E i \in 1..Len(todo) : todo[i] = <<p * PageSize, p * PageSize + PageSize>>
  BY DirtyRangesAre DEF Basics
<1> HIDE DEF todo
<1>4. ASSUME NEW b \in Bytes, b < Size, ~Awaits(c, b)'
      PROVE  View'[b] = copy'[b]
  <2> DEFINE p == PageOf(b)
             P == p * PageSize
  <2>1. p \in Pages /\ b \in Nat /\ p \in Nat
    BY BytesAndPages
  <2>2. PageSize \in Nat /\ Size \in Nat /\ b % PageSize \in 0..(PageSize - 1) /\ b = P + (b % PageSize)
    BY <2>1, DivMod, SnapshotAssumption, BytesAndPages
  <2>3. P \in Nat /\ P <= b /\ b < P + PageSize
    BY <2>1, <2>2, PageUnique
  <2>4. dirtyPages[p] = Clean
    <3> SUFFICES ASSUME dirtyPages[p] # Clean
                 PROVE  FALSE
      OBVIOUS
    <3>1. P < Size
      BY <1>4, <2>1, <2>2, <2>3
    <3>2. PICK i \in 1..Len(todo) : todo[i] = <<P, P + PageSize>>
      BY <1>3, <2>1, <3>1
    <3> HIDE DEF P
    <3>3. todo[i][1] <= b /\ b < todo[i][2]
      BY <2>3, <3>2
    <3>4. In(b, todo)
      BY <3>3 DEF In
    <3> QED
      BY <1>1, <1>4, <3>4 DEF Awaits
  <2>5. PageView(p) = HashPage(p, Base)
    BY <2>4 DEF PageView
  <2>6. HashPage(p, Base)[b % PageSize] = Base[b]
    BY <2>2 DEF HashPage
  <2>7. View'[b] = View[b] /\ View[b] = PageView(p)[b % PageSize]
    BY QuietView, ViewStep
  <2>8. copy'[b] = Base[b]
    BY <1>4 DEF ImageCopy, Base
  <2> QED
    BY <2>5, <2>6, <2>7, <2>8
<1>5. ASSUME NEW b \in Bytes, ~(b < Size)
      PROVE  copy'[b] = Absent
  BY <1>5 DEF ImageCopy
<1>6. Saved(c)'
  BY <1>4, <1>5 DEF Saved
<1> QED
  BY <1>2, <1>6 DEF Whole

\* A request at another step of its page.
LEMMA WholeMoves ==
  ASSUME Basics, Quiet, UNCHANGED <<copy, met>>, NEW c \in Clients, Whole(c), client[c].todo # <<>>,
         NEW pc \in {"data", "got"}, NEW want, MovesTo(c, pc, want),
         (c \notin met /\ Writing(c)) \/ client[c].op = "save" => want = PageView(Page(c))
  PROVE  Whole(c)'
<1>1. /\ client'[c].op = client[c].op /\ client'[c].range = client[c].range
      /\ client'[c].todo = client[c].todo /\ client'[c].pc = pc /\ client'[c].want = want
  BY DEF MovesTo
<1>2. SameView /\ \A b \in Bytes : View'[b] = View[b]
  BY QuietView
<1>3. Page(c)' = Page(c) /\ Writing(c)' = Writing(c)
  BY <1>1 DEF Page, Writing
<1>4. PageView(Page(c))' = PageView(Page(c))
  <2>1. Page(c) \in Pages
    BY PageIs DEF Basics
  <2>2. \A p \in Pages : p = Page(c) => PageView(p)' = PageView(p)
    BY <1>2 DEF SameView
  <2> QED
    BY <1>3, <2>1, <2>2 DEF PageView
<1>5. Unchanged(c)'
  BY <1>1, <1>3, <1>4 DEF Unchanged
<1>6. \A b \in Bytes : Awaits(c, b)' = Awaits(c, b) /\ Has(c, b)' = Has(c, b)
  BY <1>1 DEF Awaits, Has
<1>7. \A p : HasPage(c, p)' = HasPage(c, p)
  BY <1>1 DEF HasPage
<1>8. client'[c].pc # "done"
  BY <1>1
<1>9. Landed(c)'
  BY <1>1, <1>2, <1>6, <1>7, <1>8 DEF Whole, Landed
<1>10. Saved(c)'
  BY <1>1, <1>2, <1>6 DEF Whole, Saved
<1> QED
  BY <1>5, <1>9, <1>10 DEF Whole

\* WriteDirtyTo has written the page.
LEMMA WholeSavePage ==
  ASSUME Basics, Quiet, NEW c \in Clients, Whole(c), SavePage(c), GoesOn(c)
  PROVE  Whole(c)'
<1>1. /\ client[c].op = "save" /\ client'[c].op = "save" /\ client'[c].pc \in {"page", "end"}
      /\ client[c].pc = "got"
  BY DEF GoesOn, SavePage
<1>2. Unchanged(c)' /\ Landed(c)'
  BY <1>1 DEF Unchanged, Landed
<1>3. client[c].buf = PageView(Page(c))
  BY <1>1 DEF Whole, Unchanged, Basics, Fetched
<1>4. ASSUME NEW b \in Bytes
      PROVE  copy'[b] = IF b < Size THEN IF Awaits(c, b)' THEN copy'[b] ELSE View'[b] ELSE Absent
  <2>1. View'[b] = View[b] /\ View[b] = PageView(PageOf(b))[b % PageSize]
    BY QuietView, ViewStep
  <2>2. copy'[b] = IF PageOf(b) = Page(c) /\ b < Size THEN client[c].buf[b % PageSize] ELSE copy[b]
    BY DEF SavePage
  <2>3. copy[b] = IF b < Size THEN IF Awaits(c, b) THEN copy[b] ELSE View[b] ELSE Absent
    BY <1>1 DEF Whole, Saved
  <2>4. Awaits(c, b) => Awaits(c, b)' \/ PageOf(b) = Page(c)
    BY DEF GoesOn
  <2>5. CASE ~(b < Size)
    BY <2>2, <2>3, <2>5
  <2>6. CASE b < Size /\ PageOf(b) = Page(c)
    BY <1>3, <2>1, <2>2, <2>6
  <2>7. CASE b < Size /\ PageOf(b) # Page(c)
    BY <2>1, <2>2, <2>3, <2>4, <2>7
  <2> QED
    BY <2>5, <2>6, <2>7
<1>5. Saved(c)'
  BY <1>4 DEF Saved
<1> QED
  BY <1>2, <1>5 DEF Whole

\* A store changes the bytes it covers and no others, when the page it has read is
\* the page as it still is.
LEMMA StoreView ==
  ASSUME Basics, NEW c \in Clients, Store(c), NEW b \in Bytes,
         client[c].pc = "got" => client[c].want = PageView(Page(c))
  PROVE  View'[b] = IF b \in Covered(c) THEN IF client[c].op = "write" THEN 1 ELSE 0 ELSE View[b]
<1>1. ReadyToStore(c) /\ Writing(c)
  BY DEF Store, ReadyToStore
<1>2. \A p \in Pages : PageView(p)' = IF p = Page(c) THEN NewPage(c) ELSE PageView(p)
  BY StoreDoes
<1>3. /\ View[b] = PageView(PageOf(b))[b % PageSize] /\ View'[b] = PageView(PageOf(b))'[b % PageSize]
      /\ PageOf(b) \in Pages
  BY ViewStep
<1>4. b \in Covered(c) => PageOf(b) = Page(c)
  BY DEF Covered, BytesOf
<1>5. CASE PageOf(b) # Page(c)
  BY <1>2, <1>3, <1>4, <1>5
<1>6. CASE PageOf(b) = Page(c)
  <2>1. View'[b] = NewPage(c)[b % PageSize]
    BY <1>2, <1>3, <1>6
  <2>2. /\ NewPage(c)[b % PageSize] = IF b \notin Covered(c) THEN client[c].buf[b % PageSize]
                                      ELSE IF client[c].op = "write" THEN 1 ELSE 0
        /\ client[c].pc # "got" => b \in Covered(c)
        /\ client[c].pc = "got" => client[c].buf = client[c].want
    BY <1>1, <1>6, NewPageIs
  <2>3. CASE b \in Covered(c)
    BY <2>1, <2>2, <2>3
  <2>4. CASE b \notin Covered(c)
    BY <1>3, <1>6, <2>1, <2>2, <2>4
  <2> QED
    BY <2>3, <2>4
<1> QED
  BY <1>5, <1>6

LEMMA WholeStore ==
  ASSUME Basics, NEW c \in Clients, Whole(c), Store(c), GoesOn(c)
  PROVE  Whole(c)'
<1>1. /\ client[c].op \in {"write", "trim"} /\ client'[c].op = client[c].op
      /\ client'[c].range = client[c].range /\ client'[c].pc \in {"page", "end"}
  BY DEF GoesOn, Store, ReadyToStore, Writing
<1>2. Unchanged(c)' /\ Saved(c)'
  BY <1>1 DEF Unchanged, Saved
<1>3. \A b : Has(c, b)' = Has(c, b) /\ HasPage(c, b)' = HasPage(c, b)
  BY <1>1 DEF Has, HasPage
<1>4. ASSUME c \notin met, NEW b \in Bytes, Has(c, b)
      PROVE  /\ client[c].op = "write" => Awaits(c, b)' \/ View'[b] = 1
             /\ client[c].op = "trim" /\ ~HasPage(c, PageOf(b)) => Awaits(c, b)' \/ View'[b] = 0
  <2>1. View'[b] = IF b \in Covered(c) THEN IF client[c].op = "write" THEN 1 ELSE 0 ELSE View[b]
    BY <1>1, <1>4, StoreView DEF Whole, Unchanged, Writing
  <2>2. Awaits(c, b) => Awaits(c, b)' \/ b \in Covered(c)
    BY DEF GoesOn
  <2>3. /\ client[c].op = "write" => Awaits(c, b) \/ View[b] = 1
        /\ client[c].op = "trim" /\ ~HasPage(c, PageOf(b)) => Awaits(c, b) \/ View[b] = 0
    BY <1>4 DEF Whole, Landed
  <2>4. CASE b \in Covered(c)
    BY <2>1, <2>4
  <2>5. CASE b \notin Covered(c)
    BY <2>1, <2>2, <2>3, <2>5
  <2> QED
    BY <2>4, <2>5
<1>5. Landed(c)'
  <2> SUFFICES ASSUME c \notin met', NEW b \in Bytes, Has(c, b)'
               PROVE  /\ client'[c].op = "write" => Awaits(c, b)' \/ View'[b] = 1
                      /\ client'[c].op = "trim" /\ ~HasPage(c, PageOf(b))' => Awaits(c, b)' \/ View'[b] = 0
    BY <1>1 DEF Landed
  <2>1. c \notin met
    BY DEF Store
  <2> QED
    BY <1>1, <1>3, <1>4, <2>1
<1> QED
  BY <1>2, <1>5 DEF Whole

\* The last step of a trim gives the pages it covers in full back to the base image.
LEMMA TrimEndView ==
  ASSUME Basics, NEW c \in Clients, TrimEnd(c), NEW b \in Bytes
  PROVE  View'[b] = IF HasPage(c, PageOf(b)) THEN Base[b] ELSE View[b]
<1>1. /\ View[b] = PageView(PageOf(b))[b % PageSize] /\ View'[b] = PageView(PageOf(b))'[b % PageSize]
      /\ PageOf(b) \in Pages /\ b \in Nat
  BY ViewStep
<1>2. PageView(PageOf(b))' = IF HasPage(c, PageOf(b)) THEN HashPage(PageOf(b), Base) ELSE PageView(PageOf(b))
  <2>1. \A p \in Pages : PageView(p)' = IF HasPage(c, p) THEN HashPage(p, Base) ELSE PageView(p)
    BY TrimEndDoes
  <2> QED
    BY <1>1, <2>1
<1>3. b % PageSize \in 0..(PageSize - 1) /\ b = PageOf(b) * PageSize + (b % PageSize)
  BY <1>1, DivMod
<1>4. HashPage(PageOf(b), Base)[b % PageSize] = Base[b]
  BY <1>3 DEF HashPage
<1> QED
  BY <1>1, <1>2, <1>4

LEMMA WholeTrimEnd ==
  ASSUME Basics, NEW c \in Clients, Whole(c), TrimEnd(c), MovesTo(c, "done", <<>>)
  PROVE  Whole(c)'
<1>1. /\ client[c].op = "trim" /\ client'[c].op = "trim" /\ client'[c].range = client[c].range
      /\ client'[c].todo = client[c].todo /\ client'[c].pc = "done"
  BY DEF TrimEnd, MovesTo
<1>2. Unchanged(c)' /\ Saved(c)'
  BY <1>1 DEF Unchanged, Saved
<1>3. \A b : Has(c, b)' = Has(c, b) /\ HasPage(c, b)' = HasPage(c, b) /\ Awaits(c, b)' = Awaits(c, b)
  BY <1>1 DEF Has, HasPage, Awaits
<1>4. Landed(c)'
  <2> SUFFICES ASSUME c \notin met', NEW b \in Bytes, Has(c, b)'
               PROVE  /\ ~HasPage(c, PageOf(b))' => Awaits(c, b)' \/ View'[b] = 0
                      /\ HasPage(c, PageOf(b))' => View'[b] = Base[b]
    BY <1>1 DEF Landed
  <2>1. View'[b] = IF HasPage(c, PageOf(b)) THEN Base[b] ELSE View[b]
    BY TrimEndView
  <2>2. ~HasPage(c, PageOf(b)) => Awaits(c, b) \/ View[b] = 0
    BY <1>1, <1>3 DEF Whole, Landed, TrimEnd
  <2> QED
    BY <1>3, <2>1, <2>2
<1> QED
  BY <1>2, <1>4 DEF Whole

-----------------------------------------------------------------------------

SnapshotInv == Basics /\ Apart /\ \A c \in Clients : Whole(c)

LEMMA SnapshotInit == Init => SnapshotInv
<1> SUFFICES ASSUME Init
             PROVE  SnapshotInv
  OBVIOUS
<1>1. \A c \in Clients : client[c].op = "none"
  BY IdleIs DEF Init
<1>2. Apart
  BY <1>1 DEF Apart, Writing
<1>3. \A c \in Clients : Whole(c)
  BY <1>1 DEF Whole, Unchanged, Landed, Saved, Writing
<1> QED
  BY <1>2, <1>3, BasicsInit DEF SnapshotInv

\* A step of c that gives no page another slot.
LEMMA InvQuiet ==
  ASSUME SnapshotInv, NEW c \in Clients, Basics', Quiet, Others(c), Apart', Whole(c)', met \ {c} \subseteq met',
         UNCHANGED copy \/ client[c].op = "save" \/ NoSave
  PROVE  SnapshotInv'
<1>1. ASSUME NEW d \in Clients, d # c
      PROVE  Whole(d)'
  <2>1. Basics /\ Whole(d) /\ client'[d] = client[d]
    BY <1>1 DEF SnapshotInv, Others
  <2>2. (d \in met => d \in met') /\ (client[d].op = "save" => UNCHANGED copy)
    BY <1>1 DEF SnapshotInv, Apart, NoSave
  <2> QED
    BY <2>1, <2>2, WholeKept
<1> QED
  BY <1>1 DEF SnapshotInv

LEMMA InvStart ==
  ASSUME SnapshotInv, NEW c \in Clients,
         \/ \E r \in ReadRanges : StartRead(c, r)
         \/ \E r \in WriteRanges : StartWrite(c, r) \/ StartTrim(c, r)
         \/ StartSave(c)
  PROVE  SnapshotInv' /\ Quiet
<1>1. Basics /\ Apart
  BY DEF SnapshotInv
<1>2. ASSUME NEW r \in ReadRanges, StartRead(c, r)
      PROVE  SnapshotInv' /\ Quiet
  <2>1. Basics' /\ Quiet /\ Others(c) /\ client'[c].op = "read" /\ UNCHANGED <<copy, met>>
    BY <1>1, <1>2, StartReadDoes DEF Starts, StartRead
  <2>2. Apart' /\ Whole(c)'
    BY <1>1, <2>1, ApartKept, WholeIdle
  <2> QED
    BY <2>1, <2>2, InvQuiet
<1>3. ASSUME NEW r \in WriteRanges, StartWrite(c, r)
      PROVE  SnapshotInv' /\ Quiet
  <2>1. Basics' /\ Quiet /\ Starts(c, "write", r, <<r>>) /\ UNCHANGED copy /\ MayWrite(c) /\ Meets(c, r)
    BY <1>1, <1>3, StartWriteDoes DEF StartWrite
  <2>2. Others(c) /\ client'[c].op = "write" /\ client'[c].range = r
    BY <2>1 DEF Starts
  <2>3. Apart'
    BY <1>1, <2>1, <2>2, ApartWrite
  <2>4. Whole(c)'
    BY <2>1, WholeWrite
  <2> QED
    BY <2>1, <2>2, <2>3, <2>4, InvQuiet DEF Meets
<1>4. ASSUME NEW r \in WriteRanges, StartTrim(c, r)
      PROVE  SnapshotInv' /\ Quiet
  <2>1. Basics' /\ Quiet /\ Starts(c, "trim", r, TrimWrites(r[1], r[2])) /\ UNCHANGED copy /\ MayWrite(c) /\ Meets(c, r)
    BY <1>1, <1>4, StartTrimDoes DEF StartTrim
  <2>2. Others(c) /\ client'[c].op = "trim" /\ client'[c].range = r
    BY <2>1 DEF Starts
  <2>3. Apart'
    BY <1>1, <2>1, <2>2, ApartWrite
  <2>4. Whole(c)'
    BY <2>1, WholeTrim
  <2> QED
    BY <2>1, <2>2, <2>3, <2>4, InvQuiet DEF Meets
<1>5. CASE StartSave(c)
  <2>1. /\ Basics' /\ Quiet /\ Starts(c, "save", <<0, Size>>, DirtyRanges) /\ copy' = ImageCopy
        /\ NoSave /\ NoWrite
    BY <1>1, <1>5, StartSaveDoes DEF StartSave
  <2>2. Others(c) /\ client'[c].op = "save"
    BY <2>1 DEF Starts
  <2>3. Apart'
    BY <1>1, <2>1, <2>2, ApartSave
  <2>4. Whole(c)'
    BY <1>1, <2>1, WholeSave
  <2> QED
    BY <1>5, <2>1, <2>2, <2>3, <2>4, InvQuiet DEF StartSave
<1> QED
  BY <1>2, <1>3, <1>4, <1>5

LEMMA InvRead ==
  ASSUME SnapshotInv, NEW c \in Clients, Lookup(c) \/ ReadDirty(c) \/ ReadBase(c)
  PROVE  SnapshotInv' /\ Quiet
<1>1. Basics /\ Apart /\ Whole(c) /\ Ranged(c)
  BY DEF SnapshotInv, Basics
<1>2. ASSUME NEW pc \in {"data", "got"}, NEW want, MovesTo(c, pc, want), Basics', Quiet, UNCHANGED <<copy, met>>,
             client[c].todo # <<>>,
             (c \notin met /\ Writing(c)) \/ client[c].op = "save" => want = PageView(Page(c))
      PROVE  SnapshotInv'
  <2>1. Others(c) /\ Same(c)
    BY <1>2 DEF MovesTo, Same
  <2>2. Whole(c)'
    BY <1>1, <1>2, WholeMoves
  <2>3. Apart'
    BY <1>1, <1>2, <2>1, ApartKept
  <2> QED
    BY <1>2, <2>1, <2>2, <2>3, InvQuiet
<1>3. CASE Lookup(c)
  <2>1. /\ Basics' /\ Quiet /\ MovesTo(c, "data", PageView(Page(c))) /\ UNCHANGED <<copy, met>>
        /\ client[c].todo # <<>>
    BY <1>1, <1>3, LookupDoes DEF Lookup, Ranged
  <2> QED
    BY <1>2, <2>1
<1>4. CASE ReadDirty(c) \/ ReadBase(c)
  <2>1. /\ Basics' /\ Quiet /\ MovesTo(c, "got", client[c].want) /\ UNCHANGED <<copy, met>>
        /\ client[c].todo # <<>> /\ client[c].pc = "data"
    BY <1>1, <1>4, ReadDirtyDoes, ReadBaseDoes DEF ReadDirty, ReadBase, Ranged
  <2>2. (c \notin met /\ Writing(c)) \/ client[c].op = "save" => client[c].want = PageView(Page(c))
    BY <1>1, <2>1 DEF Whole, Unchanged
  <2> QED
    BY <1>2, <2>1, <2>2
<1> QED
  BY <1>3, <1>4

LEMMA InvEnd ==
  ASSUME SnapshotInv, NEW c \in Clients, ReadFails(c) \/ StoreFails(c) \/ Reply(c) \/ Deliver(c)
  PROVE  SnapshotInv' /\ Quiet
<1>1. Basics /\ Apart
  BY DEF SnapshotInv
<1>2. Basics' /\ Quiet /\ Others(c) /\ client'[c].op \in {"none", "read"}
  BY <1>1, ReadFailsDoes, StoreFailsDoes, ReplyDoes, DeliverDoes DEF Ends, GoesOn, Deliver
<1>3. UNCHANGED met /\ (UNCHANGED copy \/ client[c].op = "save")
  BY DEF ReadFails, StoreFails, Reply, Deliver
<1>4. Apart' /\ Whole(c)'
  BY <1>1, <1>2, <1>3, ApartKept, WholeIdle
<1> QED
  BY <1>2, <1>3, <1>4, InvQuiet

LEMMA InvSavePage ==
  ASSUME SnapshotInv, NEW c \in Clients, SavePage(c)
  PROVE  SnapshotInv' /\ Quiet
<1>1. Basics /\ Apart /\ Whole(c) /\ client[c].op = "save"
  BY DEF SnapshotInv, SavePage
<1>2. Basics' /\ Quiet /\ GoesOn(c) /\ Others(c) /\ Same(c) /\ UNCHANGED met
  BY <1>1, SavePageDoes DEF GoesOn, Same, SavePage
<1>3. Apart' /\ Whole(c)'
  BY <1>1, <1>2, ApartKept, WholeSavePage
<1> QED
  BY <1>1, <1>2, <1>3, InvQuiet

\* A step of c that changes pages of its range.
LEMMA InvStore ==
  ASSUME SnapshotInv, NEW c \in Clients, Store(c) \/ TrimEnd(c)
  PROVE  SnapshotInv'
<1>1. Basics /\ Apart /\ Whole(c) /\ Writing(c) /\ Ranged(c)
  BY DEF SnapshotInv, Basics, Store, ReadyToStore, TrimEnd, Writing
<1>2. /\ Basics' /\ Others(c) /\ Same(c) /\ Whole(c)'
      /\ \A p \in Pages : PageView(p)' = PageView(p) \/ \E x \in Nat : Has(c, x) /\ PageOf(x) = p
  <2>1. CASE Store(c)
    <3>1. /\ Basics' /\ GoesOn(c)
          /\ \A p \in Pages : PageView(p)' = IF p = Page(c) THEN NewPage(c) ELSE PageView(p)
      BY <1>1, <2>1, StoreDoes
    <3>2. client[c].todo # <<>>
      BY <1>1, <2>1, NewPageIs DEF Store
    <3>3. \E x \in Nat : Has(c, x) /\ PageOf(x) = Page(c)
      BY <1>1, <3>2, FirstIsOwn
    <3>4. Whole(c)'
      BY <1>1, <2>1, <3>1, WholeStore
    <3> QED
      BY <3>1, <3>3, <3>4 DEF GoesOn, Same
  <2>2. CASE TrimEnd(c)
    <3>1. /\ Basics' /\ MovesTo(c, "done", <<>>)
          /\ \A p \in Pages : PageView(p)' = IF HasPage(c, p) THEN HashPage(p, Base) ELSE PageView(p)
      BY <1>1, <2>2, TrimEndDoes
    <3>2. ASSUME NEW p \in Pages, HasPage(c, p)
          PROVE  \E x \in Nat : Has(c, x) /\ PageOf(x) = p
      <4> DEFINE x == p * PageSize
      <4>1. PageSize \in Nat /\ PageSize > 0 /\ p \in Nat
        BY SnapshotAssumption, BytesAndPages
      <4>2. x \in Nat /\ PageOf(x) = p
        <5>1. x \in Nat
          BY <4>1
        <5>2. x <= x /\ x < x + PageSize
          BY <4>1, <5>1
        <5> QED
          BY <4>1, <5>1, <5>2, PageUnique
      <4>3. client[c].range[1] \in Nat /\ client[c].range[2] \in Nat
        BY <1>1 DEF Basics, TypeOK, Requests
      <4>4. client[c].range[1] <= x /\ x + PageSize <= client[c].range[2]
        BY <3>2 DEF HasPage
      <4> HIDE DEF x
      <4>5. Has(c, x)
        BY <4>1, <4>2, <4>3, <4>4 DEF Has
      <4> QED
        BY <4>2, <4>5
    <3>3. Whole(c)'
      BY <1>1, <2>2, <3>1, WholeTrimEnd
    <3> QED
      BY <3>1, <3>2, <3>3 DEF MovesTo, Same
  <2> QED
    BY <2>1, <2>2
<1>3. UNCHANGED met
  BY DEF Store, TrimEnd
<1>4. Apart'
  BY <1>1, <1>2, <1>3, ApartKept
<1>5. ASSUME NEW d \in Clients, d # c
      PROVE  Whole(d)'
  <2>1. Whole(d) /\ client'[d] = client[d]
    BY <1>2, <1>5 DEF SnapshotInv, Others
  <2> QED
    BY <1>1, <1>2, <1>3, <1>5, <2>1, WholeApart
<1> QED
  BY <1>2, <1>4, <1>5 DEF SnapshotInv

LEMMA InvClose ==
  ASSUME SnapshotInv, Close \/ UNCHANGED vars
  PROVE  SnapshotInv' /\ Quiet
<1>1. Basics /\ Basics' /\ Quiet /\ UNCHANGED <<client, copy, met>>
  BY CloseDoes DEF SnapshotInv, Close, vars
<1>2. Apart'
  BY <1>1 DEF SnapshotInv, Apart, Writing
<1>3. ASSUME NEW d \in Clients
      PROVE  Whole(d)'
  BY <1>1, WholeKept DEF SnapshotInv
<1> QED
  BY <1>1, <1>2, <1>3 DEF SnapshotInv

\* A step keeps the invariant, and it gives no page another slot unless it is a
\* store or the end of a trim.
LEMMA SnapshotNext ==
  ASSUME SnapshotInv, [Next]_vars
  PROVE  SnapshotInv' /\ (Quiet \/ \E c \in Clients : Store(c) \/ TrimEnd(c))
<1>1. CASE Close \/ UNCHANGED vars
  BY <1>1, InvClose
<1>2. ASSUME NEW c \in Clients, ReadAt(c)
      PROVE  SnapshotInv' /\ Quiet
  BY <1>2, InvStart, InvEnd DEF ReadAt
<1>3. ASSUME NEW c \in Clients, WriteAt(c)
      PROVE  SnapshotInv' /\ (Quiet \/ Store(c))
  BY <1>3, InvStart, InvEnd, InvStore DEF WriteAt
<1>4. ASSUME NEW c \in Clients, HandleTrim(c)
      PROVE  SnapshotInv' /\ (Quiet \/ TrimEnd(c))
  BY <1>4, InvStart, InvStore DEF HandleTrim
<1>5. ASSUME NEW c \in Clients, WriteDirtyTo(c)
      PROVE  SnapshotInv' /\ Quiet
  BY <1>5, InvStart, InvSavePage DEF WriteDirtyTo
<1>6. ASSUME NEW c \in Clients, ReadPageData(c)
      PROVE  SnapshotInv' /\ Quiet
  BY <1>6, InvRead, InvEnd DEF ReadPageData
<1>7. ASSUME NEW c \in Clients, Reply(c)
      PROVE  SnapshotInv' /\ Quiet
  BY <1>7, InvEnd
<1> QED
  BY <1>1, <1>2, <1>3, <1>4, <1>5, <1>6, <1>7 DEF Next

LEMMA SnapshotHolds == Spec => []SnapshotInv
<1>1. Init => SnapshotInv
  BY SnapshotInit
<1>2. SnapshotInv /\ [Next]_vars => SnapshotInv'
  BY SnapshotNext
<1> QED
  BY <1>1, <1>2, PTL DEF Spec

\* When a save is done, its copy of the base image is the snapshot, cut at the
\* image's size: WriteDirtyTo has gone through every dirty page, and what it read
\* of each is what the page still holds.
THEOREM SavesAreExact == Spec => []SaveIsExact
<1>1. SnapshotInv => SaveIsExact
  <2> SUFFICES ASSUME SnapshotInv, NEW c \in Clients, Finished(c, "save")
               PROVE  copy = [b \in Bytes |-> IF b < Size THEN View[b] ELSE Absent]
    BY DEF SaveIsExact
  <2>1. client[c].op = "save" /\ client[c].pc = "end" /\ Ranged(c) /\ Saved(c) /\ TypeOK
    BY DEF Finished, SnapshotInv, Basics, Whole
  <2>2. client[c].todo = <<>>
    BY <2>1 DEF Ranged
  <2>3. \A b \in Bytes : ~Awaits(c, b)
    BY <2>2 DEF Awaits, In
  <2>4. \A b \in Bytes : copy[b] = IF b < Size THEN View[b] ELSE Absent
    BY <2>1, <2>3 DEF Saved
  <2>5. copy = [b \in Bytes |-> copy[b]]
    BY <2>1 DEF TypeOK
  <2> QED
    BY <2>4, <2>5
<1> QED
  BY <1>1, SnapshotHolds, PTL

\* Every byte of a write or a trim that is answered is what the request makes it,
\* if no other writer was at one of its pages meanwhile.
THEOREM WritesTakeEffect == Spec => []WritesLand
<1>1. SnapshotInv => WritesLand
  <2> SUFFICES ASSUME SnapshotInv, NEW c \in Clients \ met, NEW b \in Bytes, Writing(c), Has(c, b)
               PROVE  /\ Finished(c, "write") => View[b] = 1
                      /\ Finished(c, "trim") =>
                           View[b] = IF \A d \in BytesOf(PageOf(b)) :
                                          client[c].range[1] <= d /\ d < client[c].range[2]
                                     THEN Base[b] ELSE 0
    BY DEF WritesLand, Has
  <2>1. Ranged(c) /\ Landed(c) /\ client[c].range \in Nat \X Nat
    BY DEF SnapshotInv, Basics, Whole, TypeOK, Requests
  <2>2. Finished(c, "write") \/ Finished(c, "trim") => ~Awaits(c, b)
    <3>1. Finished(c, "write") \/ Finished(c, "trim") => client[c].todo = <<>>
      BY <2>1 DEF Finished, Ranged
    <3> QED
      BY <3>1 DEF Awaits, In
  <2>3. (\A d \in BytesOf(PageOf(b)) : client[c].range[1] <= d /\ d < client[c].range[2])
          <=> HasPage(c, PageOf(b))
    <3> DEFINE p == PageOf(b)
               P == p * PageSize
               lo == client[c].range[1]
               hi == client[c].range[2]
    <3>1. PageSize \in Nat /\ PageSize > 0 /\ p \in Pages /\ p \in Nat /\ lo \in Nat /\ hi \in Nat
      <4>1. p \in Pages /\ p \in Nat
        BY BytesAndPages
      <4>2. PageSize \in Nat /\ PageSize > 0
        BY SnapshotAssumption
      <4>3. lo \in Nat /\ hi \in Nat
        BY <2>1
      <4> QED
        BY <4>1, <4>2, <4>3
    <3>2. /\ P + 0 \in BytesOf(p) /\ P + (PageSize - 1) \in BytesOf(p) /\ P \in Nat
      <4>1. 0 \in 0..(PageSize - 1) /\ PageSize - 1 \in 0..(PageSize - 1)
        BY <3>1
      <4>2. P \in Nat
        BY <3>1
      <4> QED
        BY <3>1, <4>1, <4>2, BytesAndPages DEF BytesOf
    <3>3. \A d \in BytesOf(p) : d \in Nat /\ P <= d /\ d < P + PageSize
      BY <3>1, PageUnique, BytesAndPages DEF BytesOf
    <3>4. HasPage(c, p) <=> lo <= P /\ P + PageSize <= hi
      BY DEF HasPage
    <3> HIDE DEF P, lo, hi, p
    <3>5. ASSUME \A d \in BytesOf(p) : lo <= d /\ d < hi
          PROVE  lo <= P /\ P + PageSize <= hi
      <4>1. lo <= P + 0 /\ P + (PageSize - 1) < hi
        BY <3>2, <3>5
      <4> QED
        BY <3>1, <3>2, <4>1
    <3>6. ASSUME lo <= P /\ P + PageSize <= hi
          PROVE  \A d \in BytesOf(p) : lo <= d /\ d < hi
      BY <3>1, <3>2, <3>3, <3>6
    <3> QED
      BY <3>4, <3>5, <3>6 DEF lo, hi, p
  <2>4. Finished(c, "write") => View[b] = 1
    BY <2>1, <2>2 DEF Landed, Finished
  <2>5. Finished(c, "trim") => View[b] = IF HasPage(c, PageOf(b)) THEN Base[b] ELSE 0
    BY <2>1, <2>2 DEF Landed, Finished
  <2> QED
    BY <2>3, <2>4, <2>5
<1> QED
  BY <1>1, SnapshotHolds, PTL

\* What a writer has read of its page is the page as it is, unless the page was
\* stored or trimmed since.
LEMMA FreshIsCurrent ==
  ASSUME Basics, NEW c \in Clients, client[c].pc = "got", ~ReadStale(c)
  PROVE  client[c].want = PageView(Page(c))
<1>1. Fetched(c) /\ client[c].dp = dirtyPages[Page(c)]
  BY DEF Basics, ReadStale
<1> QED
  BY <1>1 DEF Fetched, PageView

\* A request takes back only what was done to its page after the read-modify-write
\* had read it: every other byte that a step changes is in the range of the request.
THEOREM OthersBytesStay == Spec => OnlyOwnBytesChange
<1> DEFINE Own(b) == \E c \in Clients :
             /\ Writing(c) /\ client'[c] # client[c]
             /\ \/ client[c].range[1] <= b /\ b < client[c].range[2]
                \/ PageOf(b) = Page(c) /\ ReadStale(c)
<1>1. ASSUME SnapshotInv, [Next]_vars, NEW b \in Bytes, View'[b] # View[b]
      PROVE  Own(b)
  <2>1. ~Quiet
    BY <1>1, QuietView DEF SnapshotInv
  <2>2. PICK c \in Clients : Store(c) \/ TrimEnd(c)
    BY <1>1, <2>1, SnapshotNext
  <2>3. Basics /\ Whole(c)
    BY <1>1 DEF SnapshotInv
  <2>4. Writing(c) /\ client'[c] # client[c] /\ (Has(c, b) \/ (PageOf(b) = Page(c) /\ ReadStale(c)))
    <3>1. CASE Store(c)
      <4>1. ReadyToStore(c) /\ Writing(c)
        BY <3>1 DEF Store, ReadyToStore
      <4>2. client'[c] # client[c]
        BY <2>3, <3>1, StoreDoes DEF GoesOn
      <4>3. CASE ReadStale(c)
        <5>1. \A p \in Pages : PageView(p)' = IF p = Page(c) THEN NewPage(c) ELSE PageView(p)
          BY <2>3, <3>1, StoreDoes
        <5>2. PageOf(b) = Page(c)
          BY <1>1, <5>1, ViewStep
        <5> QED
          BY <4>1, <4>2, <4>3, <5>2
      <4>4. CASE ~ReadStale(c)
        <5>1. client[c].pc = "got" => client[c].want = PageView(Page(c))
          BY <2>3, <4>4, FreshIsCurrent
        <5>2. b \in Covered(c)
          BY <1>1, <2>3, <3>1, <5>1, StoreView
        <5>3. client[c].todo # <<>>
          BY <2>3, <4>1, NewPageIs
        <5> QED
          BY <2>3, <4>1, <4>2, <5>2, <5>3, FirstIsOwn
      <4> QED
        BY <4>3, <4>4
    <3>2. CASE TrimEnd(c)
      <4>1. Writing(c) /\ client[c].pc = "end" /\ client'[c].pc = "done"
        BY <2>3, <3>2, TrimEndDoes DEF TrimEnd, Writing, MovesTo
      <4>2. HasPage(c, PageOf(b))
        BY <1>1, <2>3, <3>2, TrimEndView
      <4>3. client[c].range[1] \in Nat /\ client[c].range[2] \in Nat
        BY <2>3 DEF Basics, TypeOK, Requests
      <4>4. PageSize \in Nat /\ b \in Nat /\ PageOf(b) \in Nat
        BY SnapshotAssumption, BytesAndPages, DivMod
      <4>5. PageOf(b) * PageSize \in Nat /\ PageOf(b) * PageSize <= b /\ b < PageOf(b) * PageSize + PageSize
        BY <4>4, PageUnique
      <4>6. Has(c, b)
        BY <4>2, <4>3, <4>4, <4>5 DEF Has, HasPage
      <4> QED
        BY <4>1, <4>6
    <3> QED
      BY <2>2, <3>1, <3>2
  <2> QED
    BY <2>4 DEF Has
<1>2. SnapshotInv /\ [Next]_vars => [\A b \in Bytes : View'[b] # View[b] => Own(b)]_vars
  BY <1>1
<1> QED
  BY <1>2, SnapshotHolds, PTL DEF Spec, OnlyOwnBytesChange
=============================================================================
