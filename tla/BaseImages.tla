----------------------------- MODULE BaseImages -----------------------------
(***************************************************************************)
(* How guestbd shares base images between connections (guestbd/server.go): *)
(* a baseImageState is found by its identity key and reference counted,    *)
(* stays cached when idle, and is evicted in least-recently-idle order.    *)
(* Counts are guarded by each entry's own mutex and the maps by the        *)
(* server's, so that a count can change between two steps of a holder of   *)
(* the server's mutex.  With a shared snapshot all connections use one.    *)
(***************************************************************************)
EXTENDS Integers, Sequences, FiniteSets

CONSTANTS
  Keys,         \* identity keys of backing images
  NoKey,        \* the key of a source that has none
  Conns,        \* connection handlers
  MaxIdleBase,  \* s.maxIdleBase
  MaxGets,      \* bound: calls of getBase
  NoConn

ASSUME BaseImagesAssumption ==
  /\ NoKey \notin Keys /\ NoConn \notin Conns /\ MaxIdleBase \in Nat \ {0} /\ MaxGets \in Nat
  /\ IsFiniteSet(Keys) /\ IsFiniteSet(Conns)

VARIABLES
  entries,      \* every base image opened so far, with its baseImageState if it got
                \* one; entries are named by index
  roFiles,      \* s.roFiles: index of the key's entry, 0 for none
  roFileNoKey,  \* s.roFileNoKey, 0 for nil
  nextIdleSeq,  \* s.nextIdleSeq
  active,       \* s.baseImagesActive
  shared,       \* s.useSharedSnapshot
  sharedSnap,   \* s.sharedSnap
  conn,         \* per connection: where its handler is
  lock,         \* holder of s.mu across steps, or NoConn
  gets,         \* snapshots made so far; names the next one
  serverClosed        \* Server.Close has run

serverVars == <<entries, roFiles, roFileNoKey, nextIdleSeq, active, shared, sharedSnap, conn,
          lock, gets, serverClosed>>

\* What the model keeps of a Snapshot, of a handler and of a baseImageState.
Snapshots == [id : Nat, entry : Nat]
Stages    == {"idle", "get", "sharing", "install", "serving", "close", "zero", "panic"}
Handlers  == [pc : Stages, snap : Snapshots, then : {"idle", "serving"}]
States    == [key : Keys \cup {NoKey}, refcount : Nat, idleSince : Nat, open : BOOLEAN]

NoSnap   == [id |-> 0, entry |-> 0]
IdleConn == [pc |-> "idle", snap |-> NoSnap, then |-> "idle"]

NewEntry(key) == [key |-> key, refcount |-> 1, idleSince |-> 0, open |-> TRUE]

\* A base image that getBase opened for an entry that exists, and that is closed.
SpareBase(key) == [key |-> key, refcount |-> 0, idleSince |-> 0, open |-> FALSE]

-----------------------------------------------------------------------------
(* evictIdleLocked *)

Idle(ents, files) == {k \in Keys : files[k] # 0 /\ ents[files[k]].refcount = 0}

\* Fault: one idle entry too many is kept.
EvictIdle_OffByOne(ents, files) ==
  LET idle == Idle(ents, files) IN
  \E E \in SUBSET idle :
    /\ Cardinality(idle \ E) = IF Cardinality(idle) <= MaxIdleBase + 1
                               THEN Cardinality(idle) ELSE MaxIdleBase + 1
    /\ roFiles' = [k \in Keys |-> IF k \in E THEN 0 ELSE files[k]]
    /\ entries' = [e \in DOMAIN ents |->
                     IF \E k \in E : files[k] = e THEN [ents[e] EXCEPT !.open = FALSE] ELSE ents[e]]

\* Close and forget the idle entries with the smallest idleSince until at most
\* MaxIdleBase are left (among equals the map's order decides).
EvictIdle(ents, files) ==
  LET idle == Idle(ents, files) IN
  \E E \in SUBSET idle :
    /\ Cardinality(idle \ E) = IF Cardinality(idle) <= MaxIdleBase
                               THEN Cardinality(idle) ELSE MaxIdleBase
    /\ \A x \in E, y \in idle \ E : ents[files[x]].idleSince <= ents[files[y]].idleSince
    /\ roFiles' = [k \in Keys |-> IF k \in E THEN 0 ELSE files[k]]
    /\ entries' = [e \in DOMAIN ents |->
                     IF \E k \in E : files[k] = e THEN [ents[e] EXCEPT !.open = FALSE] ELSE ents[e]]

-----------------------------------------------------------------------------
(* HandleConn and getOrCreateSnapshot *)

Connect(c) ==
  /\ conn[c].pc = "idle" /\ lock = NoConn
  /\ conn' = [conn EXCEPT ![c] =
                IF shared /\ sharedSnap # NoSnap
                THEN [pc |-> "serving", snap |-> sharedSnap, then |-> "idle"]
                ELSE [@ EXCEPT !.pc = "get"]]
  /\ UNCHANGED <<entries, roFiles, roFileNoKey, nextIdleSeq, active, shared, sharedSnap,
                 lock, gets, serverClosed>>

\* getBase fails.
GetFails(c) ==
  /\ conn[c].pc = "get"
  /\ conn' = [conn EXCEPT ![c] = IdleConn]
  /\ UNCHANGED <<entries, roFiles, roFileNoKey, nextIdleSeq, active, shared, sharedSnap,
                 lock, gets, serverClosed>>

\* c has a reference to entry e and makes a snapshot of it: its own, or the
\* one to share if nobody else installs one first.
Opened(c, e) ==
  /\ gets' = gets + 1
  /\ conn' = [conn EXCEPT ![c] = [pc   |-> IF shared THEN "install" ELSE "serving",
                                  snap |-> [id |-> gets', entry |-> e], then |-> "idle"]]

\* Fault: the base just opened is not closed when its entry exists.
GetKeyed_KeepsSpare(c, key) ==
  /\ conn[c].pc = "get" /\ lock = NoConn /\ gets < MaxGets /\ ~serverClosed
  /\ IF roFiles[key] # 0
     THEN LET e == roFiles[key] IN
          /\ entries' = Append([entries EXCEPT ![e] =
               [key |-> @.key, refcount |-> @.refcount + 1,
                idleSince |-> IF @.refcount = 0 THEN 0 ELSE @.idleSince, open |-> @.open]],
               [SpareBase(key) EXCEPT !.open = TRUE])
          /\ active' = IF entries[e].refcount = 0 THEN active + 1 ELSE active
          /\ Opened(c, e)
          /\ UNCHANGED roFiles
     ELSE LET e == Len(entries) + 1 IN
          /\ EvictIdle(Append(entries, NewEntry(key)), [roFiles EXCEPT ![key] = e])
          /\ active' = active + 1
          /\ Opened(c, e)
  /\ UNCHANGED <<roFileNoKey, nextIdleSeq, shared, sharedSnap, lock, serverClosed>>

\* getBaseImageState for a keyed source: reuse the entry, active or idle (the
\* base just opened is closed again), or make one.
GetKeyed(c, key) ==
  /\ conn[c].pc = "get" /\ lock = NoConn /\ gets < MaxGets /\ ~serverClosed
  /\ IF roFiles[key] # 0
     THEN LET e == roFiles[key] IN
          /\ entries' = Append([entries EXCEPT ![e] =
               [key |-> @.key, refcount |-> @.refcount + 1,
                idleSince |-> IF @.refcount = 0 THEN 0 ELSE @.idleSince, open |-> @.open]],
               SpareBase(key))
          /\ active' = IF entries[e].refcount = 0 THEN active + 1 ELSE active
          /\ Opened(c, e)
          /\ UNCHANGED roFiles
     ELSE LET e == Len(entries) + 1 IN
          /\ EvictIdle(Append(entries, NewEntry(key)), [roFiles EXCEPT ![key] = e])
          /\ active' = active + 1
          /\ Opened(c, e)
  /\ UNCHANGED <<roFileNoKey, nextIdleSeq, shared, sharedSnap, lock, serverClosed>>

\* After Close the map is nil and storing into it panics.
GetAfterClose(c) ==
  /\ conn[c].pc = "get" /\ lock = NoConn /\ gets < MaxGets /\ serverClosed /\ Keys # {}
  /\ conn' = [conn EXCEPT ![c].pc = "panic"]
  /\ UNCHANGED <<entries, roFiles, roFileNoKey, nextIdleSeq, active, shared, sharedSnap,
                 lock, gets, serverClosed>>

\* Fault: s.mu is released between reading the count and sharing the entry.
GetNoKey_Unlocks(c) ==
  LET old == roFileNoKey
      e   == Len(entries) + 1
  IN
  /\ conn[c].pc = "get" /\ lock = NoConn /\ gets < MaxGets
  /\ IF old # 0 /\ entries[old].refcount > 0
     THEN /\ conn' = [conn EXCEPT ![c].pc = "sharing", ![c].snap = [id |-> 0, entry |-> old]]
          /\ UNCHANGED <<entries, roFileNoKey, active, gets, lock>>
     ELSE /\ entries' = Append([i \in DOMAIN entries |->
                                  IF i = old THEN [entries[i] EXCEPT !.open = FALSE] ELSE entries[i]],
                               NewEntry(NoKey))
          /\ roFileNoKey' = e
          /\ active' = active + 1
          /\ Opened(c, e)
          /\ UNCHANGED lock
  /\ UNCHANGED <<roFiles, nextIdleSeq, shared, sharedSnap, serverClosed>>

\* getBaseImageState for a source without a key: an active entry is shared
\* (its count is read here and raised in a second step, with s.mu held); an
\* idle one is closed and replaced.
GetNoKey(c) ==
  LET old == roFileNoKey
      e   == Len(entries) + 1
  IN
  /\ conn[c].pc = "get" /\ lock = NoConn /\ gets < MaxGets
  /\ IF old # 0 /\ entries[old].refcount > 0
     THEN /\ conn' = [conn EXCEPT ![c] =
               [pc |-> "sharing", snap |-> [id |-> 0, entry |-> old], then |-> "idle"]]
          /\ lock' = c
          /\ UNCHANGED <<entries, roFileNoKey, active, gets>>
     ELSE /\ entries' = Append([i \in DOMAIN entries |->
                                  IF i = old THEN [entries[i] EXCEPT !.open = FALSE] ELSE entries[i]],
                               NewEntry(NoKey))
          /\ roFileNoKey' = e
          /\ active' = active + 1
          /\ Opened(c, e)
          /\ UNCHANGED lock
  /\ UNCHANGED <<roFiles, nextIdleSeq, shared, sharedSnap, serverClosed>>

ShareNoKey(c) ==
  LET e == conn[c].snap.entry IN
  /\ conn[c].pc = "sharing"
  /\ entries' = Append([entries EXCEPT ![e].refcount = @ + 1], SpareBase(NoKey))
  /\ Opened(c, e)
  /\ lock' = NoConn
  /\ UNCHANGED <<roFiles, roFileNoKey, nextIdleSeq, active, shared, sharedSnap, serverClosed>>

\* Fault: the snapshot of a handler that lost the race is not closed.
Install_KeepsLoser(c) ==
  /\ conn[c].pc = "install" /\ lock = NoConn
  /\ sharedSnap' = IF sharedSnap = NoSnap THEN conn[c].snap ELSE sharedSnap
  /\ conn' = [conn EXCEPT ![c].pc = "serving", ![c].snap = sharedSnap']
  /\ UNCHANGED <<entries, roFiles, roFileNoKey, nextIdleSeq, active, shared, lock, gets, serverClosed>>

\* The first snapshot becomes the shared one; a handler that comes second
\* closes its own and uses the other.
Install(c) ==
  /\ conn[c].pc = "install" /\ lock = NoConn
  /\ IF sharedSnap = NoSnap
     THEN /\ sharedSnap' = conn[c].snap
          /\ conn' = [conn EXCEPT ![c].pc = "serving"]
     ELSE /\ conn' = [conn EXCEPT ![c] = [pc |-> "close", snap |-> @.snap, then |-> "serving"]]
          /\ UNCHANGED sharedSnap
  /\ UNCHANGED <<entries, roFiles, roFileNoKey, nextIdleSeq, active, shared, lock, gets, serverClosed>>

\* newSnapshot cannot create its file: the reference is given back.
SnapshotFails(c) ==
  /\ conn[c].pc = "install"
  /\ conn' = [conn EXCEPT ![c].pc = "close"]
  /\ UNCHANGED <<entries, roFiles, roFileNoKey, nextIdleSeq, active, shared, sharedSnap,
                 lock, gets, serverClosed>>

\* The connection ends; only a snapshot of its own is closed.
Disconnect(c) ==
  /\ conn[c].pc = "serving"
  /\ conn' = [conn EXCEPT ![c] = IF shared THEN IdleConn ELSE [@ EXCEPT !.pc = "close"]]
  /\ UNCHANGED <<entries, roFiles, roFileNoKey, nextIdleSeq, active, shared, sharedSnap,
                 lock, gets, serverClosed>>

-----------------------------------------------------------------------------
(* Snapshot.Close: releaseBaseImageState *)

\* What the handler does after the release: end, or go on with the shared
\* snapshot, which is read again without the lock and is nil after Close.
Released(c) ==
  IF conn[c].then = "idle" THEN IdleConn
  ELSE [pc   |-> IF sharedSnap = NoSnap THEN "panic" ELSE "serving",
        snap |-> sharedSnap, then |-> "idle"]

\* Under the entry's own mutex only.
Release(c) ==
  LET e  == conn[c].snap.entry
      rc == entries[e].refcount - 1
  IN
  /\ conn[c].pc = "close"
  /\ entries' = [entries EXCEPT ![e].refcount = rc]
  /\ active' = IF rc > 0 THEN active ELSE active - 1
  /\ conn' = [conn EXCEPT ![c] = IF rc > 0 THEN Released(c) ELSE [@ EXCEPT !.pc = "zero"]]
  /\ UNCHANGED <<roFiles, roFileNoKey, nextIdleSeq, shared, sharedSnap, lock, gets, serverClosed>>

\* Later, with s.mu: a keyed entry is stamped and joins the idle ones.
ReleaseIdle(c) ==
  LET e == conn[c].snap.entry IN
  /\ conn[c].pc = "zero" /\ lock = NoConn
  /\ IF entries[e].key = NoKey
     THEN UNCHANGED <<entries, roFiles, nextIdleSeq>>
     ELSE /\ nextIdleSeq' = nextIdleSeq + 1
          /\ EvictIdle([entries EXCEPT ![e].idleSince = nextIdleSeq + 1], roFiles)
  /\ conn' = [conn EXCEPT ![c] = Released(c)]
  /\ UNCHANGED <<roFileNoKey, active, shared, sharedSnap, lock, gets, serverClosed>>

\* Server.Close: forget all entries, close the shared snapshot, close the
\* bases, whether they are in use or not.
ServerClose ==
  LET cached == {roFiles[k] : k \in Keys} \cup {roFileNoKey}
      rc     == IF sharedSnap = NoSnap THEN 1 ELSE entries[sharedSnap.entry].refcount - 1
  IN
  /\ ~serverClosed /\ serverClosed' = TRUE /\ lock = NoConn
  /\ entries' = [e \in DOMAIN entries |->
                   [key |-> entries[e].key,
                    refcount |-> IF e = sharedSnap.entry THEN rc ELSE entries[e].refcount,
                    idleSince |-> entries[e].idleSince,
                    open |-> entries[e].open /\ e \notin cached]]
  /\ active' = IF rc > 0 THEN active ELSE active - 1
  /\ roFiles' = [k \in Keys |-> 0] /\ roFileNoKey' = 0
  /\ sharedSnap' = NoSnap
  /\ UNCHANGED <<nextIdleSeq, shared, conn, lock, gets>>

-----------------------------------------------------------------------------

ServerInit ==
  /\ entries = <<>> /\ roFiles = [k \in Keys |-> 0] /\ roFileNoKey = 0
  /\ nextIdleSeq = 0 /\ active = 0
  /\ shared \in BOOLEAN /\ sharedSnap = NoSnap
  /\ conn = [c \in Conns |-> IdleConn]
  /\ lock = NoConn /\ gets = 0 /\ serverClosed = FALSE

\* A panic ends the process.
Alive == \A c \in Conns : conn[c].pc # "panic"

HandleConn(c) ==
  \/ Connect(c) \/ GetFails(c) \/ (\E key \in Keys : GetKeyed(c, key)) \/ GetAfterClose(c)
  \/ GetNoKey(c) \/ ShareNoKey(c) \/ Install(c) \/ SnapshotFails(c) \/ Disconnect(c)
  \/ Release(c) \/ ReleaseIdle(c)

ServerNext == Alive /\ (ServerClose \/ \E c \in Conns : HandleConn(c))

ServerSpec == ServerInit /\ [][ServerNext]_serverVars

-----------------------------------------------------------------------------
(* Properties *)

\* Type invariant.
ServerTypeOK ==
  /\ entries \in Seq(States)
  /\ roFiles \in [Keys -> 0..Len(entries)] /\ roFileNoKey \in 0..Len(entries)
  /\ nextIdleSeq \in Nat /\ active \in Int /\ shared \in BOOLEAN
  /\ sharedSnap \in Snapshots
  /\ conn \in [Conns -> Handlers]
  /\ lock \in Conns \cup {NoConn} /\ gets \in Nat /\ serverClosed \in BOOLEAN

\* The handlers that have a snapshot of their own.
Owns(c) == conn[c].pc \in {"install", "close"} \/ (conn[c].pc = "serving" /\ ~shared)

\* The snapshots in existence: each has one reference to its entry.
Snaps ==
  {conn[c].snap : c \in {d \in Conns : Owns(d)}} \cup ({sharedSnap} \ {NoSnap})

\* Every reference is counted once and given back once, on all paths through
\* getOrCreateSnapshot: lost races, failures and the shared snapshot included.
RefcountExact ==
  \A e \in DOMAIN entries :
    entries[e].refcount = Cardinality({s \in Snaps : s.entry = e})

\* Until the server is closed, the base image of a snapshot that is in use is
\* never closed, although counts drop to zero outside the lock under which
\* entries are evicted and replaced.
InUseIsOpen == ~serverClosed => \A s \in Snaps : entries[s.entry].open

\* At most MaxIdleBase idle entries are cached, once the releases in progress
\* have got the lock.
IdleBounded ==
  (\A c \in Conns : conn[c].pc # "zero") => Cardinality(Idle(entries, roFiles)) <= MaxIdleBase

\* Until the server is closed, every base image that is open is a cached entry's:
\* neither one that getBase opened for an entry that exists, nor one that was
\* evicted or replaced, is left open.
NoBaseLeaks ==
  ~serverClosed => \A e \in DOMAIN entries : entries[e].open =>
    e \in {roFiles[k] : k \in Keys} \cup {roFileNoKey}
=============================================================================
