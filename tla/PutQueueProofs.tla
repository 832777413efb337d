--------------------------- MODULE PutQueueProofs ---------------------------
(***************************************************************************)
(* Proofs about the PUT pipeline, for any number of PUTs, keys, contents   *)
(* and movers, any lane capacity and any number of crashes.                *)
(***************************************************************************)
EXTENDS PutQueue, FiniteSetTheorems, TLAPS

-----------------------------------------------------------------------------
(* Type correctness *)

\* The initial state of the server is well typed.
LEMMA TypeInit == Init => TypeOK
BY PutQueueAssumption
DEF Init, TypeOK, HandlerState, MoverState, SweeperState, ReaderState, IdleFlusher,
    IdleEvictor

\* No step of a handler, mover, flusher, sweeper, evictor or reader, and no
\* crash, takes a variable out of its type.
LEMMA TypeNext == TypeOK /\ [Next]_vars => TypeOK'
<1> SUFFICES ASSUME TypeOK, [Next]_vars
             PROVE  TypeOK'
  OBVIOUS
<1> USE PutQueueAssumption
    DEF TypeOK, HandlerState, Intents, lanes, disk, db, env
<1>1. ASSUME NEW p \in Puts, Handler(p)
      PROVE  TypeOK'
  <2>1. Weight(p) \in Nat
    BY DEF Weight
  <2>2. CASE ReserveInline(p) \/ ReserveBytes(p) \/ ReserveCount(p)
    BY <2>1, <2>2 DEF ReserveInline, ReserveBytes, ReserveCount
  <2>3. CASE CancelReserve(p)
    BY <2>1, <2>3 DEF CancelReserve
  <2>4. CASE ReadBody(p)
    BY <2>4 DEF ReadBody
  <2>5. CASE ReadBodyFails(p)
    BY <2>1, <2>5 DEF ReadBodyFails, Unreserve
  <2>6. CASE Enqueue(p)
    BY <2>1, <2>6 DEF Enqueue, Unreserve
  <2> QED
    BY <1>1, <2>2, <2>3, <2>4, <2>5, <2>6 DEF Handler
<1>2. ASSUME NEW p \in Puts, Retire(p)
      PROVE  /\ pending' \in [Keys -> Puts \cup {NoPut}]
             /\ inlineSem' \in Int /\ countSem' \in Int /\ bytesSem' \in Int
  <2>1. Weight(p) \in Nat
    BY DEF Weight
  <2> QED
    BY <1>2, <2>1 DEF Retire, Unreserve
<1>3. ASSUME NEW k \in Keys, Excuse(k)
      PROVE  reader' \in ReaderState
  <2>1. CASE reader = IdleReader
    BY <1>3, <2>1 DEF Excuse, ReaderState, IdleReader
  <2>2. CASE reader # IdleReader
    BY <1>3, <2>2 DEF Excuse, ReaderState
  <2> QED
    BY <2>1, <2>2
<1>4. ASSUME NEW p \in Puts, Drop(p)
      PROVE  /\ pending' \in [Keys -> Puts \cup {NoPut}]
             /\ inlineSem' \in Int /\ countSem' \in Int /\ bytesSem' \in Int
             /\ spool' \subseteq Puts
             /\ reader' \in ReaderState
  BY <1>2, <1>3, <1>4 DEF Drop
<1>5. ASSUME NEW m \in Movers, Mover(m)
      PROVE  TypeOK'
  <2>1. mover[m].pc # "idle" => mover[m] \in [pc : {"stat", "intent", "copy"}, put : Puts, try : Nat]
    BY DEF MoverState, IdleMover
  <2>2. CASE MoverTake(m)
    BY <2>2 DEF MoverTake, MoverState
  <2>3. CASE MoverStat(m)
    BY <2>1, <2>3 DEF MoverStat, MoverState
  <2>4. CASE MoverWriteIntent(m)
    BY <2>1, <2>4 DEF MoverWriteIntent, Due, MoverState
  <2>5. CASE MoverCopy(m)
    BY <2>1, <2>5 DEF MoverCopy, MoverState
  <2>6. CASE MoverFails(m)
    <3>1. mover' \in [Movers -> MoverState]
      <4>1. CASE mover' = [mover EXCEPT ![m] = IdleMover]
        BY <4>1 DEF MoverState
      <4>2. CASE mover' = [mover EXCEPT ![m].pc = "stat", ![m].try = @ + 1]
        <5>1. mover[m] \in [pc : {"stat", "intent", "copy"}, put : Puts, try : Nat]
          BY <2>1, <2>6 DEF MoverFails
        <5>2. mover' = [mover EXCEPT ![m] = [pc |-> "stat", put |-> mover[m].put,
                                             try |-> mover[m].try + 1]]
          BY <4>2, <5>1
        <5> QED
          BY <5>1, <5>2 DEF MoverState
      <4> QED
        BY <2>6, <4>1, <4>2 DEF MoverFails
    <3>2. mover[m].put \in Puts
      BY <2>1, <2>6 DEF MoverFails
    <3>3. Due(mover[m].put) \in Nat /\ ShaOf[mover[m].put] \in Shas
      BY <3>2 DEF Due
    <3>4. intentPath' \in [Puts -> Nat] /\ cleanup' \subseteq Nat \X Shas
      BY <2>6, <3>3 DEF MoverFails
    <3>5. CASE Drop(mover[m].put)
      BY <1>4, <2>6, <3>1, <3>2, <3>4, <3>5 DEF MoverFails
    <3>6. CASE UNCHANGED <<pending, lanes, spool, reader>>
      BY <2>6, <3>1, <3>4, <3>6 DEF MoverFails
    <3> QED
      BY <2>6, <3>5, <3>6 DEF MoverFails
  <2>7. CASE MoverDeleteIntent(m)
    BY <2>7 DEF MoverDeleteIntent
  <2> QED
    BY <1>5, <2>2, <2>3, <2>4, <2>5, <2>6, <2>7 DEF Mover
<1>6. CASE Flusher
  <2>1. CommitBatch => actions' \in [Keys -> Shas \cup {NoSha}] /\ blobs' \subseteq Shas
    BY DEF CommitBatch
  <2>2. CASE FlusherTake
    BY <2>2 DEF FlusherTake
  <2>3. CASE FlusherFire
    BY <2>3 DEF FlusherFire
  <2>4. CASE FlushCommits
    BY <2>1, <2>4 DEF FlushCommits
  <2>5. CASE FlushFails
    BY <2>1, <2>5 DEF FlushFails
  <2>6. ASSUME NEW p \in Puts, FlushDrops(p)
        PROVE  TypeOK'
    BY <1>4, <2>6 DEF FlushDrops, BatchWithout, IdleFlusher
  <2>7. ASSUME NEW p \in Puts, FinishCommitted(p)
        PROVE  TypeOK'
    BY <1>2, <2>7 DEF FinishCommitted, BatchWithout, IdleFlusher
  <2> QED
    BY <1>6, <2>2, <2>3, <2>4, <2>5, <2>6, <2>7 DEF Flusher
<1>7. CASE Sweeper
  <2>1. sweeper.pc # "idle" => sweeper \in [pc : {"norow", "remove", "unlink"}, intent : Intents]
    BY DEF SweeperState, IdleSweeper
  <2>2. ASSUME NEW i \in listed, SweepQuery(i)
        PROVE  TypeOK'
    BY <2>2 DEF SweepQuery, SweeperState
  <2>3. CASE SweepCheckPending
    BY <2>1, <2>3 DEF SweepCheckPending, SweeperState
  <2>4. CASE SweepRemoveBlob \/ SweepRemoveFails \/ SweepUnlinkIntent
    BY <2>1, <2>4 DEF SweepRemoveBlob, SweepRemoveFails, SweepUnlinkIntent, SweeperState
  <2>5. CASE SweepList \/ SweepFails
    BY <2>5 DEF SweepList, SweepFails
  <2> QED
    BY <1>7, <2>2, <2>3, <2>4, <2>5 DEF Sweeper
<1>8. CASE Evictor
  <2>1. CASE EvictQuery
    BY <2>1 DEF EvictQuery
  <2>2. CASE EvictRemoveFiles
    <3>1. reader' \in ReaderState
      <4>1. CASE reader = IdleReader
        BY <2>2, <4>1 DEF EvictRemoveFiles, ReaderState, IdleReader
      <4>2. CASE reader # IdleReader
        BY <2>2, <4>2 DEF EvictRemoveFiles, ReaderState
      <4> QED
        BY <4>1, <4>2
    <3> QED
      BY <2>2, <3>1 DEF EvictRemoveFiles, Orphaned
  <2>3. CASE EvictCommits
    BY <2>3 DEF EvictCommits, IdleEvictor
  <2>4. CASE EvictRollsBack
    BY <2>4 DEF EvictRollsBack, IdleEvictor
  <2> QED
    BY <1>8, <2>1, <2>2, <2>3, <2>4 DEF Evictor
<1>9. CASE Reader
  <2>1. ASSUME NEW k \in ReadKeys, GetLookup(k)
        PROVE  TypeOK'
    BY <2>1 DEF GetLookup, ReaderState
  <2>2. reader.pc # "idle" => reader \in ReaderState \ {IdleReader}
    BY DEF IdleReader
  <2>3. CASE GetOpenSpool
    BY <2>2, <2>3 DEF GetOpenSpool, ReaderState
  <2>4. CASE GetQuery
    BY <2>2, <2>4 DEF GetQuery, ReaderState
  <2>5. CASE GetOpenMain
    BY <2>2, <2>5 DEF GetOpenMain, ReaderState
  <2> QED
    BY <1>9, <2>1, <2>3, <2>4, <2>5 DEF Reader
<1>10. CASE Tick
  BY <1>10 DEF Tick
<1>11. CASE CrashRestart
  BY <1>11 DEF CrashRestart, MoverState, SweeperState, ReaderState, IdleFlusher, IdleEvictor
<1>12. CASE UNCHANGED vars
  BY <1>12 DEF vars
<1> QED
  BY <1>1, <1>5, <1>6, <1>7, <1>8, <1>9, <1>10, <1>11, <1>12 DEF Next

\* Every reachable state of the server is well typed.
THEOREM TypeCorrect == Spec => []TypeOK
BY TypeInit, TypeNext, PTL DEF Spec

-----------------------------------------------------------------------------
(* Every pending entry is in exactly one worker's hands, with its file *)

\* An entry is in the map only once its handler has acknowledged it.
PendingAcked == \A p \in Puts : IsPending(p) => hst[p] = "acked"

\* A handler that has read its body has spooled it.
SpooledHasFile == \A p \in Puts : hst[p] = "spooled" /\ ~IsInline(p) => p \in spool

\* Every pending entry is somewhere in the pipeline ...
Tracked == \A p \in Puts :
  IsPending(p) => \/ p \in moverCh \/ p \in flushCh \/ p \in flusher.batch
                  \/ \E m \in Movers : mover[m].put = p

\* ... nothing else is, and no entry is in two places.
InMoverCh == \A p \in moverCh : /\ IsPending(p)
                                /\ p \notin flushCh /\ p \notin flusher.batch
                                /\ \A m \in Movers : mover[m].put # p
InMover == \A m \in Movers : mover[m].put \in Puts =>
                /\ IsPending(mover[m].put)
                /\ mover[m].put \notin flushCh /\ mover[m].put \notin flusher.batch
                /\ \A n \in Movers : mover[n].put = mover[m].put => n = m
InFlushCh == \A p \in flushCh : IsPending(p) /\ p \notin flusher.batch
InFlusher == \A p \in flusher.batch : IsPending(p)

PipelineInv == /\ PendingAcked /\ SpooledHasFile /\ PendingServable
               /\ Tracked /\ InMoverCh /\ InMover /\ InFlushCh /\ InFlusher

\* The pipeline starts empty.
LEMMA PipelineInit == Init => PipelineInv
BY PutQueueAssumption
DEF Init, PipelineInv, PendingAcked, SpooledHasFile, PendingServable, Tracked, InMoverCh,
    InMover, InFlushCh, InFlusher, IsPending, IdleMover, IdleFlusher

\* Steps that touch neither the map, the channels, the workers' hands nor the
\* spool preserve the pipeline invariant.
LEMMA PipelineFrame ==
  ASSUME PipelineInv, flusher'.batch = flusher.batch,
         UNCHANGED <<hst, pending, moverCh, flushCh, mover, spool>>
  PROVE  PipelineInv'
BY DEF PipelineInv, PendingAcked, SpooledHasFile, PendingServable, Tracked, InMoverCh,
       InMover, InFlushCh, InFlusher, IsPending, IsInline

\* Retiring an entry that one worker alone holds, while that worker lets go
\* of it, preserves the pipeline invariant.
LEMMA PipelineRetire ==
  ASSUME TypeOK, PipelineInv, NEW p \in Puts, Retire(p), IsPending(p),
         spool' = spool \ {p}, UNCHANGED <<hst, moverCh, flushCh>>,
         p \notin moverCh, p \notin flushCh,
         \A q \in Puts \ {p} : q \in flusher.batch <=> q \in flusher'.batch,
         p \notin flusher'.batch, flusher'.batch \subseteq Puts,
         \A m \in Movers : IF mover[m].put = p THEN mover'[m] = IdleMover
                                               ELSE mover'[m] = mover[m]
  PROVE  PipelineInv'
<1> USE PutQueueAssumption DEF IsPending, IsInline
<1>1. pending' = [pending EXCEPT ![KeyOf[p]] = NoPut]
  BY DEF Retire
<1>2. \A q \in Puts : IsPending(q)' <=> IsPending(q) /\ q # p
  BY <1>1 DEF TypeOK
<1>3. \A m \in Movers : mover'[m].put \in Puts =>
        mover'[m] = mover[m] /\ mover[m].put # p
  BY DEF IdleMover
<1>4. PendingAcked' /\ SpooledHasFile' /\ PendingServable'
  BY <1>2 DEF PipelineInv, PendingAcked, SpooledHasFile, PendingServable
<1>5. Tracked'
  BY <1>2 DEF PipelineInv, Tracked
<1>6. InMoverCh'
  BY <1>2, <1>3 DEF PipelineInv, InMoverCh, TypeOK
<1>7. InMover'
  BY <1>2, <1>3 DEF PipelineInv, InMover
<1>8. InFlushCh' /\ InFlusher'
  BY <1>2 DEF PipelineInv, InFlushCh, InFlusher, TypeOK
<1> QED
  BY <1>4, <1>5, <1>6, <1>7, <1>8 DEF PipelineInv

\* Every step of the server preserves the pipeline invariant.
LEMMA PipelineNext == TypeOK /\ PipelineInv /\ [Next]_vars => PipelineInv'
<1> SUFFICES ASSUME TypeOK, PipelineInv, [Next]_vars
             PROVE  PipelineInv'
  OBVIOUS
<1> USE PutQueueAssumption DEF IsPending, IsInline
<1>0. \A m \in Movers : mover[m].pc # "idle" => mover[m].put \in Puts
  BY DEF TypeOK, MoverState, IdleMover
<1>1. ASSUME NEW p \in Puts, Handler(p)
      PROVE  PipelineInv'
  <2>1. CASE ReserveInline(p) \/ ReserveBytes(p) \/ ReserveCount(p) \/ CancelReserve(p)
              \/ ReadBodyFails(p)
    <3>1. /\ UNCHANGED <<pending, moverCh, flushCh, mover, spool, flusher>>
          /\ hst[p] # "acked"
          /\ hst' \in [Puts -> HandlerState]
          /\ hst'[p] # "spooled" /\ \A q \in Puts \ {p} : hst'[q] = hst[q]
      BY <2>1 DEF ReserveInline, ReserveBytes, ReserveCount, CancelReserve, ReadBodyFails,
                  TypeOK, HandlerState
    <3> QED
      BY <3>1 DEF PipelineInv, PendingAcked, SpooledHasFile, PendingServable, Tracked,
                  InMoverCh, InMover, InFlushCh, InFlusher
  <2>2. CASE ReadBody(p)
    BY <2>2 DEF ReadBody, TypeOK, HandlerState, PipelineInv, PendingAcked, SpooledHasFile,
                PendingServable, Tracked, InMoverCh, InMover, InFlushCh, InFlusher
  <2>3. CASE Enqueue(p) /\ pending[KeyOf[p]] # NoPut
    BY <2>3 DEF Enqueue, TypeOK, HandlerState, PipelineInv, PendingAcked, SpooledHasFile,
                PendingServable, Tracked, InMoverCh, InMover, InFlushCh, InFlusher
  <2>4. CASE Enqueue(p) /\ pending[KeyOf[p]] = NoPut
    <3>1. \A q \in Puts : IsPending(q)' <=> IsPending(q) \/ q = p
      BY <2>4 DEF Enqueue, TypeOK
    <3>2. ~IsPending(p)
      BY <2>4
    <3>3. /\ UNCHANGED <<mover, flusher, spool>>
          /\ hst[p] = "spooled" /\ hst' = [hst EXCEPT ![p] = "acked"]
          /\ moverCh' = IF IsInline(p) THEN moverCh ELSE moverCh \cup {p}
          /\ flushCh' = IF IsInline(p) THEN flushCh \cup {p} ELSE flushCh
      BY <2>4 DEF Enqueue
    <3>4. PendingAcked' /\ SpooledHasFile' /\ PendingServable'
      BY <3>1, <3>3 DEF PipelineInv, PendingAcked, SpooledHasFile, PendingServable, TypeOK
    <3>5. Tracked'
      BY <3>1, <3>3 DEF PipelineInv, Tracked
    <3>6. InMoverCh'
      BY <3>1, <3>2, <3>3 DEF PipelineInv, InMoverCh, InMover, InFlushCh, InFlusher, TypeOK
    <3>7. InMover' /\ InFlushCh' /\ InFlusher'
      BY <3>1, <3>2, <3>3 DEF PipelineInv, InMover, InFlushCh, InFlusher, TypeOK
    <3> QED
      BY <3>4, <3>5, <3>6, <3>7 DEF PipelineInv
  <2> QED
    BY <1>1, <2>1, <2>2, <2>3, <2>4 DEF Handler
<1>2. ASSUME NEW m \in Movers, MoverTake(m)
      PROVE  PipelineInv'
  BY <1>2 DEF MoverTake, TypeOK, MoverState, IdleMover, PipelineInv, PendingAcked,
              SpooledHasFile, PendingServable, Tracked, InMoverCh, InMover, InFlushCh, InFlusher
\* A mover hands its entry to the flusher.
<1>3. ASSUME NEW m \in Movers, mover[m].pc # "idle",
             flushCh' = flushCh \cup {mover[m].put},
             mover' = [mover EXCEPT ![m] = IdleMover],
             UNCHANGED <<hst, pending, moverCh, flusher, spool>>
      PROVE  PipelineInv'
  BY <1>0, <1>3 DEF TypeOK, MoverState, IdleMover, PipelineInv, PendingAcked,
              SpooledHasFile, PendingServable, Tracked, InMoverCh, InMover, InFlushCh, InFlusher
\* A mover keeps its entry.
<1>4. ASSUME \A n \in Movers : mover'[n].put = mover[n].put,
             UNCHANGED <<hst, pending, moverCh, flushCh, flusher, spool>>
      PROVE  PipelineInv'
  BY <1>4 DEF PipelineInv, PendingAcked, SpooledHasFile, PendingServable, Tracked,
              InMoverCh, InMover, InFlushCh, InFlusher
<1>5. ASSUME NEW m \in Movers, MoverFails(m)
      PROVE  PipelineInv'
  <2>1. mover[m].put \in Puts /\ mover[m].pc # "idle"
    BY <1>0, <1>5 DEF MoverFails
  <2>2. CASE mover[m].try + 1 < CopyRetries
    <3>1. \A n \in Movers : mover'[n].put = mover[n].put
      BY <1>5, <2>2 DEF MoverFails, TypeOK, MoverState, IdleMover
    <3> QED
      BY <1>4, <1>5, <2>2, <3>1 DEF MoverFails
  <2>3. CASE ~(mover[m].try + 1 < CopyRetries)
    <3> DEFINE p == mover[m].put
    <3>1. IsPending(p) /\ p \notin moverCh /\ p \notin flushCh /\ p \notin flusher.batch
          /\ \A n \in Movers : mover[n].put = p => n = m
      BY <2>1 DEF PipelineInv, InMoverCh, InMover
    <3>2. /\ Retire(p) /\ spool' = spool \ {p}
          /\ mover' = [mover EXCEPT ![m] = IdleMover]
          /\ UNCHANGED <<hst, moverCh, flushCh, flusher>>
      BY <1>5, <2>3, <3>1 DEF MoverFails, Drop
    <3>3. \A n \in Movers : IF mover[n].put = p THEN mover'[n] = IdleMover
                                                ELSE mover'[n] = mover[n]
      BY <3>1, <3>2 DEF TypeOK
    <3> HIDE DEF p
    <3>4. p \in Puts
      BY <2>1 DEF p
    <3> QED
      BY <3>1, <3>2, <3>3, <3>4, PipelineRetire DEF TypeOK
  <2> QED
    BY <2>2, <2>3
<1>6. ASSUME NEW m \in Movers, Mover(m)
      PROVE  PipelineInv'
  <2>1. CASE MoverStat(m)
    <3>1. CASE ShaOf[mover[m].put] \in main
      BY <1>3, <2>1, <3>1 DEF MoverStat
    <3>2. CASE ShaOf[mover[m].put] \notin main
      <4>1. \A n \in Movers : mover'[n].put = mover[n].put
        BY <2>1, <3>2 DEF MoverStat, TypeOK, MoverState, IdleMover
      <4> QED
        BY <1>4, <2>1, <3>2, <4>1 DEF MoverStat
    <3> QED
      BY <3>1, <3>2
  <2>2. CASE MoverWriteIntent(m)
    <3>1. \A n \in Movers : mover'[n].put = mover[n].put
      BY <2>2 DEF MoverWriteIntent, TypeOK, MoverState, IdleMover
    <3> QED
      BY <1>4, <2>2, <3>1 DEF MoverWriteIntent
  <2>3. CASE MoverCopy(m)
    BY <1>3, <2>3 DEF MoverCopy
  <2>4. CASE MoverDeleteIntent(m)
    BY <2>4, PipelineFrame DEF MoverDeleteIntent
  <2> QED
    BY <1>2, <1>5, <1>6, <2>1, <2>2, <2>3, <2>4 DEF Mover
<1>7. CASE FlusherTake
  BY <1>7 DEF FlusherTake, TypeOK, PipelineInv, PendingAcked, SpooledHasFile,
              PendingServable, Tracked, InMoverCh, InMover, InFlushCh, InFlusher
<1>8. CASE FlusherFire \/ FlushCommits \/ FlushFails
  <2>1. flusher'.batch = flusher.batch
    BY <1>8 DEF FlusherFire, FlushCommits, FlushFails, TypeOK
  <2> QED
    BY <1>8, <2>1, PipelineFrame DEF FlusherFire, FlushCommits, FlushFails
\* The flusher retires one entry of its batch.
<1>9. ASSUME NEW p \in Puts, FlushDrops(p) \/ FinishCommitted(p)
      PROVE  PipelineInv'
  <2>1. p \in flusher.batch
    BY <1>9 DEF FlushDrops, FinishCommitted
  <2>2. /\ IsPending(p) /\ p \notin moverCh /\ p \notin flushCh
        /\ \A m \in Movers : mover[m].put # p
    BY <2>1 DEF PipelineInv, InMoverCh, InMover, InFlushCh, InFlusher
  <2>3. /\ Retire(p) /\ spool' = spool \ {p}
        /\ flusher' = BatchWithout(p)
        /\ UNCHANGED <<hst, moverCh, flushCh, mover>>
    BY <1>9, <2>2 DEF FlushDrops, FinishCommitted, Drop
  <2>4. flusher'.batch = flusher.batch \ {p}
    BY <2>1, <2>3 DEF BatchWithout, IdleFlusher, TypeOK
  <2>5. flusher'.batch \subseteq Puts
    BY <2>4 DEF TypeOK
  <2> QED
    BY <2>2, <2>3, <2>4, <2>5, PipelineRetire
<1>10. CASE Flusher
  BY <1>7, <1>8, <1>9, <1>10 DEF Flusher
<1>11. CASE Sweeper \/ Evictor \/ Reader \/ Tick
  BY <1>11, PipelineFrame
  DEF Sweeper, SweepList, SweepQuery, SweepFails, SweepCheckPending, SweepRemoveBlob, SweepRemoveFails,
      SweepUnlinkIntent, Evictor, EvictQuery, EvictRemoveFiles, EvictCommits,
      EvictRollsBack, Reader, GetLookup, GetOpenSpool, GetQuery, GetOpenMain, Tick
<1>12. CASE CrashRestart
  BY <1>12 DEF CrashRestart, IdleMover, IdleFlusher, PipelineInv, PendingAcked,
               SpooledHasFile, PendingServable, Tracked, InMoverCh, InMover, InFlushCh,
               InFlusher
<1>13. CASE UNCHANGED vars
  BY <1>13, PipelineFrame DEF vars
<1> QED
  BY <1>1, <1>6, <1>10, <1>11, <1>12, <1>13 DEF Next

\* The pipeline invariant holds in every reachable state.
LEMMA PipelineAlways == Spec => [](TypeOK /\ PipelineInv)
BY TypeInit, TypeNext, PipelineInit, PipelineNext, PTL DEF Spec

\* A GET can serve every pending spooled entry: its spool file is there from
\* before the entry enters the map until after it leaves.
THEOREM PendingIsServable == Spec => []PendingServable
<1>1. PipelineInv => PendingServable
  BY DEF PipelineInv
<1> QED
  BY <1>1, PipelineAlways, PTL

\* Every pending entry is at exactly one place of the pipeline, whatever the
\* interleaving of handlers, movers and flusher, their failures, and crashes.
THEOREM EachEntryAtOneStation == Spec => []OneStation
<1>1. TypeOK /\ PipelineInv => OneStation
  <2> SUFFICES ASSUME TypeOK, PipelineInv, NEW p \in Puts
               PROVE  Cardinality(Stations(p)) = IF IsPending(p) THEN 1 ELSE 0
    BY DEF OneStation
  <2>1. CASE ~IsPending(p)
    <3>1. Stations(p) = {}
      BY <2>1 DEF Stations, PipelineInv, InMoverCh, InMover, InFlushCh, InFlusher
    <3> QED
      BY <2>1, <3>1, FS_EmptySet
  <2>2. CASE IsPending(p)
    <3>1. CASE p \in moverCh
      <4>1. Stations(p) = {<<"moverCh", 0>>}
        BY <3>1 DEF Stations, PipelineInv, InMoverCh
      <4> QED
        BY <2>2, <4>1, FS_Singleton
    <3>2. CASE p \in flushCh
      <4>1. Stations(p) = {<<"flushCh", 0>>}
        BY <3>2 DEF Stations, PipelineInv, InMoverCh, InMover, InFlushCh
      <4> QED
        BY <2>2, <4>1, FS_Singleton
    <3>3. CASE p \in flusher.batch
      <4>1. Stations(p) = {<<"flusher", 0>>}
        BY <3>3 DEF Stations, PipelineInv, InMoverCh, InMover, InFlushCh
      <4> QED
        BY <2>2, <4>1, FS_Singleton
    <3>4. ASSUME NEW m \in Movers, mover[m].put = p
          PROVE  Cardinality(Stations(p)) = 1
      <4>1. Stations(p) = {<<"mover", m>>}
        BY <3>4 DEF Stations, PipelineInv, InMoverCh, InMover
      <4> QED
        BY <4>1, FS_Singleton
    <3> QED
      BY <2>2, <3>1, <3>2, <3>3, <3>4 DEF PipelineInv, Tracked
  <2> QED
    BY <2>1, <2>2
<1> QED
  BY <1>1, PipelineAlways, PTL
-----------------------------------------------------------------------------
(* The lane caps bound the channels *)

\* A lane semaphore of capacity cap, held once by each member of S.
Lane(S, sem, cap) == IsFiniteSet(S) /\ sem = Cardinality(S) /\ sem <= cap

\* Acquiring a slot below the cap for a new holder keeps the account.
LEMMA LaneAdds ==
  ASSUME NEW S, NEW p, NEW sem \in Int, NEW cap \in Nat,
         Lane(S, sem, cap), p \notin S, sem < cap
  PROVE  Lane(S \cup {p}, sem + 1, cap)
BY FS_AddElement, FS_CardinalityType DEF Lane

\* Releasing the slot of a holder keeps the account.
LEMMA LaneRemoves ==
  ASSUME NEW S, NEW p, NEW sem \in Int, NEW cap \in Nat,
         Lane(S, sem, cap), p \in S
  PROVE  Lane(S \ {p}, sem - 1, cap)
BY FS_RemoveElement, FS_CardinalityType DEF Lane

\* A semaphore held by each member of S with its weight.
ByteLane(S, sem) == IsFiniteSet(BytesOf(S)) /\ sem = Cardinality(BytesOf(S))

\* The bytes of one PUT are as many as it weighs.
LEMMA OnesBytes ==
  ASSUME NEW p \in Puts
  PROVE  /\ Weight(p) \in Nat
         /\ IsFiniteSet({p} \X (1..Weight(p)))
         /\ Cardinality({p} \X (1..Weight(p))) = Weight(p)
<1>1. Weight(p) \in Nat
  BY PutQueueAssumption DEF Weight
<1> DEFINE n == Weight(p)
<1>2. n \in Nat
  BY <1>1
<1> HIDE DEF n
<1>3. IsFiniteSet(1..n) /\ Cardinality(1..n) = n
  BY <1>2, FS_Interval
<1>4. IsFiniteSet({p}) /\ Cardinality({p}) = 1
  BY FS_Singleton
<1>5. /\ IsFiniteSet({p} \X (1..n))
      /\ Cardinality({p} \X (1..n)) = Cardinality({p}) * Cardinality(1..n)
  BY ONLY <1>3, <1>4, FS_Product
<1>6. Cardinality({p} \X (1..n)) = n
  BY <1>2, <1>3, <1>4, <1>5
<1> QED
  BY <1>1, <1>5, <1>6 DEF n

\* Acquiring the weight of a new holder keeps the account.
LEMMA BytesAdd ==
  ASSUME NEW S \in SUBSET Puts, NEW p \in Puts, NEW sem \in Int,
         ByteLane(S, sem), p \notin S
  PROVE  ByteLane(S \cup {p}, sem + Weight(p))
<1> DEFINE B == BytesOf(S)
           C == {p} \X (1..Weight(p))
<1>1. BytesOf(S \cup {p}) = B \cup C
  BY DEF BytesOf
<1>2. B \cap C = {}
  BY DEF BytesOf
<1>3. /\ Weight(p) \in Nat /\ IsFiniteSet(C) /\ Cardinality(C) = Weight(p)
      /\ IsFiniteSet(B) /\ sem = Cardinality(B)
  BY OnesBytes DEF ByteLane
<1> HIDE DEF B, C
<1>4. /\ IsFiniteSet(B \cup C)
      /\ Cardinality(B \cup C) = Cardinality(B) + Cardinality(C) - Cardinality(B \cap C)
  BY ONLY <1>3, FS_Union
<1>5. Cardinality(B \cap C) = 0
  BY <1>2, FS_EmptySet
<1>6. Cardinality(B \cup C) = sem + Weight(p)
  BY <1>3, <1>4, <1>5
<1> QED
  BY <1>1, <1>4, <1>6 DEF ByteLane

\* Releasing the weight of a holder keeps the account.
LEMMA BytesRemove ==
  ASSUME NEW S \in SUBSET Puts, NEW p \in S, NEW sem \in Int,
         ByteLane(S, sem)
  PROVE  ByteLane(S \ {p}, sem - Weight(p))
<1> DEFINE B == BytesOf(S)
           C == {p} \X (1..Weight(p))
<1>1. BytesOf(S \ {p}) = B \ C
  BY DEF BytesOf
<1>2. B \cap C = C
  BY DEF BytesOf
<1>3. /\ Weight(p) \in Nat /\ IsFiniteSet(C) /\ Cardinality(C) = Weight(p)
      /\ IsFiniteSet(B) /\ sem = Cardinality(B)
  BY OnesBytes DEF ByteLane
<1> HIDE DEF B, C
<1>4. /\ IsFiniteSet(B \ C)
      /\ Cardinality(B \ C) = Cardinality(B) - Cardinality(B \cap C)
  BY ONLY <1>3, FS_Difference
<1>5. Cardinality(B \ C) = sem - Weight(p)
  BY <1>2, <1>3, <1>4
<1> QED
  BY <1>1, <1>4, <1>5 DEF ByteLane

\* Each lane's semaphore counts the PUTs that hold a slot of it, or their bytes,
\* and only spooled entries wait for an entry slot or for a mover.
LaneInv == /\ Lane(InlineHolders, inlineSem, InlineCap)
           /\ Lane(SpoolHolders, countSem, CountCap)
           /\ ByteLane(BytesHolders, bytesSem)
           /\ \A p \in Puts : hst[p] = "bytesHeld" => ~IsInline(p)
           /\ \A p \in moverCh : ~IsInline(p)

\* Both lanes are free at first.
LEMMA LaneInit == Init => LaneInv
<1> SUFFICES ASSUME Init
             PROVE  LaneInv
  OBVIOUS
<1> USE PutQueueAssumption
<1>1. Holders = {}
  BY DEF Init, Holders, IsPending
<1>2. /\ inlineSem = 0 /\ countSem = 0 /\ bytesSem = 0 /\ moverCh = {}
      /\ \A p \in Puts : hst[p] = "idle"
  BY DEF Init
<1>3. InlineHolders = {} /\ SpoolHolders = {} /\ BytesHolders = {}
  BY <1>1, <1>2 DEF InlineHolders, SpoolHolders, BytesHolders
<1>4. BytesOf(BytesHolders) = {}
  BY <1>3 DEF BytesOf
<1>5. IsFiniteSet({}) /\ Cardinality({}) = 0
  BY FS_EmptySet
<1>6. /\ Lane(InlineHolders, inlineSem, InlineCap) /\ Lane(SpoolHolders, countSem, CountCap)
      /\ ByteLane(BytesHolders, bytesSem)
  BY <1>2, <1>3, <1>4, <1>5 DEF Lane, ByteLane
<1> QED
  BY <1>2, <1>6 DEF LaneInv

\* What a step does to the account of the lanes: nothing, ...
LanesKept == /\ \A q \in Puts : q \in Holders' <=> q \in Holders
             /\ UNCHANGED <<inlineSem, countSem>>

\* ... p takes a slot of its lane, ...
LaneTaken(p) == /\ p \notin Holders
                /\ \A q \in Puts : q \in Holders' <=> q \in Holders \/ q = p
                /\ IF IsInline(p)
                   THEN inlineSem < InlineCap /\ inlineSem' = inlineSem + 1 /\ UNCHANGED countSem
                   ELSE countSem < CountCap /\ countSem' = countSem + 1 /\ UNCHANGED inlineSem

\* ... or p gives its slot back.
LaneFreed(p) == /\ p \in Holders
                /\ \A q \in Puts : q \in Holders' <=> q \in Holders /\ q # p
                /\ IF IsInline(p)
                   THEN inlineSem' = inlineSem - 1 /\ UNCHANGED countSem
                   ELSE countSem' = countSem - 1 /\ UNCHANGED inlineSem

LanesStep == LanesKept \/ \E p \in Puts : LaneTaken(p) \/ LaneFreed(p)

\* The same for the bytes of the spooled lane.
BytesKept == /\ \A q \in Puts : q \in BytesHolders' <=> q \in BytesHolders
             /\ UNCHANGED bytesSem
BytesTaken(p) == /\ p \notin BytesHolders
                 /\ \A q \in Puts : q \in BytesHolders' <=> q \in BytesHolders \/ q = p
                 /\ bytesSem' = bytesSem + Weight(p)
BytesFreed(p) == /\ p \in BytesHolders
                 /\ \A q \in Puts : q \in BytesHolders' <=> q \in BytesHolders /\ q # p
                 /\ bytesSem' = bytesSem - Weight(p)

BytesStep == BytesKept \/ \E p \in Puts : BytesTaken(p) \/ BytesFreed(p)

\* Each of these keeps the accounts of both lanes exact and within the caps.
LEMMA LanesStay ==
  ASSUME TypeOK, LanesStep,
         Lane(InlineHolders, inlineSem, InlineCap), Lane(SpoolHolders, countSem, CountCap)
  PROVE  /\ Lane(InlineHolders', inlineSem', InlineCap)
         /\ Lane(SpoolHolders', countSem', CountCap)
<1> USE PutQueueAssumption
<1>0. /\ Holders \subseteq Puts /\ Holders' \subseteq Puts
      /\ inlineSem \in Int /\ countSem \in Int /\ InlineCap \in Nat /\ CountCap \in Nat
  BY DEF Holders, TypeOK
<1>1. CASE LanesKept
  <2>1. InlineHolders' = InlineHolders /\ SpoolHolders' = SpoolHolders
    BY <1>0, <1>1 DEF LanesKept, InlineHolders, SpoolHolders, IsInline
  <2> QED
    BY <1>1, <2>1 DEF LanesKept
<1>2. ASSUME NEW p \in Puts, LaneTaken(p)
      PROVE  /\ Lane(InlineHolders', inlineSem', InlineCap)
             /\ Lane(SpoolHolders', countSem', CountCap)
  <2>1. CASE IsInline(p)
    <3>1. /\ InlineHolders' = InlineHolders \cup {p} /\ SpoolHolders' = SpoolHolders
          /\ p \notin InlineHolders
      BY <1>0, <1>2, <2>1 DEF LaneTaken, InlineHolders, SpoolHolders, IsInline
    <3>2. inlineSem < InlineCap /\ inlineSem' = inlineSem + 1 /\ countSem' = countSem
      BY <1>2, <2>1 DEF LaneTaken
    <3>3. Lane(InlineHolders \cup {p}, inlineSem + 1, InlineCap)
      BY <1>0, <3>1, <3>2, LaneAdds
    <3> QED
      BY <3>1, <3>2, <3>3
  <2>2. CASE ~IsInline(p)
    <3>1. /\ SpoolHolders' = SpoolHolders \cup {p} /\ InlineHolders' = InlineHolders
          /\ p \notin SpoolHolders
      BY <1>0, <1>2, <2>2 DEF LaneTaken, InlineHolders, SpoolHolders, IsInline
    <3>2. countSem < CountCap /\ countSem' = countSem + 1 /\ inlineSem' = inlineSem
      BY <1>2, <2>2 DEF LaneTaken
    <3>3. Lane(SpoolHolders \cup {p}, countSem + 1, CountCap)
      BY <1>0, <3>1, <3>2, LaneAdds
    <3> QED
      BY <3>1, <3>2, <3>3
  <2> QED
    BY <2>1, <2>2
<1>3. ASSUME NEW p \in Puts, LaneFreed(p)
      PROVE  /\ Lane(InlineHolders', inlineSem', InlineCap)
             /\ Lane(SpoolHolders', countSem', CountCap)
  <2>1. CASE IsInline(p)
    <3>1. /\ InlineHolders' = InlineHolders \ {p} /\ SpoolHolders' = SpoolHolders
          /\ p \in InlineHolders
      BY <1>0, <1>3, <2>1 DEF LaneFreed, InlineHolders, SpoolHolders, IsInline
    <3>2. inlineSem' = inlineSem - 1 /\ countSem' = countSem
      BY <1>3, <2>1 DEF LaneFreed
    <3>3. Lane(InlineHolders \ {p}, inlineSem - 1, InlineCap)
      BY <1>0, <3>1, LaneRemoves
    <3> QED
      BY <3>1, <3>2, <3>3
  <2>2. CASE ~IsInline(p)
    <3>1. /\ SpoolHolders' = SpoolHolders \ {p} /\ InlineHolders' = InlineHolders
          /\ p \in SpoolHolders
      BY <1>0, <1>3, <2>2 DEF LaneFreed, InlineHolders, SpoolHolders, IsInline
    <3>2. countSem' = countSem - 1 /\ inlineSem' = inlineSem
      BY <1>3, <2>2 DEF LaneFreed
    <3>3. Lane(SpoolHolders \ {p}, countSem - 1, CountCap)
      BY <1>0, <3>1, LaneRemoves
    <3> QED
      BY <3>1, <3>2, <3>3
  <2> QED
    BY <2>1, <2>2
<1> QED
  BY <1>1, <1>2, <1>3 DEF LanesStep

\* Likewise for the bytes.
LEMMA BytesStay ==
  ASSUME TypeOK, BytesStep, ByteLane(BytesHolders, bytesSem)
  PROVE  ByteLane(BytesHolders', bytesSem')
<1>0. /\ BytesHolders \in SUBSET Puts /\ BytesHolders' \in SUBSET Puts
      /\ bytesSem \in Int
  BY DEF BytesHolders, TypeOK
<1>1. CASE BytesKept
  <2>1. BytesHolders' = BytesHolders
    BY <1>0, <1>1 DEF BytesKept
  <2> QED
    BY <1>1, <2>1 DEF BytesKept
<1>2. ASSUME NEW p \in Puts, BytesTaken(p)
      PROVE  ByteLane(BytesHolders', bytesSem')
  <2>1. BytesHolders' = BytesHolders \cup {p} /\ p \notin BytesHolders
    BY <1>0, <1>2 DEF BytesTaken
  <2>2. ByteLane(BytesHolders \cup {p}, bytesSem + Weight(p))
    BY <1>0, <2>1, BytesAdd
  <2> QED
    BY <1>2, <2>1, <2>2 DEF BytesTaken
<1>3. ASSUME NEW p \in Puts, BytesFreed(p)
      PROVE  ByteLane(BytesHolders', bytesSem')
  <2>1. BytesHolders' = BytesHolders \ {p} /\ p \in BytesHolders
    BY <1>0, <1>3 DEF BytesFreed
  <2>2. ByteLane(BytesHolders \ {p}, bytesSem - Weight(p))
    BY <1>0, <2>1, BytesRemove
  <2> QED
    BY <1>3, <2>1, <2>2 DEF BytesFreed
<1> QED
  BY <1>1, <1>2, <1>3 DEF BytesStep

\* Steps that leave every holder's room where it is.
LEMMA BytesFrame ==
  ASSUME LanesKept, UNCHANGED bytesSem,
         \A q \in Puts : ~IsInline(q) => (hst'[q] = "bytesHeld" <=> hst[q] = "bytesHeld")
  PROVE  BytesKept
BY DEF LanesKept, BytesKept, BytesHolders, IsInline

\* A PUT of the spooled lane that gives its slot back gives back its bytes.
LEMMA SlotAndBytes ==
  ASSUME NEW p \in Puts, LaneFreed(p), Unreserve(p), hst'[p] # "bytesHeld",
         \A q \in Puts \ {p} : hst'[q] = hst[q]
  PROVE  BytesStep
<1>1. CASE IsInline(p)
  <2>1. BytesKept
    BY <1>1 DEF BytesKept, BytesHolders, LaneFreed, Unreserve, IsInline
  <2> QED
    BY <2>1 DEF BytesStep
<1>2. CASE ~IsInline(p)
  <2>1. BytesFreed(p)
    BY <1>2 DEF BytesFreed, BytesHolders, LaneFreed, Unreserve, IsInline
  <2> QED
    BY <2>1 DEF BytesStep
<1> QED
  BY <1>1, <1>2

\* Retiring a pending entry frees its slot.
LEMMA RetireFrees ==
  ASSUME TypeOK, PipelineInv, NEW p \in Puts, Retire(p), IsPending(p), UNCHANGED hst
  PROVE  LaneFreed(p) /\ BytesStep
<1> USE PutQueueAssumption DEF IsPending
<1>1. hst[p] = "acked"
  BY DEF PipelineInv, PendingAcked
<1>2. \A q \in Puts : IsPending(q)' <=> IsPending(q) /\ q # p
  BY DEF Retire, TypeOK
<1>3. /\ p \in Holders
      /\ \A q \in Puts : q \in Holders' <=> q \in Holders /\ q # p
  BY <1>1, <1>2 DEF Holders
<1>4. LaneFreed(p)
  BY <1>3 DEF LaneFreed, Retire, Unreserve
<1>5. Unreserve(p)
  BY DEF Retire
<1> QED
  BY <1>1, <1>4, <1>5, SlotAndBytes

\* Every step of the server keeps the lanes exact.
LEMMA LaneNext == TypeOK /\ PipelineInv /\ LaneInv /\ [Next]_vars => LaneInv'
<1> SUFFICES ASSUME TypeOK, PipelineInv, LaneInv, [Next]_vars
             PROVE  LaneInv'
  OBVIOUS
<1> USE PutQueueAssumption
\* What remains to be shown of a step.
<1>1. ASSUME LanesStep, BytesStep,
             \A p \in Puts : hst'[p] = "bytesHeld" => ~IsInline(p),
             \A p \in moverCh' : p \in moverCh \/ ~IsInline(p)
      PROVE  LaneInv'
  <2>1. /\ Lane(InlineHolders', inlineSem', InlineCap)
        /\ Lane(SpoolHolders', countSem', CountCap)
    BY <1>1, LanesStay DEF LaneInv
  <2>2. ByteLane(BytesHolders', bytesSem')
    BY <1>1, BytesStay DEF LaneInv
  <2>3. \A p \in moverCh' : ~IsInline(p)
    BY <1>1 DEF LaneInv
  <2>4. ByteLane(BytesHolders, bytesSem)'
    BY <2>2 DEF ByteLane, BytesOf, Weight
  <2> QED
    BY <1>1, <2>1, <2>3, <2>4 DEF LaneInv, IsInline
\* Steps that leave handlers, the map and the semaphores alone.
<1>2. ASSUME UNCHANGED <<hst, pending, inlineSem, countSem, bytesSem>>, moverCh' \subseteq moverCh
      PROVE  LaneInv'
  <2>1. LanesKept
    BY <1>2 DEF LanesKept, Holders, IsPending
  <2>2. \A p \in Puts : hst'[p] = "bytesHeld" => ~IsInline(p)
    BY <1>2 DEF LaneInv
  <2>3. BytesKept
    BY <1>2, <2>1, BytesFrame
  <2> QED
    BY <1>1, <1>2, <2>1, <2>2, <2>3 DEF LanesStep, BytesStep
\* An entry is retired.
<1>3. ASSUME NEW p \in Puts, Retire(p), IsPending(p), UNCHANGED <<hst, moverCh>>
      PROVE  LaneInv'
  <2>1. LaneFreed(p) /\ BytesStep
    BY <1>3, RetireFrees
  <2>2. \A q \in Puts : hst'[q] = "bytesHeld" => ~IsInline(q)
    BY <1>3 DEF LaneInv
  <2> QED
    BY <1>1, <1>3, <2>1, <2>2 DEF LanesStep
<1>4. ASSUME NEW p \in Puts, Handler(p)
      PROVE  LaneInv'
  <2>0. \A q \in Puts : hst[q] = "bytesHeld" => ~IsInline(q)
    BY DEF LaneInv
  <2>1. hst[p] # "acked" => ~IsPending(p)
    BY DEF PipelineInv, PendingAcked
  \* The handler gets a slot.
  <2>2. CASE ReserveInline(p) \/ ReserveCount(p)
    <3>1. /\ hst[p] \in {"idle", "bytesHeld"} /\ hst' = [hst EXCEPT ![p] = "reserved"]
          /\ UNCHANGED <<pending, moverCh>>
      BY <2>2 DEF ReserveInline, ReserveCount
    <3>2. /\ p \notin Holders
          /\ \A q \in Puts : q \in Holders' <=> q \in Holders \/ q = p
      BY <2>1, <3>1 DEF Holders, IsPending, TypeOK
    <3>3. IF IsInline(p)
          THEN inlineSem < InlineCap /\ inlineSem' = inlineSem + 1 /\ UNCHANGED countSem
          ELSE countSem < CountCap /\ countSem' = countSem + 1 /\ UNCHANGED inlineSem
      BY <2>0, <2>2 DEF ReserveInline, ReserveCount
    <3>4. \A q \in Puts : hst'[q] = "bytesHeld" => ~IsInline(q)
      BY <2>0, <3>1 DEF TypeOK
    <3>5. LaneTaken(p)
      BY <3>2, <3>3 DEF LaneTaken
    <3>6. bytesSem' = bytesSem /\ (~IsInline(p) => hst[p] = "bytesHeld")
      BY <2>2 DEF ReserveInline, ReserveCount
    <3>7. BytesKept
      BY <3>1, <3>2, <3>6 DEF BytesKept, BytesHolders, IsInline, TypeOK
    <3> QED
      BY <1>1, <3>1, <3>4, <3>5, <3>7 DEF LanesStep, BytesStep
  \* The handler waits, leaves the queue, or reads its body.
  <2>3. CASE ReserveBytes(p) \/ CancelReserve(p) \/ ReadBody(p)
    <3>1. /\ UNCHANGED <<pending, moverCh, inlineSem, countSem>>
          /\ \A q \in Puts \ {p} : hst'[q] = hst[q]
          /\ hst[p] \in {"reserved", "spooled"} <=> hst'[p] \in {"reserved", "spooled"}
          /\ hst'[p] = "bytesHeld" => ~IsInline(p)
      BY <2>3 DEF ReserveBytes, CancelReserve, ReadBody, lanes, TypeOK
    <3>2. LanesKept
      BY <3>1 DEF LanesKept, Holders, IsPending
    <3>3. \A q \in Puts : hst'[q] = "bytesHeld" => ~IsInline(q)
      BY <2>0, <3>1
    <3>4. CASE ReadBody(p) \/ (CancelReserve(p) /\ hst[p] = "idle")
      <4>1. bytesSem' = bytesSem /\ hst[p] # "bytesHeld" /\ hst'[p] # "bytesHeld"
        BY <3>4 DEF ReadBody, CancelReserve, lanes, TypeOK
      <4>2. BytesKept
        BY <3>1, <3>2, <4>1, BytesFrame
      <4> QED
        BY <1>1, <3>1, <3>2, <3>3, <4>2 DEF LanesStep, BytesStep
    <3>5. CASE ReserveBytes(p)
      <4>1. /\ bytesSem' = bytesSem + Weight(p) /\ ~IsInline(p)
            /\ hst[p] = "idle" /\ hst'[p] = "bytesHeld"
        BY <3>5 DEF ReserveBytes, TypeOK
      <4>2. BytesTaken(p)
        BY <2>1, <3>1, <3>2, <4>1 DEF BytesTaken, BytesHolders, LanesKept, Holders, IsInline
      <4> QED
        BY <1>1, <3>1, <3>2, <3>3, <4>2 DEF LanesStep, BytesStep
    <3>6. CASE CancelReserve(p) /\ hst[p] = "bytesHeld"
      <4>1. bytesSem' = bytesSem - Weight(p) /\ hst'[p] = "failed" /\ ~IsInline(p)
        BY <2>0, <3>6 DEF CancelReserve, TypeOK
      <4>2. BytesFreed(p)
        BY <2>1, <3>1, <3>2, <3>6, <4>1 DEF BytesFreed, BytesHolders, LanesKept, Holders, IsInline
      <4> QED
        BY <1>1, <3>1, <3>2, <3>3, <4>2 DEF LanesStep, BytesStep
    <3> QED
      BY <2>3, <3>4, <3>5, <3>6 DEF CancelReserve
  \* A failed body or a duplicate gives its slot back.
  <2>4. CASE ReadBodyFails(p) \/ (Enqueue(p) /\ pending[KeyOf[p]] # NoPut)
    <3>1. /\ UNCHANGED <<pending, moverCh>> /\ Unreserve(p)
          /\ hst[p] \in {"reserved", "spooled"}
          /\ \A q \in Puts \ {p} : hst'[q] = hst[q]
          /\ hst'[p] \in {"failed", "dup"}
      BY <2>4 DEF ReadBodyFails, Enqueue, TypeOK
    <3>2. /\ p \in Holders
          /\ \A q \in Puts : q \in Holders' <=> q \in Holders /\ q # p
      BY <2>1, <3>1 DEF Holders, IsPending
    <3>3. LaneFreed(p)
      BY <3>1, <3>2 DEF LaneFreed, Unreserve
    <3>4. \A q \in Puts : hst'[q] = "bytesHeld" => ~IsInline(q)
      BY <2>0, <3>1
    <3>5. BytesStep
      BY <3>1, <3>3, SlotAndBytes
    <3> QED
      BY <1>1, <3>1, <3>3, <3>4, <3>5 DEF LanesStep
  \* The slot passes from the handler to the entry.
  <2>5. CASE Enqueue(p) /\ pending[KeyOf[p]] = NoPut
    <3>1. /\ hst[p] = "spooled" /\ hst' = [hst EXCEPT ![p] = "acked"]
          /\ pending' = [pending EXCEPT ![KeyOf[p]] = p]
          /\ moverCh' = IF IsInline(p) THEN moverCh ELSE moverCh \cup {p}
          /\ UNCHANGED <<inlineSem, countSem, bytesSem>>
      BY <2>5 DEF Enqueue, lanes
    <3>2. \A q \in Puts : IsPending(q)' <=> IsPending(q) \/ q = p
      BY <2>5, <3>1 DEF IsPending, TypeOK
    <3>3. LanesKept
      BY <3>1, <3>2 DEF LanesKept, Holders, TypeOK
    <3>4. \A q \in Puts : hst'[q] = "bytesHeld" => ~IsInline(q)
      BY <2>0, <3>1 DEF TypeOK
    <3>5. \A q \in moverCh' : q \in moverCh \/ ~IsInline(q)
      BY <3>1
    <3>6. BytesKept
      <4>1. \A q \in Puts : hst'[q] = "bytesHeld" <=> hst[q] = "bytesHeld"
        BY <3>1 DEF TypeOK
      <4> QED
        BY <3>1, <3>3, <4>1, BytesFrame
    <3> QED
      BY <1>1, <3>3, <3>4, <3>5, <3>6 DEF LanesStep, BytesStep
  <2> QED
    BY <1>4, <2>2, <2>3, <2>4, <2>5 DEF Handler
<1>5. ASSUME NEW m \in Movers, Mover(m)
      PROVE  LaneInv'
  <2>1. CASE MoverTake(m)
    BY <1>2, <2>1 DEF MoverTake, lanes
  <2>2. CASE MoverStat(m) \/ MoverWriteIntent(m) \/ MoverCopy(m) \/ MoverDeleteIntent(m)
    BY <1>2, <2>2 DEF MoverStat, MoverWriteIntent, MoverCopy, MoverDeleteIntent, lanes
  <2>3. CASE MoverFails(m)
    <3>1. mover[m].put \in Puts
      BY <2>3 DEF MoverFails, TypeOK, MoverState, IdleMover
    <3>2. IsPending(mover[m].put)
      BY <3>1 DEF PipelineInv, InMover
    <3> QED
      BY <1>2, <1>3, <2>3, <3>1, <3>2 DEF MoverFails, Drop, lanes
  <2> QED
    BY <1>5, <2>1, <2>2, <2>3 DEF Mover
<1>6. CASE Flusher
  <2>1. CASE FlusherTake \/ FlusherFire \/ FlushCommits \/ FlushFails
    BY <1>2, <2>1 DEF FlusherTake, FlusherFire, FlushCommits, FlushFails, lanes
  <2>2. ASSUME NEW p \in Puts, FlushDrops(p) \/ FinishCommitted(p)
        PROVE  LaneInv'
    <3>1. IsPending(p)
      BY <2>2 DEF FlushDrops, FinishCommitted, PipelineInv, InFlusher
    <3> QED
      BY <1>3, <2>2, <3>1 DEF FlushDrops, FinishCommitted, Drop
  <2> QED
    BY <1>6, <2>1, <2>2 DEF Flusher
<1>7. CASE Sweeper \/ Evictor
  BY <1>2, <1>7 DEF Sweeper, SweepList, SweepQuery, SweepFails, SweepCheckPending, SweepRemoveBlob,
     SweepRemoveFails, SweepUnlinkIntent, Evictor, EvictQuery, EvictRemoveFiles,
     EvictCommits, EvictRollsBack, lanes
<1>8. CASE Reader \/ Tick \/ UNCHANGED vars
  BY <1>2, <1>8 DEF Reader, GetLookup, GetOpenSpool, GetQuery, GetOpenMain, Tick, vars, lanes
<1>9. CASE CrashRestart
  <2>1. /\ moverCh' = {} /\ inlineSem' = 0 /\ countSem' = 0 /\ bytesSem' = 0
        /\ \A p \in Puts : hst'[p] \in {"idle", "acked", "dup", "failed"} /\ ~IsPending(p)'
    BY <1>9 DEF CrashRestart, IsPending
  <2>2. InlineHolders' = {} /\ SpoolHolders' = {} /\ BytesHolders' = {}
    BY <2>1 DEF InlineHolders, SpoolHolders, BytesHolders, Holders
  <2>3. BytesOf(BytesHolders)' = {}
    BY <2>2 DEF BytesOf
  <2>4. IsFiniteSet({}) /\ Cardinality({}) = 0
    BY FS_EmptySet
  <2>5. /\ Lane(InlineHolders, inlineSem, InlineCap)' /\ Lane(SpoolHolders, countSem, CountCap)'
        /\ ByteLane(BytesHolders, bytesSem)'
    BY <2>1, <2>2, <2>3, <2>4 DEF Lane, ByteLane
  <2> QED
    BY <2>1, <2>5 DEF LaneInv
<1> QED
  BY <1>4, <1>5, <1>6, <1>7, <1>8, <1>9 DEF Next

\* The lanes are exact in every reachable state.
LEMMA LanesAlways == Spec => [](TypeOK /\ PipelineInv /\ LaneInv)
BY LaneInit, LaneNext, PipelineAlways, PTL DEF Spec

\* The three semaphores of the lanes account for the slots and the bytes of
\* exactly the handlers and entries that hold room, through every cancellation,
\* failure, duplicate, drop and crash: no room leaks and none is freed twice.
THEOREM LanesAreExact == Spec => []LanesExact
<1>1. LaneInv => LanesExact
  BY DEF LaneInv, Lane, ByteLane, LanesExact
<1> QED
  BY <1>1, LanesAlways, PTL

\* The buffers of moverCh and flushCh never overflow, whatever the number of
\* concurrent PUTs: everything in them holds a slot of a lane, and the lanes'
\* semaphores count exactly the slots that are held.  So neither enqueue nor a
\* mover ever blocks on a send.
THEOREM SendsNeverBlock == Spec => []SendsDoNotBlock
<1>1. TypeOK /\ PipelineInv /\ LaneInv => SendsDoNotBlock
  <2> SUFFICES ASSUME TypeOK, PipelineInv, LaneInv
               PROVE  SendsDoNotBlock
    OBVIOUS
  <2>1. /\ IsFiniteSet(SpoolHolders) /\ Cardinality(SpoolHolders) <= CountCap
        /\ IsFiniteSet(InlineHolders) /\ Cardinality(InlineHolders) <= InlineCap
    BY DEF LaneInv, Lane
  <2>2. moverCh \subseteq SpoolHolders
    BY DEF LaneInv, SpoolHolders, Holders, PipelineInv, InMoverCh, TypeOK
  <2>3. flushCh \subseteq SpoolHolders \cup InlineHolders
    BY DEF SpoolHolders, InlineHolders, Holders, PipelineInv, InFlushCh, TypeOK
  <2>4. /\ IsFiniteSet(SpoolHolders \cup InlineHolders)
        /\ Cardinality(SpoolHolders \cup InlineHolders)
             <= Cardinality(SpoolHolders) + Cardinality(InlineHolders)
    <3>1. SpoolHolders \cap InlineHolders = {}
      BY DEF SpoolHolders, InlineHolders
    <3>2. Cardinality(SpoolHolders \cap InlineHolders) = 0
      BY <3>1, FS_EmptySet
    <3>3. /\ IsFiniteSet(SpoolHolders \cup InlineHolders)
          /\ Cardinality(SpoolHolders \cup InlineHolders)
               = Cardinality(SpoolHolders) + Cardinality(InlineHolders)
                   - Cardinality(SpoolHolders \cap InlineHolders)
      BY ONLY <2>1, FS_Union
    <3>4. Cardinality(SpoolHolders) \in Nat /\ Cardinality(InlineHolders) \in Nat
      BY <2>1, FS_CardinalityType
    <3> QED
      BY <3>2, <3>3, <3>4
  <2>5. Cardinality(moverCh) <= Cardinality(SpoolHolders)
    BY <2>1, <2>2, FS_Subset
  <2>6. Cardinality(flushCh) <= Cardinality(SpoolHolders \cup InlineHolders)
    BY <2>3, <2>4, FS_Subset
  <2>7. IsFiniteSet(moverCh) /\ IsFiniteSet(flushCh)
    BY <2>1, <2>2, <2>3, <2>4, FS_Subset
  <2> QED
    BY <2>1, <2>4, <2>5, <2>6, <2>7, FS_CardinalityType, PutQueueAssumption
    DEF SendsDoNotBlock
<1> QED
  BY <1>1, LanesAlways, PTL

-----------------------------------------------------------------------------
(* SQLite's foreign key *)

\* An Actions row always references an existing Blobs row, whatever the
\* flusher inserts and the evictor deletes.
THEOREM RowsReferToBlobs == Spec => []ActionsReferToBlobs
<1>1. Init => ActionsReferToBlobs
  BY DEF Init, ActionsReferToBlobs
<1>2. TypeOK /\ ActionsReferToBlobs /\ [Next]_vars => ActionsReferToBlobs'
  <2> SUFFICES ASSUME TypeOK, ActionsReferToBlobs, [Next]_vars
               PROVE  ActionsReferToBlobs'
    OBVIOUS
  <2>1. CASE UNCHANGED db
    BY <2>1 DEF db, ActionsReferToBlobs
  <2>2. CASE CommitBatch
    BY <2>2 DEF CommitBatch, ActionsReferToBlobs
  <2>3. CASE EvictCommits
    BY <2>3 DEF EvictCommits, Orphaned, ActionsReferToBlobs, TypeOK
  <2>4. UNCHANGED db \/ CommitBatch \/ EvictCommits
    <3>1. ASSUME NEW p \in Puts, Handler(p)
          PROVE  UNCHANGED db
      BY <3>1 DEF Handler, ReserveInline, ReserveBytes, ReserveCount, CancelReserve,
                  ReadBody, ReadBodyFails, Enqueue
    <3>2. ASSUME NEW m \in Movers, Mover(m)
          PROVE  UNCHANGED db
      BY <3>2 DEF Mover, MoverTake, MoverStat, MoverWriteIntent, MoverCopy, MoverFails,
                  MoverDeleteIntent
    <3>3. Flusher => UNCHANGED db \/ CommitBatch
      BY DEF Flusher, FlusherTake, FlusherFire, FlushCommits, FlushFails, FlushDrops,
             FinishCommitted
    <3>4. Sweeper \/ Reader \/ Tick \/ CrashRestart \/ UNCHANGED vars => UNCHANGED db
      BY DEF Sweeper, SweepList, SweepQuery, SweepFails, SweepCheckPending, SweepRemoveBlob, SweepRemoveFails,
             SweepUnlinkIntent, Reader, GetLookup, GetOpenSpool, GetQuery, GetOpenMain,
             Tick, CrashRestart, vars
    <3>5. Evictor => UNCHANGED db \/ EvictCommits
      BY DEF Evictor, EvictQuery, EvictRemoveFiles, EvictRollsBack
    <3> QED
      BY <3>1, <3>2, <3>3, <3>4, <3>5 DEF Next
  <2> QED
    BY <2>1, <2>2, <2>3, <2>4
<1> QED
  BY <1>1, <1>2, TypeCorrect, PTL DEF Spec

-----------------------------------------------------------------------------
(* Crash safety: files that SQLite does not account for can be found again *)

\* A PUT has no intent before it is in the pipeline.
IntentAfterAck == \A p \in Puts : hst[p] # "acked" => intentPath[p] = 0

\* A mover about to copy has its intent on disk, unless the content was
\* committed by another PUT meanwhile.
CopyHasIntent == \A m \in Movers : mover[m].pc = "copy" =>
  /\ intentPath[mover[m].put] # 0
  /\ \/ <<intentPath[mover[m].put], ShaOf[mover[m].put]>> \in cleanup
     \/ ShaOf[mover[m].put] \in blobs

\* The flusher hands over only intents of committed contents.
FinishIsCommitted == flusher.pc = "finish" => \A p \in flusher.batch : ShaOf[p] \in blobs
DeletedIsCommitted == \A i \in intentDelCh : i[2] \in blobs

\* The sweeper works on due intents; no PUT accepted after its look at the
\* pending map uses an intent of the same name.
SweepIsDue == /\ \A i \in listed : i[1] <= now
              /\ sweeper.pc # "idle" => sweeper.intent[1] <= now
SweepIsAlone == sweeper.pc \in {"remove", "unlink"} =>
  \/ sweeper.intent[2] \in blobs
  \/ \A p \in Puts : IsPending(p) /\ ShaOf[p] = sweeper.intent[2]
                       => intentPath[p] = 0 \/ intentPath[p] > sweeper.intent[1]

\* An intent about to be unlinked is not the last trace of an orphan.
UnlinkIsSafe == sweeper.pc = "unlink" =>
  \/ sweeper.intent[2] \in blobs
  \/ sweeper.intent[2] \notin main
  \/ \E i \in cleanup : i[2] = sweeper.intent[2] /\ i # sweeper.intent

\* Without a limit the evictor never starts.
NoEviction == evictor.pc = "idle"

IntentInv == /\ NoEviction /\ IntentAfterAck /\ CopyHasIntent /\ FinishIsCommitted /\ DeletedIsCommitted
             /\ SweepIsDue /\ SweepIsAlone /\ UnlinkIsSafe /\ OrphansHaveIntents

\* Nothing is on disk at first.
LEMMA IntentInit == Init => IntentInv
BY DEF Init, IntentInv, NoEviction, IdleEvictor, IntentAfterAck, CopyHasIntent, FinishIsCommitted,
       DeletedIsCommitted, SweepIsDue, SweepIsAlone, UnlinkIsSafe, OrphansHaveIntents,
       IdleMover, IdleFlusher, IdleSweeper

\* Without eviction, every step preserves the intent invariant.
LEMMA IntentNext ==
  Limited = FALSE /\ TypeOK /\ PipelineInv /\ IntentInv /\ [Next]_vars => IntentInv'
<1> SUFFICES ASSUME Limited = FALSE, TypeOK, PipelineInv, IntentInv, [Next]_vars
             PROVE  IntentInv'
  OBVIOUS
<1> USE PutQueueAssumption DEF IsPending, IsInline, lanes, disk, db, env
<1>0. \A m \in Movers : mover[m].pc # "idle" => mover[m].put \in Puts
  BY DEF TypeOK, MoverState, IdleMover
\* Steps of handlers: at most p enters the map, without an intent.
<1>1. ASSUME NEW p \in Puts, Handler(p)
      PROVE  IntentInv'
  <2>1. /\ UNCHANGED <<intentPath, mover, flusher, sweeper, evictor, intentDelCh, main,
                       cleanup, actions, blobs, now, listed>>
        /\ hst[p] # "acked" /\ \A q \in Puts \ {p} : hst'[q] = hst[q]
        /\ \A q \in Puts : IsPending(q)' => IsPending(q) \/ q = p
    BY <1>1 DEF Handler, ReserveInline, ReserveBytes, ReserveCount, CancelReserve,
                ReadBody, ReadBodyFails, Enqueue, TypeOK
  <2> QED
    BY <2>1 DEF IntentInv, NoEviction, IntentAfterAck, CopyHasIntent, FinishIsCommitted,
       DeletedIsCommitted, SweepIsDue, SweepIsAlone, UnlinkIsSafe, OrphansHaveIntents
\* Steps that only move entries between workers or forget them.
<1>2. ASSUME UNCHANGED <<hst, intentPath, sweeper, evictor, intentDelCh, main, cleanup,
                         blobs, now, listed>>,
             \A q \in Puts : IsPending(q)' => IsPending(q),
             \A m \in Movers : mover'[m].pc = "copy" => mover'[m] = mover[m],
             flusher'.pc = "finish" => flusher.pc = "finish" /\ flusher'.batch \subseteq flusher.batch
      PROVE  IntentInv'
  BY <1>2 DEF IntentInv, NoEviction, IntentAfterAck, CopyHasIntent, FinishIsCommitted,
     DeletedIsCommitted, SweepIsDue, SweepIsAlone, UnlinkIsSafe, OrphansHaveIntents
\* Retiring an entry adds none to the map.
<1>3. ASSUME NEW p \in Puts, Retire(p)
      PROVE  \A q \in Puts : IsPending(q)' => IsPending(q)
  BY <1>3 DEF Retire, TypeOK
<1>4. ASSUME NEW m \in Movers, Mover(m)
      PROVE  IntentInv'
  <2>1. CASE MoverTake(m)
    <3>1. \A n \in Movers : mover'[n].pc = "copy" => mover'[n] = mover[n]
      BY <2>1 DEF MoverTake, TypeOK
    <3> QED
      BY <1>2, <2>1, <3>1 DEF MoverTake
  <2>2. CASE MoverStat(m)
    <3>1. \A n \in Movers : mover'[n].pc = "copy" => mover'[n] = mover[n]
      BY <2>2 DEF MoverStat, TypeOK, MoverState, IdleMover
    <3> QED
      BY <1>2, <2>2, <3>1 DEF MoverStat
  \* The name of an intent is later than now, or was chosen before; its file is
  \* there before the copy starts.
  <2>3. ASSUME mover[m].pc = "intent",
               intentPath' = [intentPath EXCEPT ![mover[m].put] = Due(mover[m].put)],
               cleanup' \in {cleanup, cleanup \cup {<<Due(mover[m].put), ShaOf[mover[m].put]>>}},
               UNCHANGED <<hst, sweeper, evictor, intentDelCh, main, blobs, now, listed, flusher>>,
               \A q \in Puts : IsPending(q)' => IsPending(q),
               \A n \in Movers \ {m} : mover'[n] = mover[n],
               mover'[m].pc = "copy" =>
                 /\ mover'[m].put = mover[m].put
                 /\ <<Due(mover[m].put), ShaOf[mover[m].put]>> \in cleanup'
        PROVE  IntentInv'
    <3> DEFINE p   == mover[m].put
               due == Due(p)
    <3>1. p \in Puts /\ IsPending(p) /\ \A n \in Movers \ {m} : mover[n].put # p
      BY <1>0, <2>3 DEF PipelineInv, InMover
    <3>2. /\ due \in Nat /\ due # 0
          /\ intentPath[p] = 0 => due > now
          /\ intentPath[p] # 0 => due = intentPath[p]
      BY <3>1 DEF TypeOK, Due
    <3>3. intentPath' = [intentPath EXCEPT ![p] = due] /\ cleanup \subseteq cleanup'
      BY <2>3
    <3>4. mover'[m].pc = "copy" => mover'[m].put = p /\ <<due, ShaOf[p]>> \in cleanup'
      BY <2>3
    <3> HIDE DEF p, due
    <3>5. IntentAfterAck'
      BY <2>3, <3>1, <3>3 DEF IntentInv, IntentAfterAck, PipelineInv, PendingAcked, TypeOK
    <3>6. CopyHasIntent'
      <4> SUFFICES ASSUME NEW n \in Movers, mover'[n].pc = "copy"
                   PROVE  /\ intentPath'[mover'[n].put] # 0
                          /\ \/ <<intentPath'[mover'[n].put], ShaOf[mover'[n].put]>> \in cleanup'
                             \/ ShaOf[mover'[n].put] \in blobs'
        BY DEF CopyHasIntent
      <4>1. CASE n = m
        BY <3>1, <3>2, <3>3, <3>4, <4>1 DEF TypeOK
      <4>2. CASE n # m
        <5>1. mover'[n] = mover[n] /\ mover[n].put \in Puts /\ mover[n].put # p
          BY <1>0, <2>3, <3>1, <4>2
        <5>2. intentPath'[mover[n].put] = intentPath[mover[n].put]
          BY <3>3, <5>1 DEF TypeOK
        <5> QED
          BY <2>3, <3>3, <5>1, <5>2 DEF IntentInv, CopyHasIntent
      <4> QED
        BY <4>1, <4>2
    <3>7. SweepIsAlone'
      <4>1. sweeper.pc \in {"remove", "unlink"} => sweeper.intent[1] \in Nat
        BY DEF TypeOK, SweeperState, IdleSweeper, Intents
      <4> QED
        BY <2>3, <3>1, <3>2, <3>3, <4>1 DEF IntentInv, SweepIsAlone, SweepIsDue, TypeOK
    <3> QED
      BY <2>3, <3>3, <3>5, <3>6, <3>7 DEF IntentInv, NoEviction, FinishIsCommitted,
         DeletedIsCommitted, SweepIsDue, UnlinkIsSafe, OrphansHaveIntents
  <2>4. CASE MoverFails(m) \/ MoverWriteIntent(m)
    <3>1. \A q \in Puts : IsPending(q)' => IsPending(q)
      BY <1>0, <1>3, <2>4 DEF MoverFails, MoverWriteIntent, Drop
    <3>2. /\ \A n \in Movers \ {m} : mover'[n] = mover[n]
          /\ MoverFails(m) => mover'[m].pc # "copy"
          /\ MoverWriteIntent(m) => mover'[m].put = mover[m].put
      BY <2>4 DEF MoverFails, MoverWriteIntent, TypeOK, MoverState, IdleMover
    <3>3. CASE mover[m].pc = "intent"
      BY <2>3, <2>4, <3>1, <3>2, <3>3 DEF MoverFails, MoverWriteIntent
    <3>4. CASE mover[m].pc # "intent"
      <4>1. \A n \in Movers : mover'[n].pc = "copy" => mover'[n] = mover[n]
        BY <2>4, <3>2, <3>4 DEF MoverWriteIntent
      <4> QED
        BY <1>2, <2>4, <3>1, <3>4, <4>1 DEF MoverFails, MoverWriteIntent
    <3> QED
      BY <3>3, <3>4
  <2>5. CASE MoverCopy(m)
    <3> DEFINE p == mover[m].put
               i == <<intentPath[p], ShaOf[p]>>
    <3>1. /\ p \in Puts /\ IsPending(p) /\ intentPath[p] # 0
          /\ i \in cleanup \/ ShaOf[p] \in blobs
      BY <1>0, <2>5 DEF MoverCopy, PipelineInv, InMover, IntentInv, CopyHasIntent
    <3>2. /\ main' = main \cup {ShaOf[p]}
          /\ UNCHANGED <<hst, pending, intentPath, sweeper, evictor, intentDelCh, cleanup,
                         blobs, now, listed, flusher>>
          /\ \A n \in Movers : mover'[n].pc = "copy" => mover'[n] = mover[n]
      BY <2>5 DEF MoverCopy, TypeOK, IdleMover
    <3>3. UnlinkIsSafe'
      <4>1. sweeper.pc = "unlink" => sweeper.intent[1] \in Nat
        BY DEF TypeOK, SweeperState, IdleSweeper, Intents
      <4>2. CASE sweeper.pc = "unlink" /\ sweeper.intent[2] = ShaOf[p] /\ ShaOf[p] \notin blobs
        <5>1. i \in cleanup /\ i[2] = sweeper.intent[2] /\ i[1] > sweeper.intent[1]
          BY <3>1, <4>2 DEF IntentInv, SweepIsAlone
        <5>2. i # sweeper.intent
          BY <4>1, <4>2, <5>1 DEF TypeOK
        <5> QED
          BY <3>2, <5>1, <5>2 DEF UnlinkIsSafe
      <4> QED
        BY <3>2, <4>2 DEF IntentInv, UnlinkIsSafe
    <3>4. OrphansHaveIntents'
      BY <3>1, <3>2 DEF IntentInv, OrphansHaveIntents
    <3> QED
      BY <3>2, <3>3, <3>4 DEF IntentInv, NoEviction, IntentAfterAck, CopyHasIntent,
         FinishIsCommitted, DeletedIsCommitted, SweepIsDue, SweepIsAlone
  <2>6. CASE MoverDeleteIntent(m)
    <3>1. PICK i \in intentDelCh : /\ intentDelCh' = intentDelCh \ {i}
                                   /\ cleanup' \in {cleanup \ {i}, cleanup}
      BY <2>6 DEF MoverDeleteIntent
    <3>2. i[2] \in blobs
      BY DEF IntentInv, DeletedIsCommitted
    <3>3. UNCHANGED <<hst, pending, intentPath, mover, sweeper, evictor, main, blobs, now,
                      listed, flusher>>
      BY <2>6 DEF MoverDeleteIntent
    <3> QED
      BY <3>1, <3>2, <3>3 DEF IntentInv, NoEviction, IntentAfterAck, CopyHasIntent,
         FinishIsCommitted, DeletedIsCommitted, SweepIsDue, SweepIsAlone, UnlinkIsSafe,
         OrphansHaveIntents
  <2> QED
    BY <1>4, <2>1, <2>2, <2>4, <2>5, <2>6 DEF Mover
\* Committing a batch only makes more contents accounted for.
<1>5. ASSUME CommitBatch, UNCHANGED <<hst, pending, intentPath, mover, sweeper, evictor,
                                      intentDelCh, main, cleanup, now, listed>>,
             flusher'.pc = "finish" => flusher'.batch = flusher.batch
      PROVE  IntentInv'
  <2>1. blobs \subseteq blobs' /\ \A p \in flusher.batch : ShaOf[p] \in blobs'
    BY <1>5 DEF CommitBatch
  <2> QED
    BY <1>5, <2>1 DEF IntentInv, NoEviction, IntentAfterAck, CopyHasIntent,
       FinishIsCommitted, DeletedIsCommitted, SweepIsDue, SweepIsAlone, UnlinkIsSafe,
       OrphansHaveIntents
<1>6. CASE Flusher
  <2>1. CASE FlusherTake \/ FlusherFire
    BY <1>2, <2>1 DEF FlusherTake, FlusherFire, TypeOK
  <2>2. CASE FlushCommits
    BY <1>5, <2>2 DEF FlushCommits, TypeOK
  <2>3. CASE FlushFails
    <3>1. flusher'.pc # "finish"
      BY <2>3 DEF FlushFails, TypeOK
    <3> QED
      BY <1>2, <1>5, <2>3, <3>1 DEF FlushFails
  <2>4. ASSUME NEW p \in Puts, FlushDrops(p)
        PROVE  IntentInv'
    <3>1. flusher'.pc # "finish"
      BY <2>4 DEF FlushDrops, BatchWithout, IdleFlusher, TypeOK
    <3> QED
      BY <1>2, <1>3, <2>4, <3>1 DEF FlushDrops, Drop
  <2>5. ASSUME NEW p \in Puts, FinishCommitted(p)
        PROVE  IntentInv'
    <3>1. ShaOf[p] \in blobs
      BY <2>5 DEF FinishCommitted, IntentInv, FinishIsCommitted
    <3>2. \A q \in Puts : IsPending(q)' => IsPending(q)
      BY <1>3, <2>5 DEF FinishCommitted
    <3>3. \A i \in intentDelCh' : i \in intentDelCh \/ i[2] = ShaOf[p]
      BY <2>5 DEF FinishCommitted
    <3>4. flusher'.batch \subseteq flusher.batch /\ flusher.pc = "finish"
      BY <2>5 DEF FinishCommitted, BatchWithout, IdleFlusher, TypeOK
    <3>5. UNCHANGED <<hst, intentPath, mover, sweeper, evictor, main, cleanup, blobs, now,
                      listed>>
      BY <2>5 DEF FinishCommitted
    <3> QED
      BY <3>1, <3>2, <3>3, <3>4, <3>5 DEF IntentInv, NoEviction, IntentAfterAck,
         CopyHasIntent, FinishIsCommitted, DeletedIsCommitted, SweepIsDue, SweepIsAlone,
         UnlinkIsSafe, OrphansHaveIntents
  <2> QED
    BY <1>6, <2>1, <2>2, <2>3, <2>4, <2>5 DEF Flusher
<1>7. CASE Sweeper
  <2>1. sweeper.pc # "idle" => /\ sweeper \in [pc : {"norow", "remove", "unlink"}, intent : Intents]
                               /\ sweeper.intent \in Intents
    BY DEF TypeOK, SweeperState, IdleSweeper
  <2>2. CASE SweepList \/ SweepFails
    BY <2>2 DEF SweepList, SweepFails, IntentInv, NoEviction, IntentAfterAck, CopyHasIntent,
       FinishIsCommitted, DeletedIsCommitted, SweepIsDue, SweepIsAlone, UnlinkIsSafe,
       OrphansHaveIntents
  <2>3. ASSUME NEW i \in listed, SweepQuery(i)
        PROVE  IntentInv'
    BY <2>3 DEF SweepQuery, IntentInv, NoEviction, IntentAfterAck, CopyHasIntent,
       FinishIsCommitted, DeletedIsCommitted, SweepIsDue, SweepIsAlone, UnlinkIsSafe,
       OrphansHaveIntents
  <2>4. CASE SweepCheckPending
    <3>1. CASE PendingSHA(sweeper.intent[2])
      BY <2>4, <3>1 DEF SweepCheckPending, IdleSweeper, IntentInv, NoEviction,
         IntentAfterAck, CopyHasIntent, FinishIsCommitted, DeletedIsCommitted, SweepIsDue,
         SweepIsAlone, UnlinkIsSafe, OrphansHaveIntents
    <3>2. CASE ~PendingSHA(sweeper.intent[2])
      <4>1. \A p \in Puts : IsPending(p) => ShaOf[p] # sweeper.intent[2]
        BY <3>2 DEF PendingSHA
      <4> QED
        BY <2>1, <2>4, <3>2, <4>1 DEF SweepCheckPending, IntentInv, NoEviction,
           IntentAfterAck, CopyHasIntent, FinishIsCommitted, DeletedIsCommitted, SweepIsDue,
           SweepIsAlone, UnlinkIsSafe, OrphansHaveIntents
    <3> QED
      BY <3>1, <3>2
  <2>5. CASE SweepRemoveBlob
    BY <2>1, <2>5 DEF SweepRemoveBlob, IntentInv, NoEviction, IntentAfterAck, CopyHasIntent,
       FinishIsCommitted, DeletedIsCommitted, SweepIsDue, SweepIsAlone, UnlinkIsSafe,
       OrphansHaveIntents
  <2>6. CASE SweepRemoveFails
    BY <2>6 DEF SweepRemoveFails, IdleSweeper, IntentInv, NoEviction, IntentAfterAck,
       CopyHasIntent, FinishIsCommitted, DeletedIsCommitted, SweepIsDue, SweepIsAlone,
       UnlinkIsSafe, OrphansHaveIntents
  <2>7. CASE SweepUnlinkIntent
    <3>1. /\ cleanup \ {sweeper.intent} \subseteq cleanup' /\ sweeper.pc = "unlink"
          /\ sweeper' = IdleSweeper
          /\ UNCHANGED <<hst, pending, intentPath, mover, flusher, evictor, intentDelCh,
                         main, blobs, now, listed>>
      BY <2>7 DEF SweepUnlinkIntent
    <3>2. OrphansHaveIntents'
      BY <3>1 DEF IntentInv, OrphansHaveIntents, UnlinkIsSafe
    <3>3. CopyHasIntent'
      <4> SUFFICES ASSUME NEW m \in Movers, mover[m].pc = "copy",
                          ShaOf[mover[m].put] \notin blobs,
                          sweeper.intent = <<intentPath[mover[m].put], ShaOf[mover[m].put]>>
                   PROVE  FALSE
        BY <3>1 DEF IntentInv, CopyHasIntent
      <4>1. mover[m].put \in Puts /\ IsPending(mover[m].put)
        BY <1>0 DEF PipelineInv, InMover
      <4>2. /\ sweeper.intent[1] = intentPath[mover[m].put]
            /\ sweeper.intent[2] = ShaOf[mover[m].put]
        OBVIOUS
      <4>3. intentPath[mover[m].put] # 0 /\ intentPath[mover[m].put] \in Nat
        BY <4>1 DEF IntentInv, CopyHasIntent, TypeOK
      <4>4. intentPath[mover[m].put] > intentPath[mover[m].put]
        BY <3>1, <4>1, <4>2, <4>3 DEF IntentInv, SweepIsAlone
      <4> QED
        BY <4>3, <4>4
    <3> QED
      BY <3>1, <3>2, <3>3 DEF IdleSweeper, IntentInv, NoEviction, IntentAfterAck,
         FinishIsCommitted, DeletedIsCommitted, SweepIsDue, SweepIsAlone, UnlinkIsSafe
  <2> QED
    BY <1>7, <2>2, <2>3, <2>4, <2>5, <2>6, <2>7 DEF Sweeper
<1>8. ~Evictor
  BY DEF Evictor, EvictQuery, EvictRemoveFiles, EvictCommits, EvictRollsBack, IntentInv,
         NoEviction
<1>9. CASE Reader \/ UNCHANGED vars
  BY <1>2, <1>9 DEF Reader, GetLookup, GetOpenSpool, GetQuery, GetOpenMain, vars
<1>10. CASE Tick
  <2>1. sweeper.pc # "idle" => sweeper.intent[1] \in Nat
    BY DEF TypeOK, SweeperState, IdleSweeper, Intents
  <2> QED
    BY <1>10, <2>1 DEF Tick, TypeOK, Intents, IntentInv, NoEviction, IntentAfterAck, CopyHasIntent,
       FinishIsCommitted, DeletedIsCommitted, SweepIsDue, SweepIsAlone, UnlinkIsSafe,
       OrphansHaveIntents
<1>11. CASE CrashRestart
  BY <1>11 DEF CrashRestart, IdleMover, IdleFlusher, IdleSweeper, IdleEvictor, IntentInv,
     NoEviction, IntentAfterAck, CopyHasIntent, FinishIsCommitted, DeletedIsCommitted,
     SweepIsDue, SweepIsAlone, UnlinkIsSafe, OrphansHaveIntents
<1> QED
  BY <1>1, <1>4, <1>6, <1>7, <1>8, <1>9, <1>10, <1>11 DEF Next

\* Where the server runs without a limit, and so without eviction, a blob file
\* that SQLite does not account for always has a cleanup intent on disk: after
\* a crash at any step of any mover, flusher or sweeper it will be found.
THEOREM OrphansAreFound == Limited = FALSE => (Spec => []OrphansHaveIntents)
<1> SUFFICES ASSUME Limited = FALSE
             PROVE  Spec => []OrphansHaveIntents
  OBVIOUS
<1>1. IntentInv => OrphansHaveIntents
  BY DEF IntentInv
<1>2. TypeOK /\ PipelineInv /\ IntentInv /\ [Next]_vars => IntentInv'
  BY IntentNext
<1> QED
  BY <1>1, <1>2, IntentInit, PipelineAlways, PTL DEF Spec

-----------------------------------------------------------------------------
(* What is committed can be read, unless its file was taken                  *)

\* What a mover has handed to the flusher is installed in main, or its file was
\* taken since.
SettledHasFile ==
  \A p \in flushCh \cup flusher.batch : ~IsInline(p) => ShaOf[p] \in main \cup taken

\* A committed batch has a row for each of its keys.
FinishHasRow == flusher.pc = "finish" => \A p \in flusher.batch : actions[KeyOf[p]] # NoSha

\* sqliteWriteMu keeps the flusher and the evictor's transaction apart.
OneWriter == ~(flusher.pc = "finish" /\ evictor.pc = "tx")

FilesInv == OneWriter /\ CommittedHasFile /\ SettledHasFile /\ FinishHasRow

\* A GET that opens the spool file of an entry no longer in the map, or that
\* asks SQLite, is excused or finds a row; the row leads to a committed content
\* and is there until an eviction excuses the GET.
GetInv ==
  /\ reader.pc = "spoolOpen" =>
       /\ reader.put \in Puts /\ KeyOf[reader.put] = reader.key
       /\ reader.excused \/ IsPending(reader.put) \/ actions[reader.key] # NoSha
  /\ reader.pc = "query" => reader.excused \/ actions[reader.key] # NoSha
  /\ reader.pc = "mainOpen" =>
       \/ reader.excused
       \/ actions[reader.key] = reader.sha /\ reader.sha \in blobs \ InlineShas
  /\ evictor.pc = "tx" /\ reader.key \in evictor.keys => reader.excused
  /\ AckedReadable

\* The pending map holds every entry under its own key.
PendingKeyed == \A k \in Keys : pending[k] # NoPut => KeyOf[pending[k]] = k

\* An entry is filed under its key and taken out again, nothing else.
LEMMA KeyedAlways == Spec => []PendingKeyed
<1>1. Init => PendingKeyed
  BY DEF Init, PendingKeyed
<1>2. TypeOK /\ PendingKeyed /\ [Next]_vars => PendingKeyed'
  <2> SUFFICES ASSUME TypeOK, PendingKeyed, [Next]_vars
               PROVE  PendingKeyed'
    OBVIOUS
  <2> USE PutQueueAssumption
  <2>1. CASE UNCHANGED pending
    BY <2>1 DEF PendingKeyed
  <2>2. ASSUME NEW p \in Puts, Enqueue(p)
        PROVE  PendingKeyed'
    BY <2>2 DEF Enqueue, PendingKeyed, TypeOK
  <2>3. ASSUME NEW p \in Puts, Retire(p)
        PROVE  PendingKeyed'
    BY <2>3 DEF Retire, PendingKeyed, TypeOK
  <2>4. ASSUME NEW p \in Puts, Handler(p)
        PROVE  PendingKeyed'
    BY <2>1, <2>2, <2>4 DEF Handler, ReserveInline, ReserveBytes, ReserveCount,
       CancelReserve, ReadBody, ReadBodyFails
  <2>5. ASSUME NEW m \in Movers, Mover(m)
        PROVE  PendingKeyed'
    <3>1. MoverFails(m) => mover[m].put \in Puts
      BY DEF MoverFails, TypeOK, MoverState, IdleMover
    <3>2. UNCHANGED pending \/ (MoverFails(m) /\ Retire(mover[m].put))
      BY <2>5 DEF Mover, MoverTake, MoverStat, MoverWriteIntent, MoverCopy, MoverFails,
         MoverDeleteIntent, Drop
    <3> QED
      BY <2>1, <2>3, <3>1, <3>2
  <2>6. CASE Flusher
    <3>1. UNCHANGED pending \/ \E p \in Puts : Retire(p)
      BY <2>6 DEF Flusher, FlusherTake, FlusherFire, FlushCommits, FlushFails, FlushDrops,
         FinishCommitted, Drop
    <3> QED
      BY <2>1, <2>3, <3>1
  <2>7. CASE Sweeper \/ Evictor \/ Reader \/ Tick \/ UNCHANGED vars
    BY <2>1, <2>7 DEF Sweeper, SweepList, SweepQuery, SweepFails, SweepCheckPending, SweepRemoveBlob,
       SweepRemoveFails, SweepUnlinkIntent, Evictor, EvictQuery, EvictRemoveFiles,
       EvictCommits, EvictRollsBack, Reader, GetLookup, GetOpenSpool, GetQuery,
       GetOpenMain, Tick, vars
  <2>8. CASE CrashRestart
    BY <2>8 DEF CrashRestart, PendingKeyed
  <2> QED
    BY <2>4, <2>5, <2>6, <2>7, <2>8 DEF Next
<1> QED
  BY <1>1, <1>2, TypeCorrect, PTL DEF Spec

\* Nothing is committed and nobody reads at first.
LEMMA FilesInit == Init => FilesInv /\ GetInv
BY DEF Init, FilesInv, OneWriter, CommittedHasFile, SettledHasFile, FinishHasRow, GetInv,
       AckedReadable, IdleFlusher, IdleEvictor, IdleReader

\* Steps that lose no file without taking it, and that give the flusher entries
\* only with their files, preserve what is said of files.
LEMMA FilesFrame ==
  ASSUME FilesInv, UNCHANGED db, main \cup taken \subseteq main' \cup taken',
         evictor'.pc = "tx" => evictor.pc = "tx",
         \A p \in flushCh' \cup flusher'.batch :
            ~IsInline(p) => p \in flushCh \cup flusher.batch \/ ShaOf[p] \in main',
         flusher'.pc = "finish" => flusher.pc = "finish" /\ flusher'.batch \subseteq flusher.batch
  PROVE  FilesInv'
BY DEF FilesInv, OneWriter, CommittedHasFile, SettledHasFile, FinishHasRow, db, IsInline

\* Every step preserves what is said of files.
LEMMA FilesNext ==
  TypeOK /\ PipelineInv /\ FilesInv /\ [Next]_vars => FilesInv'
<1> SUFFICES ASSUME TypeOK, PipelineInv, FilesInv, [Next]_vars
             PROVE  FilesInv'
  OBVIOUS
<1> USE PutQueueAssumption DEF IsInline
<1>1. ASSUME NEW p \in Puts, Handler(p)
      PROVE  FilesInv'
  <2>1. UNCHANGED <<evictor, db, main, taken, flusher>>
    BY <1>1 DEF Handler, ReserveInline, ReserveBytes, ReserveCount, CancelReserve,
                ReadBody, ReadBodyFails, Enqueue, disk, env
  <2>2. \A q \in flushCh' : ~IsInline(q) => q \in flushCh
    BY <1>1 DEF Handler, ReserveInline, ReserveBytes, ReserveCount, CancelReserve,
                ReadBody, ReadBodyFails, Enqueue
  <2> QED
    BY <2>1, <2>2, FilesFrame
<1>2. ASSUME NEW m \in Movers, Mover(m)
      PROVE  FilesInv'
  <2>1. UNCHANGED <<evictor, db, flusher>> /\ main \cup taken \subseteq main' \cup taken'
    BY <1>2 DEF Mover, MoverTake, MoverStat, MoverWriteIntent, MoverCopy, MoverFails,
                MoverDeleteIntent, disk, env
  <2>2. \A q \in flushCh' : q \in flushCh \/ ShaOf[q] \in main'
    BY <1>2 DEF Mover, MoverTake, MoverStat, MoverWriteIntent, MoverCopy, MoverFails,
                MoverDeleteIntent, disk
  <2> QED
    BY <2>1, <2>2, FilesFrame
\* A committed content comes from an entry whose file is installed.
<1>3. ASSUME CommitBatch, UNCHANGED <<evictor, main, taken, flushCh>>,
             flusher'.batch = flusher.batch, evictor.pc # "tx"
      PROVE  FilesInv'
  <2>1. blobs' = blobs \cup {ShaOf[p] : p \in flusher.batch}
    BY <1>3 DEF CommitBatch
  <2>2. CommittedHasFile'
    BY <1>3, <2>1 DEF FilesInv, CommittedHasFile, SettledHasFile
  <2>3. FinishHasRow'
    <3> SUFFICES ASSUME NEW p \in flusher.batch
                 PROVE  actions'[KeyOf[p]] # NoSha
      BY <1>3 DEF FinishHasRow
    <3> DEFINE k == KeyOf[p]
               q == CHOOSE q \in flusher.batch : KeyOf[q] = k
    <3>1. p \in Puts /\ k \in Keys /\ flusher.batch \subseteq Puts
      BY DEF TypeOK
    <3>2. q \in flusher.batch /\ ShaOf[q] \in Shas
      BY <3>1
    <3>3. actions'[k] = IF actions[k] = NoSha THEN ShaOf[q] ELSE actions[k]
      BY <1>3, <3>1 DEF CommitBatch
    <3> QED
      BY <3>2, <3>3
  <2> QED
    BY <1>3, <2>2, <2>3 DEF FilesInv, OneWriter, SettledHasFile
<1>4. CASE Flusher
  <2>1. CASE FlusherTake \/ FlusherFire
    <3>1. flusher'.pc # "finish" /\ UNCHANGED <<evictor, db, main, taken>>
      BY <2>1 DEF FlusherTake, FlusherFire, TypeOK, disk, env
    <3>2. \A p \in flushCh' \cup flusher'.batch : p \in flushCh \cup flusher.batch
      <4>1. CASE FlusherTake
        <5>1. PICK q \in flushCh : /\ flushCh' = flushCh \ {q}
                                   /\ flusher' = [flusher EXCEPT !.batch = @ \cup {q}]
          BY <4>1 DEF FlusherTake
        <5>2. flusher'.batch = flusher.batch \cup {q}
          BY <5>1 DEF TypeOK
        <5> QED
          BY <5>1, <5>2
      <4>2. CASE FlusherFire
        BY <4>2 DEF FlusherFire, TypeOK
      <4> QED
        BY <2>1, <4>1, <4>2
    <3> QED
      BY <3>1, <3>2, FilesFrame
  <2>2. CASE FlushCommits
    BY <1>3, <2>2 DEF FlushCommits, TypeOK, disk, env
  <2>3. CASE FlushFails
    <3>1. flusher'.pc # "finish" /\ flusher'.batch = flusher.batch
      BY <2>3 DEF FlushFails, TypeOK
    <3> QED
      BY <1>3, <2>3, <3>1, FilesFrame DEF FlushFails, disk, env
  <2>4. ASSUME NEW p \in Puts, FlushDrops(p) \/ FinishCommitted(p)
        PROVE  FilesInv'
    <3>1. /\ flusher'.batch \subseteq flusher.batch
          /\ flusher'.pc = "finish" => flusher.pc = "finish"
      BY <2>4 DEF FlushDrops, FinishCommitted, BatchWithout, IdleFlusher, TypeOK
    <3>2. UNCHANGED <<evictor, db, main, taken, flushCh>>
      BY <2>4 DEF FlushDrops, FinishCommitted, disk, env
    <3> QED
      BY <3>1, <3>2, FilesFrame
  <2> QED
    BY <1>4, <2>1, <2>2, <2>3, <2>4 DEF Flusher
\* What the flusher was handed is pending.
<1>5. \A p \in flushCh \cup flusher.batch : PendingSHA(ShaOf[p])
  <2> SUFFICES ASSUME NEW p \in flushCh \cup flusher.batch
               PROVE  PendingSHA(ShaOf[p])
    OBVIOUS
  <2>1. p \in Puts /\ IsPending(p)
    BY DEF TypeOK, PipelineInv, InFlushCh, InFlusher
  <2>2. KeyOf[p] \in Keys /\ pending[KeyOf[p]] = p
    BY <2>1 DEF IsPending
  <2> QED
    BY <2>1, <2>2 DEF PendingSHA
\* A sweep that removes the file of a committed or settled content takes it.
<1>6. CASE SweepRemoveBlob
  <2> DEFINE s == sweeper.intent[2]
  <2>1. /\ main' = main \ {s}
        /\ taken' = IF s \in blobs \/ PendingSHA(s) THEN taken \cup {s} ELSE taken
        /\ UNCHANGED <<evictor, db, flushCh, flusher>>
    BY <1>6 DEF SweepRemoveBlob
  <2> HIDE DEF s
  <2>2. CommittedHasFile'
    BY <2>1 DEF FilesInv, CommittedHasFile, db
  <2>3. SettledHasFile'
    BY <1>5, <2>1 DEF FilesInv, SettledHasFile
  <2> QED
    BY <2>1, <2>2, <2>3 DEF FilesInv, OneWriter, FinishHasRow, db
<1>7. CASE Sweeper /\ ~SweepRemoveBlob
  BY <1>7, FilesFrame DEF Sweeper, SweepList, SweepQuery, SweepFails, SweepCheckPending,
     SweepRemoveFails, SweepUnlinkIntent, disk, env
\* The evictor takes the files of the contents that it orphans; their rows go,
\* and those that the flusher still has to commit stay taken.
<1>8. CASE Evictor
  <2>1. CASE EvictQuery \/ EvictRollsBack
    BY <2>1, FilesFrame DEF EvictQuery, EvictRollsBack, IdleEvictor, disk, env
  <2>2. CASE EvictRemoveFiles
    <3>1. /\ main' = main \ Orphaned(evictor.keys) /\ taken' = taken \cup Orphaned(evictor.keys)
          /\ flusher.pc # "finish" /\ UNCHANGED <<db, flusher, flushCh>>
      BY <2>2 DEF EvictRemoveFiles
    <3> QED
      BY <3>1 DEF FilesInv, OneWriter, CommittedHasFile, SettledHasFile, FinishHasRow, db
  <2>3. CASE EvictCommits
    <3> DEFINE gone == Orphaned(evictor.keys)
    <3>1. /\ blobs' = blobs \ gone
          /\ taken' = taken \ {s \in gone : ~PendingSHA(s)}
          /\ evictor.pc = "tx" /\ evictor' = IdleEvictor
          /\ UNCHANGED <<main, flusher, flushCh>>
      BY <2>3 DEF EvictCommits, disk
    <3> HIDE DEF gone
    <3>2. CommittedHasFile'
      BY <3>1 DEF FilesInv, CommittedHasFile
    <3>3. SettledHasFile'
      BY <1>5, <3>1 DEF FilesInv, SettledHasFile
    <3> QED
      BY <3>1, <3>2, <3>3 DEF FilesInv, OneWriter, FinishHasRow, IdleEvictor
  <2> QED
    BY <1>8, <2>1, <2>2, <2>3 DEF Evictor
<1>9. CASE Reader \/ Tick \/ UNCHANGED vars
  BY <1>9, FilesFrame DEF Reader, GetLookup, GetOpenSpool, GetQuery, GetOpenMain, Tick,
     vars, disk, env
<1>10. CASE CrashRestart
  BY <1>10 DEF CrashRestart, FilesInv, OneWriter, CommittedHasFile, SettledHasFile,
     FinishHasRow, IdleFlusher, IdleEvictor, disk, db
<1> QED
  BY <1>1, <1>2, <1>4, <1>6, <1>7, <1>8, <1>9, <1>10 DEF Next

\* Steps after which an entry that left the map is excused or has a row, and
\* that take no row and no content back, preserve what is said of GETs.
LEMMA GetFrame ==
  ASSUME GetInv, UNCHANGED <<reader>>, blobs \subseteq blobs',
         \A k \in Keys : actions[k] # NoSha => actions'[k] = actions[k],
         evictor'.pc = "tx" => evictor' = evictor,
         reader.pc # "idle" => reader.key \in Keys,
         NoSha \notin blobs,
         reader.pc = "spoolOpen" /\ IsPending(reader.put) =>
            IsPending(reader.put)' \/ actions'[reader.key] # NoSha
  PROVE  GetInv'
BY DEF GetInv, AckedReadable

\* Dropping an entry excuses the GETs of its key.
LEMMA GetDrop ==
  ASSUME TypeOK, GetInv, NEW p \in Puts, Drop(p), UNCHANGED <<db, evictor>>
  PROVE  GetInv'
<1> USE PutQueueAssumption DEF IsPending, db
<1>1. CASE reader.key = KeyOf[p]
  <2>1. reader' = [reader EXCEPT !.excused = TRUE]
    BY <1>1 DEF Drop, Excuse
  <2>2. /\ reader'.excused /\ reader'.pc = reader.pc /\ reader'.key = reader.key
        /\ reader'.put = reader.put /\ reader'.sha = reader.sha
    BY <2>1 DEF TypeOK, ReaderState, IdleReader
  <2> QED
    BY <2>2 DEF GetInv, AckedReadable
<1>2. CASE reader.key # KeyOf[p]
  <2>1. reader' = reader
    BY <1>2 DEF Drop, Excuse
  <2>2. \A q \in Puts : KeyOf[q] # KeyOf[p] /\ IsPending(q) => IsPending(q)'
    BY DEF Drop, Retire, TypeOK
  <2> QED
    BY <1>2, <2>1, <2>2 DEF GetInv, AckedReadable
<1> QED
  BY <1>1, <1>2

\* Every step preserves what is said of GETs.
LEMMA GetNext ==
  /\ TypeOK /\ PipelineInv /\ PendingKeyed /\ ActionsReferToBlobs /\ FilesInv /\ GetInv
  /\ [Next]_vars
  => GetInv'
<1> SUFFICES ASSUME TypeOK, PipelineInv, PendingKeyed, ActionsReferToBlobs, FilesInv,
                    GetInv, [Next]_vars
             PROVE  GetInv'
  OBVIOUS
<1> USE PutQueueAssumption
<1>0. /\ reader.pc # "idle" => reader \in ReaderState \ {IdleReader} /\ reader.key \in Keys
      /\ NoSha \notin blobs
  BY DEF TypeOK, ReaderState, IdleReader
<1>1. ASSUME NEW p \in Puts, Handler(p)
      PROVE  GetInv'
  <2>1. UNCHANGED <<reader, db, evictor>>
    BY <1>1 DEF Handler, ReserveInline, ReserveBytes, ReserveCount, CancelReserve,
                ReadBody, ReadBodyFails, Enqueue
  <2>2. \A q \in Puts : IsPending(q) => IsPending(q)'
    BY <1>1 DEF Handler, ReserveInline, ReserveBytes, ReserveCount, CancelReserve,
                ReadBody, ReadBodyFails, Enqueue, IsPending, TypeOK
  <2> QED
    BY <1>0, <2>1, <2>2, GetFrame DEF db, GetInv
<1>2. ASSUME NEW m \in Movers, Mover(m)
      PROVE  GetInv'
  <2>1. CASE UNCHANGED <<reader, db, pending, evictor>>
    BY <1>0, <2>1, GetFrame DEF db, IsPending
  <2>2. CASE MoverFails(m) /\ Drop(mover[m].put)
    <3>1. mover[m].put \in Puts /\ UNCHANGED <<db, evictor>>
      BY <2>2 DEF MoverFails, TypeOK, MoverState, IdleMover
    <3> QED
      BY <2>2, <3>1, GetDrop
  <2> QED
    BY <1>2, <2>1, <2>2 DEF Mover, MoverTake, MoverStat, MoverWriteIntent, MoverCopy,
       MoverFails, MoverDeleteIntent
<1>3. ASSUME CommitBatch, UNCHANGED <<reader, pending, evictor>>
      PROVE  GetInv'
  <2>1. blobs \subseteq blobs' /\ \A k \in Keys : actions[k] # NoSha => actions'[k] = actions[k]
    BY <1>3 DEF CommitBatch
  <2> QED
    BY <1>0, <1>3, <2>1, GetFrame DEF IsPending
<1>4. CASE Flusher
  <2>1. CASE FlusherTake \/ FlusherFire
    BY <1>0, <2>1, GetFrame DEF FlusherTake, FlusherFire, db, IsPending
  <2>2. CASE FlushCommits
    BY <1>3, <2>2 DEF FlushCommits
  <2>3. CASE FlushFails
    <3>1. UNCHANGED <<reader, pending, evictor>> /\ (CommitBatch \/ UNCHANGED db)
      BY <2>3 DEF FlushFails
    <3> QED
      BY <1>0, <1>3, <3>1, GetFrame DEF db, IsPending
  <2>4. ASSUME NEW p \in Puts, FlushDrops(p)
        PROVE  GetInv'
    BY <2>4, GetDrop DEF FlushDrops
  \* An entry leaves the map after its batch was committed.
  <2>5. ASSUME NEW p \in Puts, FinishCommitted(p)
        PROVE  GetInv'
    <3>1. UNCHANGED <<reader, db, evictor>> /\ actions[KeyOf[p]] # NoSha
      BY <2>5 DEF FinishCommitted, FilesInv, FinishHasRow
    <3>2. \A q \in Puts : IsPending(q) => IsPending(q)' \/ q = p
      BY <2>5 DEF FinishCommitted, Retire, IsPending, TypeOK
    <3> QED
      BY <1>0, <3>1, <3>2, GetFrame DEF db, GetInv
  <2> QED
    BY <1>4, <2>1, <2>2, <2>3, <2>4, <2>5 DEF Flusher
<1>5. CASE Sweeper \/ Tick \/ UNCHANGED vars
  <2>1. UNCHANGED <<reader, db, pending, evictor>>
    BY <1>5 DEF Sweeper, SweepList, SweepQuery, SweepFails, SweepCheckPending,
       SweepRemoveBlob, SweepRemoveFails, SweepUnlinkIntent, Tick, vars
  <2> QED
    BY <1>0, <2>1, GetFrame DEF db, IsPending
\* An eviction excuses the GETs of its keys before it takes their rows.
<1>6. CASE Evictor
  <2>1. CASE EvictQuery \/ EvictRollsBack
    <3>1. evictor'.pc # "tx" /\ UNCHANGED <<reader, db, pending>>
      BY <2>1 DEF EvictQuery, EvictRollsBack, IdleEvictor
    <3> QED
      BY <1>0, <3>1, GetFrame DEF db, IsPending
  <2>2. CASE EvictRemoveFiles
    <3>1. /\ evictor'.keys = evictor.keys /\ UNCHANGED <<db, pending>>
          /\ reader' = IF reader.key \in evictor.keys THEN [reader EXCEPT !.excused = TRUE]
                       ELSE reader
      BY <2>2 DEF EvictRemoveFiles, TypeOK
    <3>2. CASE reader.key \in evictor.keys
      <4>1. /\ reader'.excused /\ reader'.pc = reader.pc /\ reader'.key = reader.key
            /\ reader'.put = reader.put /\ reader'.sha = reader.sha
        BY <3>1, <3>2 DEF TypeOK, ReaderState, IdleReader
      <4> QED
        BY <3>1, <4>1 DEF GetInv, AckedReadable, db
    <3>3. CASE reader.key \notin evictor.keys
      BY <3>1, <3>3 DEF GetInv, AckedReadable, db, IsPending
    <3> QED
      BY <3>2, <3>3
  <2>3. CASE EvictCommits
    <3>1. /\ actions' = [k \in Keys |-> IF k \in evictor.keys THEN NoSha ELSE actions[k]]
          /\ blobs' = blobs \ Orphaned(evictor.keys)
          /\ evictor.pc = "tx" /\ evictor' = IdleEvictor
          /\ UNCHANGED <<reader, pending>>
      BY <2>3 DEF EvictCommits
    <3>2. CASE reader.excused
      BY <3>1, <3>2 DEF GetInv, AckedReadable, IdleEvictor
    <3>3. CASE ~reader.excused
      <4>1. reader.pc # "idle" => reader.key \in Keys \ evictor.keys
        BY <1>0, <3>1, <3>3 DEF GetInv
      <4>2. reader.pc # "idle" => /\ actions'[reader.key] = actions[reader.key]
                                  /\ actions[reader.key] \notin Orphaned(evictor.keys)
        BY <3>1, <4>1 DEF Orphaned
      <4> QED
        BY <3>1, <3>3, <4>2 DEF GetInv, AckedReadable, IdleEvictor, IsPending
    <3> QED
      BY <3>2, <3>3
  <2> QED
    BY <1>6, <2>1, <2>2, <2>3 DEF Evictor
<1>7. CASE Reader
  <2>1. ASSUME NEW k \in ReadKeys, GetLookup(k)
        PROVE  GetInv'
    <3>1. /\ reader'.pc = (IF pending[k] # NoPut THEN "spoolOpen" ELSE "query")
          /\ reader'.key = k /\ reader'.put = pending[k]
          /\ pending[k] = NoPut /\ actions[k] = NoSha => reader'.excused
          /\ evictor.pc = "tx" /\ k \in evictor.keys => reader'.excused
          /\ UNCHANGED <<pending, actions, evictor>> /\ k \in Keys
      BY <2>1 DEF GetLookup, db
    <3>2. CASE pending[k] = NoPut
      BY <3>1, <3>2 DEF GetInv, AckedReadable
    <3>3. CASE pending[k] # NoPut
      <4>1. pending[k] \in Puts
        BY <3>1, <3>3 DEF TypeOK
      <4> QED
        BY <3>1, <3>3, <4>1 DEF PendingKeyed, GetInv, AckedReadable, IsPending
    <3> QED
      BY <3>2, <3>3
  \* The spool file of a pending entry is there.
  <2>2. CASE GetOpenSpool
    <3>1. /\ reader' = [reader EXCEPT !.pc = IF IsInline(reader.put) \/ reader.put \in spool
                                             THEN "hit" ELSE "query"]
          /\ reader.pc = "spoolOpen" /\ UNCHANGED <<actions, evictor>>
      BY <2>2 DEF GetOpenSpool, db
    <3>2. /\ reader'.pc = IF IsInline(reader.put) \/ reader.put \in spool THEN "hit" ELSE "query"
          /\ reader'.key = reader.key /\ reader'.excused = reader.excused
      BY <1>0, <3>1 DEF ReaderState
    <3>3. reader'.pc = "query" => ~IsPending(reader.put)
      BY <3>1, <3>2 DEF GetInv, PipelineInv, PendingServable
    <3> QED
      BY <3>1, <3>2, <3>3 DEF GetInv, AckedReadable
  \* A row leads to a committed content.
  <2>3. CASE GetQuery
    <3> DEFINE sha == actions[reader.key]
    <3>1. /\ reader.pc = "query" /\ UNCHANGED <<blobs, actions, evictor>>
          /\ reader' = [reader EXCEPT !.sha = sha,
                          !.pc = IF sha = NoSha THEN "miss"
                                 ELSE IF sha \in InlineShas THEN "hit" ELSE "mainOpen"]
      BY <2>3 DEF GetQuery, db
    <3>2. /\ reader'.pc = IF sha = NoSha THEN "miss"
                          ELSE IF sha \in InlineShas THEN "hit" ELSE "mainOpen"
          /\ reader'.sha = sha /\ reader'.excused = reader.excused /\ reader'.key = reader.key
      BY <1>0, <3>1 DEF ReaderState
    <3>3. sha # NoSha => sha \in blobs
      BY <1>0, <3>1 DEF ActionsReferToBlobs
    <3> QED
      BY <3>1, <3>2, <3>3 DEF GetInv, AckedReadable
  \* A committed content has its file, unless it was taken.
  <2>4. CASE GetOpenMain
    <3>1. /\ reader.pc = "mainOpen" /\ UNCHANGED evictor
          /\ reader' = [reader EXCEPT !.pc = IF reader.sha \in main THEN "hit" ELSE "miss",
                                      !.excused = @ \/ reader.sha \in taken]
      BY <2>4 DEF GetOpenMain
    <3>2. /\ reader'.pc = IF reader.sha \in main THEN "hit" ELSE "miss"
          /\ reader.excused \/ reader.sha \in taken => reader'.excused
          /\ reader'.key = reader.key
      BY <1>0, <3>1 DEF ReaderState
    <3>3. reader.excused \/ reader.sha \in main \cup taken
      BY <3>1 DEF GetInv, FilesInv, CommittedHasFile
    <3>4. reader'.pc \in {"hit", "miss"} /\ (reader'.pc = "miss" => reader'.excused)
      BY <3>2, <3>3
    <3>5. evictor'.pc = "tx" /\ reader'.key \in evictor'.keys => reader'.excused
      BY <3>1, <3>2 DEF GetInv
    <3> QED
      BY <3>4, <3>5 DEF GetInv, AckedReadable
  <2> QED
    BY <1>7, <2>1, <2>2, <2>3, <2>4 DEF Reader
<1>8. CASE CrashRestart
  BY <1>8 DEF CrashRestart, GetInv, AckedReadable, IdleReader, IdleEvictor
<1> QED
  BY <1>1, <1>2, <1>4, <1>5, <1>6, <1>7, <1>8 DEF Next

\* Both hold in every reachable state.
LEMMA FilesAlways == Spec => [](FilesInv /\ GetInv)
<1>1. TypeOK /\ PipelineInv /\ FilesInv /\ [Next]_vars => FilesInv'
  BY FilesNext
<1>2. /\ TypeOK /\ PipelineInv /\ PendingKeyed /\ ActionsReferToBlobs /\ FilesInv /\ GetInv
      /\ [Next]_vars
      => GetInv'
  BY GetNext
<1> QED
  BY <1>1, <1>2, FilesInit, PipelineAlways, KeyedAlways, RowsReferToBlobs, PTL DEF Spec

\* The only ways for a committed content to lose its file are an eviction or a
\* sweep that removes it while a row or a pending PUT counts on it: no other
\* interleaving of handlers, movers, flusher, sweeper and evictor, no failure,
\* retry or drop and no crash does it.
THEOREM CommittedKeepFiles == Spec => []CommittedHasFile
<1>1. FilesInv => CommittedHasFile
  BY DEF FilesInv
<1> QED
  BY <1>1, FilesAlways, PTL

\* A GET of an accepted key never misses in the window in which the entry
\* passes from the pending map to SQLite: if the spool file is gone the row is
\* there, and its file with it unless one of those two took it.
THEOREM AcceptedIsRead == Spec => []AckedReadable
<1>1. GetInv => AckedReadable
  BY DEF GetInv
<1> QED
  BY <1>1, FilesAlways, PTL
=============================================================================
