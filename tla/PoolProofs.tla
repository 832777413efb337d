----------------------------- MODULE PoolProofs -----------------------------
(***************************************************************************)
(* Proofs about a pool, for any number of members and any changes, breaks, *)
(* faults and restarts.                                                    *)
(***************************************************************************)
EXTENDS Pool, FiniteSetTheorems, SequenceTheorems, WellFoundedInduction, TLAPS

-----------------------------------------------------------------------------
(* The inductive invariants *)

\* What a tracker holds of m after a notification, when it held v before.
After(msg, m, v) ==
  IF msg.kind = "status" THEN IF msg.net[m] \in Tagged THEN msg.net[m] ELSE "none"
  ELSE IF msg.id # m THEN v
  ELSE IF msg.st \in {"gone", "plain"} THEN "none" ELSE Online(msg.st, v)

\* What may be held of m, given what the control plane says of it now.
Agrees(m, v) == (v \in Tagged <=> net[m] \in Tagged) /\ (net[m] = "on" => v = "on")

\* tr is how what n's tracker holds of m goes through the notifications that its
\* stream has yet to deliver.
Traces(n, m, tr) ==
  /\ tr[1] = nodes[n][m]
  /\ \A i \in 1..Len(stream[n].q) : tr[i + 1] = After(stream[n].q[i], m, tr[i])

\* Once they are delivered, it agrees with the control plane.
DeliversTo(n, m) ==
  n # m /\ stream[n].pc = "open" =>
    \A tr \in [1..(Len(stream[n].q) + 1) -> Tagged \cup {"none"}] :
      Traces(n, m, tr) => Agrees(m, tr[Len(stream[n].q) + 1])

Delivers == \A n \in Members, m \in Members : DeliversTo(n, m)

\* A stream that waits, and a process that does not run, hold nothing.
Forgets ==
  /\ \A n \in Members : stream[n].pc = "wait" => ~stream[n].signal /\ stream[n].q = <<>>
  /\ \A n \in Members : ~up[n] =>
       /\ stream[n] = NoStream /\ nodes[n] = NoNodes /\ self[n] = "unset" /\ ~changed[n]
       /\ round[n] = IdleRound

\* The candidates are those of the source unless a signal is due or waiting.
CandidatesFollow ==
  \A n \in Members : ~changed[n] /\ ~stream[n].signal =>
    \A m \in Members : peers[n][m].cand = nodes[n][m]

\* A tracker that has no self yet has had no status: it holds no nodes, and the
\* server has found nobody.
SelfFirst ==
  \A n \in Members : self[n] = "unset" =>
    /\ stream[n].pc = "open" => stream[n].q # <<>> /\ stream[n].q[1].kind = "status"
    /\ \A m \in Members : /\ nodes[n][m] = "none" /\ peers[n][m] = NoPeer
                          /\ round[n].res[m].st = "no" /\ reachable[n][m] = 0

\* The published set is that of the last round, the router has it or a signal, and
\* a table with peers has this process too.
Published ==
  \A n \in Members :
    /\ round[n].pc # "probe" => \A m \in Members :
         reachable[n][m] = IF peers[n][m].reach THEN peers[n][m].pin ELSE 0
    /\ up[n] /\ round[n].pc # "signal" /\ ~sub[n] =>
         \A m \in Members : routed[n].peers[m] = reachable[n][m]
    /\ (\E m \in Members : routed[n].peers[m] # 0) => routed[n].self

-----------------------------------------------------------------------------
(* Notifications *)

\* A notification is a status or a delta.
LEMMA MessageShape ==
  ASSUME NEW msg \in Messages
  PROVE  \/ msg.kind = "status" /\ msg.net \in [Members -> Statuses]
         \/ msg.kind = "delta" /\ msg.id \in Members /\ msg.st \in Statuses \cup {"unknown"}
BY DEF Messages, Status, Delta

\* A delta that the control plane sends.
LEMMA DeltaIsMessage ==
  ASSUME NEW m \in Members, NEW s \in Statuses \cup {"unknown"}
  PROVE  /\ Delta(m, s) \in Messages
         /\ Delta(m, s).kind = "delta" /\ Delta(m, s).id = m /\ Delta(m, s).st = s
BY DEF Messages, Delta

\* The status that a new stream starts with.
LEMMA StatusIsMessage ==
  ASSUME TypeOK
  PROVE  Status(net) \in Messages /\ Status(net).kind = "status" /\ Status(net).net = net
BY DEF Messages, Status, TypeOK, TrackerTypeOK

\* A flag that is known or kept is a flag.
LEMMA OnlineType ==
  ASSUME NEW st \in Statuses \cup {"unknown"}, NEW prev
  PROVE  /\ st \notin {"gone", "plain"} => Online(st, prev) \in Tagged
         /\ Online(st, prev) \in Statuses
BY DEF Online, Statuses, Tagged

\* Deliveries add to the open streams and leave the others alone.
LEMMA DeliverDoes ==
  ASSUME TypeOK, NEW d \in Messages, NEW Skipped, Deliver(d, Skipped)
  PROVE  /\ stream' \in [Members -> Streams]
         /\ \A n \in Members : /\ stream'[n].pc = stream[n].pc
                               /\ stream'[n].signal = stream[n].signal
                               /\ stream'[n].q = IF stream[n].pc = "open" /\ n \notin Skipped
                                                 THEN Append(stream[n].q, d) ELSE stream[n].q
<1>1. \A n \in Members : /\ stream[n] \in Streams
                         /\ stream'[n] = IF stream[n].pc = "open" /\ n \notin Skipped
                                         THEN [stream[n] EXCEPT !.q = Append(stream[n].q, d)]
                                         ELSE stream[n]
  BY DEF Deliver, TypeOK, TrackerTypeOK
<1>2. \A n \in Members : Append(stream[n].q, d) \in Seq(Messages)
  <2>1. \A n \in Members : stream[n].q \in Seq(Messages)
    BY <1>1 DEF Streams
  <2> QED
    BY <2>1, AppendProperties
<1>3. \A n \in Members : /\ stream'[n] \in Streams
                         /\ stream'[n].pc = stream[n].pc
                         /\ stream'[n].signal = stream[n].signal
                         /\ stream'[n].q = IF stream[n].pc = "open" /\ n \notin Skipped
                                           THEN Append(stream[n].q, d) ELSE stream[n].q
  BY <1>1, <1>2 DEF Streams
<1>4. stream' = [n \in Members |-> stream'[n]]
  BY DEF Deliver
<1> QED
  BY <1>3, <1>4

\* What a merge changes.
LEMMA MergedDoes ==
  ASSUME TypeOK, NEW n \in Members, NEW newNodes \in [Members -> Tagged \cup {"none"}],
         NEW newSelf \in Statuses, stream[n].q # <<>>, Merged(n, newNodes, newSelf)
  PROVE  /\ stream' \in [Members -> Streams]
         /\ nodes' \in [Members -> [Members -> Tagged \cup {"none"}]]
         /\ self' \in [Members -> Statuses \cup {"unset"}]
         /\ nodes'[n] = newNodes /\ self'[n] = newSelf
         /\ stream'[n].pc = stream[n].pc /\ stream'[n].q = Tail(stream[n].q)
         /\ stream'[n].signal <=> newNodes # nodes[n] \/ newSelf # self[n]
         /\ \A o \in Members : o # n => /\ stream'[o] = stream[o] /\ nodes'[o] = nodes[o]
                                        /\ self'[o] = self[o]
         /\ UNCHANGED <<net, events, up, changed>>
<1> DEFINE s == [pc |-> stream[n].pc, q |-> Tail(stream[n].q),
                 signal |-> newNodes # nodes[n] \/ newSelf # self[n]]
<1>1. stream[n] \in Streams
  BY DEF TypeOK, TrackerTypeOK
<1>2. Tail(stream[n].q) \in Seq(Messages)
  BY <1>1 DEF Streams
<1>3. s \in Streams
  BY <1>1, <1>2 DEF Streams
<1>4. stream' = [stream EXCEPT ![n] = s]
  BY DEF Merged
<1>5. s.pc = stream[n].pc /\ s.q = Tail(stream[n].q)
      /\ (s.signal <=> newNodes # nodes[n] \/ newSelf # self[n])
  OBVIOUS
<1> HIDE DEF s
<1>6. stream' \in [Members -> Streams] /\ stream'[n] = s /\ \A o \in Members : o # n => stream'[o] = stream[o]
  BY <1>3, <1>4 DEF TypeOK, TrackerTypeOK
<1>7. /\ nodes' = [nodes EXCEPT ![n] = newNodes] /\ self' = [self EXCEPT ![n] = newSelf]
      /\ UNCHANGED <<net, events, up, changed>>
  BY DEF Merged
<1> QED
  BY <1>5, <1>6, <1>7 DEF TypeOK, TrackerTypeOK

\* What a status or a delta makes of the nodes and of self.
LEMMA StatusDoes ==
  ASSUME TypeOK, NEW n \in Members, MergeStatus(n)
  PROVE  LET st == stream[n].q[1].net IN
         /\ stream[n].q # <<>> /\ stream[n].q[1].kind = "status" /\ up[n]
         /\ st \in [Members -> Statuses] /\ ~stream[n].signal
         /\ Merged(n, Fresh(n, st), st[n])
         /\ Fresh(n, st) \in [Members -> Tagged \cup {"none"}] /\ st[n] \in Statuses
<1>1. /\ stream[n].q # <<>> /\ stream[n].q[1].kind = "status" /\ ~stream[n].signal /\ up[n]
      /\ Merged(n, Fresh(n, stream[n].q[1].net), stream[n].q[1].net[n])
  BY DEF MergeStatus, Next1
<1>2. stream[n] \in Streams
  BY DEF TypeOK, TrackerTypeOK
<1>3. stream[n].q \in Seq(Messages)
  BY <1>2 DEF Streams
<1>4. stream[n].q[1] \in Messages
  BY <1>1, <1>3
<1>5. stream[n].q[1].net \in [Members -> Statuses]
  BY <1>1, <1>4, MessageShape
<1>6. Fresh(n, stream[n].q[1].net) \in [Members -> Tagged \cup {"none"}]
  BY <1>5 DEF Fresh
<1> QED
  BY <1>1, <1>5, <1>6

\* The nodes and self after a delta.
NodesAfter(n, d) ==
  IF d.id = n THEN nodes[n]
  ELSE [nodes[n] EXCEPT ![d.id] = IF d.st \in {"gone", "plain"} THEN "none"
                                  ELSE Online(d.st, nodes[n][d.id])]
SelfAfter(n, d) == IF d.id = n THEN Online(d.st, self[n]) ELSE self[n]

\* A delta is merged into what there is.
LEMMA NotifyDoes ==
  ASSUME TypeOK, SelfFirst, Forgets, NEW n \in Members, MergeNotify(n)
  PROVE  LET d == stream[n].q[1] IN
         /\ stream[n].q # <<>> /\ d.kind = "delta" /\ up[n] /\ ~stream[n].signal
         /\ d \in Messages /\ d.id \in Members /\ d.st \in Statuses \cup {"unknown"}
         /\ Merged(n, NodesAfter(n, d), SelfAfter(n, d)) /\ self[n] # "unset"
         /\ NodesAfter(n, d) \in [Members -> Tagged \cup {"none"}] /\ SelfAfter(n, d) \in Statuses
<1> DEFINE d == stream[n].q[1]
<1>1. stream[n].q # <<>> /\ d.kind = "delta" /\ ~stream[n].signal /\ up[n]
  BY DEF MergeNotify, Next1
<1>2. stream[n] \in Streams
  BY DEF TypeOK, TrackerTypeOK
<1>3. stream[n].q \in Seq(Messages) /\ stream[n].pc \in {"wait", "open"}
  BY <1>2 DEF Streams
<1>4. d \in Messages
  BY <1>1, <1>3
<1>5. d.id \in Members /\ d.st \in Statuses \cup {"unknown"}
  BY <1>1, <1>4, MessageShape
<1>6. self[n] # "unset"
  BY <1>1, <1>3 DEF SelfFirst, Forgets
<1>7. Merged(n, NodesAfter(n, d), SelfAfter(n, d))
  BY DEF MergeNotify, NodesAfter, SelfAfter
<1>8. /\ nodes[n] \in [Members -> Tagged \cup {"none"}] /\ self[n] \in Statuses
  BY <1>6 DEF TypeOK, TrackerTypeOK
<1>9. SelfAfter(n, d) \in Statuses
  BY <1>5, <1>8, OnlineType DEF SelfAfter
<1>10. NodesAfter(n, d) \in [Members -> Tagged \cup {"none"}]
  BY <1>5, <1>8, OnlineType DEF NodesAfter
<1> QED
  BY <1>1, <1>4, <1>5, <1>6, <1>7, <1>9, <1>10

-----------------------------------------------------------------------------
(* Rounds *)

\* n's probe of m has the result r.
Answered(n, m, r) == round' = [round EXCEPT ![n].res[m] = r]

\* A probe changes its own result only.
LEMMA ProbedDoes ==
  ASSUME TypeOK, NEW n \in Members, NEW m \in Members, NEW r \in Results,
         Answered(n, m, r)
  PROVE  /\ round' \in [Members -> Rounds]
         /\ \A o \in Members : round'[o].pc = round[o].pc
         /\ \A o \in Members : o # n => round'[o] = round[o]
         /\ \A o, x \in Members : round'[o].res[x] = IF o = n /\ x = m THEN r ELSE round[o].res[x]
<1>1. \A o \in Members : round[o] \in Rounds /\ round[o].res \in [Members -> Results]
  BY DEF TypeOK, ServerTypeOK, Rounds
<1>2. \A o \in Members : round'[o] = IF o = n THEN [round[n] EXCEPT !.res = [round[n].res EXCEPT ![m] = r]]
                                     ELSE round[o]
  BY DEF Answered, TypeOK, ServerTypeOK
<1>3. [round[n].res EXCEPT ![m] = r] \in [Members -> Results]
  BY <1>1
<1>4. \A o \in Members :
        /\ round'[o] \in Rounds /\ round'[o].pc = round[o].pc
        /\ round'[o].res = IF o = n THEN [round[n].res EXCEPT ![m] = r] ELSE round[o].res
  BY <1>1, <1>2, <1>3 DEF Rounds
<1>5. \A o, x \in Members : round'[o].res[x] = IF o = n /\ x = m THEN r ELSE round[o].res[x]
  BY <1>1, <1>4
<1>6. round' = [o \in Members |-> round'[o]]
  BY DEF Answered, TypeOK, ServerTypeOK
<1>7. round' \in [Members -> Rounds]
  BY <1>4, <1>6
<1> QED
  BY <1>2, <1>4, <1>5, <1>7

\* The start of a round: what it makes of the peers, and whom it will probe.
LEMMA RoundStartDoes ==
  ASSUME TypeOK, NEW n \in Members, RoundStart(n)
  PROVE  /\ round' \in [Members -> Rounds] /\ peers' \in [Members -> [Members -> PeerStates]]
         /\ \A o \in Members : o # n => round'[o] = round[o] /\ peers'[o] = peers[o]
         /\ round[n].pc = "idle" /\ round'[n].pc = "probe" /\ up[n]
         /\ \A m \in Members :
              /\ peers'[n][m].cand = nodes[n][m]
              /\ nodes[n][m] = "none" => peers'[n][m] = NoPeer /\ round'[n].res[m].st = "no"
         /\ UNCHANGED <<net, events, up, stream, nodes, self, gen, reachable, sub>>
<1> DEFINE kept == [m \in Members |->
                      IF nodes[n][m] = "none" THEN NoPeer
                      ELSE [cand |-> nodes[n][m], pin |-> peers[n][m].pin,
                            reach |-> peers[n][m].reach /\ nodes[n][m] = "on"]]
           res  == [m \in Members |->
                      IF nodes[n][m] = "on"
                      THEN [st |-> "fetch", pin |-> kept[m].pin, reach |-> kept[m].reach]
                      ELSE NotProbed]
<1>1. /\ peers' = [peers EXCEPT ![n] = kept] /\ up[n]
      /\ round' = [round EXCEPT ![n] = [pc |-> "probe", res |-> res]] /\ round[n].pc = "idle"
      /\ UNCHANGED <<net, events, up, stream, nodes, self, gen, reachable, sub>>
  BY DEF RoundStart
<1>2. \A m \in Members : peers[n][m] \in PeerStates /\ nodes[n][m] \in Tagged \cup {"none"}
  BY DEF TypeOK, ServerTypeOK, TrackerTypeOK
<1>3. NoPeer \in PeerStates /\ NotProbed \in Results /\ NoPeer.cand = "none" /\ NotProbed.st = "no"
  BY DEF NoPeer, PeerStates, NotProbed, Results
<1>4. \A m \in Members : kept[m] \in PeerStates /\ kept[m].cand = nodes[n][m]
                         /\ (nodes[n][m] = "none" => kept[m] = NoPeer)
  BY <1>2, <1>3 DEF PeerStates
<1>5. kept \in [Members -> PeerStates]
  BY <1>4
<1> HIDE DEF kept
<1>6. \A m \in Members : kept[m].pin \in Nat /\ kept[m].reach \in BOOLEAN
  BY <1>4 DEF PeerStates
<1>7. \A m \in Members : res[m] \in Results /\ (nodes[n][m] = "none" => res[m].st = "no")
  BY <1>3, <1>6 DEF Results
<1>8. res \in [Members -> Results]
  BY <1>7
<1> HIDE DEF res
<1>9. [pc |-> "probe", res |-> res] \in Rounds
  BY <1>8 DEF Rounds
<1> QED
  BY <1>1, <1>4, <1>5, <1>7, <1>9 DEF TypeOK, ServerTypeOK

\* The end of a round: the results are applied, and a set that changed is published.
LEMMA RoundApplyDoes ==
  ASSUME TypeOK, NEW n \in Members, RoundApply(n)
  PROVE  /\ round' \in [Members -> Rounds] /\ peers' \in [Members -> [Members -> PeerStates]]
         /\ reachable' \in [Members -> [Members -> Nat]]
         /\ \A o \in Members : o # n => /\ round'[o] = round[o] /\ peers'[o] = peers[o]
                                        /\ reachable'[o] = reachable[o]
         /\ round[n].pc = "probe" /\ round'[n].pc \in {"idle", "signal"} /\ up[n]
         /\ \A m \in Members :
              /\ peers'[n][m].cand = peers[n][m].cand
              /\ round[n].res[m].st = "no" => peers'[n][m] = peers[n][m]
              /\ reachable'[n][m] = IF peers'[n][m].reach THEN peers'[n][m].pin ELSE 0
              /\ round'[n].res[m] = NotProbed
         /\ round'[n].pc = "idle" => reachable'[n] = reachable[n]
         /\ UNCHANGED <<net, events, up, stream, nodes, self, changed, gen, sub>>
<1> DEFINE res     == round[n].res
           applied == [m \in Members |->
                         IF res[m].st = "no" THEN peers[n][m]
                         ELSE [cand |-> peers[n][m].cand, pin |-> res[m].pin, reach |-> res[m].reach]]
           next    == [m \in Members |-> IF applied[m].reach THEN applied[m].pin ELSE 0]
<1>1. /\ peers' = [peers EXCEPT ![n] = applied] /\ up[n] /\ round[n].pc = "probe"
      /\ IF reachable[n] = next
           THEN round' = [round EXCEPT ![n] = IdleRound] /\ UNCHANGED reachable
           ELSE /\ round' = [round EXCEPT ![n] = [IdleRound EXCEPT !.pc = "signal"]]
                /\ reachable' = [reachable EXCEPT ![n] = next]
      /\ UNCHANGED <<net, events, up, stream, nodes, self, changed, gen, sub>>
  BY DEF RoundApply, SamePeers
<1>2. \A m \in Members : peers[n][m] \in PeerStates /\ res[m] \in Results
  BY DEF TypeOK, ServerTypeOK, Rounds
<1>3. \A m \in Members : /\ applied[m] \in PeerStates /\ applied[m].cand = peers[n][m].cand
                         /\ res[m].st = "no" => applied[m] = peers[n][m]
  BY <1>2 DEF PeerStates, Results
<1>4. applied \in [Members -> PeerStates]
  BY <1>3
<1> HIDE DEF applied
<1>5. \A m \in Members : applied[m].pin \in Nat
  BY <1>3 DEF PeerStates
<1>6. next \in [Members -> Nat] /\ \A m \in Members : next[m] = IF applied[m].reach THEN applied[m].pin ELSE 0
  BY <1>5
<1> HIDE DEF next
<1>7. NotProbed \in Results
  BY DEF NotProbed, Results
<1>8. /\ IdleRound \in Rounds /\ IdleRound.pc = "idle" /\ \A m \in Members : IdleRound.res[m] = NotProbed
  BY <1>7 DEF IdleRound, Rounds
<1>9. /\ [IdleRound EXCEPT !.pc = "signal"] \in Rounds
      /\ [IdleRound EXCEPT !.pc = "signal"].pc = "signal"
      /\ \A m \in Members : [IdleRound EXCEPT !.pc = "signal"].res[m] = NotProbed
  BY <1>7 DEF IdleRound, Rounds
<1>10. /\ peers' \in [Members -> [Members -> PeerStates]] /\ peers'[n] = applied
       /\ \A o \in Members : o # n => peers'[o] = peers[o]
  BY <1>1, <1>4 DEF TypeOK, ServerTypeOK
<1>11. CASE reachable[n] = next
  <2>1. round' = [round EXCEPT ![n] = IdleRound] /\ reachable' = reachable
    BY <1>1, <1>11
  <2>2. /\ round' \in [Members -> Rounds] /\ round'[n] = IdleRound
        /\ \A o \in Members : o # n => round'[o] = round[o]
    BY <1>8, <2>1 DEF TypeOK, ServerTypeOK
  <2>3. reachable' \in [Members -> [Members -> Nat]] /\ reachable'[n] = next
    BY <1>11, <2>1 DEF TypeOK, ServerTypeOK
  <2> QED
    BY <1>1, <1>3, <1>6, <1>8, <1>10, <2>1, <2>2, <2>3
<1>12. CASE reachable[n] # next
  <2> DEFINE sig == [IdleRound EXCEPT !.pc = "signal"]
  <2>1. round' = [round EXCEPT ![n] = sig] /\ reachable' = [reachable EXCEPT ![n] = next]
    BY <1>1, <1>12
  <2>2. sig \in Rounds /\ sig.pc = "signal" /\ \A m \in Members : sig.res[m] = NotProbed
    BY <1>9
  <2> HIDE DEF sig
  <2>3. /\ round' \in [Members -> Rounds] /\ round'[n] = sig
        /\ \A o \in Members : o # n => round'[o] = round[o]
    BY <2>1, <2>2 DEF TypeOK, ServerTypeOK
  <2>4. /\ reachable' \in [Members -> [Members -> Nat]] /\ reachable'[n] = next
        /\ \A o \in Members : o # n => reachable'[o] = reachable[o]
    BY <1>6, <2>1 DEF TypeOK, ServerTypeOK
  <2> QED
    BY <1>1, <1>3, <1>6, <1>10, <2>2, <2>3, <2>4
<1> QED
  BY <1>11, <1>12

-----------------------------------------------------------------------------
(* Types *)

\* A change or a fault stays within the bound.
LEMMA HappensType ==
  ASSUME TypeOK, Happens
  PROVE  events' \in 0..MaxEvents
BY TrackerAssumptions DEF TypeOK, TrackerTypeOK, Happens

\* The values that a stream, a round and a routing start with.
LEMMA StartValues ==
  /\ NoStream \in Streams /\ NoStream.pc = "wait" /\ NoStream.q = <<>> /\ ~NoStream.signal
  /\ OpenStream \in Streams /\ OpenStream.pc = "open" /\ OpenStream.q = <<>> /\ ~OpenStream.signal
  /\ IdleRound \in Rounds /\ IdleRound.pc = "idle" /\ \A m \in Members : IdleRound.res[m] = NotProbed
  /\ NoPeer \in PeerStates /\ NoPeer.cand = "none" /\ ~NoPeer.reach /\ NotProbed.st = "no"
  /\ NoNodes \in [Members -> Tagged \cup {"none"}] /\ NoTransports \in [Members -> Nat]
  /\ NoRouting \in [peers : [Members -> Nat], self : BOOLEAN]
  /\ NoRouting.peers = NoTransports
<1>1. <<>> \in Seq(Messages)
  OBVIOUS
<1>2. NotProbed \in Results
  BY DEF NotProbed, Results
<1>3. /\ NoStream \in Streams /\ NoStream.pc = "wait" /\ NoStream.q = <<>> /\ ~NoStream.signal
      /\ OpenStream \in Streams /\ OpenStream.pc = "open" /\ OpenStream.q = <<>> /\ ~OpenStream.signal
  BY <1>1 DEF NoStream, OpenStream, Streams
<1>4. IdleRound \in Rounds /\ IdleRound.pc = "idle" /\ \A m \in Members : IdleRound.res[m] = NotProbed
  BY <1>2 DEF IdleRound, Rounds
<1>5. /\ NoPeer \in PeerStates /\ NoPeer.cand = "none" /\ ~NoPeer.reach /\ NotProbed.st = "no"
      /\ NoNodes \in [Members -> Tagged \cup {"none"}] /\ NoTransports \in [Members -> Nat]
  BY DEF NoPeer, PeerStates, NotProbed, NoNodes, NoTransports
<1>6. NoRouting \in [peers : [Members -> Nat], self : BOOLEAN] /\ NoRouting.peers = NoTransports
  BY <1>5 DEF NoRouting
<1> QED
  BY <1>3, <1>4, <1>5, <1>6

\* The stream that a connection makes.
LEMMA ConnectDoes ==
  ASSUME TypeOK, NEW n \in Members, Connect(n)
  PROVE  /\ stream' \in [Members -> Streams]
         /\ stream'[n].pc = "open" /\ stream'[n].q = <<Status(net)>> /\ ~stream'[n].signal
         /\ \A o \in Members : o # n => stream'[o] = stream[o]
         /\ up[n] /\ stream[n].pc = "wait" /\ UNCHANGED <<net, events, up, nodes, self, changed>>
<1> DEFINE s == [OpenStream EXCEPT !.q = <<Status(net)>>]
<1>1. <<Status(net)>> \in Seq(Messages)
  BY StatusIsMessage
<1>2. s \in Streams /\ s.pc = "open" /\ s.q = <<Status(net)>> /\ ~s.signal
  BY <1>1 DEF OpenStream, NoStream, Streams
<1>3. /\ stream' = [stream EXCEPT ![n] = s] /\ up[n] /\ stream[n].pc = "wait"
      /\ UNCHANGED <<net, events, up, nodes, self, changed>>
  BY DEF Connect
<1> HIDE DEF s
<1> QED
  BY <1>2, <1>3 DEF TypeOK, TrackerTypeOK

\* The signal that a tracker owes is sent.
LEMMA TrackerSignalsDoes ==
  ASSUME TypeOK, NEW n \in Members, TrackerSignals(n)
  PROVE  /\ stream' \in [Members -> Streams] /\ changed' \in [Members -> BOOLEAN]
         /\ stream'[n].pc = stream[n].pc /\ stream'[n].q = stream[n].q /\ ~stream'[n].signal
         /\ changed'[n] /\ \A o \in Members : o # n => stream'[o] = stream[o] /\ changed'[o] = changed[o]
         /\ up[n] /\ stream[n].signal /\ UNCHANGED <<net, events, up, nodes, self>>
<1> DEFINE s == [stream[n] EXCEPT !.signal = FALSE]
<1>1. stream[n] \in Streams
  BY DEF TypeOK, TrackerTypeOK
<1>2. s \in Streams /\ s.pc = stream[n].pc /\ s.q = stream[n].q /\ ~s.signal
  BY <1>1 DEF Streams
<1>3. /\ stream' = [stream EXCEPT ![n] = s] /\ changed' = [changed EXCEPT ![n] = TRUE]
      /\ up[n] /\ stream[n].signal /\ UNCHANGED <<net, events, up, nodes, self>>
  BY DEF TrackerSignals
<1> HIDE DEF s
<1> QED
  BY <1>2, <1>3 DEF TypeOK, TrackerTypeOK

\* What one of the four answers to a probe does.
LEMMA ProbeDoes ==
  ASSUME TypeOK, NEW n \in Members, Probe(n)
  PROVE  /\ round' \in [Members -> Rounds] /\ events' \in 0..MaxEvents
         /\ \A o \in Members : round'[o].pc = round[o].pc
         /\ \A o, x \in Members : round[o].res[x].st = "no" => round'[o].res[x].st = "no"
         /\ \A o \in Members : o # n => round'[o] = round[o]
         /\ up[n] /\ round[n].pc = "probe"
         /\ UNCHANGED <<net, up, stream, nodes, self, changed, gen, peers, reachable, sub>>
<1>1. PICK m \in Members : FetchAdvert(n, m) \/ FetchFails(n, m) \/ CheckLAN(n, m) \/ CheckLANFails(n, m)
  BY DEF Probe
<1>2. round[n].res[m] \in Results /\ gen[m] \in Nat /\ events \in 0..MaxEvents
  BY DEF TypeOK, ServerTypeOK, TrackerTypeOK, Rounds
<1>3. round[n].res[m].pin \in Nat /\ round[n].res[m].reach \in BOOLEAN
  BY <1>2 DEF Results
<1> DEFINE Answers(r) ==
             /\ Answered(n, m, r)
             /\ UNCHANGED <<net, up, stream, nodes, self, changed, gen, peers, reachable, sub>>
<1>4. /\ events' \in 0..MaxEvents /\ round[n].res[m].st # "no" /\ up[n] /\ round[n].pc = "probe"
      /\ \E r \in Results : Answers(r)
  <2>1. CASE FetchAdvert(n, m)
    <3> DEFINE r == [st |-> "check", pin |-> gen[m],
                     reach |-> round[n].res[m].reach /\ round[n].res[m].pin = gen[m]]
    <3>1. Answers(r)
      BY <2>1 DEF FetchAdvert, Probed, Answered
    <3>2. r \in Results
      BY <1>2 DEF Results
    <3>3. events' = events /\ round[n].res[m].st = "fetch" /\ up[n] /\ round[n].pc = "probe"
      BY <2>1 DEF FetchAdvert, Probing
    <3> HIDE DEF r, Answers
    <3>4. \E x \in Results : Answers(x)
      BY <3>1, <3>2
    <3> QED
      BY <1>2, <3>3, <3>4
  <2>2. CASE FetchFails(n, m)
    <3> DEFINE r == [st |-> "done", pin |-> round[n].res[m].pin, reach |-> FALSE]
    <3>1. Answers(r)
      BY <2>2 DEF FetchFails, Probed, Answered
    <3>2. r \in Results
      BY <1>3 DEF Results
    <3>3. Happens \/ UNCHANGED events
      BY <2>2 DEF FetchFails
    <3>4. events' \in 0..MaxEvents
      BY <1>2, <3>3, HappensType
    <3>5. round[n].res[m].st = "fetch" /\ up[n] /\ round[n].pc = "probe"
      BY <2>2 DEF FetchFails, Probing
    <3> HIDE DEF r, Answers
    <3>6. \E x \in Results : Answers(x)
      BY <3>1, <3>2
    <3> QED
      BY <3>4, <3>5, <3>6
  <2>3. CASE CheckLAN(n, m)
    <3> DEFINE r == [st |-> "done", pin |-> round[n].res[m].pin, reach |-> TRUE]
    <3>1. Answers(r)
      BY <2>3 DEF CheckLAN, Probed, Answered
    <3>2. r \in Results
      BY <1>3 DEF Results
    <3>3. events' = events /\ round[n].res[m].st = "check" /\ up[n] /\ round[n].pc = "probe"
      BY <2>3 DEF CheckLAN, Probing
    <3> HIDE DEF r, Answers
    <3>4. \E x \in Results : Answers(x)
      BY <3>1, <3>2
    <3> QED
      BY <1>2, <3>3, <3>4
  <2>4. CASE CheckLANFails(n, m)
    <3> DEFINE r == [st |-> "done", pin |-> round[n].res[m].pin, reach |-> FALSE]
    <3>1. Answers(r)
      BY <2>4 DEF CheckLANFails, Probed, Answered
    <3>2. r \in Results
      BY <1>3 DEF Results
    <3>3. Happens \/ UNCHANGED events
      BY <2>4 DEF CheckLANFails
    <3>4. events' \in 0..MaxEvents
      BY <1>2, <3>3, HappensType
    <3>5. round[n].res[m].st = "check" /\ up[n] /\ round[n].pc = "probe"
      BY <2>4 DEF CheckLANFails, Probing
    <3> HIDE DEF r, Answers
    <3>6. \E x \in Results : Answers(x)
      BY <3>1, <3>2
    <3> QED
      BY <3>4, <3>5, <3>6
  <2> QED
    BY <1>1, <2>1, <2>2, <2>3, <2>4
<1>5. PICK r \in Results : Answers(r)
  BY <1>4
<1>6. /\ round' \in [Members -> Rounds]
      /\ \A o \in Members : round'[o].pc = round[o].pc
      /\ \A o \in Members : o # n => round'[o] = round[o]
      /\ \A o, x \in Members : round'[o].res[x] = IF o = n /\ x = m THEN r ELSE round[o].res[x]
  BY <1>5, ProbedDoes
<1>7. UNCHANGED <<net, up, stream, nodes, self, changed, gen, peers, reachable, sub>>
  BY <1>5
<1>8. \A o, x \in Members : round[o].res[x].st = "no" => round'[o].res[x].st = "no"
  BY <1>4, <1>6
<1> HIDE DEF Answers
<1> QED
  BY <1>4, <1>6, <1>7, <1>8

\* What agreed with the control plane agrees with the change it makes, once the
\* delta is merged: a flag left out is kept, and taken to be on line at first.
ChangeIsTold(m, d) ==
  \A v \in Tagged \cup {"none"} : Agrees(m, v) =>
    /\ After(d, m, v) \in Tagged <=> net'[m] \in Tagged
    /\ net'[m] = "on" => After(d, m, v) = "on"

\* Every change and every touch of m is sent as a delta about m.
LEMMA ControlSends ==
  ASSUME TypeOK, NEW m \in Members, NEW s \in Statuses, ControlChanges(m, s) \/ ControlTouches(m)
  PROVE  \E d \in Messages, Skipped \in {{}, {m}} :
           /\ Deliver(d, Skipped) /\ d.kind = "delta" /\ d.id = m /\ ChangeIsTold(m, d)
           /\ net' \in [Members -> Statuses] /\ \A o \in Members : o # m => net'[o] = net[o]
           /\ events' \in 0..MaxEvents /\ UNCHANGED <<up, nodes, self, changed>>
<1>1. net \in [Members -> Statuses]
  BY DEF TypeOK, TrackerTypeOK
<1>2. CASE ControlChanges(m, s)
  <2>1. /\ Happens /\ net' = [net EXCEPT ![m] = s] /\ UNCHANGED <<up, nodes, self, changed>>
        /\ \/ Deliver(Delta(m, s), IF s = "gone" THEN {m} ELSE {})
           \/ s \in Tagged /\ net[m] \notin Tagged /\ Deliver(Delta(m, "unknown"), {})
    BY <1>2 DEF ControlChanges
  <2>2. /\ net' \in [Members -> Statuses] /\ net'[m] = s /\ \A o \in Members : o # m => net'[o] = net[o]
    BY <1>1, <2>1
  <2>3. events' \in 0..MaxEvents
    BY <2>1, HappensType
  <2>4. CASE Deliver(Delta(m, s), IF s = "gone" THEN {m} ELSE {})
    <3>1. /\ Delta(m, s) \in Messages /\ Delta(m, s).kind = "delta"
          /\ Delta(m, s).id = m /\ Delta(m, s).st = s
      BY DeltaIsMessage
    <3>2. ChangeIsTold(m, Delta(m, s))
      BY <2>2, <3>1 DEF ChangeIsTold, After, Online, Statuses, Tagged
    <3> QED
      BY <2>1, <2>2, <2>3, <2>4, <3>1, <3>2
  <2>5. CASE s \in Tagged /\ net[m] \notin Tagged /\ Deliver(Delta(m, "unknown"), {})
    <3> DEFINE d == Delta(m, "unknown")
    <3>1. d \in Messages /\ d.kind = "delta" /\ d.id = m /\ d.st = "unknown"
      BY DeltaIsMessage
    <3>2. ChangeIsTold(m, d)
      BY <2>2, <2>5, <3>1 DEF ChangeIsTold, After, Agrees, Online, Statuses, Tagged
    <3> QED
      BY <2>1, <2>2, <2>3, <2>5, <3>1, <3>2
  <2> QED
    BY <2>1, <2>4, <2>5
<1>3. CASE ControlTouches(m)
  <2> DEFINE d == Delta(m, "unknown")
  <2>1. Happens /\ net[m] \in Tagged /\ Deliver(d, {}) /\ UNCHANGED <<net, up, nodes, self, changed>>
    BY <1>3 DEF ControlTouches
  <2>2. d \in Messages /\ d.kind = "delta" /\ d.id = m /\ d.st = "unknown"
    BY DeltaIsMessage
  <2>3. ChangeIsTold(m, d)
    BY <2>1, <2>2 DEF ChangeIsTold, After, Agrees, Online, Tagged
  <2>4. events' \in 0..MaxEvents
    BY <2>1, HappensType
  <2> QED
    BY <1>1, <2>1, <2>2, <2>3, <2>4
<1> QED
  BY <1>2, <1>3

\* What that leaves of the streams, as far as the other invariants go.
LEMMA ControlDoes ==
  ASSUME TypeOK, NEW m \in Members, NEW s \in Statuses, ControlChanges(m, s) \/ ControlTouches(m)
  PROVE  /\ stream' \in [Members -> Streams] /\ net' \in [Members -> Statuses] /\ events' \in 0..MaxEvents
         /\ \A n \in Members :
              /\ stream'[n].pc = stream[n].pc /\ stream'[n].signal = stream[n].signal
              /\ stream[n].pc # "open" => stream'[n] = stream[n]
              /\ stream[n].q # <<>> => stream'[n].q # <<>> /\ stream'[n].q[1] = stream[n].q[1]
         /\ UNCHANGED <<up, nodes, self, changed>>
<1>1. PICK d \in Messages, Skipped \in {{}, {m}} :
        /\ Deliver(d, Skipped) /\ net' \in [Members -> Statuses]
        /\ events' \in 0..MaxEvents /\ UNCHANGED <<up, nodes, self, changed>>
  BY ControlSends
<1>2. /\ stream' \in [Members -> Streams]
      /\ \A n \in Members : /\ stream'[n].pc = stream[n].pc
                            /\ stream'[n].signal = stream[n].signal
                            /\ stream'[n].q = IF stream[n].pc = "open" /\ n \notin Skipped
                                              THEN Append(stream[n].q, d) ELSE stream[n].q
  BY <1>1, DeliverDoes
<1>3. \A n \in Members : stream[n].pc # "open" => stream'[n] = stream[n]
  BY <1>1 DEF Deliver
<1>4. ASSUME NEW n \in Members, stream[n].q # <<>>
      PROVE  stream'[n].q # <<>> /\ stream'[n].q[1] = stream[n].q[1]
  <2>1. stream[n].q \in Seq(Messages)
    BY DEF TypeOK, TrackerTypeOK, Streams
  <2>2. Len(stream[n].q) \in Nat /\ Len(stream[n].q) > 0
    BY <1>4, <2>1
  <2>3. Append(stream[n].q, d) # <<>> /\ Append(stream[n].q, d)[1] = stream[n].q[1]
    BY <2>1, <2>2, AppendProperties
  <2> QED
    BY <1>2, <1>4, <2>3
<1> QED
  BY <1>1, <1>2, <1>3, <1>4

\* A process that stops forgets all of its state, and the others keep theirs.
LEMMA StopDoes ==
  ASSUME TypeOK, NEW n \in Members, Stop(n)
  PROVE  /\ TypeOK' /\ UNCHANGED <<net, gen>>
         /\ ~up'[n] /\ stream'[n] = NoStream /\ nodes'[n] = NoNodes /\ self'[n] = "unset"
         /\ ~changed'[n] /\ peers'[n] = [m \in Members |-> NoPeer] /\ round'[n] = IdleRound
         /\ reachable'[n] = NoTransports /\ ~sub'[n] /\ routed'[n] = NoRouting
         /\ \A o \in Members : o # n =>
              /\ up'[o] = up[o] /\ stream'[o] = stream[o] /\ nodes'[o] = nodes[o] /\ self'[o] = self[o]
              /\ changed'[o] = changed[o] /\ peers'[o] = peers[o] /\ round'[o] = round[o]
              /\ reachable'[o] = reachable[o] /\ sub'[o] = sub[o] /\ routed'[o] = routed[o]
<1>1. Happens /\ up' = [up EXCEPT ![n] = FALSE] /\ Forgotten(n) /\ UNCHANGED <<net, gen>>
  BY DEF Stop
<1>2. events' \in 0..MaxEvents
  BY <1>1, HappensType
<1>3. [m \in Members |-> NoPeer] \in [Members -> PeerStates]
  BY StartValues
<1>4. /\ stream' \in [Members -> Streams] /\ nodes' \in [Members -> [Members -> Tagged \cup {"none"}]]
      /\ self' \in [Members -> Statuses \cup {"unset"}] /\ changed' \in [Members -> BOOLEAN]
      /\ up' \in [Members -> BOOLEAN]
      /\ ~up'[n] /\ stream'[n] = NoStream /\ nodes'[n] = NoNodes /\ self'[n] = "unset" /\ ~changed'[n]
      /\ \A o \in Members : o # n =>
           /\ up'[o] = up[o] /\ stream'[o] = stream[o] /\ nodes'[o] = nodes[o] /\ self'[o] = self[o]
           /\ changed'[o] = changed[o]
  BY <1>1, StartValues DEF Forgotten, TypeOK, TrackerTypeOK
<1>5. /\ peers' \in [Members -> [Members -> PeerStates]] /\ round' \in [Members -> Rounds]
      /\ reachable' \in [Members -> [Members -> Nat]] /\ sub' \in [Members -> BOOLEAN]
      /\ peers'[n] = [m \in Members |-> NoPeer] /\ round'[n] = IdleRound
      /\ reachable'[n] = NoTransports /\ ~sub'[n]
      /\ \A o \in Members : o # n =>
           /\ peers'[o] = peers[o] /\ round'[o] = round[o] /\ reachable'[o] = reachable[o]
           /\ sub'[o] = sub[o]
  BY <1>1, <1>3, StartValues DEF Forgotten, TypeOK, ServerTypeOK
<1>6. /\ routed' \in [Members -> [peers : [Members -> Nat], self : BOOLEAN]] /\ routed'[n] = NoRouting
      /\ \A o \in Members : o # n => routed'[o] = routed[o]
  <2> DEFINE R == [peers : [Members -> Nat], self : BOOLEAN]
  <2>1. NoRouting \in R /\ routed \in [Members -> R] /\ routed' = [routed EXCEPT ![n] = NoRouting]
    BY <1>1, StartValues DEF Forgotten, TypeOK
  <2> HIDE DEF R
  <2>2. /\ routed' \in [Members -> R] /\ routed'[n] = NoRouting
        /\ \A o \in Members : o # n => routed'[o] = routed[o]
    BY <2>1
  <2> QED
    BY <2>2 DEF R
<1>7. TypeOK'
  BY <1>1, <1>2, <1>4, <1>5, <1>6 DEF TypeOK, TrackerTypeOK, ServerTypeOK
<1> QED
  BY <1>1, <1>4, <1>5, <1>6, <1>7

\* The router takes over the published set.
LEMMA RouterUpdateDoes ==
  ASSUME TypeOK, NEW n \in Members, RouterUpdate(n)
  PROVE  /\ sub' \in [Members -> BOOLEAN]
         /\ routed' \in [Members -> [peers : [Members -> Nat], self : BOOLEAN]]
         /\ ~sub'[n] /\ routed'[n].peers = reachable[n] /\ (routed'[n].self <=> HaveSelf(n))
         /\ \A o \in Members : o # n => sub'[o] = sub[o] /\ routed'[o] = routed[o]
         /\ UNCHANGED <<trackerVars, gen, peers, round, reachable>>
<1> DEFINE R == [peers : [Members -> Nat], self : BOOLEAN]
           r == [peers |-> reachable[n], self |-> HaveSelf(n)]
<1>1. reachable[n] \in [Members -> Nat] /\ HaveSelf(n) \in BOOLEAN
  BY DEF TypeOK, ServerTypeOK, HaveSelf
<1>2. r \in R /\ r.peers = reachable[n] /\ (r.self <=> HaveSelf(n))
  BY <1>1
<1>3. routed \in [Members -> R]
  BY DEF TypeOK
<1>4. routed' = [routed EXCEPT ![n] = r] /\ UNCHANGED <<trackerVars, gen, peers, round, reachable>>
  BY DEF RouterUpdate
<1> HIDE DEF r, R
<1>5. /\ routed' \in [Members -> R] /\ routed'[n] = r
      /\ \A o \in Members : o # n => routed'[o] = routed[o]
  <2>1. routed' = [routed EXCEPT ![n] = r]
    BY <1>4
  <2>2. r \in R
    BY <1>2
  <2> QED
    BY <1>3, <2>1, <2>2
<1>6. /\ sub' \in [Members -> BOOLEAN] /\ ~sub'[n] /\ \A o \in Members : o # n => sub'[o] = sub[o]
  BY DEF RouterUpdate, TypeOK, ServerTypeOK
<1>7. routed'[n].peers = reachable[n]
  BY <1>2, <1>5
<1>8. routed'[n].self <=> HaveSelf(n)
  BY <1>2, <1>5, Zenon
<1> QED
  BY <1>4, <1>5, <1>6, <1>7, <1>8 DEF R

\* A server whose signal is due sends it.
LEMMA ServerSignalsDoes ==
  ASSUME TypeOK, NEW n \in Members, ServerSignals(n)
  PROVE  /\ sub' \in [Members -> BOOLEAN] /\ round' \in [Members -> Rounds]
         /\ sub'[n] /\ round'[n] = IdleRound /\ up[n] /\ round[n].pc = "signal"
         /\ \A o \in Members : o # n => sub'[o] = sub[o] /\ round'[o] = round[o]
         /\ UNCHANGED <<trackerVars, gen, peers, reachable, routed>>
BY StartValues DEF ServerSignals, TypeOK, ServerTypeOK

\* A process that starts has a new identity and a first signal for its router.
LEMMA StartDoes ==
  ASSUME TypeOK, NEW n \in Members, Start(n)
  PROVE  /\ up' \in [Members -> BOOLEAN] /\ gen' \in [Members -> Nat] /\ sub' \in [Members -> BOOLEAN]
         /\ up'[n] /\ sub'[n] /\ ~up[n]
         /\ \A o \in Members : o # n => up'[o] = up[o] /\ sub'[o] = sub[o]
         /\ UNCHANGED <<net, events, stream, nodes, self, changed, peers, round, reachable, routed>>
BY DEF Start, TypeOK, TrackerTypeOK, ServerTypeOK

\* A pool starts with values of the right types.
LEMMA TypeInit ==
  ASSUME Init
  PROVE  TypeOK
<1>1. events \in 0..MaxEvents
  BY TrackerAssumptions DEF Init, TrackerInit
<1>2. TrackerTypeOK
  BY <1>1, StartValues DEF Init, TrackerInit, TrackerTypeOK, Statuses, Tagged
<1>3. /\ \A n, m \in Members : (IF m = n THEN NoPeer ELSE [cand |-> "on", pin |-> 1, reach |-> TRUE]) \in PeerStates
  BY StartValues DEF PeerStates, Tagged
<1>4. ServerTypeOK
  BY <1>3, StartValues DEF Init, ServerInit, ServerTypeOK
<1>5. /\ routed = [n \in Members |-> [peers |-> reachable[n], self |-> TRUE]]
      /\ \A n \in Members : reachable[n] \in [Members -> Nat]
  BY <1>4 DEF Init, ServerTypeOK
<1> QED
  BY <1>2, <1>4, <1>5 DEF TypeOK

\* A step of the pool is one of these.
Steps(n) ==
  \/ /\ UNCHANGED <<serverVars, routed>>
     /\ \/ \E s \in Statuses : ControlChanges(n, s) \/ ControlTouches(n)
        \/ StreamBreaks(n) \/ Connect(n) \/ MergeStatus(n) \/ MergeNotify(n) \/ TrackerSignals(n)
  \/ UNCHANGED routed /\ (TickRound(n) \/ ChangesRound(n) \/ Probe(n) \/ RoundApply(n))
  \/ ServerSignals(n) \/ RouterUpdate(n) \/ Stop(n) \/ Start(n)

LEMMA StepCases ==
  ASSUME Next
  PROVE  \E n \in Members : Steps(n)
<1>1. "on" \in Statuses
  BY DEF Statuses, Tagged
<1>2. ASSUME TrackerNext, UNCHANGED <<serverVars, routed>>
      PROVE  \E n \in Members : Steps(n)
  BY <1>1, <1>2, TrackerAssumptions DEF TrackerNext, Steps
<1>3. ASSUME NEW n \in Members, Server(n), UNCHANGED routed
      PROVE  Steps(n)
  BY <1>3 DEF Server, Steps
<1>4. ASSUME NEW n \in Members, ServerSignals(n) \/ RouterUpdate(n) \/ Stop(n) \/ Start(n)
      PROVE  Steps(n)
  BY <1>4 DEF Steps
<1> QED
  BY <1>2, <1>3, <1>4 DEF Next

\* Every step keeps them.
LEMMA TypeNext ==
  ASSUME TypeOK, SelfFirst, Forgets, [Next]_vars
  PROVE  TypeOK'
<1>1. ASSUME NEW n \in Members, NEW s \in Statuses, ControlChanges(n, s) \/ ControlTouches(n),
             UNCHANGED <<serverVars, routed>>
      PROVE  TypeOK'
  BY <1>1, ControlDoes DEF serverVars, TypeOK, TrackerTypeOK, ServerTypeOK
<1>2. ASSUME NEW n \in Members, StreamBreaks(n), UNCHANGED <<serverVars, routed>>
      PROVE  TypeOK'
  BY <1>2, HappensType, StartValues DEF StreamBreaks, serverVars, TypeOK, TrackerTypeOK, ServerTypeOK
<1>3. ASSUME NEW n \in Members, Connect(n), UNCHANGED <<serverVars, routed>>
      PROVE  TypeOK'
  BY <1>3, ConnectDoes DEF serverVars, TypeOK, TrackerTypeOK, ServerTypeOK
<1>4. ASSUME NEW n \in Members, MergeStatus(n), UNCHANGED <<serverVars, routed>>
      PROVE  TypeOK'
  <2>1. PICK newNodes \in [Members -> Tagged \cup {"none"}], newSelf \in Statuses :
          stream[n].q # <<>> /\ Merged(n, newNodes, newSelf)
    BY <1>4, StatusDoes
  <2>2. /\ stream' \in [Members -> Streams] /\ nodes' \in [Members -> [Members -> Tagged \cup {"none"}]]
        /\ self' \in [Members -> Statuses \cup {"unset"}] /\ UNCHANGED <<net, events, up, changed>>
    BY <2>1, MergedDoes
  <2> QED
    BY <1>4, <2>2 DEF serverVars, TypeOK, TrackerTypeOK, ServerTypeOK
<1>5. ASSUME NEW n \in Members, MergeNotify(n), UNCHANGED <<serverVars, routed>>
      PROVE  TypeOK'
  <2>1. PICK newNodes \in [Members -> Tagged \cup {"none"}], newSelf \in Statuses :
          stream[n].q # <<>> /\ Merged(n, newNodes, newSelf)
    BY <1>5, NotifyDoes
  <2>2. /\ stream' \in [Members -> Streams] /\ nodes' \in [Members -> [Members -> Tagged \cup {"none"}]]
        /\ self' \in [Members -> Statuses \cup {"unset"}] /\ UNCHANGED <<net, events, up, changed>>
    BY <2>1, MergedDoes
  <2> QED
    BY <1>5, <2>2 DEF serverVars, TypeOK, TrackerTypeOK, ServerTypeOK
<1>6. ASSUME NEW n \in Members, TrackerSignals(n), UNCHANGED <<serverVars, routed>>
      PROVE  TypeOK'
  BY <1>6, TrackerSignalsDoes DEF serverVars, TypeOK, TrackerTypeOK, ServerTypeOK
<1>7. ASSUME NEW n \in Members, TickRound(n) \/ ChangesRound(n), UNCHANGED routed
      PROVE  TypeOK'
  <2>1. RoundStart(n) /\ changed' \in [Members -> BOOLEAN]
    BY <1>7 DEF TickRound, ChangesRound, TypeOK, TrackerTypeOK
  <2> QED
    BY <1>7, <2>1, RoundStartDoes DEF TypeOK, TrackerTypeOK, ServerTypeOK
<1>8. ASSUME NEW n \in Members, Probe(n), UNCHANGED routed
      PROVE  TypeOK'
  BY <1>8, ProbeDoes DEF TypeOK, TrackerTypeOK, ServerTypeOK
<1>9. ASSUME NEW n \in Members, RoundApply(n), UNCHANGED routed
      PROVE  TypeOK'
  BY <1>9, RoundApplyDoes DEF TypeOK, TrackerTypeOK, ServerTypeOK
<1>10. ASSUME NEW n \in Members, ServerSignals(n)
       PROVE  TypeOK'
  BY <1>10, ServerSignalsDoes DEF trackerVars, TypeOK, TrackerTypeOK, ServerTypeOK
<1>11. ASSUME NEW n \in Members, RouterUpdate(n)
       PROVE  TypeOK'
  BY <1>11, RouterUpdateDoes DEF trackerVars, TypeOK, TrackerTypeOK, ServerTypeOK
<1>12. ASSUME NEW n \in Members, Stop(n)
       PROVE  TypeOK'
  BY <1>12, StopDoes
<1>13. ASSUME NEW n \in Members, Start(n)
       PROVE  TypeOK'
  BY <1>13, StartDoes DEF TypeOK, TrackerTypeOK, ServerTypeOK
<1>14. CASE UNCHANGED vars
  BY <1>14 DEF vars, trackerVars, serverVars, TypeOK, TrackerTypeOK, ServerTypeOK
<1>15. ASSUME NEW n \in Members, Steps(n)
       PROVE  TypeOK'
  BY <1>1, <1>2, <1>3, <1>4, <1>5, <1>6, <1>7, <1>8, <1>9, <1>10, <1>11, <1>12, <1>13, <1>15 DEF Steps
<1> QED
  BY <1>14, <1>15, StepCases

-----------------------------------------------------------------------------
(* What each component follows *)

\* The part of the invariant that relates a member's own components.
Follows == Forgets /\ SelfFirst /\ CandidatesFollow /\ Published

\* A pool starts at rest.
LEMMA FollowsInit ==
  ASSUME Init
  PROVE  Follows
<1>1. Forgets
  BY StartValues DEF Init, TrackerInit, Forgets
<1>2. SelfFirst
  BY DEF Init, TrackerInit, SelfFirst
<1>3. CandidatesFollow
  BY StartValues DEF Init, TrackerInit, ServerInit, CandidatesFollow
<1>4. Published
  BY StartValues DEF Init, TrackerInit, ServerInit, Published
<1> QED
  BY <1>1, <1>2, <1>3, <1>4 DEF Follows

\* A merge, whatever it merges, once there is a self.
LEMMA MergeFollows ==
  ASSUME TypeOK, Follows, NEW n \in Members, NEW newNodes \in [Members -> Tagged \cup {"none"}],
         NEW newSelf \in Statuses, stream[n].q # <<>>, ~stream[n].signal, up[n],
         Merged(n, newNodes, newSelf), UNCHANGED <<serverVars, routed>>
  PROVE  Follows'
<1>1. /\ nodes'[n] = newNodes /\ self'[n] = newSelf
      /\ stream'[n].pc = stream[n].pc
      /\ stream'[n].signal <=> newNodes # nodes[n] \/ newSelf # self[n]
      /\ \A o \in Members : o # n => /\ stream'[o] = stream[o] /\ nodes'[o] = nodes[o]
                                     /\ self'[o] = self[o]
      /\ UNCHANGED <<net, events, up, changed>>
  BY MergedDoes
<1>2. UNCHANGED <<gen, peers, round, reachable, sub, routed>>
  BY DEF serverVars
<1>3. stream[n].pc # "wait" /\ newSelf # "unset"
  BY DEF Follows, Forgets, Statuses, Tagged
<1>4. Forgets'
  BY <1>1, <1>2, <1>3 DEF Follows, Forgets
<1>5. SelfFirst'
  BY <1>1, <1>2, <1>3 DEF Follows, SelfFirst
<1>6. CandidatesFollow'
  BY <1>1, <1>2 DEF Follows, CandidatesFollow
<1>7. Published'
  BY <1>1, <1>2 DEF Follows, Published
<1> QED
  BY <1>4, <1>5, <1>6, <1>7 DEF Follows

\* Every step keeps what each component follows of the one before it.
LEMMA FollowsNext ==
  ASSUME TypeOK, Follows, [Next]_vars
  PROVE  Follows'
<1>1. ASSUME NEW n \in Members, NEW s \in Statuses, ControlChanges(n, s) \/ ControlTouches(n),
             UNCHANGED <<serverVars, routed>>
      PROVE  Follows'
  <2>1. UNCHANGED <<gen, peers, round, reachable, sub, routed>>
    BY <1>1 DEF serverVars
  <2>2. /\ \A o \in Members :
              /\ stream'[o].pc = stream[o].pc /\ stream'[o].signal = stream[o].signal
              /\ stream[o].pc # "open" => stream'[o] = stream[o]
              /\ stream[o].q # <<>> => stream'[o].q # <<>> /\ stream'[o].q[1] = stream[o].q[1]
        /\ UNCHANGED <<up, nodes, self, changed>>
    BY <1>1, ControlDoes
  <2>3. Forgets'
    BY <1>1, <2>1, <2>2 DEF Follows, Forgets, NoStream
  <2>4. SelfFirst'
    BY <1>1, <2>1, <2>2 DEF Follows, SelfFirst, NoStream
  <2>5. CandidatesFollow'
    BY <1>1, <2>1, <2>2 DEF Follows, CandidatesFollow, NoStream
  <2>6. Published'
    BY <1>1, <2>1, <2>2 DEF Follows, Published, NoStream
  <2> QED
    BY <2>3, <2>4, <2>5, <2>6 DEF Follows
<1>2. ASSUME NEW n \in Members, StreamBreaks(n), UNCHANGED <<serverVars, routed>>
      PROVE  Follows'
  <2>1. UNCHANGED <<gen, peers, round, reachable, sub, routed>>
    BY <1>2 DEF serverVars
  <2>2. /\ stream'[n] = NoStream /\ up[n] /\ ~stream[n].signal
        /\ \A o \in Members : o # n => stream'[o] = stream[o]
        /\ UNCHANGED <<net, up, nodes, self, changed>>
    BY <1>2 DEF StreamBreaks, TypeOK, TrackerTypeOK
  <2>3. Forgets'
    BY <1>2, <2>1, <2>2 DEF Follows, Forgets, NoStream
  <2>4. SelfFirst'
    BY <1>2, <2>1, <2>2 DEF Follows, SelfFirst, NoStream
  <2>5. CandidatesFollow'
    BY <1>2, <2>1, <2>2 DEF Follows, CandidatesFollow, NoStream
  <2>6. Published'
    BY <1>2, <2>1, <2>2 DEF Follows, Published, NoStream
  <2> QED
    BY <2>3, <2>4, <2>5, <2>6 DEF Follows
<1>3. ASSUME NEW n \in Members, Connect(n), UNCHANGED <<serverVars, routed>>
      PROVE  Follows'
  <2>1. UNCHANGED <<gen, peers, round, reachable, sub, routed>>
    BY <1>3 DEF serverVars
  <2>2. /\ stream'[n].pc = "open" /\ stream'[n].q = <<Status(net)>> /\ ~stream'[n].signal
        /\ \A o \in Members : o # n => stream'[o] = stream[o]
        /\ up[n] /\ stream[n].pc = "wait" /\ UNCHANGED <<net, events, up, nodes, self, changed>>
    BY <1>3, ConnectDoes
  <2>3. stream'[n].q # <<>> /\ stream'[n].q[1].kind = "status" /\ ~stream[n].signal
    BY <2>2, StatusIsMessage DEF Follows, Forgets
  <2>4. Forgets'
    BY <1>3, <2>1, <2>2, <2>3 DEF Follows, Forgets
  <2>5. SelfFirst'
    BY <1>3, <2>1, <2>2, <2>3 DEF Follows, SelfFirst
  <2>6. CandidatesFollow'
    BY <1>3, <2>1, <2>2, <2>3 DEF Follows, CandidatesFollow
  <2>7. Published'
    BY <1>3, <2>1, <2>2, <2>3 DEF Follows, Published
  <2> QED
    BY <2>4, <2>5, <2>6, <2>7 DEF Follows
<1>4. ASSUME NEW n \in Members, MergeStatus(n), UNCHANGED <<serverVars, routed>>
      PROVE  Follows'
  <2>1. PICK newNodes \in [Members -> Tagged \cup {"none"}], newSelf \in Statuses :
          stream[n].q # <<>> /\ ~stream[n].signal /\ up[n] /\ Merged(n, newNodes, newSelf)
    BY <1>4, StatusDoes
  <2> QED
    BY <1>4, <2>1, MergeFollows
<1>5. ASSUME NEW n \in Members, MergeNotify(n), UNCHANGED <<serverVars, routed>>
      PROVE  Follows'
  <2>1. PICK newNodes \in [Members -> Tagged \cup {"none"}], newSelf \in Statuses :
          stream[n].q # <<>> /\ ~stream[n].signal /\ up[n] /\ Merged(n, newNodes, newSelf)
    BY <1>5, NotifyDoes DEF Follows
  <2> QED
    BY <1>5, <2>1, MergeFollows
<1>6. ASSUME NEW n \in Members, TrackerSignals(n), UNCHANGED <<serverVars, routed>>
      PROVE  Follows'
  <2>1. UNCHANGED <<gen, peers, round, reachable, sub, routed>>
    BY <1>6 DEF serverVars
  <2>2. /\ stream'[n].pc = stream[n].pc /\ stream'[n].q = stream[n].q /\ ~stream'[n].signal
        /\ changed'[n] /\ \A o \in Members : o # n => stream'[o] = stream[o] /\ changed'[o] = changed[o]
        /\ up[n] /\ stream[n].signal /\ UNCHANGED <<net, events, up, nodes, self>>
    BY <1>6, TrackerSignalsDoes
  <2>3. Forgets'
    BY <1>6, <2>1, <2>2 DEF Follows, Forgets
  <2>4. SelfFirst'
    BY <1>6, <2>1, <2>2 DEF Follows, SelfFirst
  <2>5. CandidatesFollow'
    BY <1>6, <2>1, <2>2 DEF Follows, CandidatesFollow
  <2>6. Published'
    BY <1>6, <2>1, <2>2 DEF Follows, Published
  <2> QED
    BY <2>3, <2>4, <2>5, <2>6 DEF Follows
<1>7. ASSUME NEW n \in Members, TickRound(n) \/ ChangesRound(n), UNCHANGED routed
      PROVE  Follows'
  <2>1. RoundStart(n) /\ \A o \in Members : o # n => changed'[o] = changed[o]
    BY <1>7 DEF TickRound, ChangesRound, TypeOK, TrackerTypeOK
  <2>2. /\ \A o \in Members : o # n => round'[o] = round[o] /\ peers'[o] = peers[o]
        /\ round[n].pc = "idle" /\ round'[n].pc = "probe" /\ up[n]
        /\ \A m \in Members :
             /\ peers'[n][m].cand = nodes[n][m]
             /\ nodes[n][m] = "none" => peers'[n][m] = NoPeer /\ round'[n].res[m].st = "no"
        /\ UNCHANGED <<net, events, up, stream, nodes, self, gen, reachable, sub>>
    BY <2>1, RoundStartDoes
  <2>3. Forgets'
    BY <1>7, <2>1, <2>2 DEF Follows, Forgets
  <2>4. SelfFirst'
    BY <1>7, <2>1, <2>2 DEF Follows, SelfFirst
  <2>5. CandidatesFollow'
    BY <1>7, <2>1, <2>2 DEF Follows, CandidatesFollow
  <2>6. Published'
    BY <1>7, <2>1, <2>2 DEF Follows, Published
  <2> QED
    BY <2>3, <2>4, <2>5, <2>6 DEF Follows
<1>8. ASSUME NEW n \in Members, Probe(n), UNCHANGED routed
      PROVE  Follows'
  <2>1. /\ \A o \in Members : round'[o].pc = round[o].pc
        /\ \A o, x \in Members : round[o].res[x].st = "no" => round'[o].res[x].st = "no"
        /\ \A o \in Members : o # n => round'[o] = round[o]
        /\ up[n] /\ UNCHANGED <<net, up, stream, nodes, self, changed, gen, peers, reachable, sub>>
    BY <1>8, ProbeDoes
  <2>2. Forgets'
    BY <1>8, <2>1 DEF Follows, Forgets
  <2>3. SelfFirst'
    BY <1>8, <2>1 DEF Follows, SelfFirst
  <2>4. CandidatesFollow'
    BY <1>8, <2>1 DEF Follows, CandidatesFollow
  <2>5. Published'
    BY <1>8, <2>1 DEF Follows, Published
  <2> QED
    BY <2>2, <2>3, <2>4, <2>5 DEF Follows
<1>9. ASSUME NEW n \in Members, RoundApply(n), UNCHANGED routed
      PROVE  Follows'
  <2>1. /\ \A o \in Members : o # n => /\ round'[o] = round[o] /\ peers'[o] = peers[o]
                                       /\ reachable'[o] = reachable[o]
        /\ round[n].pc = "probe" /\ round'[n].pc \in {"idle", "signal"} /\ up[n]
        /\ \A m \in Members :
             /\ peers'[n][m].cand = peers[n][m].cand
             /\ round[n].res[m].st = "no" => peers'[n][m] = peers[n][m]
             /\ reachable'[n][m] = IF peers'[n][m].reach THEN peers'[n][m].pin ELSE 0
             /\ round'[n].res[m] = NotProbed
        /\ round'[n].pc = "idle" => reachable'[n] = reachable[n]
        /\ UNCHANGED <<net, events, up, stream, nodes, self, changed, gen, sub>>
    BY <1>9, RoundApplyDoes
  <2>2. NotProbed.st = "no" /\ ~NoPeer.reach
    BY StartValues
  <2>3. Forgets'
    BY <1>9, <2>1, <2>2 DEF Follows, Forgets
  <2>4. SelfFirst'
    BY <1>9, <2>1, <2>2 DEF Follows, SelfFirst
  <2>5. CandidatesFollow'
    BY <1>9, <2>1, <2>2 DEF Follows, CandidatesFollow
  <2>6. Published'
    BY <1>9, <2>1, <2>2 DEF Follows, Published
  <2> QED
    BY <2>3, <2>4, <2>5, <2>6 DEF Follows
<1>10. ASSUME NEW n \in Members, ServerSignals(n)
      PROVE  Follows'
  <2>1. /\ sub'[n] /\ round'[n] = IdleRound /\ up[n] /\ round[n].pc = "signal"
        /\ \A o \in Members : o # n => sub'[o] = sub[o] /\ round'[o] = round[o]
        /\ UNCHANGED <<net, events, up, stream, nodes, self, changed, gen, peers, reachable, routed>>
    BY <1>10, ServerSignalsDoes DEF trackerVars
  <2>2. IdleRound.pc = "idle" /\ NotProbed.st = "no" /\ \A m \in Members : IdleRound.res[m] = NotProbed
    BY StartValues
  <2>3. Forgets'
    BY <1>10, <2>1, <2>2 DEF Follows, Forgets
  <2>4. SelfFirst'
    BY <1>10, <2>1, <2>2 DEF Follows, SelfFirst
  <2>5. CandidatesFollow'
    BY <1>10, <2>1, <2>2 DEF Follows, CandidatesFollow
  <2>6. Published'
    BY <1>10, <2>1, <2>2 DEF Follows, Published
  <2> QED
    BY <2>3, <2>4, <2>5, <2>6 DEF Follows
<1>11. ASSUME NEW n \in Members, RouterUpdate(n)
      PROVE  Follows'
  <2>1. /\ ~sub'[n] /\ routed'[n].peers = reachable[n] /\ (routed'[n].self <=> self[n] # "unset")
        /\ \A o \in Members : o # n => sub'[o] = sub[o] /\ routed'[o] = routed[o]
        /\ UNCHANGED <<net, events, up, stream, nodes, self, changed, gen, peers, round, reachable>>
    BY <1>11, RouterUpdateDoes DEF trackerVars, HaveSelf
  <2>2. Forgets'
    BY <1>11, <2>1 DEF Follows, Forgets, SelfFirst
  <2>3. SelfFirst'
    BY <1>11, <2>1 DEF Follows, SelfFirst, SelfFirst
  <2>4. CandidatesFollow'
    BY <1>11, <2>1 DEF Follows, CandidatesFollow, SelfFirst
  <2>5. Published'
    BY <1>11, <2>1 DEF Follows, Published, SelfFirst
  <2> QED
    BY <2>2, <2>3, <2>4, <2>5 DEF Follows
<1>12. ASSUME NEW n \in Members, Stop(n)
      PROVE  Follows'
  <2>1. /\ ~up'[n] /\ stream'[n] = NoStream /\ nodes'[n] = NoNodes /\ self'[n] = "unset"
        /\ ~changed'[n] /\ peers'[n] = [m \in Members |-> NoPeer] /\ round'[n] = IdleRound
        /\ reachable'[n] = NoTransports /\ ~sub'[n] /\ routed'[n] = NoRouting
    BY <1>12, StopDoes
  <2>2. \A o \in Members : o # n =>
          /\ up'[o] = up[o] /\ stream'[o] = stream[o] /\ nodes'[o] = nodes[o] /\ self'[o] = self[o]
          /\ changed'[o] = changed[o] /\ peers'[o] = peers[o] /\ round'[o] = round[o]
          /\ reachable'[o] = reachable[o] /\ sub'[o] = sub[o] /\ routed'[o] = routed[o]
    BY <1>12, StopDoes
  <2>3. /\ NoStream.pc = "wait" /\ NoStream.q = <<>> /\ ~NoStream.signal
        /\ IdleRound.pc = "idle" /\ \A m \in Members : IdleRound.res[m] = NotProbed
        /\ NoPeer.cand = "none" /\ ~NoPeer.reach /\ NotProbed.st = "no" /\ NoRouting.peers = NoTransports
        /\ \A m \in Members : NoNodes[m] = "none" /\ NoTransports[m] = 0
    BY StartValues DEF NoNodes, NoTransports
  <2>4. Forgets'
    BY <1>12, <2>1, <2>2, <2>3 DEF Follows, Forgets
  <2>5. SelfFirst'
    BY <1>12, <2>1, <2>2, <2>3 DEF Follows, SelfFirst
  <2>6. CandidatesFollow'
    BY <1>12, <2>1, <2>2, <2>3 DEF Follows, CandidatesFollow
  <2>7. Published'
    BY <1>12, <2>1, <2>2, <2>3 DEF Follows, Published
  <2> QED
    BY <2>4, <2>5, <2>6, <2>7 DEF Follows
<1>13. ASSUME NEW n \in Members, Start(n)
      PROVE  Follows'
  <2>1. /\ up'[n] /\ sub'[n] /\ ~up[n]
        /\ \A o \in Members : o # n => up'[o] = up[o] /\ sub'[o] = sub[o]
        /\ UNCHANGED <<net, events, stream, nodes, self, changed, peers, round, reachable, routed>>
    BY <1>13, StartDoes
  <2>2. Forgets'
    BY <1>13, <2>1 DEF Follows, Forgets
  <2>3. SelfFirst'
    BY <1>13, <2>1 DEF Follows, SelfFirst
  <2>4. CandidatesFollow'
    BY <1>13, <2>1 DEF Follows, CandidatesFollow
  <2>5. Published'
    BY <1>13, <2>1 DEF Follows, Published
  <2> QED
    BY <2>2, <2>3, <2>4, <2>5 DEF Follows
<1>14. CASE UNCHANGED vars
  BY <1>14 DEF vars, trackerVars, serverVars, Follows, Forgets, SelfFirst, CandidatesFollow, Published
<1>15. ASSUME NEW n \in Members, Steps(n)
       PROVE  Follows'
  BY <1>1, <1>2, <1>3, <1>4, <1>5, <1>6, <1>7, <1>8, <1>9, <1>10, <1>11, <1>12, <1>13, <1>15 DEF Steps
<1> QED
  BY <1>14, <1>15, StepCases

-----------------------------------------------------------------------------
(* What the streams deliver *)

\* A pool starts with empty streams and exact trackers.
LEMMA DeliversInit ==
  ASSUME Init
  PROVE  Delivers
<1> SUFFICES ASSUME NEW n \in Members, NEW m \in Members, n # m,
                    NEW tr \in [1..(Len(stream[n].q) + 1) -> Tagged \cup {"none"}], Traces(n, m, tr)
             PROVE  Agrees(m, tr[Len(stream[n].q) + 1])
  BY DEF Delivers, DeliversTo
<1>1. stream[n].q = <<>> /\ nodes[n][m] = "on" /\ net[m] = "on"
  BY StartValues DEF Init, TrackerInit
<1>2. Len(stream[n].q) + 1 = 1
  BY <1>1
<1>3. tr[1] = "on"
  BY <1>1 DEF Traces
<1> QED
  BY <1>1, <1>2, <1>3 DEF Agrees, Tagged

\* A step that leaves alone a stream, what is held, and what the control plane says.
LEMMA DeliversKept ==
  ASSUME NEW n \in Members, NEW m \in Members, DeliversTo(n, m),
         stream'[n].pc = "open" => /\ stream[n].pc = "open" /\ stream'[n].q = stream[n].q
                                   /\ nodes'[n][m] = nodes[n][m] /\ net'[m] = net[m]
  PROVE  DeliversTo(n, m)'
BY DEF DeliversTo, Traces, Agrees

\* A delta is queued: it says what changed, or is about another node.
LEMMA DeliversAppended ==
  ASSUME NEW n \in Members, NEW m \in Members, DeliversTo(n, m), NEW d \in Messages, NEW x \in Members,
         stream[n].q \in Seq(Messages), stream[n].pc = "open", stream'[n].q = Append(stream[n].q, d),
         nodes'[n][m] = nodes[n][m], d.kind = "delta", d.id = x, ChangeIsTold(x, d),
         \A o \in Members : o # x => net'[o] = net[o]
  PROVE  DeliversTo(n, m)'
<1> DEFINE q == stream[n].q
           V == Tagged \cup {"none"}
<1> SUFFICES ASSUME n # m, NEW tr \in [1..(Len(stream'[n].q) + 1) -> V], Traces(n, m, tr)'
             PROVE  Agrees(m, tr[Len(stream[n].q) + 1])'
  BY DEF DeliversTo
<1>1. /\ Len(q) \in Nat /\ Len(stream'[n].q) = Len(q) + 1 /\ stream'[n].q[Len(q) + 1] = d
      /\ \A i \in 1..Len(q) : stream'[n].q[i] = q[i]
  BY AppendProperties
<1> DEFINE tr0 == [i \in 1..(Len(q) + 1) |-> tr[i]]
<1>2. tr0 \in [1..(Len(q) + 1) -> V]
  BY <1>1
<1>3. /\ tr[1] = nodes[n][m]
      /\ \A i \in 1..(Len(q) + 1) : tr[i + 1] = After(stream'[n].q[i], m, tr[i])
  BY <1>1 DEF Traces
<1>4. tr0[1] = nodes[n][m] /\ \A i \in 1..Len(q) : tr0[i + 1] = After(q[i], m, tr0[i])
  <2>1. tr0[1] = nodes[n][m]
    BY <1>1, <1>3
  <2>2. ASSUME NEW i \in 1..Len(q)
        PROVE  tr0[i + 1] = After(q[i], m, tr0[i])
    <3>1. i \in 1..(Len(q) + 1) /\ i + 1 \in 1..(Len(q) + 1)
      BY <1>1
    <3>2. tr0[i + 1] = tr[i + 1] /\ tr0[i] = tr[i] /\ stream'[n].q[i] = q[i]
      BY <1>1, <3>1
    <3> QED
      BY <1>3, <3>1, <3>2
  <2> QED
    BY <2>1, <2>2
<1>5. Traces(n, m, tr0)
  BY <1>4 DEF Traces
<1>6. tr0[Len(q) + 1] = tr[Len(q) + 1] /\ tr[Len(q) + 1] \in V
  BY <1>1
<1> HIDE DEF tr0
<1>7. Agrees(m, tr[Len(q) + 1])
  BY <1>2, <1>5, <1>6 DEF DeliversTo
<1>8. tr[Len(stream'[n].q) + 1] = After(d, m, tr[Len(q) + 1])
  <2>1. Len(q) + 1 \in 1..(Len(q) + 1)
    BY <1>1
  <2>2. tr[(Len(q) + 1) + 1] = After(stream'[n].q[Len(q) + 1], m, tr[Len(q) + 1])
    BY <1>3, <2>1
  <2> QED
    BY <1>1, <2>2
<1>9. CASE m = x
  BY <1>6, <1>7, <1>8, <1>9 DEF ChangeIsTold, Agrees
<1>10. CASE m # x
  <2>1. After(d, m, tr[Len(q) + 1]) = tr[Len(q) + 1]
    BY <1>10 DEF After
  <2> QED
    BY <1>7, <1>8, <1>10, <2>1 DEF Agrees
<1> QED
  BY <1>9, <1>10

\* A notification is merged: what is held moves on by one.
LEMMA DeliversPopped ==
  ASSUME NEW n \in Members, NEW m \in Members, DeliversTo(n, m),
         stream[n].q \in Seq(Messages), stream[n].q # <<>>, nodes[n][m] \in Tagged \cup {"none"},
         stream'[n].pc = stream[n].pc, stream'[n].q = Tail(stream[n].q),
         n # m => nodes'[n][m] = After(stream[n].q[1], m, nodes[n][m]), net'[m] = net[m]
  PROVE  DeliversTo(n, m)'
<1> DEFINE q == stream[n].q
           V == Tagged \cup {"none"}
<1> SUFFICES ASSUME n # m, stream[n].pc = "open", NEW tr \in [1..(Len(stream'[n].q) + 1) -> V],
                    Traces(n, m, tr)'
             PROVE  Agrees(m, tr[Len(stream[n].q) + 1])'
  BY DEF DeliversTo
<1>1. /\ Len(q) \in Nat /\ Len(q) > 0 /\ Len(stream'[n].q) = Len(q) - 1
      /\ \A i \in 1..(Len(q) - 1) : stream'[n].q[i] = q[i + 1]
  OBVIOUS
<1> DEFINE tr0 == [i \in 1..(Len(q) + 1) |-> IF i = 1 THEN nodes[n][m] ELSE tr[i - 1]]
<1>2. tr \in [1..Len(q) -> V]
  BY <1>1
<1>3. tr0 \in [1..(Len(q) + 1) -> V]
  BY <1>1, <1>2
<1>4. /\ tr[1] = nodes'[n][m]
      /\ \A i \in 1..(Len(q) - 1) : tr[i + 1] = After(stream'[n].q[i], m, tr[i])
  BY <1>1 DEF Traces
<1>5. tr0[1] = nodes[n][m] /\ \A i \in 1..Len(q) : tr0[i + 1] = tr[i]
  BY <1>1
<1>6. \A i \in 2..Len(q) : tr0[i] = tr[i - 1]
  BY <1>1
<1> HIDE DEF tr0
<1>7. ASSUME NEW i \in 1..Len(q)
      PROVE  tr0[i + 1] = After(q[i], m, tr0[i])
  <2>1. CASE i = 1
    BY <1>1, <1>4, <1>5, <2>1
  <2>2. CASE i # 1
    <3>1. i \in 2..Len(q) /\ i - 1 \in 1..(Len(q) - 1) /\ (i - 1) + 1 = i
      BY <1>1, <2>2
    <3>2. tr[(i - 1) + 1] = After(stream'[n].q[i - 1], m, tr[i - 1]) /\ stream'[n].q[i - 1] = q[(i - 1) + 1]
      BY <1>1, <1>4, <3>1
    <3>3. tr0[i + 1] = tr[i] /\ tr0[i] = tr[i - 1]
      BY <1>5, <1>6, <3>1
    <3> QED
      BY <3>1, <3>2, <3>3
  <2> QED
    BY <2>1, <2>2
<1>8. Traces(n, m, tr0)
  BY <1>5, <1>7 DEF Traces
<1>9. Agrees(m, tr0[Len(q) + 1])
  BY <1>3, <1>8 DEF DeliversTo
<1>10. tr0[Len(q) + 1] = tr[Len(stream'[n].q) + 1]
  BY <1>1, <1>5
<1> QED
  BY <1>9, <1>10 DEF Agrees

\* Every step keeps what the streams deliver.
LEMMA DeliversNext ==
  ASSUME TypeOK, Follows, Delivers, [Next]_vars
  PROVE  Delivers'
<1>1. /\ \A n \in Members : stream[n].q \in Seq(Messages)
      /\ \A n, m \in Members : nodes[n][m] \in Tagged \cup {"none"}
  BY DEF TypeOK, TrackerTypeOK, Streams
<1>2. ASSUME NEW x \in Members, NEW s \in Statuses, ControlChanges(x, s) \/ ControlTouches(x)
      PROVE  Delivers'
  <2>1. PICK d \in Messages, Skipped \in {{}, {x}} :
          /\ Deliver(d, Skipped) /\ d.kind = "delta" /\ d.id = x /\ ChangeIsTold(x, d)
          /\ \A o \in Members : o # x => net'[o] = net[o]
          /\ UNCHANGED <<up, nodes, self, changed>>
    BY <1>2, ControlSends
  <2>2. \A n \in Members : /\ stream'[n].pc = stream[n].pc
                           /\ stream'[n].q = IF stream[n].pc = "open" /\ n \notin Skipped
                                             THEN Append(stream[n].q, d) ELSE stream[n].q
    BY <2>1, DeliverDoes
  <2>3. ASSUME NEW n \in Members, NEW m \in Members
        PROVE  DeliversTo(n, m)'
    <3>1. DeliversTo(n, m)
      BY DEF Delivers
    <3>2. CASE stream[n].pc = "open" /\ n \notin Skipped
      <4>1. stream'[n].q = Append(stream[n].q, d)
        BY <2>2, <3>2
      <4> QED
        BY <1>1, <2>1, <3>1, <3>2, <4>1, DeliversAppended
    <3>3. CASE stream[n].pc # "open"
      BY <2>2, <3>3 DEF DeliversTo
    <3>4. CASE n \in Skipped
      <4>1. n = x /\ stream'[n].q = stream[n].q
        BY <2>2, <3>4
      <4>2. CASE n = m
        BY <4>2 DEF DeliversTo
      <4>3. CASE n # m
        BY <2>1, <2>2, <3>1, <4>1, <4>3, DeliversKept
      <4> QED
        BY <4>2, <4>3
    <3> QED
      BY <3>2, <3>3, <3>4
  <2> QED
    BY <2>3 DEF Delivers
<1>3. ASSUME NEW n \in Members, UNCHANGED net, stream'[n].pc # "open",
             \A o \in Members : o # n => stream'[o] = stream[o] /\ nodes'[o] = nodes[o]
      PROVE  Delivers'
  <2>1. ASSUME NEW o \in Members, NEW m \in Members
        PROVE  DeliversTo(o, m)'
    BY <1>3, DeliversKept DEF Delivers
  <2> QED
    BY <2>1 DEF Delivers
<1>4. ASSUME NEW n \in Members, Connect(n)
      PROVE  Delivers'
  <2>1. /\ stream'[n].q = <<Status(net)>> /\ UNCHANGED <<net, nodes>>
        /\ \A o \in Members : o # n => stream'[o] = stream[o]
    BY <1>4, ConnectDoes
  <2>2. ASSUME NEW o \in Members, NEW m \in Members, o # n
        PROVE  DeliversTo(o, m)'
    BY <2>1, <2>2, DeliversKept DEF Delivers
  <2>3. ASSUME NEW m \in Members
        PROVE  DeliversTo(n, m)'
    <3> SUFFICES ASSUME NEW tr \in [1..(Len(stream'[n].q) + 1) -> Tagged \cup {"none"}],
                        Traces(n, m, tr)'
                 PROVE  Agrees(m, tr[Len(stream[n].q) + 1])'
      BY DEF DeliversTo
    <3>1. Len(stream'[n].q) = 1 /\ stream'[n].q[1] = Status(net) /\ 1 \in 1..1
      BY <2>1
    <3>2. tr[1 + 1] = After(Status(net), m, tr[1])
      BY <3>1 DEF Traces
    <3>3. tr[Len(stream'[n].q) + 1] = IF net[m] \in Tagged THEN net[m] ELSE "none"
      BY <3>1, <3>2, StatusIsMessage DEF After
    <3>4. net'[m] = net[m]
      BY <2>1
    <3> QED
      BY <3>3, <3>4 DEF Agrees, Tagged
  <2> QED
    BY <2>2, <2>3 DEF Delivers
<1>5. ASSUME NEW n \in Members, NEW newNodes \in [Members -> Tagged \cup {"none"}], NEW newSelf \in Statuses,
             stream[n].q # <<>>, Merged(n, newNodes, newSelf),
             \A m \in Members : n # m => newNodes[m] = After(stream[n].q[1], m, nodes[n][m])
      PROVE  Delivers'
  <2>1. /\ nodes'[n] = newNodes /\ stream'[n].pc = stream[n].pc /\ stream'[n].q = Tail(stream[n].q)
        /\ \A o \in Members : o # n => stream'[o] = stream[o] /\ nodes'[o] = nodes[o]
        /\ UNCHANGED net
    BY <1>5, MergedDoes
  <2>2. ASSUME NEW o \in Members, NEW m \in Members, o # n
        PROVE  DeliversTo(o, m)'
    BY <2>1, <2>2, DeliversKept DEF Delivers
  <2>3. ASSUME NEW m \in Members
        PROVE  DeliversTo(n, m)'
    <3>1. DeliversTo(n, m) /\ (n # m => nodes'[n][m] = After(stream[n].q[1], m, nodes[n][m]))
          /\ net'[m] = net[m]
      BY <1>5, <2>1 DEF Delivers
    <3> QED
      BY <1>1, <1>5, <2>1, <3>1, DeliversPopped
  <2> QED
    BY <2>2, <2>3 DEF Delivers
<1>6. ASSUME NEW n \in Members, MergeStatus(n)
      PROVE  Delivers'
  <2> DEFINE st == stream[n].q[1].net
  <2>1. /\ stream[n].q # <<>> /\ stream[n].q[1].kind = "status" /\ st \in [Members -> Statuses]
        /\ Merged(n, Fresh(n, st), st[n])
        /\ Fresh(n, st) \in [Members -> Tagged \cup {"none"}] /\ st[n] \in Statuses
    BY <1>6, StatusDoes
  <2>2. \A m \in Members : n # m => Fresh(n, st)[m] = After(stream[n].q[1], m, nodes[n][m])
    BY <2>1 DEF Fresh, After
  <2> HIDE DEF st
  <2> QED
    BY <1>5, <2>1, <2>2
<1>7. ASSUME NEW n \in Members, MergeNotify(n)
      PROVE  Delivers'
  <2> DEFINE d == stream[n].q[1]
  <2>1. /\ stream[n].q # <<>> /\ d.kind = "delta" /\ d.id \in Members
        /\ Merged(n, NodesAfter(n, d), SelfAfter(n, d))
        /\ NodesAfter(n, d) \in [Members -> Tagged \cup {"none"}] /\ SelfAfter(n, d) \in Statuses
    BY <1>7, NotifyDoes DEF Follows
  <2>2. nodes[n] \in [Members -> Tagged \cup {"none"}]
    BY DEF TypeOK, TrackerTypeOK
  <2>3. \A m \in Members : n # m => NodesAfter(n, d)[m] = After(d, m, nodes[n][m])
    BY <2>1, <2>2 DEF NodesAfter, After
  <2> QED
    BY <1>5, <2>1, <2>3
<1>8. ASSUME UNCHANGED <<net, nodes>>,
             \A o \in Members : stream'[o].pc = stream[o].pc /\ stream'[o].q = stream[o].q
      PROVE  Delivers'
  <2>1. ASSUME NEW o \in Members, NEW m \in Members
        PROVE  DeliversTo(o, m)'
    BY <1>8, DeliversKept DEF Delivers
  <2> QED
    BY <2>1 DEF Delivers
<1>9. ASSUME NEW n \in Members, StreamBreaks(n) \/ Stop(n)
      PROVE  Delivers'
  <2>1. /\ UNCHANGED net /\ stream'[n] = NoStream
        /\ \A o \in Members : o # n => stream'[o] = stream[o] /\ nodes'[o] = nodes[o]
    <3>1. CASE StreamBreaks(n)
      BY <3>1 DEF StreamBreaks, TypeOK, TrackerTypeOK
    <3>2. CASE Stop(n)
      BY <3>2, StopDoes
    <3> QED
      BY <1>9, <3>1, <3>2
  <2>2. stream'[n].pc # "open"
    BY <2>1, StartValues
  <2> QED
    BY <1>3, <2>1, <2>2
<1>10. ASSUME NEW n \in Members,
              TrackerSignals(n) \/ TickRound(n) \/ ChangesRound(n) \/ Probe(n) \/ RoundApply(n)
              \/ ServerSignals(n) \/ RouterUpdate(n) \/ Start(n)
       PROVE  Delivers'
  <2>1. CASE TrackerSignals(n)
    <3>1. /\ stream'[n].pc = stream[n].pc /\ stream'[n].q = stream[n].q
          /\ UNCHANGED <<net, nodes>> /\ \A o \in Members : o # n => stream'[o] = stream[o]
      BY <2>1, TrackerSignalsDoes
    <3> QED
      BY <1>8, <3>1
  <2>2. CASE TickRound(n) \/ ChangesRound(n) \/ RoundApply(n) \/ ServerSignals(n) \/ RouterUpdate(n) \/ Start(n)
    <3>1. UNCHANGED <<net, nodes, stream>>
      BY <2>2 DEF TickRound, ChangesRound, RoundStart, RoundApply, ServerSignals, RouterUpdate, Start, trackerVars
    <3> QED
      BY <1>8, <3>1
  <2>3. CASE Probe(n)
    <3>1. UNCHANGED <<net, nodes, stream>>
      BY <2>3, ProbeDoes
    <3> QED
      BY <1>8, <3>1
  <2> QED
    BY <1>10, <2>1, <2>2, <2>3
<1>11. CASE UNCHANGED vars
  BY <1>8, <1>11 DEF vars, trackerVars
<1>12. ASSUME NEW n \in Members, Steps(n)
       PROVE  Delivers'
  BY <1>2, <1>4, <1>6, <1>7, <1>9, <1>10, <1>12 DEF Steps
<1> QED
  BY <1>11, <1>12, StepCases

-----------------------------------------------------------------------------
(* The theorems *)

\* The inductive invariant of a pool.
PoolInv == TypeOK /\ Follows /\ Delivers

\* It holds throughout.
LEMMA PoolInvariant == Spec => []PoolInv
<1>1. ASSUME Init
      PROVE  PoolInv
  BY <1>1, TypeInit, FollowsInit, DeliversInit DEF PoolInv
<1>2. ASSUME PoolInv, [Next]_vars
      PROVE  PoolInv'
  <2>1. TypeOK'
    BY <1>2, TypeNext DEF PoolInv, Follows
  <2>2. Follows'
    BY <1>2, FollowsNext DEF PoolInv
  <2>3. Delivers'
    BY <1>2, DeliversNext DEF PoolInv
  <2> QED
    BY <2>1, <2>2, <2>3 DEF PoolInv
<1> QED
  BY <1>1, <1>2, PTL DEF Spec

\* In a pool of any size, a tracker that has applied all that its stream delivered
\* tracks exactly the tagged nodes, whatever breaks, reconnects, restarts and deltas
\* without a flag came before (mergeStatus, mergeNotify, nodeFromNetmap).
THEOREM TrackersAreExact == Spec => []TrackedExact
<1>1. ASSUME PoolInv
      PROVE  TrackedExact
  <2> SUFFICES ASSUME NEW n \in Members, stream[n].pc = "open", stream[n].q = <<>>,
                      NEW m \in Members \ {n}
               PROVE  Agrees(m, nodes[n][m])
    BY DEF TrackedExact, Agrees
  <2> DEFINE V  == Tagged \cup {"none"}
             tr == [i \in 1..1 |-> nodes[n][m]]
  <2>1. Len(stream[n].q) = 0 /\ Len(stream[n].q) + 1 = 1
    OBVIOUS
  <2>2. nodes[n][m] \in V
    BY <1>1 DEF PoolInv, TypeOK, TrackerTypeOK
  <2>3. tr \in [1..(Len(stream[n].q) + 1) -> V] /\ tr[1] = nodes[n][m]
    BY <2>1, <2>2
  <2> HIDE DEF tr
  <2>4. Traces(n, m, tr)
    BY <2>1, <2>3 DEF Traces
  <2>5. DeliversTo(n, m) /\ n # m
    BY <1>1 DEF PoolInv, Delivers
  <2>6. Agrees(m, tr[Len(stream[n].q) + 1])
    BY <2>3, <2>4, <2>5 DEF DeliversTo
  <2> QED
    BY <2>1, <2>3, <2>6
<1> QED
  BY <1>1, PoolInvariant, PTL

\* The server of every member misses no change of its source: at rest, with no
\* signal due, its candidates are what the tracker holds (run, probeAll).
THEOREM ServersFollowTheirSource == Spec => []SourceFollowed
<1>1. ASSUME PoolInv
      PROVE  SourceFollowed
  BY <1>1 DEF PoolInv, Follows, CandidatesFollow, SourceFollowed
<1> QED
  BY <1>1, PoolInvariant, PTL

\* The router of every member misses no change of the reachable set, and a table
\* that has peers has the process itself (publish, Router.run, Router.update).
THEOREM RoutersFollowTheirServer == Spec => []RouterFollows
<1>1. ASSUME PoolInv
      PROVE  RouterFollows
  <2> SUFFICES ASSUME NEW n \in Members, up[n], round[n].pc = "idle", ~sub[n]
               PROVE  /\ \A m \in Members :
                           routed[n].peers[m] = IF peers[n][m].reach THEN peers[n][m].pin ELSE 0
                      /\ TableOf(n) \subseteq {n} \/ n \in TableOf(n)
    BY DEF RouterFollows
  <2>1. \A m \in Members : routed[n].peers[m] = IF peers[n][m].reach THEN peers[n][m].pin ELSE 0
    BY <1>1 DEF PoolInv, Follows, Published
  <2>2. (\E m \in Members : routed[n].peers[m] # 0) => routed[n].self
    BY <1>1 DEF PoolInv, Follows, Published
  <2> DEFINE A == {m \in Members : routed[n].peers[m] # 0}
             B == IF routed[n].self THEN {n} ELSE {}
  <2>3. TableOf(n) = A \cup B
    BY DEF TableOf
  <2>4. CASE routed[n].self
    <3>1. B = {n}
      BY <2>4
    <3> HIDE DEF A, B
    <3> QED
      BY <2>1, <2>3, <3>1
  <2>5. CASE ~routed[n].self
    <3>1. A = {} /\ B = {}
      BY <2>2, <2>5
    <3> HIDE DEF A, B
    <3> QED
      BY <2>1, <2>3, <3>1
  <2> QED
    BY <2>4, <2>5
<1> QED
  BY <1>1, PoolInvariant, PTL

-----------------------------------------------------------------------------
(* Owners *)

\* A table that has members has one with the highest score, and Pick finds it.
LEMMA PickIsHighest ==
  ASSUME NEW table \in SUBSET Names, IsFiniteSet(table), table # {}, NEW k \in Keys
  PROVE  /\ Pick(table, k) \in table
         /\ \A o \in table : Score[o][k] <= Score[Pick(table, k)][k]
<1> DEFINE Above(m) == {o \in table : Score[o][k] > Score[m][k]}
           S == {Above(m) : m \in table}
<1>1. \A m \in table : Score[m][k] \in Nat
  BY ScoreAssumption
<1>2. S \in SUBSET FiniteSubsetsOf(table) /\ S # {}
  <2>1. \A m \in table : Above(m) \in SUBSET table /\ IsFiniteSet(Above(m))
    BY FS_Subset
  <2> QED
    BY <2>1 DEF FiniteSubsetsOf
<1>3. PICK A \in S : \A B \in S : <<B, A>> \notin StrictSubsetOrdering(table)
  <2> HIDE DEF S
  <2> QED
    BY <1>2, FS_StrictSubsetOrderingWellFounded, WFMin
<1>4. PICK m \in table : A = Above(m)
  OBVIOUS
<1>5. A = {}
  <2> SUFFICES ASSUME NEW o \in A
               PROVE  FALSE
    OBVIOUS
  <2>1. o \in table /\ Score[o][k] > Score[m][k]
    BY <1>4
  <2>2. Above(o) \subseteq A /\ o \notin Above(o)
    BY <1>1, <1>4, <2>1
  <2>3. Above(o) \in S /\ Above(o) \in SUBSET table /\ A \in SUBSET table /\ Above(o) # A
    BY <1>4, <2>1, <2>2
  <2> HIDE DEF Above, S
  <2> QED
    BY <1>3, <2>2, <2>3 DEF StrictSubsetOrdering
<1>6. \A o \in table : Score[o][k] <= Score[m][k]
  BY <1>1, <1>4, <1>5
<1> QED
  BY <1>6 DEF Pick

\* No other member has the highest score: there is one owner.
LEMMA OwnerIsUnique ==
  ASSUME NEW table \in SUBSET Names, IsFiniteSet(table), NEW k \in Keys,
         NEW m \in table, \A o \in table : Score[o][k] <= Score[m][k]
  PROVE  Pick(table, k) = m
<1> DEFINE p == Pick(table, k)
<1>1. p \in table /\ \A o \in table : Score[o][k] <= Score[p][k]
  BY PickIsHighest
<1> HIDE DEF p
<1>2. Score[p][k] \in Nat /\ Score[m][k] \in Nat
  BY <1>1, ScoreAssumption
<1>3. Score[p][k] <= Score[m][k] /\ Score[m][k] <= Score[p][k]
  BY <1>1
<1>4. Score[p][k] = Score[m][k]
  BY <1>2, <1>3
<1>5. p = m
  BY <1>1, <1>4, ScoreAssumption
<1> QED
  BY <1>5 DEF p

\* Processes agree on owners without coordination (Score, Table.Pick), even
\* while their tables differ: two routers pick the same member for a key as
\* soon as the one that scores highest among all they know is in both tables.
THEOREM OwnersAgree ==
  ASSUME NEW A \in SUBSET Names, NEW B \in SUBSET Names, IsFiniteSet(A), IsFiniteSet(B),
         NEW k \in Keys, Pick(A \cup B, k) \in A \cap B
  PROVE  Pick(A, k) = Pick(A \cup B, k) /\ Pick(B, k) = Pick(A \cup B, k)
<1> DEFINE p == Pick(A \cup B, k)
<1>1. p \in A /\ p \in B
  OBVIOUS
<1>2. IsFiniteSet(A \cup B) /\ A \cup B \in SUBSET Names /\ A \cup B # {}
  BY <1>1, FS_Union
<1>3. \A o \in A \cup B : Score[o][k] <= Score[p][k]
  BY <1>2, PickIsHighest
<1> HIDE DEF p
<1>4. Pick(A, k) = p /\ Pick(B, k) = p
  BY <1>1, <1>3, OwnerIsUnique
<1> QED
  BY <1>4 DEF p

\* A member that joins a table takes keys over and moves none between others;
\* one that leaves it only gives up its own.
THEOREM FewKeysMove ==
  ASSUME NEW table \in SUBSET Names, IsFiniteSet(table), table # {},
         NEW m \in Names \ table, NEW k \in Keys
  PROVE  Pick(table \cup {m}, k) \in {m, Pick(table, k)}
<1> DEFINE more == table \cup {m}
           p    == Pick(more, k)
<1>1. IsFiniteSet(more) /\ more \in SUBSET Names /\ more # {}
  BY FS_AddElement
<1>2. p \in more /\ \A o \in more : Score[o][k] <= Score[p][k]
  BY <1>1, PickIsHighest
<1>3. CASE p \in table
  <2>1. \A o \in table : Score[o][k] <= Score[p][k]
    BY <1>2
  <2> HIDE DEF p, more
  <2>2. Pick(table, k) = p
    BY <1>3, <2>1, OwnerIsUnique
  <2> QED
    BY <2>2 DEF p, more
<1>4. CASE p = m
  BY <1>4
<1> QED
  BY <1>2, <1>3, <1>4
=============================================================================
