---------------------------- MODULE PeersProofs ----------------------------
(***************************************************************************)
(* Proofs about a pool of servers, for any number of servers, requests and *)
(* actions, any room in the lanes and any routers, agreed or not.          *)
(***************************************************************************)
EXTENDS Peers, FiniteSetTheorems, TLAPS

-----------------------------------------------------------------------------
(* Handlers *)

\* Where the two handlers of a request can be: the one at the peer exists once
\* the request was forwarded, which happens at home and only once, a peer that is
\* answering with an object has it in hand, and one that acknowledged an object
\* has entered it.
Forwarded ==
  /\ \A r \in Reqs : pc[Fwd(r)] # "none" => peer[r] \in Servers
  /\ \A r \in Reqs : pc[Home(r)] \in {"start", "missed"} => pc[Fwd(r)] = "none"
  /\ \A r \in Reqs : pc[Home(r)] # "none"
  /\ \A g \in Gets : pc[Fwd(g)] = "hit" => found[g] \in Objects
  /\ \A p \in Puts : pc[Fwd(p)] = "acked" => Kept(peer[p], KeyOf[p])
  /\ \A p \in Puts : answer[p] = "stored" => pc[Home(p)] = "done"
  /\ \A g \in Gets, x \in Sides : pc[<<g, x>>] \notin {"reserve", "read", "whole", "short"}

\* An answer ends the handler at home and leaves all the others where they are.
LEMMA AnswerMoves ==
  ASSUME TypeOK, NEW r \in Reqs, NEW a, Answer(r, a)
  PROVE  /\ \A q \in Reqs, y \in Sides :
              pc'[<<q, y>>] = IF q = r /\ y = "home" THEN "done" ELSE pc[<<q, y>>]
         /\ \A q \in Reqs : answer'[q] = IF q = r THEN a ELSE answer[q]
BY DEF Answer, Home, Sides, TypeOK

\* The handlers after a step that moves one of them are well typed.
LEMMA GotoType ==
  ASSUME TypeOK, NEW r \in Reqs, NEW x \in Sides, NEW l \in Stages, Goto(<<r, x>>, l)
  PROVE  pc' \in [Reqs \X Sides -> Stages]
BY DEF Goto, TypeOK

\* An answer is well typed.
LEMMA AnswerType ==
  ASSUME TypeOK, NEW r \in Reqs, Answer(r, "stored") \/ Answer(r, "error") \/ Answer(r, "gone")
                                 \/ Answer(r, "hit") \/ Answer(r, "miss") \/ Answer(r, "short")
  PROVE  /\ pc' \in [Reqs \X Sides -> Stages]
         /\ answer' \in [Reqs -> {"none", "stored", "error", "gone", "hit", "miss", "short"}]
<1>1. "done" \in Stages /\ <<r, "home">> \in Reqs \X Sides
  BY DEF Stages, Sides
<1>2. PICK a \in {"stored", "error", "gone", "hit", "miss", "short"} : Answer(r, a)
  OBVIOUS
<1>3. pc' = [pc EXCEPT ![<<r, "home">>] = "done"] /\ answer' = [answer EXCEPT ![r] = a]
  BY <1>2 DEF Answer, Home
<1> QED
  BY <1>1, <1>3 DEF TypeOK

\* Every handler runs on a server.
LEMMA AtServer ==
  ASSUME TypeOK, Forwarded, NEW r \in Reqs, NEW x \in Sides, pc[<<r, x>>] # "none"
  PROVE  At(<<r, x>>) \in Servers
BY PeersAssumption DEF Forwarded, At, Sides, Fwd

\* A server has what one of its keys leads to.
LEMMA LookupFinds ==
  ASSUME TypeOK, NEW s \in Servers, NEW k \in Keys, Has(s, k)
  PROVE  Lookup(s, k) \in Objects /\ Lookup(s, k) # NoObject
BY PeersAssumption DEF Has, Lookup, TypeOK

\* Lanes give and take back room for one object.
LEMMA LaneType ==
  ASSUME TypeOK, NEW s \in Servers, NEW l \in Lanes, Acquire(s, l) \/ Release(s, l)
  PROVE  held' \in [Servers -> [Lanes -> Int]]
<1>1. held[s] \in [Lanes -> Int] /\ held[s][l] + 1 \in Int /\ held[s][l] - 1 \in Int
  BY DEF TypeOK
<1>2. PICK n \in Int : held' = [held EXCEPT ![s] = [held[s] EXCEPT ![l] = n]]
  BY <1>1 DEF Acquire, Release
<1>3. [held[s] EXCEPT ![l] = n] \in [Lanes -> Int]
  BY <1>1
<1> QED
  BY <1>2, <1>3 DEF TypeOK

\* Entering an object into the queue is well typed.
LEMMA EnqueueType ==
  ASSUME TypeOK, NEW s \in Servers, NEW k \in Keys, NEW o \in Objects, Enqueue(s, k, o)
  PROVE  /\ pending' \in [Servers -> [Keys -> Objects \cup {NoObject}]]
         /\ dropped' \subseteq Servers \X Keys
BY DEF Enqueue, TypeOK

\* What populateInline does is well typed.
LEMMA PopulateType ==
  ASSUME TypeOK, NEW s \in Servers, NEW k \in Keys, NEW o \in Objects, Populate(s, k, o)
  PROVE  /\ held' \in [Servers -> [Lanes -> Int]]
         /\ pending' \in [Servers -> [Keys -> Objects \cup {NoObject}]]
         /\ dropped' \subseteq Servers \X Keys
<1>1. "inline" \in Lanes
  BY DEF Lanes
<1>2. CASE Acquire(s, "inline") /\ Enqueue(s, k, o)
  BY <1>1, <1>2, LaneType, EnqueueType
<1>3. CASE UNCHANGED <<held, pending, dropped>>
  BY <1>3 DEF TypeOK
<1> QED
  BY <1>2, <1>3 DEF Populate

-----------------------------------------------------------------------------
(* Type correctness *)

\* The pool starts idle.
LEMMA TypeInit == Init => TypeOK
<1> SUFFICES ASSUME Init
             PROVE  TypeOK
  OBVIOUS
<1>1. pc \in [Reqs \X Sides -> Stages]
  BY DEF Init, Stages
<1> QED
  BY <1>1, PeersAssumption DEF Init, TypeOK

\* No step of a handler, a transport, a client or a flusher takes a variable out
\* of its type.
LEMMA TypeNext == TypeOK /\ Forwarded /\ [Next]_vars => TypeOK'
<1> SUFFICES ASSUME TypeOK, Forwarded, [Next]_vars
             PROVE  TypeOK'
  OBVIOUS
<1> USE PeersAssumption DEF net, storage
<1>1. /\ \A p \in Puts : Lane(p) \in Lanes
      /\ Puts \subseteq Reqs /\ Gets \subseteq Reqs
      /\ \A r \in Reqs : KeyOf[r] \in Keys /\ HomeOf[r] \in Servers
      /\ "home" \in Sides /\ "fwd" \in Sides
  BY DEF Lane, Lanes, Reqs, Sides
<1>2. /\ {"start", "missed", "wait", "reserve", "read", "whole", "acked", "failed", "hit",
          "miss", "done"} \subseteq Stages
  BY DEF Stages
<1>3. ASSUME NEW r \in Reqs, NEW x \in Sides, Handler(<<r, x>>)
      PROVE  TypeOK'
  <2>1. CASE PutLocal(<<r, x>>)
    BY <1>2, <2>1, GotoType DEF PutLocal, TypeOK
  <2>2. CASE Reserve(<<r, x>>)
    <3>1. r \in Puts /\ At(<<r, x>>) \in Servers
      BY <2>2, AtServer DEF Reserve, Forwarded, Reqs
    <3>2. held' \in [Servers -> [Lanes -> Int]]
      BY <1>1, <2>2, <3>1, LaneType DEF Reserve
    <3> QED
      BY <1>2, <2>2, <3>2, GotoType DEF Reserve, TypeOK
  <2>3. CASE PutEnqueue(<<r, x>>)
    <3>1. r \in Puts /\ At(<<r, x>>) \in Servers
      BY <2>3, AtServer DEF PutEnqueue, Forwarded, Reqs
    <3>2. held' \in [Servers -> [Lanes -> Int]]
      BY <1>1, <2>3, <3>1, LaneType DEF PutEnqueue, HandOver, TypeOK
    <3>3. Object(r, pc[<<r, x>>] = "whole") \in Objects
      BY <3>1 DEF Object, Objects
    <3>4. /\ pending' \in [Servers -> [Keys -> Objects \cup {NoObject}]]
          /\ dropped' \subseteq Servers \X Keys
      BY <1>1, <2>3, <3>1, <3>3, EnqueueType DEF PutEnqueue
    <3>5. /\ pc' \in [Reqs \X Sides -> Stages]
          /\ answer' \in [Reqs -> {"none", "stored", "error", "gone", "hit", "miss", "short"}]
      BY <1>2, <2>3, GotoType, AnswerType DEF PutEnqueue, TypeOK
    <3> QED
      BY <2>3, <3>2, <3>4, <3>5 DEF PutEnqueue, TypeOK
  <2>4. CASE GetLookup(<<r, x>>)
    <3>1. /\ pc' \in [Reqs \X Sides -> Stages]
          /\ answer' \in [Reqs -> {"none", "stored", "error", "gone", "hit", "miss", "short"}]
      BY <1>2, <2>4, GotoType, AnswerType DEF GetLookup, TypeOK
    <3>2. found' \in [Gets -> Objects \cup {NoObject}]
      <4>1. At(<<r, x>>) \in Servers /\ KeyOf[r] \in Keys
        BY <1>1, <2>4, AtServer DEF GetLookup
      <4>2. Lookup(At(<<r, x>>), KeyOf[r]) \in Objects \cup {NoObject}
        BY <4>1 DEF Lookup, TypeOK
      <4>3. \/ UNCHANGED found
            \/ found' = [found EXCEPT ![r] = Lookup(At(<<r, x>>), KeyOf[r])]
        BY <2>4 DEF GetLookup
      <4> QED
        BY <4>2, <4>3 DEF TypeOK
    <3> QED
      BY <2>4, <3>1, <3>2 DEF GetLookup, TypeOK
  <2>5. ASSUME NEW s \in Servers, Forward(<<r, x>>, s)
        PROVE  TypeOK'
    <3>1. pc' \in [Reqs \X Sides -> Stages]
      BY <1>1, <1>2, <2>5 DEF Forward, Fwd, TypeOK
    <3>2. peer' \in [Reqs -> Servers \cup {NoServer}]
      BY <2>5 DEF Forward, TypeOK
    <3>3. sending' \subseteq Puts
      BY <2>5 DEF Forward, TypeOK
    <3> QED
      BY <2>5, <3>1, <3>2, <3>3 DEF Forward, TypeOK
  <2> QED
    BY <1>3, <2>1, <2>2, <2>3, <2>4, <2>5 DEF Handler
<1>4. ASSUME NEW p \in Puts, ReadBody(p)
      PROVE  TypeOK'
  <2>1. held' \in [Servers -> [Lanes -> Int]]
    BY <1>1, <1>4, LaneType DEF ReadBody, TypeOK
  <2>2. /\ pc' \in [Reqs \X Sides -> Stages]
        /\ answer' \in [Reqs -> {"none", "stored", "error", "gone", "hit", "miss", "short"}]
    BY <1>1, <1>2, <1>4, GotoType, AnswerType DEF ReadBody, Home, TypeOK
  <2>3. body' \in [Puts -> {"unread", "sent", "read"}]
    BY <1>4 DEF ReadBody, TypeOK
  <2> QED
    BY <1>4, <2>1, <2>2, <2>3 DEF ReadBody, TypeOK
<1>5. ASSUME NEW p \in Puts, PutAcked(p)
      PROVE  TypeOK'
  <2>1. Object(p, TRUE) \in Objects
    BY DEF Object, Objects
  <2>2. /\ held' \in [Servers -> [Lanes -> Int]]
        /\ pending' \in [Servers -> [Keys -> Objects \cup {NoObject}]]
        /\ dropped' \subseteq Servers \X Keys
    BY <1>1, <1>5, <2>1, PopulateType DEF PutAcked
  <2> QED
    BY <1>1, <1>5, <2>2, AnswerType DEF PutAcked, TypeOK
<1>6. ASSUME NEW p \in Puts, PutFallback(p)
      PROVE  TypeOK'
  <2>1. /\ pc' \in [Reqs \X Sides -> Stages]
        /\ answer' \in [Reqs -> {"none", "stored", "error", "gone", "hit", "miss", "short"}]
    BY <1>1, <1>2, <1>6, GotoType, AnswerType DEF PutFallback, Home, TypeOK
  <2> QED
    BY <1>6, <2>1 DEF PutFallback, TypeOK
<1>7. ASSUME NEW p \in Puts, PutBuffer(p) \/ TransportReads(p) \/ TransportStops(p)
      PROVE  TypeOK'
  <2>1. body' \in [Puts -> {"unread", "sent", "read"}] /\ sending' \subseteq Puts
    BY <1>7 DEF PutBuffer, TransportReads, TransportStops, TypeOK
  <2> QED
    BY <1>7, <2>1 DEF PutBuffer, TransportReads, TransportStops, TypeOK
<1>8. ASSUME NEW p \in Puts, ReadForwarded(p)
      PROVE  TypeOK'
  <2>1. body' \in [Puts -> {"unread", "sent", "read"}]
    BY <1>8 DEF ReadForwarded, TypeOK
  <2>2. pc' \in [Reqs \X Sides -> Stages]
    BY <1>1, <1>2, <1>8, GotoType DEF ReadForwarded, Fwd
  <2> QED
    BY <1>8, <2>1, <2>2 DEF ReadForwarded, TypeOK
<1>9. ASSUME NEW p \in Puts, ClientGone(p)
      PROVE  TypeOK'
  <2>1. held' \in [Servers -> [Lanes -> Int]]
    BY <1>1, <1>9, LaneType DEF ClientGone, TypeOK
  <2> QED
    BY <1>1, <1>9, <2>1, AnswerType DEF ClientGone, TypeOK
<1>10. ASSUME NEW p \in Puts, FwdCanceled(p) \/ FwdFails(p)
       PROVE  TypeOK'
  <2>1. peer[p] \in Servers
    BY <1>1, <1>10 DEF FwdCanceled, FwdFails, Forwarded
  <2>2. held' \in [Servers -> [Lanes -> Int]]
    BY <1>1, <1>10, <2>1, LaneType DEF FwdCanceled, FwdFails, TypeOK
  <2>3. pc' \in [Reqs \X Sides -> Stages]
    BY <1>1, <1>2, <1>10, GotoType DEF FwdCanceled, FwdFails, Fwd
  <2> QED
    BY <1>10, <2>2, <2>3 DEF FwdCanceled, FwdFails, TypeOK
<1>11. ASSUME NEW g \in Gets, GetMisses(g) \/ GetRelayBreaks(g) \/ GetFails(g)
       PROVE  TypeOK'
  BY <1>1, <1>11, AnswerType DEF GetMisses, GetRelayBreaks, GetFails, TypeOK
<1>12. ASSUME NEW g \in Gets, GetRelay(g)
       PROVE  TypeOK'
  <2>1. found[g] \in Objects
    BY <1>12 DEF GetRelay, Forwarded
  <2>2. /\ held' \in [Servers -> [Lanes -> Int]]
        /\ pending' \in [Servers -> [Keys -> Objects \cup {NoObject}]]
        /\ dropped' \subseteq Servers \X Keys
    BY <1>1, <1>12, <2>1, PopulateType DEF GetRelay
  <2> QED
    BY <1>1, <1>12, <2>2, AnswerType DEF GetRelay, TypeOK
<1>13. ASSUME NEW s \in Servers, NEW k \in Keys, Flush(s, k) \/ Drop(s, k)
       PROVE  TypeOK'
  <2>1. pending[s][k] \in Objects /\ pending[s][k].put \in Puts
    BY <1>13 DEF Flush, Drop, TypeOK, Objects
  <2>2. held' \in [Servers -> [Lanes -> Int]]
    BY <1>1, <1>13, <2>1, LaneType DEF Flush, Drop
  <2>3. /\ pending' \in [Servers -> [Keys -> Objects \cup {NoObject}]]
        /\ stored' \in [Servers -> [Keys -> Objects \cup {NoObject}]]
    <3>1. CASE Flush(s, k)
      BY <2>1, <3>1 DEF Flush, TypeOK
    <3>2. CASE Drop(s, k)
      BY <3>2 DEF Drop, TypeOK
    <3> QED
      BY <1>13, <3>1, <3>2
  <2>4. dropped' \subseteq Servers \X Keys
    BY <1>13 DEF Flush, Drop, TypeOK
  <2> QED
    BY <1>13, <2>2, <2>3, <2>4 DEF Flush, Drop, TypeOK
<1>14. CASE UNCHANGED vars
  BY <1>14 DEF vars, TypeOK
<1> QED
  BY <1>3, <1>4, <1>5, <1>6, <1>7, <1>8, <1>9, <1>10, <1>11, <1>12, <1>13, <1>14
  DEF Next, HomePut, HomeGet

-----------------------------------------------------------------------------
(* Where handlers are, and what they have left behind *)

\* An object that was entered is found.
LEMMA EnqueueFinds ==
  ASSUME TypeOK, NEW s \in Servers, NEW k \in Keys, NEW o \in Objects, Enqueue(s, k, o)
  PROVE  /\ pending'[s][k] # NoObject
         /\ \A t \in Servers, j \in Keys : pending[t][j] # NoObject => pending'[t][j] # NoObject
<1>1. o # NoObject
  BY PeersAssumption
<1>2. CASE pending' = pending /\ pending[s][k] # NoObject
  BY <1>2
<1>3. CASE pending' = [pending EXCEPT ![s][k] = o]
  BY <1>1, <1>3 DEF TypeOK
<1> QED
  BY <1>2, <1>3 DEF Enqueue

\* No step makes a server forget an action: a pending entry goes when its row is
\* there, or when the queue gives it up.
LEMMA KeptStays ==
  ASSUME TypeOK, Forwarded, [Next]_vars, NEW s \in Servers, NEW k \in Keys, Kept(s, k)
  PROVE  Kept(s, k)'
<1> USE PeersAssumption DEF net, storage
<1>1. ASSUME UNCHANGED stored, NEW t \in Servers, NEW j \in Keys, NEW o \in Objects, Enqueue(t, j, o)
      PROVE  Kept(s, k)'
  <2>1. /\ pending'[t][j] # NoObject
        /\ pending[s][k] # NoObject => pending'[s][k] # NoObject
        /\ dropped' = dropped \ {<<t, j>>}
    BY <1>1, EnqueueFinds DEF Enqueue
  <2>2. CASE s = t /\ k = j
    BY <2>1, <2>2 DEF Kept, Has
  <2>3. CASE ~(s = t /\ k = j)
    BY <1>1, <2>1, <2>3 DEF Kept, Has
  <2> QED
    BY <2>2, <2>3
<1>2. UNCHANGED <<pending, stored, dropped>> => Kept(s, k)'
  BY DEF Kept, Has
<1>3. /\ Puts \subseteq Reqs /\ Gets \subseteq Reqs
      /\ \A r \in Reqs : KeyOf[r] \in Keys /\ HomeOf[r] \in Servers
  BY DEF Reqs
<1>4. ASSUME NEW r \in Reqs, NEW x \in Sides, Handler(<<r, x>>)
      PROVE  Kept(s, k)'
  <2>1. CASE PutEnqueue(<<r, x>>)
    <3>1. r \in Puts /\ At(<<r, x>>) \in Servers
      BY <2>1, AtServer DEF PutEnqueue, Forwarded, Reqs
    <3>2. Object(r, pc[<<r, x>>] = "whole") \in Objects
      BY <3>1 DEF Object, Objects
    <3> QED
      BY <1>1, <1>3, <2>1, <3>1, <3>2 DEF PutEnqueue
  <2> QED
    BY <1>2, <1>4, <2>1 DEF Handler, PutLocal, Reserve, GetLookup, Forward
<1>5. ASSUME NEW p \in Puts, PutAcked(p)
      PROVE  Kept(s, k)'
  <2>1. Object(p, TRUE) \in Objects
    BY DEF Object, Objects
  <2> QED
    BY <1>1, <1>2, <1>3, <1>5, <2>1 DEF PutAcked, Populate
<1>6. ASSUME NEW g \in Gets, GetRelay(g)
      PROVE  Kept(s, k)'
  <2>1. found[g] \in Objects
    BY <1>6 DEF GetRelay, Forwarded
  <2> QED
    BY <1>1, <1>2, <1>3, <1>6, <2>1 DEF GetRelay, Populate
<1>7. ASSUME NEW t \in Servers, NEW j \in Keys, Flush(t, j) \/ Drop(t, j)
      PROVE  Kept(s, k)'
  <2>1. pending[t][j] # NoObject /\ pending' = [pending EXCEPT ![t][j] = NoObject]
    BY <1>7 DEF Flush, Drop
  <2>2. /\ \/ stored' = stored
           \/ stored' = [stored EXCEPT ![t][j] = pending[t][j]]
        /\ dropped \subseteq dropped'
    BY <1>7 DEF Flush, Drop
  <2>3. stored'[t][j] # NoObject \/ <<t, j>> \in dropped'
    BY <1>7, <2>1 DEF Flush, Drop, TypeOK
  <2>4. CASE s = t /\ k = j
    BY <2>3, <2>4 DEF Kept, Has
  <2>5. CASE ~(s = t /\ k = j)
    <3>1. pending'[s][k] = pending[s][k]
      BY <2>1, <2>5 DEF TypeOK
    <3>2. stored'[s][k] = stored[s][k]
      BY <2>2, <2>5 DEF TypeOK
    <3> QED
      BY <2>2, <3>1, <3>2 DEF Kept, Has
  <2> QED
    BY <2>4, <2>5
<1> QED
  BY <1>2, <1>4, <1>5, <1>6, <1>7
  DEF Next, vars, HomePut, HomeGet, PutBuffer, ReadBody, PutFallback, ReadForwarded, ClientGone,
      FwdCanceled, FwdFails, TransportReads, TransportStops, GetMisses, GetRelayBreaks, GetFails

\* No request has been forwarded at the start.
LEMMA ForwardedInit == Init => Forwarded
BY PeersAssumption DEF Init, Forwarded, Home, Fwd, Sides, Reqs

\* A step that moves one handler, from a legal place to a legal place.
LEMMA ForwardedStep ==
  ASSUME TypeOK, Forwarded, peer' = peer,
         \A s \in Servers, k \in Keys : Kept(s, k) => Kept(s, k)',
         NEW r \in Reqs, NEW x \in Sides, NEW l,
         pc[<<r, x>>] \notin {"none", "done"},
         \A q \in Reqs, y \in Sides :
           pc'[<<q, y>>] = IF q = r /\ y = x THEN l ELSE pc[<<q, y>>],
         \A q \in Reqs : answer'[q] = answer[q] \/ (q = r /\ x = "home" /\ l = "done"),
         l \notin {"none", "start"},
         l = "missed" => x = "home" /\ pc[Home(r)] = "start",
         l = "acked" => x = "fwd" /\ Kept(peer[r], KeyOf[r])',
         l = "hit" => x = "fwd" /\ found'[r] \in Objects,
         \A g \in Gets : found'[g] = found[g] \/ (g = r /\ x = "fwd"),
         r \in Gets => l \notin {"reserve", "read", "whole", "short"}
  PROVE  Forwarded'
<1> USE PeersAssumption DEF Home, Fwd, Reqs
<1>1. "home" \in Sides /\ "fwd" \in Sides /\ \A y \in Sides : y \in {"home", "fwd"}
  BY DEF Sides
<1>2. \A q \in Reqs : pc[<<q, "fwd">>] # "none" => peer[q] \in Servers
  BY DEF Forwarded
<1>3. (\A q \in Reqs : pc[Fwd(q)] # "none" => peer[q] \in Servers)'
  BY <1>1, <1>2
<1>4. (\A q \in Reqs : pc[Home(q)] \in {"start", "missed"} => pc[Fwd(q)] = "none")'
  <2> SUFFICES ASSUME NEW q \in Reqs, pc'[<<q, "home">>] \in {"start", "missed"}
               PROVE  pc'[<<q, "fwd">>] = "none"
    OBVIOUS
  <2>1. pc[<<q, "home">>] \in {"start", "missed"}
    BY <1>1
  <2>2. pc[<<q, "fwd">>] = "none"
    BY <2>1 DEF Forwarded
  <2> QED
    BY <1>1, <2>2
<1>5. ASSUME NEW q \in Reqs
      PROVE  pc'[<<q, "home">>] # "none"
  <2>1. pc[<<q, "home">>] # "none"
    BY DEF Forwarded
  <2> QED
    BY <1>1, <2>1
<1>6. ASSUME NEW g \in Gets, pc'[<<g, "fwd">>] = "hit"
      PROVE  found'[g] \in Objects
  <2>1. CASE g = r /\ x = "fwd"
    BY <1>1, <1>6, <2>1
  <2>2. CASE ~(g = r /\ x = "fwd")
    <3>1. pc[<<g, "fwd">>] = "hit"
      BY <1>1, <1>6, <2>2
    <3>2. found[g] \in Objects
      BY <3>1 DEF Forwarded
    <3> QED
      BY <2>2, <3>2
  <2> QED
    BY <2>1, <2>2
<1>7. ASSUME NEW p \in Puts, pc'[<<p, "fwd">>] = "acked"
      PROVE  Kept(peer[p], KeyOf[p])'
  <2>1. CASE p = r /\ x = "fwd"
    BY <1>1, <1>7, <2>1
  <2>2. CASE ~(p = r /\ x = "fwd")
    <3>1. pc[<<p, "fwd">>] = "acked"
      BY <1>1, <1>7, <2>2
    <3>2. Kept(peer[p], KeyOf[p]) /\ peer[p] \in Servers /\ KeyOf[p] \in Keys
      BY <1>2, <3>1 DEF Forwarded
    <3> QED
      BY <3>2 DEF Kept, Has
  <2> QED
    BY <2>1, <2>2
<1>8. ASSUME NEW p \in Puts, answer'[p] = "stored"
      PROVE  pc'[<<p, "home">>] = "done"
  <2>1. answer[p] = "stored" => pc[<<p, "home">>] = "done"
    BY DEF Forwarded
  <2> QED
    BY <1>1, <1>8, <2>1
<1>9. ASSUME NEW g \in Gets, NEW y \in Sides
      PROVE  pc'[<<g, y>>] \notin {"reserve", "read", "whole", "short"}
  <2>1. pc[<<g, y>>] \notin {"reserve", "read", "whole", "short"}
    BY DEF Forwarded
  <2> QED
    BY <2>1
<1> QED
  BY <1>3, <1>4, <1>5, <1>6, <1>7, <1>8, <1>9 DEF Forwarded

\* Every step takes handlers from legal places to legal places.
LEMMA ForwardedNext == TypeOK /\ Forwarded /\ [Next]_vars => Forwarded'
<1> SUFFICES ASSUME TypeOK, Forwarded, [Next]_vars
             PROVE  Forwarded'
  OBVIOUS
<1> USE PeersAssumption DEF net, storage
<1>1. \A s \in Servers, k \in Keys : Kept(s, k) => Kept(s, k)'
  BY KeptStays
<1>2. /\ Puts \subseteq Reqs /\ Gets \subseteq Reqs /\ \A r \in Gets : r \notin Puts
      /\ "home" \in Sides /\ "fwd" \in Sides /\ \A x \in Sides : x \in {"home", "fwd"}
      /\ \A r \in Reqs : KeyOf[r] \in Keys
  BY DEF Reqs, Sides
<1>3. ASSUME UNCHANGED <<pc, peer, found, answer>>
      PROVE  Forwarded'
  <2>1. \A r \in Reqs : Kept(peer[r], KeyOf[r]) /\ peer[r] \in Servers => Kept(peer[r], KeyOf[r])'
    BY <1>1, <1>2, <1>3 DEF Kept, Has
  <2> QED
    BY <1>2, <1>3, <2>1 DEF Forwarded, Home, Fwd
<1>4. ASSUME UNCHANGED <<peer, found>>, NEW r \in Reqs, NEW a, Answer(r, a),
             pc[Home(r)] \notin {"none", "done"}
      PROVE  Forwarded'
  <2>1. /\ \A q \in Reqs, y \in Sides :
             pc'[<<q, y>>] = IF q = r /\ y = "home" THEN "done" ELSE pc[<<q, y>>]
        /\ \A q \in Reqs : answer'[q] = IF q = r THEN a ELSE answer[q]
    BY <1>4, AnswerMoves
  <2>2. \A q \in Reqs : answer'[q] = answer[q] \/ q = r
    BY <2>1
  <2>3. pc[<<r, "home">>] \notin {"none", "done"}
    BY <1>4 DEF Home
  <2> QED
    BY <1>1, <1>2, <1>4, <2>1, <2>2, <2>3, ForwardedStep
<1>5. ASSUME UNCHANGED <<peer, found, answer>>, NEW r \in Reqs, NEW x \in Sides, NEW l, Goto(<<r, x>>, l),
             pc[<<r, x>>] \notin {"none", "done"}, l \notin {"none", "start"},
             l = "missed" => x = "home" /\ pc[Home(r)] = "start",
             l = "acked" => x = "fwd" /\ Kept(peer[r], KeyOf[r])', l # "hit",
             r \in Gets => l \notin {"reserve", "read", "whole", "short"}
      PROVE  Forwarded'
  <2>1. \A q \in Reqs, y \in Sides :
          pc'[<<q, y>>] = IF q = r /\ y = x THEN l ELSE pc[<<q, y>>]
    BY <1>5 DEF Goto, TypeOK
  <2> QED
    BY <1>1, <1>5, <2>1, ForwardedStep
<1>6. ASSUME NEW r \in Reqs, NEW x \in Sides, Handler(<<r, x>>)
      PROVE  Forwarded'
  <2>1. CASE PutLocal(<<r, x>>)
    BY <1>2, <1>5, <2>1 DEF PutLocal
  <2>2. CASE Reserve(<<r, x>>)
    <3>1. r \notin Gets
      BY <2>2 DEF Reserve, Forwarded
    <3> QED
      BY <1>5, <2>2, <3>1 DEF Reserve
  <2>3. CASE PutEnqueue(<<r, x>>)
    <3>1. r \in Puts /\ At(<<r, x>>) \in Servers
      BY <2>3, AtServer DEF PutEnqueue, Forwarded, Reqs
    <3>2. Object(r, pc[<<r, x>>] = "whole") \in Objects
      BY <3>1 DEF Object, Objects
    <3>3. CASE x = "home"
      BY <1>4, <2>3, <3>3 DEF PutEnqueue, Home
    <3>4. CASE x = "fwd"
      <4>1. At(<<r, x>>) = peer[r]
        BY <3>4 DEF At
      <4>2. pending'[peer[r]][KeyOf[r]] # NoObject
        BY <1>2, <2>3, <3>1, <3>2, <4>1, EnqueueFinds DEF PutEnqueue
      <4>3. UNCHANGED <<peer, found, answer>> /\ Goto(<<r, x>>, "acked")
        BY <2>3, <3>4 DEF PutEnqueue
      <4>4. Kept(peer[r], KeyOf[r])'
        BY <4>2, <4>3 DEF Kept, Has
      <4> QED
        BY <1>5, <2>3, <3>4, <4>3, <4>4 DEF PutEnqueue
    <3> QED
      BY <1>2, <3>3, <3>4
  <2>4. CASE GetLookup(<<r, x>>)
    <3>1. CASE x = "home"
      BY <1>4, <1>5, <2>4, <3>1 DEF GetLookup, Home
    <3>2. CASE x = "fwd"
      <4>1. At(<<r, x>>) = peer[r] /\ UNCHANGED <<peer, answer>> /\ r \in Gets
        BY <2>4, <3>2 DEF At, GetLookup
      <4>2. peer[r] \in Servers /\ KeyOf[r] \in Keys
        BY <1>2, <2>4, <3>2 DEF GetLookup, Forwarded, Fwd
      <4>3. found' = [found EXCEPT ![r] = Lookup(peer[r], KeyOf[r])]
        BY <2>4, <3>2, <4>1 DEF GetLookup
      <4>4. \A g \in Gets : found'[g] = IF g = r THEN Lookup(peer[r], KeyOf[r]) ELSE found[g]
        BY <4>3 DEF TypeOK
      <4>5. PICK l \in {"hit", "miss"} : Goto(<<r, x>>, l) /\ (l = "hit" => Has(peer[r], KeyOf[r]))
        BY <2>4, <3>2, <4>1 DEF GetLookup
      <4>6. \A q \in Reqs, y \in Sides :
              pc'[<<q, y>>] = IF q = r /\ y = x THEN l ELSE pc[<<q, y>>]
        BY <4>5 DEF Goto, TypeOK
      <4>7. l = "hit" => found'[r] \in Objects
        BY <4>1, <4>2, <4>4, <4>5, LookupFinds
      <4>8. pc[<<r, x>>] \notin {"none", "done"} /\ l \notin {"none", "start", "missed", "acked"}
        BY <2>4 DEF GetLookup
      <4>9. \A g \in Gets : found'[g] = found[g] \/ (g = r /\ x = "fwd")
        BY <3>2, <4>4
      <4>10. r \in Gets => l \notin {"reserve", "read", "whole", "short"}
        OBVIOUS
      <4>11. /\ peer' = peer
             /\ \A q \in Reqs : answer'[q] = answer[q] \/ (q = r /\ x = "home" /\ l = "done")
             /\ l = "missed" => x = "home" /\ pc[Home(r)] = "start"
             /\ l = "acked" => x = "fwd" /\ Kept(peer[r], KeyOf[r])'
             /\ l = "hit" => x = "fwd" /\ found'[r] \in Objects
        BY <3>2, <4>1, <4>7
      <4> QED
        BY <1>1, <4>6, <4>8, <4>9, <4>10, <4>11, ForwardedStep
    <3> QED
      BY <1>2, <3>1, <3>2
  <2>5. ASSUME NEW s \in Servers, Forward(<<r, x>>, s)
        PROVE  Forwarded'
    <3>1. x = "home"
      BY <1>2, <2>5 DEF Forward, PeerOwner, At
    <3>2. pc[Home(r)] \in {"start", "missed"}
      BY <2>5, <3>1 DEF Forward, Home
    <3>3. pc' = [pc EXCEPT ![<<r, "home">>] = "wait", ![<<r, "fwd">>] = "start"]
      BY <2>5, <3>1 DEF Forward, Fwd
    <3>4. \A q \in Reqs, y \in Sides :
            pc'[<<q, y>>] = IF q = r THEN IF y = "home" THEN "wait" ELSE "start"
                            ELSE pc[<<q, y>>]
      BY <1>2, <3>3 DEF TypeOK
    <3>5. \A q \in Reqs : peer'[q] = IF q = r THEN s ELSE peer[q]
      BY <2>5 DEF Forward, TypeOK
    <3>6. UNCHANGED <<answer, found, pending, stored, dropped>>
      BY <2>5 DEF Forward
    <3>7. r \in Puts => answer[r] # "stored"
      BY <3>2 DEF Forwarded
    <3>8. \A q \in Reqs : q # r /\ Kept(peer[q], KeyOf[q]) => Kept(peer[q], KeyOf[q])'
      BY <3>5, <3>6 DEF Kept, Has
    <3> QED
      BY <1>2, <3>4, <3>5, <3>6, <3>7, <3>8 DEF Forwarded, Home, Fwd
  <2> QED
    BY <1>6, <2>1, <2>2, <2>3, <2>4, <2>5 DEF Handler
<1>7. ASSUME NEW p \in Puts, ReadBody(p) \/ PutAcked(p) \/ PutFallback(p) \/ ClientGone(p)
      PROVE  Forwarded'
  <2>1. UNCHANGED <<peer, found>> /\ pc[Home(p)] \notin {"none", "done"}
    BY <1>7 DEF ReadBody, PutAcked, PutFallback, ClientGone
  <2>2. CASE \E a : Answer(p, a)
    BY <1>2, <1>4, <2>1, <2>2
  <2>3. CASE \E l \in {"whole", "reserve"} : Goto(Home(p), l) /\ UNCHANGED answer
    BY <1>2, <1>5, <2>1, <2>3 DEF Home
  <2> QED
    BY <1>7, <2>2, <2>3 DEF ReadBody, PutAcked, PutFallback, ClientGone
<1>8. ASSUME NEW p \in Puts, ReadForwarded(p) \/ FwdCanceled(p) \/ FwdFails(p)
      PROVE  Forwarded'
  <2>1. /\ UNCHANGED <<peer, found, answer>> /\ pc[Fwd(p)] \notin {"none", "done"}
        /\ \E l \in {"whole", "failed"} : Goto(Fwd(p), l)
    BY <1>8 DEF ReadForwarded, FwdCanceled, FwdFails
  <2> QED
    BY <1>2, <1>5, <2>1 DEF Fwd
<1>9. ASSUME NEW g \in Gets, GetMisses(g) \/ GetRelay(g) \/ GetRelayBreaks(g) \/ GetFails(g)
      PROVE  Forwarded'
  <2>1. /\ UNCHANGED <<peer, found>> /\ pc[Home(g)] \notin {"none", "done"}
        /\ \E a : Answer(g, a)
    BY <1>9 DEF GetMisses, GetRelay, GetRelayBreaks, GetFails
  <2> QED
    BY <1>2, <1>4, <2>1
<1>10. CASE UNCHANGED vars
  BY <1>3, <1>10 DEF vars
<1> QED
  BY <1>3, <1>6, <1>7, <1>8, <1>9, <1>10
  DEF Next, HomePut, HomeGet, PutBuffer, TransportReads, TransportStops, Flush, Drop

\* The variables of the pool keep their types, and handlers their places.
LEMMA PeersAlways == Spec => [](TypeOK /\ Forwarded)
BY TypeInit, TypeNext, ForwardedInit, ForwardedNext, PTL DEF Spec

-----------------------------------------------------------------------------
(* Acknowledged actions are found *)

\* AckedFindable holds in the initial state and is preserved: the handler that
\* answers has the action on its own server, or on the peer that acknowledged it.
LEMMA AckedNext ==
  ASSUME TypeOK, Forwarded, AckedFindable, [Next]_vars
  PROVE  AckedFindable'
<1> USE PeersAssumption DEF net, storage
<1>1. /\ Puts \subseteq Reqs /\ Gets \subseteq Reqs
      /\ \A r \in Reqs : KeyOf[r] \in Keys /\ HomeOf[r] \in Servers
      /\ \A r \in Reqs : r \in Gets => r \notin Puts
      /\ "home" \in Sides /\ "fwd" \in Sides /\ \A x \in Sides : x \in {"home", "fwd"}
  BY DEF Reqs, Sides
<1> DEFINE Findable(p) == \E s \in {HomeOf[p], peer[p]} \ {NoServer} : Kept(s, KeyOf[p])
<1>2. ASSUME NEW p \in Puts, answer[p] = "stored", peer'[p] = peer[p]
      PROVE  Findable(p)'
  <2>1. PICK s \in {HomeOf[p], peer[p]} \ {NoServer} : Kept(s, KeyOf[p])
    BY <1>2 DEF AckedFindable
  <2>2. s \in Servers /\ KeyOf[p] \in Keys
    BY <1>1 DEF TypeOK
  <2>3. Kept(s, KeyOf[p])'
    BY <2>1, <2>2, KeptStays
  <2> QED
    BY <1>2, <2>1, <2>3 DEF Kept, Has
<1>3. ASSUME UNCHANGED peer, \A p \in Puts : answer'[p] = "stored" => answer[p] = "stored" \/ Findable(p)'
      PROVE  AckedFindable'
  BY <1>2, <1>3 DEF AckedFindable
<1>4. ASSUME NEW r \in Reqs, NEW a, Answer(r, a), UNCHANGED peer,
             r \in Puts /\ a = "stored" => Findable(r)'
      PROVE  AckedFindable'
  <2>1. \A q \in Reqs : answer'[q] = IF q = r THEN a ELSE answer[q]
    BY <1>4 DEF Answer, TypeOK
  <2>2. \A p \in Puts : answer'[p] = "stored" => answer[p] = "stored" \/ Findable(p)'
    <3> HIDE DEF Findable
    <3> QED
      BY <1>1, <1>4, <2>1
  <2> HIDE DEF Findable
  <2> QED
    BY <1>3, <1>4, <2>2
<1>5. UNCHANGED <<peer, answer>> => AckedFindable'
  BY <1>3
<1> HIDE DEF Findable
<1>6. ASSUME NEW r \in Reqs, NEW x \in Sides, Handler(<<r, x>>)
      PROVE  AckedFindable'
  <2>1. CASE PutLocal(<<r, x>>) \/ Reserve(<<r, x>>)
    BY <1>5, <2>1 DEF PutLocal, Reserve
  <2>2. CASE PutEnqueue(<<r, x>>)
    <3>1. CASE x = "home"
      <4>1. r \in Puts /\ At(<<r, x>>) = HomeOf[r]
        BY <2>2, <3>1 DEF PutEnqueue, Forwarded, Reqs, At
      <4>2. Object(r, pc[<<r, x>>] = "whole") \in Objects
        BY <4>1 DEF Object, Objects
      <4>3. pending'[HomeOf[r]][KeyOf[r]] # NoObject
        BY <1>1, <2>2, <4>1, <4>2, EnqueueFinds DEF PutEnqueue
      <4>4. Findable(r)'
        BY <1>1, <4>3 DEF Findable, Kept, Has
      <4> QED
        BY <1>4, <2>2, <3>1, <4>4 DEF PutEnqueue
    <3>2. CASE x = "fwd"
      BY <1>5, <2>2, <3>2 DEF PutEnqueue
    <3> QED
      BY <1>1, <3>1, <3>2
  <2>3. CASE GetLookup(<<r, x>>)
    BY <1>1, <1>4, <1>5, <2>3 DEF GetLookup
  <2>4. ASSUME NEW s \in Servers, Forward(<<r, x>>, s)
        PROVE  AckedFindable'
    <3>1. x = "home"
      BY <1>1, <2>4 DEF Forward, PeerOwner, At
    <3>2. r \in Puts => answer[r] # "stored"
      BY <2>4, <3>1 DEF Forward, Forwarded, Home
    <3>3. \A p \in Puts : answer'[p] = "stored" => peer'[p] = peer[p] /\ answer[p] = "stored"
      BY <1>1, <2>4, <3>2 DEF Forward, TypeOK
    <3> QED
      BY <1>2, <3>3 DEF AckedFindable, Findable
  <2> QED
    BY <1>6, <2>1, <2>2, <2>3, <2>4 DEF Handler
<1>7. ASSUME NEW p \in Puts, PutAcked(p)
      PROVE  AckedFindable'
  <2>1. Kept(peer[p], KeyOf[p]) /\ peer[p] \in Servers /\ UNCHANGED peer
    BY <1>1, <1>7 DEF PutAcked, Forwarded
  <2>2. Kept(peer[p], KeyOf[p])'
    BY <1>1, <2>1, KeptStays DEF Kept, Has
  <2>3. Findable(p)'
    BY <2>1, <2>2 DEF Findable
  <2> QED
    BY <1>1, <1>4, <1>7, <2>1, <2>3 DEF PutAcked
<1>8. ASSUME NEW p \in Puts, ReadBody(p) \/ PutFallback(p) \/ ClientGone(p)
      PROVE  AckedFindable'
  <2>1. UNCHANGED peer /\ (UNCHANGED answer \/ Answer(p, "error") \/ Answer(p, "gone"))
    BY <1>8 DEF ReadBody, PutFallback, ClientGone
  <2> QED
    BY <1>1, <1>4, <1>5, <2>1
<1>9. ASSUME NEW g \in Gets, GetMisses(g) \/ GetRelay(g) \/ GetRelayBreaks(g) \/ GetFails(g)
      PROVE  AckedFindable'
  <2>1. UNCHANGED peer /\ \E a : Answer(g, a)
    BY <1>9 DEF GetMisses, GetRelay, GetRelayBreaks, GetFails
  <2> QED
    BY <1>1, <1>4, <2>1
<1> QED
  BY <1>5, <1>6, <1>7, <1>8, <1>9
  DEF Next, vars, HomePut, HomeGet, PutBuffer, TransportReads, TransportStops, Flush, Drop, ReadForwarded,
      FwdCanceled, FwdFails

\* The 204 that a client got is never a lie, however the pool routes and whatever
\* failed, timed out or was answered late: the action is on its server or on the
\* peer that the PUT went to, unless that server's queue had it and gave it up after
\* its retries (peers.go, proxyPut and proxyPutSmall; putqueue.go, drop).
THEOREM AcknowledgedIsFound == Spec => []AckedFindable
<1>1. Init => AckedFindable
  BY DEF Init, AckedFindable, Reqs
<1> QED
  BY <1>1, AckedNext, PeersAlways, PTL DEF Spec

-----------------------------------------------------------------------------
(* No server holds a truncated object *)

\* What StoredWhole rests on: no handler gets past a short body, and both places
\* where an object can be, and the peers that are sending one, hold whole ones.
AllWhole ==
  /\ \A h \in Reqs \X Sides : pc[h] # "short"
  /\ \A s \in Servers, k \in Keys : /\ pending[s][k] # NoObject => pending[s][k].whole
                                    /\ stored[s][k] # NoObject => stored[s][k].whole
  /\ \A g \in Gets : found[g] # NoObject => found[g].whole

\* The handlers that enter objects have read them to their end, and what is
\* relayed from a peer was whole there.
LEMMA WholeNext ==
  ASSUME TypeOK, Forwarded, AllWhole, [Next]_vars
  PROVE  AllWhole'
<1> USE PeersAssumption DEF net, storage
<1>1. /\ Puts \subseteq Reqs /\ Gets \subseteq Reqs
      /\ \A r \in Reqs : KeyOf[r] \in Keys /\ HomeOf[r] \in Servers
      /\ "home" \in Sides /\ "fwd" \in Sides /\ \A x \in Sides : x \in {"home", "fwd"}
  BY DEF Reqs, Sides
<1> DEFINE Handlers == \A h \in Reqs \X Sides : pc[h] # "short"
           Holdings == /\ \A s \in Servers, k \in Keys :
                            /\ pending[s][k] # NoObject => pending[s][k].whole
                            /\ stored[s][k] # NoObject => stored[s][k].whole
                       /\ \A g \in Gets : found[g] # NoObject => found[g].whole
<1>2. Handlers /\ Holdings /\ (Handlers' /\ Holdings' => AllWhole')
  BY DEF AllWhole
<1>3. ASSUME NEW r \in Reqs, NEW x \in Sides, NEW l, Goto(<<r, x>>, l), l # "short"
      PROVE  Handlers'
  BY <1>2, <1>3 DEF Goto, TypeOK
<1>4. ASSUME NEW r \in Reqs, NEW a, Answer(r, a)
      PROVE  Handlers'
  BY <1>2, <1>4 DEF Answer, TypeOK
<1>5. UNCHANGED pc => Handlers'
  BY <1>2
<1>6. UNCHANGED <<pending, stored, found>> => Holdings'
  BY <1>2
<1>7. ASSUME NEW s \in Servers, NEW k \in Keys, NEW o \in Objects, o.whole, Enqueue(s, k, o),
             UNCHANGED <<stored, found>>
      PROVE  Holdings'
  <2>1. CASE UNCHANGED pending
    BY <1>6, <1>7, <2>1
  <2>2. CASE pending' = [pending EXCEPT ![s][k] = o]
    <3>1. \A t \in Servers, j \in Keys : pending'[t][j] = pending[t][j] \/ pending'[t][j] = o
      BY <2>2 DEF TypeOK
    <3> QED
      BY <1>2, <1>7, <3>1
  <2> QED
    BY <1>7, <2>1, <2>2 DEF Enqueue
<1> HIDE DEF Handlers, Holdings
<1>8. ASSUME NEW r \in Reqs, NEW x \in Sides, Handler(<<r, x>>)
      PROVE  AllWhole'
  <2>1. CASE PutLocal(<<r, x>>) \/ Reserve(<<r, x>>)
    BY <1>2, <1>3, <1>6, <2>1 DEF PutLocal, Reserve
  <2>2. CASE PutEnqueue(<<r, x>>)
    <3>1. r \in Puts /\ At(<<r, x>>) \in Servers
      BY <2>2, AtServer DEF PutEnqueue, Forwarded, Reqs
    <3>2. pc[<<r, x>>] = "whole"
      BY <2>2 DEF PutEnqueue, AllWhole
    <3>3. Object(r, pc[<<r, x>>] = "whole") = Object(r, TRUE)
      BY <3>2
    <3>4. Object(r, TRUE) \in Objects /\ Object(r, TRUE).whole
      BY <3>1 DEF Object, Objects
    <3>5. Holdings'
      BY <1>1, <1>7, <2>2, <3>1, <3>3, <3>4 DEF PutEnqueue
    <3>6. Handlers'
      BY <1>3, <1>4, <2>2 DEF PutEnqueue
    <3> QED
      BY <1>2, <3>5, <3>6
  <2>3. CASE GetLookup(<<r, x>>)
    <3>1. Handlers'
      BY <1>3, <1>4, <2>3 DEF GetLookup
    <3>2. At(<<r, x>>) \in Servers /\ KeyOf[r] \in Keys
      BY <1>1, <2>3, AtServer DEF GetLookup
    <3>3. LET o == Lookup(At(<<r, x>>), KeyOf[r]) IN o # NoObject => o.whole
      BY <1>2, <3>2 DEF Holdings, Lookup
    <3>4. \A g \in Gets : found'[g] \in {found[g], Lookup(At(<<r, x>>), KeyOf[r])}
      BY <2>3 DEF GetLookup, TypeOK
    <3>5. UNCHANGED <<pending, stored>>
      BY <2>3 DEF GetLookup
    <3>6. Holdings'
      BY <1>2, <3>3, <3>4, <3>5 DEF Holdings
    <3> QED
      BY <1>2, <3>1, <3>6
  <2>4. ASSUME NEW s \in Servers, Forward(<<r, x>>, s)
        PROVE  AllWhole'
    <3>1. Handlers'
      BY <1>2, <2>4 DEF Forward, Handlers, TypeOK
    <3> QED
      BY <1>2, <1>6, <2>4, <3>1 DEF Forward
  <2> QED
    BY <1>8, <2>1, <2>2, <2>3, <2>4 DEF Handler
<1>9. ASSUME NEW p \in Puts, PutAcked(p)
      PROVE  AllWhole'
  <2>1. Object(p, TRUE) \in Objects /\ Object(p, TRUE).whole
    BY DEF Object, Objects
  <2>2. Holdings'
    BY <1>1, <1>6, <1>7, <1>9, <2>1 DEF PutAcked, Populate
  <2> QED
    BY <1>1, <1>2, <1>4, <1>9, <2>2 DEF PutAcked
<1>10. ASSUME NEW g \in Gets, GetRelay(g)
       PROVE  AllWhole'
  <2>1. found[g] \in Objects
    BY <1>10 DEF GetRelay, Forwarded
  <2>2. found[g].whole
    BY <2>1 DEF AllWhole
  <2>3. Holdings'
    BY <1>1, <1>6, <1>7, <1>10, <2>1, <2>2 DEF GetRelay, Populate
  <2> QED
    BY <1>1, <1>2, <1>4, <1>10, <2>3 DEF GetRelay
<1>11. ASSUME NEW s \in Servers, NEW k \in Keys, Flush(s, k) \/ Drop(s, k)
       PROVE  AllWhole'
  <2>1. pending' = [pending EXCEPT ![s][k] = NoObject]
    BY <1>11 DEF Flush, Drop
  <2>2. stored' = stored \/ stored' = [stored EXCEPT ![s][k] = pending[s][k]]
    BY <1>11 DEF Flush, Drop
  <2>3. \A t \in Servers, j \in Keys : pending'[t][j] \in {pending[t][j], NoObject}
    BY <2>1 DEF TypeOK
  <2>4. \A t \in Servers, j \in Keys : stored'[t][j] \in {stored[t][j], pending[t][j]}
    <3>1. CASE stored' = stored
      BY <3>1
    <3>2. CASE stored' = [stored EXCEPT ![s][k] = pending[s][k]]
      <4>1. \A t \in Servers, j \in Keys :
              stored'[t][j] = IF t = s /\ j = k THEN pending[s][k] ELSE stored[t][j]
        BY <3>2 DEF TypeOK
      <4> QED
        BY <4>1
    <3> QED
      BY <2>2, <3>1, <3>2
  <2>5. UNCHANGED <<pc, found>>
    BY <1>11 DEF Flush, Drop
  <2>6. ASSUME NEW t \in Servers, NEW j \in Keys
        PROVE  /\ pending'[t][j] # NoObject => pending'[t][j].whole
               /\ stored'[t][j] # NoObject => stored'[t][j].whole
    <3>1. /\ pending[t][j] # NoObject => pending[t][j].whole
          /\ stored[t][j] # NoObject => stored[t][j].whole
      BY <1>2 DEF Holdings
    <3>2. CASE pending'[t][j] = pending[t][j] /\ stored'[t][j] = stored[t][j]
      BY <3>1, <3>2
    <3>3. CASE pending'[t][j] = pending[t][j] /\ stored'[t][j] = pending[t][j]
      BY <3>1, <3>3
    <3>4. CASE pending'[t][j] = NoObject /\ stored'[t][j] = stored[t][j]
      BY <3>1, <3>4
    <3>5. CASE pending'[t][j] = NoObject /\ stored'[t][j] = pending[t][j]
      BY <3>1, <3>5
    <3> QED
      BY <2>3, <2>4, <3>2, <3>3, <3>4, <3>5
  <2>7. Holdings'
    BY <1>2, <2>5, <2>6 DEF Holdings
  <2> QED
    BY <1>2, <1>5, <2>5, <2>7
<1>12. ASSUME NEW p \in Puts, ReadBody(p) \/ PutFallback(p) \/ ClientGone(p)
       PROVE  AllWhole'
  <2>1. Handlers'
    BY <1>1, <1>3, <1>4, <1>12 DEF ReadBody, PutFallback, ClientGone, Home
  <2> QED
    BY <1>2, <1>6, <1>12, <2>1 DEF ReadBody, PutFallback, ClientGone
<1>13. ASSUME NEW p \in Puts, ReadForwarded(p) \/ FwdCanceled(p) \/ FwdFails(p)
       PROVE  AllWhole'
  <2>1. Handlers'
    BY <1>1, <1>3, <1>13 DEF ReadForwarded, FwdCanceled, FwdFails, Fwd
  <2> QED
    BY <1>2, <1>6, <1>13, <2>1 DEF ReadForwarded, FwdCanceled, FwdFails
<1>14. ASSUME NEW g \in Gets, GetMisses(g) \/ GetRelayBreaks(g) \/ GetFails(g)
       PROVE  AllWhole'
  <2>1. Handlers'
    BY <1>1, <1>4, <1>14 DEF GetMisses, GetRelayBreaks, GetFails
  <2> QED
    BY <1>2, <1>6, <1>14, <2>1 DEF GetMisses, GetRelayBreaks, GetFails
<1> QED
  BY <1>2, <1>5, <1>6, <1>8, <1>9, <1>10, <1>11, <1>12, <1>13, <1>14
  DEF Next, vars, HomePut, HomeGet, PutBuffer, TransportReads, TransportStops

\* No server ever serves part of an object: a transport that goes on reading the
\* client's body after proxyPut has fallen back, or a peer that is cut off, leaves
\* an error and no entry (peers.go, gocached.go handlePut).
THEOREM NothingIsTruncated == Spec => []StoredWhole
<1>1. Init => AllWhole
  BY DEF Init, AllWhole
<1>2. AllWhole => StoredWhole
  BY DEF AllWhole, StoredWhole, Has, Lookup
<1> QED
  BY <1>1, <1>2, WholeNext, PeersAlways, PTL DEF Spec

-----------------------------------------------------------------------------
(* Room in the lanes *)

\* The places of a handler that has reserved room and not handed it over.
Holding == {"read", "whole", "short"}

One(b) == IF b THEN 1 ELSE 0

\* One handler has moved to n.
Moved(r, x, n) == \A q \in Reqs, y \in Sides :
                    pc'[<<q, y>>] = IF q = r /\ y = x THEN n ELSE pc[<<q, y>>]

\* There are finitely many handlers and entries to count.
LEMMA RoomFinite ==
  ASSUME NEW s, NEW l
  PROVE  /\ IsFiniteSet(Holders(s, l)) /\ Cardinality(Holders(s, l)) \in Nat
         /\ IsFiniteSet(Queued(s, l)) /\ Cardinality(Queued(s, l)) \in Nat
<1>1. IsFiniteSet(Sides)
  <2>1. IsFiniteSet({"fwd"}) /\ IsFiniteSet({"fwd"} \cup {"home"})
    BY FS_Singleton, FS_AddElement
  <2> QED
    BY <2>1 DEF Sides
<1>2. IsFiniteSet(Puts \X Sides)
  BY <1>1, FS_Product, PeersAssumption
<1>3. Holders(s, l) \subseteq Puts \X Sides /\ Queued(s, l) \subseteq Keys
  BY DEF Holders, Queued
<1> QED
  BY <1>2, <1>3, FS_Subset, FS_CardinalityType, PeersAssumption

\* The handlers that hold room after one of them has moved.
LEMMA HoldersAfter ==
  ASSUME TypeOK, UNCHANGED <<peer, small>>, NEW p \in Puts, NEW x \in Sides, NEW n,
         Moved(p, x, n), NEW s, NEW l
  PROVE  /\ n \in Holding /\ At(<<p, x>>) = s /\ Lane(p) = l =>
              Holders(s, l)' = Holders(s, l) \cup {<<p, x>>}
         /\ ~(n \in Holding /\ At(<<p, x>>) = s /\ Lane(p) = l) =>
              Holders(s, l)' = Holders(s, l) \ {<<p, x>>}
<1>1. \A h \in Puts \X Sides : /\ h \in Reqs \X Sides
                               /\ pc'[h] = IF h = <<p, x>> THEN n ELSE pc[h]
                               /\ At(h)' = At(h) /\ Lane(h[1])' = Lane(h[1])
  BY DEF Moved, Reqs, At, Lane
<1>2. \A h : h \in Holders(s, l) <=>
               h \in Puts \X Sides /\ pc[h] \in Holding /\ At(h) = s /\ Lane(h[1]) = l
  BY DEF Holders, Holding
<1>3. \A h : h \in Holders(s, l)' <=>
               h \in Puts \X Sides /\ pc'[h] \in Holding /\ At(h)' = s /\ Lane(h[1])' = l
  BY DEF Holders, Holding
<1>4. <<p, x>> \in Puts \X Sides /\ <<p, x>>[1] = p
  OBVIOUS
<1> QED
  BY <1>1, <1>2, <1>3, <1>4

\* A handler that reserves counts at its server and in its lane.
LEMMA HolderEnters ==
  ASSUME TypeOK, UNCHANGED <<peer, small>>, NEW p \in Puts, NEW x \in Sides, NEW n \in Holding,
         Moved(p, x, n), pc[<<p, x>>] \notin Holding, NEW s, NEW l
  PROVE  Cardinality(Holders(s, l)') =
           Cardinality(Holders(s, l)) + One(At(<<p, x>>) = s /\ Lane(p) = l)
<1>1. <<p, x>> \notin Holders(s, l)
  BY DEF Holders, Holding
<1>2. /\ At(<<p, x>>) = s /\ Lane(p) = l => Holders(s, l)' = Holders(s, l) \cup {<<p, x>>}
      /\ ~(At(<<p, x>>) = s /\ Lane(p) = l) => Holders(s, l)' = Holders(s, l) \ {<<p, x>>}
  BY HoldersAfter
<1>3. CASE At(<<p, x>>) = s /\ Lane(p) = l
  BY <1>1, <1>2, <1>3, RoomFinite, FS_AddElement DEF One
<1>4. CASE ~(At(<<p, x>>) = s /\ Lane(p) = l)
  <2>1. Holders(s, l)' = Holders(s, l)
    BY <1>1, <1>2, <1>4
  <2> QED
    BY <1>4, <2>1, RoomFinite DEF One
<1> QED
  BY <1>3, <1>4

\* A handler that ends its reservation no longer counts.
LEMMA HolderLeaves ==
  ASSUME TypeOK, UNCHANGED <<peer, small>>, NEW p \in Puts, NEW x \in Sides, NEW n,
         n \notin Holding,
         Moved(p, x, n), pc[<<p, x>>] \in Holding, NEW s, NEW l
  PROVE  Cardinality(Holders(s, l)') =
           Cardinality(Holders(s, l)) - One(At(<<p, x>>) = s /\ Lane(p) = l)
<1>1. <<p, x>> \in Holders(s, l) <=> At(<<p, x>>) = s /\ Lane(p) = l
  BY DEF Holders, Holding
<1>2. Holders(s, l)' = Holders(s, l) \ {<<p, x>>}
  BY HoldersAfter
<1>3. CASE <<p, x>> \in Holders(s, l)
  BY <1>1, <1>2, <1>3, RoomFinite, FS_RemoveElement DEF One
<1>4. CASE <<p, x>> \notin Holders(s, l)
  <2>1. Holders(s, l)' = Holders(s, l)
    BY <1>2, <1>4
  <2> QED
    BY <1>1, <1>4, <2>1, RoomFinite DEF One
<1> QED
  BY <1>3, <1>4

\* A handler that reserved before the step and after it, or neither, counts as before.
LEMMA HolderStays ==
  ASSUME TypeOK, UNCHANGED <<peer, small>>, NEW p \in Puts, NEW x \in Sides, NEW n,
         Moved(p, x, n), n \in Holding <=> pc[<<p, x>>] \in Holding,
         NEW s, NEW l
  PROVE  Holders(s, l)' = Holders(s, l)
<1>1. <<p, x>> \in Holders(s, l) <=> n \in Holding /\ At(<<p, x>>) = s /\ Lane(p) = l
  BY DEF Holders, Holding
<1> QED
  BY <1>1, HoldersAfter

\* A new entry counts at its server and in the lane of its object.
LEMMA EntryAdded ==
  ASSUME TypeOK, UNCHANGED small, NEW s \in Servers, NEW k \in Keys, NEW o \in Objects,
         pending[s][k] = NoObject, 
         \A u \in Servers, j \in Keys : pending'[u][j] = IF u = s /\ j = k THEN o ELSE pending[u][j],
         NEW t \in Servers, NEW l
  PROVE  Cardinality(Queued(t, l)') = Cardinality(Queued(t, l)) + One(s = t /\ Lane(o.put) = l)
<1>1. o # NoObject
  BY PeersAssumption
<1>2. \A j \in Keys : pending'[t][j] = IF t = s /\ j = k THEN o ELSE pending[t][j]
  OBVIOUS
<1>3. \A q : Lane(q)' = Lane(q)
  BY DEF Lane
<1>4. \A j : j \in Queued(t, l) <=>
               j \in Keys /\ pending[t][j] # NoObject /\ Lane(pending[t][j].put) = l
  BY DEF Queued
<1>5. \A j : j \in Queued(t, l)' <=>
               j \in Keys /\ pending'[t][j] # NoObject /\ Lane(pending'[t][j].put) = l
  BY <1>3 DEF Queued, Lane
<1>6. CASE s = t /\ Lane(o.put) = l
  <2>1. Queued(t, l)' = Queued(t, l) \cup {k} /\ k \notin Queued(t, l)
    BY <1>1, <1>2, <1>4, <1>5, <1>6
  <2> QED
    BY <1>6, <2>1, RoomFinite, FS_AddElement DEF One
<1>7. CASE ~(s = t /\ Lane(o.put) = l)
  <2>1. \A j : j \in Queued(t, l)' <=> j \in Queued(t, l)
    BY <1>1, <1>2, <1>4, <1>5, <1>7
  <2>2. Queued(t, l)' = Queued(t, l)
    BY <2>1
  <2> QED
    BY <1>7, <2>2, RoomFinite DEF One
<1> QED
  BY <1>6, <1>7

\* An entry that is flushed no longer counts.
LEMMA EntryRemoved ==
  ASSUME TypeOK, UNCHANGED small, NEW s \in Servers, NEW k \in Keys,
         pending[s][k] # NoObject, 
         \A u \in Servers, j \in Keys :
           pending'[u][j] = IF u = s /\ j = k THEN NoObject ELSE pending[u][j],
         NEW t \in Servers, NEW l
  PROVE  Cardinality(Queued(t, l)') =
           Cardinality(Queued(t, l)) - One(s = t /\ Lane(pending[s][k].put) = l)
<1>1. \A j \in Keys : pending'[t][j] = IF t = s /\ j = k THEN NoObject ELSE pending[t][j]
  OBVIOUS
<1>2. \A j : j \in Queued(t, l) <=>
               j \in Keys /\ pending[t][j] # NoObject /\ Lane(pending[t][j].put) = l
  BY DEF Queued
<1>3. \A j : j \in Queued(t, l)' <=>
               j \in Keys /\ pending'[t][j] # NoObject /\ Lane(pending'[t][j].put) = l
  BY DEF Queued, Lane
<1>4. CASE s = t /\ Lane(pending[s][k].put) = l
  <2>1. Queued(t, l)' = Queued(t, l) \ {k} /\ k \in Queued(t, l)
    BY <1>1, <1>2, <1>3, <1>4
  <2> QED
    <3>1. Cardinality(Queued(t, l) \ {k}) = Cardinality(Queued(t, l)) - 1
      BY <2>1, RoomFinite, FS_RemoveElement
    <3> QED
      BY <1>4, <2>1, <3>1 DEF One
<1>5. CASE ~(s = t /\ Lane(pending[s][k].put) = l)
  <2>1. \A j : j \in Queued(t, l)' <=> j \in Queued(t, l)
    BY <1>1, <1>2, <1>3, <1>5
  <2>2. Queued(t, l)' = Queued(t, l)
    BY <2>1
  <2> QED
    BY <1>5, <2>2, RoomFinite DEF One
<1> QED
  BY <1>4, <1>5

\* What is held after room was taken, and after it was returned.
LEMMA HeldAfter ==
  ASSUME TypeOK, NEW s \in Servers, NEW l \in Lanes, NEW t \in Servers, NEW m \in Lanes
  PROVE  /\ held[t][m] \in Int
         /\ Acquire(s, l) => held'[t][m] = held[t][m] + One(s = t /\ l = m)
         /\ Release(s, l) => held'[t][m] = held[t][m] - One(s = t /\ l = m)
BY DEF TypeOK, Acquire, Release, One

\* Every step that takes or returns room has the handler or the entry to show for it.
LEMMA RoomNext ==
  ASSUME TypeOK, Forwarded, RoomReturned, [Next]_vars
  PROVE  RoomReturned'
<1> USE PeersAssumption DEF net, storage
<1> SUFFICES ASSUME NEW s \in Servers, NEW l \in Lanes
             PROVE  held'[s][l] = Cardinality(Holders(s, l)') + Cardinality(Queued(s, l)')
  BY DEF RoomReturned
<1> DEFINE H == Cardinality(Holders(s, l))
           Q == Cardinality(Queued(s, l))
<1>1. /\ Puts \subseteq Reqs /\ Gets \subseteq Reqs
      /\ \A r \in Reqs : KeyOf[r] \in Keys /\ HomeOf[r] \in Servers
      /\ \A r \in Reqs : r \in Gets <=> r \notin Puts
      /\ "home" \in Sides /\ "fwd" \in Sides /\ \A x \in Sides : x \in {"home", "fwd"}
      /\ \A p \in Puts : Lane(p) \in Lanes
  BY DEF Reqs, Sides, Lane, Lanes
<1>2. /\ held[s][l] = H + Q /\ H \in Nat /\ Q \in Nat
      /\ \A b : One(b) \in {0, 1}
  BY RoomFinite DEF RoomReturned, One
<1>3. UNCHANGED <<pending, small>> => Cardinality(Queued(s, l)') = Q
  BY DEF Queued, Lane
<1>4. UNCHANGED <<pc, peer, small>> => Cardinality(Holders(s, l)') = H
  BY DEF Holders, At, Lane
<1>5. ASSUME NEW r \in Reqs, NEW x \in Sides, NEW n, Goto(<<r, x>>, n)
      PROVE  Moved(r, x, n)
  BY <1>5 DEF Goto, Moved, TypeOK
<1>6. ASSUME NEW r \in Reqs, NEW a, Answer(r, a)
      PROVE  Moved(r, "home", "done")
  BY <1>6 DEF Answer, Home, Moved, TypeOK
<1>7. ASSUME NEW g \in Gets, NEW x \in Sides, NEW n, Moved(g, x, n), UNCHANGED <<peer, small>>
      PROVE  Cardinality(Holders(s, l)') = H
  <2>1. \A h \in Puts \X Sides : pc'[h] = pc[h] /\ At(h)' = At(h) /\ Lane(h[1])' = Lane(h[1])
    BY <1>1, <1>7 DEF Moved, At, Lane
  <2>2. \A h : h \in Holders(s, l)' <=> h \in Holders(s, l)
    BY <2>1 DEF Holders
  <2>3. Holders(s, l)' = Holders(s, l)
    BY <2>2
  <2> QED
    BY <2>3
<1> HIDE DEF H, Q
<1>8. ASSUME NEW p \in Puts, NEW x \in Sides, NEW n, Moved(p, x, n), UNCHANGED <<peer, small>>
      PROVE  /\ pc[<<p, x>>] \in Holding /\ n \notin Holding =>
                  Cardinality(Holders(s, l)') = H - One(At(<<p, x>>) = s /\ Lane(p) = l)
             /\ pc[<<p, x>>] \notin Holding /\ n \in Holding =>
                  Cardinality(Holders(s, l)') = H + One(At(<<p, x>>) = s /\ Lane(p) = l)
             /\ (pc[<<p, x>>] \in Holding <=> n \in Holding) =>
                  Cardinality(Holders(s, l)') = H
  BY <1>8, HolderEnters, HolderLeaves, HolderStays DEF H
<1>9. ASSUME NEW t \in Servers, NEW k \in Keys, NEW o \in Objects, UNCHANGED small,
             pending[t][k] = NoObject, Enqueue(t, k, o)
      PROVE  Cardinality(Queued(s, l)') = Q + One(t = s /\ Lane(o.put) = l)
  <2>1. \A u \in Servers, j \in Keys :
          pending'[u][j] = IF u = t /\ j = k THEN o ELSE pending[u][j]
    BY <1>9 DEF Enqueue, TypeOK
  <2> QED
    BY <1>9, <2>1, EntryAdded DEF Q
<1>10. /\ "read" \in Holding /\ "whole" \in Holding
       /\ {"start", "wait", "reserve", "failed", "acked", "done", "none", "missed"} \cap Holding = {}
  BY DEF Holding
<1>11. ASSUME NEW t \in Servers, NEW k \in Keys, NEW o \in Objects, Populate(t, k, o),
              UNCHANGED small, Cardinality(Holders(s, l)') = H
       PROVE  held'[s][l] = Cardinality(Holders(s, l)') + Cardinality(Queued(s, l)')
  <2>1. CASE UNCHANGED <<held, pending>>
    BY <1>2, <1>3, <1>11, <2>1
  <2>2. CASE /\ o.put \in small /\ pending[t][k] = NoObject
             /\ Acquire(t, "inline") /\ Enqueue(t, k, o)
    <3>1. Lane(o.put) = "inline" /\ "inline" \in Lanes
      BY <2>2 DEF Lane, Lanes
    <3>2. held'[s][l] = held[s][l] + One(t = s /\ "inline" = l)
      BY <2>2, <3>1, HeldAfter
    <3>3. Cardinality(Queued(s, l)') = Q + One(t = s /\ "inline" = l)
      BY <1>9, <1>11, <2>2, <3>1
    <3> QED
      BY <1>2, <1>11, <3>2, <3>3
  <2> QED
    BY <1>11, <2>1, <2>2 DEF Populate
<1>12. ASSUME NEW r \in Reqs, NEW x \in Sides, Handler(<<r, x>>)
       PROVE  held'[s][l] = Cardinality(Holders(s, l)') + Cardinality(Queued(s, l)')
  <2>1. CASE PutLocal(<<r, x>>)
    <3>1. r \in Puts /\ Moved(r, x, "reserve") /\ UNCHANGED <<held, pending, peer, small>>
      BY <1>5, <2>1 DEF PutLocal
    <3>2. Cardinality(Holders(s, l)') = H
      BY <1>8, <1>10, <2>1, <3>1 DEF PutLocal
    <3> QED
      BY <1>2, <1>3, <3>1, <3>2
  <2>2. CASE Reserve(<<r, x>>)
    <3>1. r \in Puts /\ At(<<r, x>>) \in Servers
      BY <2>2, AtServer DEF Reserve, Forwarded, Reqs
    <3>2. Moved(r, x, "read") /\ UNCHANGED <<pending, peer, small>>
      BY <1>5, <2>2 DEF Reserve
    <3>3. Cardinality(Holders(s, l)') = H + One(At(<<r, x>>) = s /\ Lane(r) = l)
      BY <1>8, <1>10, <2>2, <3>1, <3>2 DEF Reserve
    <3>4. held'[s][l] = held[s][l] + One(At(<<r, x>>) = s /\ Lane(r) = l)
      BY <1>1, <2>2, <3>1, HeldAfter DEF Reserve
    <3> QED
      BY <1>2, <1>3, <3>2, <3>3, <3>4
  <2>3. CASE PutEnqueue(<<r, x>>)
    <3>1. r \in Puts /\ At(<<r, x>>) \in Servers
      BY <2>3, AtServer DEF PutEnqueue, Forwarded, Reqs
    <3>2. UNCHANGED <<peer, small>> /\ pc[<<r, x>>] \in Holding
      BY <2>3 DEF PutEnqueue, Holding
    <3>3. \E n \in {"done", "acked"} : Moved(r, x, n)
      BY <1>1, <1>5, <1>6, <2>3 DEF PutEnqueue
    <3>4. Cardinality(Holders(s, l)') = H - One(At(<<r, x>>) = s /\ Lane(r) = l)
      BY <1>8, <1>10, <3>1, <3>2, <3>3
    <3> DEFINE o == Object(r, pc[<<r, x>>] = "whole")
    <3>5. o \in Objects /\ o.put = r
      BY <3>1 DEF Object, Objects
    <3>6. CASE pending[At(<<r, x>>)][KeyOf[r]] = NoObject
      <4>1. UNCHANGED held /\ Enqueue(At(<<r, x>>), KeyOf[r], o)
        BY <2>3, <3>6 DEF PutEnqueue, HandOver
      <4> HIDE DEF o
      <4>2. Cardinality(Queued(s, l)') = Q + One(At(<<r, x>>) = s /\ Lane(r) = l)
        BY <1>1, <1>9, <3>1, <3>2, <3>5, <3>6, <4>1
      <4> QED
        BY <1>2, <3>4, <4>1, <4>2
    <3>7. CASE pending[At(<<r, x>>)][KeyOf[r]] # NoObject
      <4>1. UNCHANGED pending /\ Release(At(<<r, x>>), Lane(r))
        BY <2>3, <3>7 DEF PutEnqueue, HandOver, Enqueue
      <4>2. held'[s][l] = held[s][l] - One(At(<<r, x>>) = s /\ Lane(r) = l)
        BY <1>1, <3>1, <4>1, HeldAfter
      <4> QED
        BY <1>2, <1>3, <3>2, <3>4, <4>1, <4>2
    <3> QED
      BY <3>6, <3>7
  <2>4. CASE GetLookup(<<r, x>>)
    <3>1. r \in Gets /\ UNCHANGED <<held, pending, peer, small>>
      BY <2>4 DEF GetLookup
    <3>2. \E n : Moved(r, x, n)
      BY <1>1, <1>5, <1>6, <2>4 DEF GetLookup
    <3> QED
      BY <1>2, <1>3, <1>7, <3>1, <3>2
  <2>5. ASSUME NEW t \in Servers, Forward(<<r, x>>, t)
        PROVE  held'[s][l] = Cardinality(Holders(s, l)') + Cardinality(Queued(s, l)')
    <3>1. x = "home"
      BY <1>1, <2>5 DEF Forward, PeerOwner, At
    <3>2. pc[<<r, "home">>] \notin Holding /\ pc[<<r, "fwd">>] \notin Holding
      BY <2>5, <3>1 DEF Forward, Forwarded, Home, Fwd, Holding
    <3>3. pc' = [pc EXCEPT ![<<r, "home">>] = "wait", ![<<r, "fwd">>] = "start"]
      BY <2>5, <3>1 DEF Forward, Fwd
    <3>4. \A q \in Reqs, y \in Sides :
            pc'[<<q, y>>] = IF q = r THEN IF y = "home" THEN "wait" ELSE "start"
                            ELSE pc[<<q, y>>]
      BY <1>1, <3>3 DEF TypeOK
    <3>5. /\ \A q \in Reqs : q # r => peer'[q] = peer[q]
          /\ UNCHANGED <<small, held, pending>>
      BY <2>5 DEF Forward, TypeOK
    <3>6. ASSUME NEW h \in Puts \X Sides
          PROVE  h \in Holders(s, l)' <=> h \in Holders(s, l)
      <4>1. h = <<h[1], h[2]>> /\ h[1] \in Reqs /\ h[2] \in Sides
        BY <1>1
      <4>2. CASE h[1] = r
        <5>1. pc[h] \notin Holding
          BY <1>1, <3>2, <4>1, <4>2
        <5>2. pc'[h] \notin Holding
          BY <1>10, <3>4, <4>1, <4>2
        <5> QED
          BY <5>1, <5>2 DEF Holders, Holding
      <4>3. CASE h[1] # r
        <5>1. pc'[h] = pc[h] /\ peer'[h[1]] = peer[h[1]]
          BY <3>4, <3>5, <4>1, <4>3
        <5>2. At(h)' = At(h) /\ Lane(h[1])' = Lane(h[1])
          BY <3>5, <5>1 DEF At, Lane
        <5> QED
          BY <5>1, <5>2 DEF Holders
      <4> QED
        BY <4>2, <4>3
    <3>7. \A h : h \in Holders(s, l)' <=> h \in Holders(s, l)
      BY <3>6 DEF Holders
    <3>8. Holders(s, l)' = Holders(s, l)
      BY <3>7
    <3> QED
      BY <1>2, <1>3, <3>5, <3>8 DEF H
  <2> QED
    BY <1>12, <2>1, <2>2, <2>3, <2>4, <2>5 DEF Handler
<1>13. ASSUME NEW p \in Puts, NEW x \in Sides, NEW n, Moved(p, x, n),
              UNCHANGED <<pending, peer, small>>, n \notin Holding, pc[<<p, x>>] \in Holding,
              Release(At(<<p, x>>), Lane(p)), At(<<p, x>>) \in Servers
       PROVE  held'[s][l] = Cardinality(Holders(s, l)') + Cardinality(Queued(s, l)')
  <2>1. Cardinality(Holders(s, l)') = H - One(At(<<p, x>>) = s /\ Lane(p) = l)
    BY <1>8, <1>13
  <2>2. held'[s][l] = held[s][l] - One(At(<<p, x>>) = s /\ Lane(p) = l)
    BY <1>1, <1>13, HeldAfter
  <2> QED
    BY <1>2, <1>3, <1>13, <2>1, <2>2
<1>14. ASSUME NEW p \in Puts, NEW x \in Sides, NEW n, Moved(p, x, n),
              UNCHANGED <<pending, peer, small, held>>, n \in Holding <=> pc[<<p, x>>] \in Holding
       PROVE  held'[s][l] = Cardinality(Holders(s, l)') + Cardinality(Queued(s, l)')
  <2>1. Cardinality(Holders(s, l)') = H
    BY <1>8, <1>14
  <2> QED
    BY <1>2, <1>3, <1>14, <2>1
<1>15. \A p \in Puts : At(<<p, "home">>) = HomeOf[p] /\ At(<<p, "fwd">>) = peer[p]
  BY DEF At
<1>16. ASSUME NEW p \in Puts, ReadBody(p)
       PROVE  held'[s][l] = Cardinality(Holders(s, l)') + Cardinality(Queued(s, l)')
  <2>1. pc[<<p, "home">>] \in Holding /\ UNCHANGED <<pending, peer, small>>
    BY <1>10, <1>16 DEF ReadBody, Home
  <2>2. CASE Goto(Home(p), "whole") /\ UNCHANGED <<answer, held>>
    <3>1. Moved(p, "home", "whole")
      BY <1>1, <1>5, <2>2 DEF Home
    <3> QED
      BY <1>1, <1>10, <1>14, <2>1, <2>2, <3>1
  <2>3. CASE Answer(p, "error") /\ Release(HomeOf[p], Lane(p))
    <3>1. Moved(p, "home", "done")
      BY <1>1, <1>6, <2>3
    <3> QED
      BY <1>1, <1>10, <1>13, <1>15, <2>1, <2>3, <3>1
  <2> QED
    BY <1>16, <2>2, <2>3 DEF ReadBody
<1>17. ASSUME NEW p \in Puts, PutAcked(p)
       PROVE  held'[s][l] = Cardinality(Holders(s, l)') + Cardinality(Queued(s, l)')
  <2>1. Moved(p, "home", "done") /\ UNCHANGED <<peer, small>> /\ pc[<<p, "home">>] = "wait"
    BY <1>1, <1>6, <1>17 DEF PutAcked, Home
  <2>2. Cardinality(Holders(s, l)') = H
    BY <1>1, <1>8, <1>10, <2>1
  <2>3. Object(p, TRUE) \in Objects
    BY DEF Object, Objects
  <2> QED
    BY <1>1, <1>11, <1>17, <2>1, <2>2, <2>3 DEF PutAcked
<1>18. ASSUME NEW p \in Puts, PutFallback(p)
       PROVE  held'[s][l] = Cardinality(Holders(s, l)') + Cardinality(Queued(s, l)')
  <2>1. /\ Moved(p, "home", "done") \/ Moved(p, "home", "reserve")
        /\ UNCHANGED <<pending, peer, small, held>> /\ pc[<<p, "home">>] = "wait"
    BY <1>1, <1>5, <1>6, <1>18 DEF PutFallback, Home
  <2> QED
    BY <1>1, <1>10, <1>14, <2>1
<1>19. ASSUME NEW p \in Puts, ClientGone(p)
       PROVE  held'[s][l] = Cardinality(Holders(s, l)') + Cardinality(Queued(s, l)')
  <2>1. Moved(p, "home", "done") /\ UNCHANGED <<pending, peer, small>>
    BY <1>1, <1>6, <1>19 DEF ClientGone
  <2>2. CASE pc[<<p, "home">>] = "read" /\ Release(HomeOf[p], Lane(p))
    BY <1>1, <1>10, <1>13, <1>15, <2>1, <2>2
  <2>3. CASE pc[<<p, "home">>] \in {"wait", "reserve"} /\ UNCHANGED held
    BY <1>1, <1>10, <1>14, <2>1, <2>3
  <2> QED
    BY <1>19, <2>2, <2>3 DEF ClientGone, Home
<1>20. ASSUME NEW p \in Puts, FwdCanceled(p) \/ FwdFails(p)
       PROVE  held'[s][l] = Cardinality(Holders(s, l)') + Cardinality(Queued(s, l)')
  <2>1. Moved(p, "fwd", "failed") /\ UNCHANGED <<pending, peer, small>>
    BY <1>1, <1>5, <1>20 DEF FwdCanceled, FwdFails, Fwd
  <2>2. peer[p] \in Servers
    BY <1>1, <1>20 DEF FwdCanceled, FwdFails, Forwarded
  <2>3. CASE pc[<<p, "fwd">>] = "read" /\ Release(peer[p], Lane(p))
    BY <1>1, <1>10, <1>13, <1>15, <2>1, <2>2, <2>3
  <2>4. CASE pc[<<p, "fwd">>] \in {"start", "reserve"} /\ UNCHANGED held
    BY <1>1, <1>10, <1>14, <2>1, <2>4
  <2> QED
    BY <1>20, <2>3, <2>4 DEF FwdCanceled, FwdFails, Fwd
<1>21. ASSUME NEW p \in Puts, ReadForwarded(p)
       PROVE  held'[s][l] = Cardinality(Holders(s, l)') + Cardinality(Queued(s, l)')
  <2>1. /\ Moved(p, "fwd", "whole") /\ pc[<<p, "fwd">>] = "read"
        /\ UNCHANGED <<pending, peer, small, held>>
    BY <1>1, <1>5, <1>21 DEF ReadForwarded, Fwd
  <2> QED
    BY <1>1, <1>10, <1>14, <2>1
<1>22. ASSUME NEW g \in Gets, GetMisses(g) \/ GetRelayBreaks(g) \/ GetFails(g)
       PROVE  held'[s][l] = Cardinality(Holders(s, l)') + Cardinality(Queued(s, l)')
  <2>1. Moved(g, "home", "done") /\ UNCHANGED <<pending, peer, small, held>>
    BY <1>1, <1>6, <1>22 DEF GetMisses, GetRelayBreaks, GetFails
  <2> QED
    BY <1>1, <1>2, <1>3, <1>7, <2>1
<1>23. ASSUME NEW g \in Gets, GetRelay(g)
       PROVE  held'[s][l] = Cardinality(Holders(s, l)') + Cardinality(Queued(s, l)')
  <2>1. Moved(g, "home", "done") /\ UNCHANGED <<peer, small>>
    BY <1>1, <1>6, <1>23 DEF GetRelay
  <2>2. Cardinality(Holders(s, l)') = H
    BY <1>1, <1>7, <2>1
  <2>3. found[g] \in Objects
    BY <1>23 DEF GetRelay, Forwarded
  <2> QED
    BY <1>1, <1>11, <1>23, <2>1, <2>2, <2>3 DEF GetRelay
<1>24. ASSUME NEW t \in Servers, NEW k \in Keys, Flush(t, k) \/ Drop(t, k)
       PROVE  held'[s][l] = Cardinality(Holders(s, l)') + Cardinality(Queued(s, l)')
  <2>1. pending[t][k] \in Objects /\ pending[t][k].put \in Puts /\ pending[t][k] # NoObject
    BY <1>24 DEF Flush, Drop, TypeOK, Objects
  <2>2. UNCHANGED <<pc, peer, small>> /\ Release(t, Lane(pending[t][k].put))
    BY <1>24 DEF Flush, Drop
  <2>3. \A u \in Servers, j \in Keys :
          pending'[u][j] = IF u = t /\ j = k THEN NoObject ELSE pending[u][j]
    BY <1>24 DEF Flush, Drop, TypeOK
  <2>4. Cardinality(Queued(s, l)') = Q - One(t = s /\ Lane(pending[t][k].put) = l)
    BY <2>1, <2>2, <2>3, EntryRemoved DEF Q
  <2>5. held'[s][l] = held[s][l] - One(t = s /\ Lane(pending[t][k].put) = l)
    BY <1>1, <2>1, <2>2, HeldAfter
  <2> QED
    BY <1>2, <1>4, <2>2, <2>4, <2>5
<1>25. ASSUME UNCHANGED <<pc, peer, small, held, pending>>
       PROVE  held'[s][l] = Cardinality(Holders(s, l)') + Cardinality(Queued(s, l)')
  BY <1>2, <1>3, <1>4, <1>25
<1> QED
  BY <1>12, <1>16, <1>17, <1>18, <1>19, <1>20, <1>21, <1>22, <1>23, <1>24, <1>25
  DEF Next, vars, HomePut, HomeGet, PutBuffer, TransportReads, TransportStops

\* The room of a lane that is out is that of handlers and entries that exist: no
\* fallback, cancellation, duplicate or copy for a peer leaks or returns it twice
\* (peers.go, putqueue.go).
THEOREM RoomIsReturned == Spec => []RoomReturned
<1>1. ASSUME Init
      PROVE  RoomReturned
  <2> SUFFICES ASSUME NEW s \in Servers, NEW l \in Lanes
               PROVE  held[s][l] = Cardinality(Holders(s, l)) + Cardinality(Queued(s, l))
    BY DEF RoomReturned
  <2>1. Holders(s, l) = {} /\ Queued(s, l) = {}
    BY <1>1 DEF Init, Holders, Queued, Reqs
  <2> QED
    BY <1>1, <2>1, FS_EmptySet DEF Init
<1> QED
  BY <1>1, RoomNext, PeersAlways, PTL DEF Spec

=============================================================================
