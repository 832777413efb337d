------------------------------- MODULE Peers -------------------------------
(***************************************************************************)
(* A pool of gocached servers (peers.go, gocached.go): clients talk to     *)
(* their own server, which forwards requests for actions that a peer owns. *)
(* A request has a handler at home, its client's server, and when it is    *)
(* forwarded a second one at the peer, which outlives a RoundTrip that     *)
(* gives up.                                                               *)
(*                                                                         *)
(* Servers may disagree about the owner of a key and change their minds,   *)
(* so the router's answer is any server.  The put queue is reduced to its  *)
(* lanes and to the pending entry of a key; PutQueue has the rest.         *)
(***************************************************************************)
EXTENDS Integers, FiniteSets

CONSTANTS
  Servers, Keys,
  Puts, Gets,   \* the clients' requests
  KeyOf,        \* [Puts \cup Gets -> Keys]: the action
  HomeOf,       \* [Puts \cup Gets -> Servers]: the client's server
  LaneCap,      \* room of the inline lane and of the spooled lane of a server
  NoServer, NoObject

Reqs  == Puts \cup Gets
Sides == {"home", "fwd"}
Lanes == {"inline", "spool"}

\* An object as some server holds it; a short one lacks part of its body.
Objects == [put : Puts, whole : BOOLEAN]

ASSUME PeersAssumption ==
  /\ Puts \cap Gets = {} /\ LaneCap \in Nat \ {0}
  /\ KeyOf \in [Reqs -> Keys] /\ HomeOf \in [Reqs -> Servers]
  /\ NoServer \notin Servers /\ NoObject \notin Objects
  /\ IsFiniteSet(Puts) /\ IsFiniteSet(Keys)

VARIABLES
  pc,       \* per request and side: where its handler is
  peer,     \* per request: the peer it was forwarded to
  sending,  \* forwarded PUTs whose transport is still at work
  found,    \* per GET: the object that the peer is sending
  body,     \* per PUT: who has read from the client's body
  answer,   \* per request: what the client was told
  held,     \* per server and lane: reservations that are out
  pending,  \* per server and key: the object in the put queue
  stored,   \* per server and key: the object of the row in SQLite
  dropped,  \* the keys that a server's queue has given up since their last PUT
  small     \* the PUTs of inline-sized objects (never changes)

net     == <<peer, sending, found, small>>
storage == <<pending, stored, dropped>>
vars    == <<pc, net, body, answer, held, storage>>

Home(r) == <<r, "home">>
Fwd(r)  == <<r, "fwd">>
At(h)   == IF h[2] = "home" THEN HomeOf[h[1]] ELSE peer[h[1]]
Lane(p) == IF p \in small THEN "inline" ELSE "spool"

Object(p, whole) == [put |-> p, whole |-> whole]

Has(s, k)    == pending[s][k] # NoObject \/ stored[s][k] # NoObject
Lookup(s, k) == IF pending[s][k] # NoObject THEN pending[s][k] ELSE stored[s][k]

Goto(h, l)   == pc' = [pc EXCEPT ![h] = l]
Answer(r, a) == /\ pc' = [pc EXCEPT ![Home(r)] = "done"]
                /\ answer' = [answer EXCEPT ![r] = a]

\* Fault: a request that came from a peer is routed like any other.
PeerOwner_Routes(h) == Servers

\* peerOwner: the servers that may get the request, its own one meaning that it
\* is handled locally.
PeerOwner(h) == IF h[2] = "fwd" THEN {At(h)} ELSE Servers

-----------------------------------------------------------------------------
(* The put queue *)

Room(s, lane)    == held[s][lane] < LaneCap
Acquire(s, lane) == held' = [held EXCEPT ![s][lane] = @ + 1]
Release(s, lane) == held' = [held EXCEPT ![s][lane] = @ - 1]

\* enqueue: the first PUT of a key wins.
Enqueue(s, k, o) ==
  /\ pending' = IF pending[s][k] = NoObject THEN [pending EXCEPT ![s][k] = o] ELSE pending
  /\ dropped' = dropped \ {<<s, k>>}

\* Fault: the reservation for a duplicate is not returned.
HandOver_Leaks(s, k, lane) == UNCHANGED held

\* A reservation goes to the entry that is enqueued, or back.
HandOver(s, k, lane) ==
  IF pending[s][k] = NoObject THEN UNCHANGED held ELSE Release(s, lane)

\* The flusher commits an entry; INSERT OR IGNORE keeps an earlier row.
Flush(s, k) ==
  /\ pending[s][k] # NoObject
  /\ stored' = IF stored[s][k] = NoObject
               THEN [stored EXCEPT ![s][k] = pending[s][k]] ELSE stored
  /\ pending' = [pending EXCEPT ![s][k] = NoObject]
  /\ Release(s, Lane(pending[s][k].put))
  /\ UNCHANGED <<pc, net, body, answer, dropped>>

\* drop: after its last failed attempt the queue gives an entry up; the row is
\* missing unless an earlier one is there.  (If an attempt took effect after all,
\* this is a Flush.)
Drop(s, k) ==
  /\ pending[s][k] # NoObject
  /\ dropped' = IF stored[s][k] = NoObject THEN dropped \cup {<<s, k>>} ELSE dropped
  /\ pending' = [pending EXCEPT ![s][k] = NoObject]
  /\ Release(s, Lane(pending[s][k].put))
  /\ UNCHANGED <<pc, net, body, answer, stored>>

-----------------------------------------------------------------------------
(* handlePut *)

\* The body of an inline-sized PUT is read before it is forwarded.
PutBuffer(p) ==
  /\ pc[Home(p)] = "start" /\ p \in small /\ body[p] = "unread"
  /\ body' = [body EXCEPT ![p] = "read"]
  /\ UNCHANGED <<pc, net, answer, held, storage>>

\* handlePut is called, at home or at a peer: the request is handled here ...
PutLocal(h) ==
  /\ h[1] \in Puts /\ pc[h] = "start" /\ At(h) \in PeerOwner(h)
  /\ h[2] = "home" => body[h[1]] = "unread"
  /\ Goto(h, "reserve")
  /\ UNCHANGED <<net, body, answer, held, storage>>

\* ... or forwarded.
Forward(h, s) ==
  LET r == h[1] IN
  /\ pc[h] = IF r \in Puts THEN "start" ELSE "missed"
  /\ r \in small => body[r] = "read"
  /\ s \in PeerOwner(h) \ {At(h)}
  /\ pc' = [pc EXCEPT ![h] = "wait", ![Fwd(r)] = "start"]
  /\ peer' = [peer EXCEPT ![r] = s]
  /\ sending' = sending \cup ({r} \cap Puts)
  /\ UNCHANGED <<found, small, body, answer, held, storage>>

Reserve(h) ==
  /\ pc[h] = "reserve" /\ Room(At(h), Lane(h[1]))
  /\ Acquire(At(h), Lane(h[1]))
  /\ Goto(h, "read")
  /\ UNCHANGED <<net, body, answer, storage>>

\* The forwarded body: it is whole if the transport gets to its end.
ReadForwarded(p) ==
  /\ pc[Fwd(p)] = "read" /\ p \in sending
  /\ p \in small \/ body[p] # "read"
  /\ body' = IF p \in small THEN body ELSE [body EXCEPT ![p] = "sent"]
  /\ Goto(Fwd(p), "whole")
  /\ UNCHANGED <<net, answer, held, storage>>

\* Fault: the number of bytes is not compared with the declared size.
ReadBody_Unchecked(p) ==
  /\ pc[Home(p)] = "read"
  /\ Goto(Home(p), IF p \in small \/ body[p] = "unread" THEN "whole" ELSE "short")
  /\ body' = [body EXCEPT ![p] = "read"]
  /\ UNCHANGED <<net, answer, held, storage>>

\* The client's body: a transport that has taken bytes from it since proxyPut
\* looked leaves less than the declared size, which is an error.
ReadBody(p) ==
  /\ pc[Home(p)] = "read"
  /\ IF p \in small \/ body[p] = "unread"
     THEN /\ Goto(Home(p), "whole")
          /\ UNCHANGED <<answer, held>>
     ELSE /\ Answer(p, "error")
          /\ Release(HomeOf[p], Lane(p))
  /\ body' = [body EXCEPT ![p] = "read"]
  /\ UNCHANGED <<net, storage>>

\* The object is enqueued and the PUT acknowledged, also when another object
\* is pending for the key.
PutEnqueue(h) ==
  LET p == h[1]
      s == At(h)
  IN
  /\ pc[h] \in {"whole", "short"}
  /\ Enqueue(s, KeyOf[p], Object(p, pc[h] = "whole"))
  /\ HandOver(s, KeyOf[p], Lane(p))
  /\ IF h[2] = "home" THEN Answer(p, "stored")
     ELSE Goto(h, "acked") /\ UNCHANGED answer
  /\ UNCHANGED <<net, body, stored>>

\* A forwarded PUT whose sender is gone while it waits for room or for its body.
FwdCanceled(p) ==
  /\ p \notin sending /\ pc[Fwd(p)] \in {"start", "reserve", "read"}
  /\ Goto(Fwd(p), "failed")
  /\ IF pc[Fwd(p)] = "read" THEN Release(peer[p], Lane(p)) ELSE UNCHANGED held
  /\ UNCHANGED <<net, body, answer, storage>>

\* The peer fails for reasons of its own (spooling, its disk).
FwdFails(p) ==
  /\ pc[Fwd(p)] = "read"
  /\ Goto(Fwd(p), "failed")
  /\ Release(peer[p], Lane(p))
  /\ UNCHANGED <<net, body, answer, storage>>

-----------------------------------------------------------------------------
(* proxyPut and proxyPutSmall *)

\* The transport reads from the body of a streamed PUT, during RoundTrip or
\* after it has returned an error: NopCloser keeps the body open.
TransportReads(p) ==
  /\ p \in sending \ small /\ body[p] = "unread"
  /\ body' = [body EXCEPT ![p] = "sent"]
  /\ UNCHANGED <<pc, net, answer, held, storage>>

TransportStops(p) ==
  /\ p \in sending /\ pc[Home(p)] # "wait"
  /\ sending' = sending \ {p}
  /\ UNCHANGED <<pc, peer, found, small, body, answer, held, storage>>

\* populateInline: a copy is kept at home if there is room for it at once.
Populate(s, k, o) ==
  IF o.put \in small /\ Room(s, "inline") /\ pending[s][k] = NoObject
  THEN /\ Acquire(s, "inline")
       /\ Enqueue(s, k, o)
  ELSE UNCHANGED <<held, pending, dropped>>

\* Fault: any response counts as stored.
PutAcked_AnyStatus(p) ==
  /\ p \in Puts /\ pc[Home(p)] = "wait" /\ pc[Fwd(p)] \in {"acked", "failed"}
  /\ Populate(HomeOf[p], KeyOf[p], Object(p, TRUE))
  /\ Answer(p, "stored")
  /\ UNCHANGED <<net, body, stored>>

\* 204 from the peer.
PutAcked(p) ==
  /\ p \in Puts /\ pc[Home(p)] = "wait" /\ pc[Fwd(p)] = "acked"
  /\ Populate(HomeOf[p], KeyOf[p], Object(p, TRUE))
  /\ Answer(p, "stored")
  /\ UNCHANGED <<net, body, stored>>

\* The RoundTrip fails, at any time, or the peer has answered with an error:
\* the object is stored locally (storeInline, or the rest of handlePut) unless
\* the body of a streamed PUT was touched.
PutFallback(p) ==
  /\ p \in Puts /\ pc[Home(p)] = "wait"
  /\ IF p \in small \/ body[p] = "unread"
     THEN Goto(Home(p), "reserve") /\ UNCHANGED answer
     ELSE Answer(p, "error")
  /\ UNCHANGED <<net, body, held, storage>>

\* The client goes away.
ClientGone(p) ==
  /\ p \in Puts /\ pc[Home(p)] \in {"wait", "reserve", "read"}
  /\ Answer(p, "gone")
  /\ IF pc[Home(p)] = "read" THEN Release(HomeOf[p], Lane(p)) ELSE UNCHANGED held
  /\ UNCHANGED <<net, body, storage>>

-----------------------------------------------------------------------------
(* handleGetAction and proxyGet *)

\* Local storage is asked first, at home and at the peer, which has the object
\* in hand from then on.
GetLookup(h) ==
  LET g == h[1]
      s == At(h)
  IN
  /\ g \in Gets /\ pc[h] = "start"
  /\ IF h[2] = "fwd" THEN /\ Goto(h, IF Has(s, KeyOf[g]) THEN "hit" ELSE "miss")
                          /\ found' = [found EXCEPT ![g] = Lookup(s, KeyOf[g])]
                          /\ UNCHANGED answer
     ELSE /\ IF Has(s, KeyOf[g]) THEN Answer(g, "hit")
             ELSE Goto(h, "missed") /\ UNCHANGED answer
          /\ UNCHANGED found
  /\ UNCHANGED <<peer, sending, small, body, held, storage>>

GetMisses(g) ==
  /\ g \in Gets /\ pc[Home(g)] = "missed" /\ HomeOf[g] \in PeerOwner(Home(g))
  /\ Answer(g, "miss")
  /\ UNCHANGED <<net, body, held, storage>>

\* The peer's object is relayed and, if it is inline-sized, kept.
GetRelay(g) ==
  /\ g \in Gets /\ pc[Home(g)] = "wait" /\ pc[Fwd(g)] = "hit"
  /\ Answer(g, "hit")
  /\ Populate(HomeOf[g], KeyOf[g], found[g])
  /\ UNCHANGED <<net, body, stored>>

\* A stream that breaks reaches the client short of its length.
GetRelayBreaks(g) ==
  /\ g \in Gets /\ pc[Home(g)] = "wait" /\ pc[Fwd(g)] = "hit"
  /\ found[g].put \notin small
  /\ Answer(g, "short")
  /\ UNCHANGED <<net, body, held, storage>>

\* 404 from the peer, or any failure.
GetFails(g) ==
  /\ g \in Gets /\ pc[Home(g)] = "wait"
  /\ Answer(g, "miss")
  /\ UNCHANGED <<net, body, held, storage>>

-----------------------------------------------------------------------------

Init ==
  /\ small \in SUBSET Puts
  /\ pc = [h \in Reqs \X Sides |-> IF h[2] = "home" THEN "start" ELSE "none"]
  /\ peer = [r \in Reqs |-> NoServer] /\ sending = {}
  /\ found = [g \in Gets |-> NoObject]
  /\ body = [p \in Puts |-> "unread"]
  /\ answer = [r \in Reqs |-> "none"]
  /\ held = [s \in Servers |-> [l \in Lanes |-> 0]]
  /\ pending = [s \in Servers |-> [k \in Keys |-> NoObject]]
  /\ stored = [s \in Servers |-> [k \in Keys |-> NoObject]]
  /\ dropped = {}

\* What a handler does as soon as it can.
Handler(h) == \/ PutLocal(h) \/ Reserve(h) \/ PutEnqueue(h) \/ GetLookup(h)
              \/ \E s \in Servers : Forward(h, s)
HomePut(p) == \/ PutBuffer(p) \/ ReadBody(p) \/ PutAcked(p)
              \/ pc[Fwd(p)] = "failed" /\ PutFallback(p)
HomeGet(g) == \/ GetMisses(g) \/ GetRelay(g)
              \/ pc[Fwd(g)] = "miss" /\ GetFails(g)

Next == \/ \E h \in Reqs \X Sides : Handler(h)
        \/ \E p \in Puts : \/ HomePut(p) \/ ReadForwarded(p)
                           \/ PutFallback(p) \/ ClientGone(p)
                           \/ FwdCanceled(p) \/ FwdFails(p) \/ TransportReads(p)
                           \/ TransportStops(p)
        \/ \E g \in Gets : HomeGet(g) \/ GetRelayBreaks(g) \/ GetFails(g)
        \/ \E s \in Servers, k \in Keys : Flush(s, k) \/ Drop(s, k)

Spec == Init /\ [][Next]_vars

\* Handlers and flushers run, clients send what they announced, and a transport
\* whose RoundTrip is over lets go of the connection, which ends the request at
\* the peer.  Failures, clients that leave and the timeout of RoundTrip are not
\* fair: nothing relies on them to get unstuck.  A request takes finitely many
\* steps, so one condition for all of them keeps none of them waiting.
Progress == \/ \E h \in Reqs \X Sides : Handler(h)
            \/ \E p \in Puts : HomePut(p) \/ ReadForwarded(p) \/ FwdCanceled(p) \/ TransportStops(p)
            \/ \E g \in Gets : HomeGet(g)
            \/ \E s \in Servers, k \in Keys : Flush(s, k)

Fairness == WF_vars(Progress)

FairSpec == Spec /\ Fairness

-----------------------------------------------------------------------------
(* Properties *)

Stages == {"none", "start", "missed", "wait", "reserve", "read", "whole", "short", "acked",
           "failed", "hit", "miss", "done"}

\* Type invariant.
TypeOK ==
  /\ pc \in [Reqs \X Sides -> Stages]
  /\ small \subseteq Puts
  /\ peer \in [Reqs -> Servers \cup {NoServer}] /\ sending \subseteq Puts
  /\ found \in [Gets -> Objects \cup {NoObject}]
  /\ body \in [Puts -> {"unread", "sent", "read"}]
  /\ answer \in [Reqs -> {"none", "stored", "error", "gone", "hit", "miss", "short"}]
  /\ held \in [Servers -> [Lanes -> Int]]
  /\ pending \in [Servers -> [Keys -> Objects \cup {NoObject}]]
  /\ stored \in [Servers -> [Keys -> Objects \cup {NoObject}]]
  /\ dropped \subseteq Servers \X Keys

\* The key was not lost on the way to the server's queue or to SQLite.
Kept(s, k) == Has(s, k) \/ <<s, k>> \in dropped

\* The client's 204 is never a lie: the key is then on its server or on the peer
\* the PUT was forwarded to, whatever failed, timed out or was answered late,
\* unless the queue of that server had the entry and gave it up (putQueue.drop).
AckedFindable ==
  \A p \in Puts : answer[p] = "stored" =>
    \E s \in {HomeOf[p], peer[p]} \ {NoServer} : Kept(s, KeyOf[p])

\* No server ever holds a truncated object, although a transport may go on
\* reading the client's body after proxyPut has fallen back to storing it.
StoredWhole ==
  \A s \in Servers, k \in Keys : Has(s, k) => Lookup(s, k).whole

\* The handlers that hold room of a lane at a server.
Holders(s, l) == {h \in Puts \X Sides : /\ pc[h] \in {"read", "whole", "short"}
                                        /\ At(h) = s /\ Lane(h[1]) = l}

\* The pending entries that hold room of a lane at a server.
Queued(s, l) == {k \in Keys : /\ pending[s][k] # NoObject
                              /\ Lane(pending[s][k].put) = l}

\* The reservations that are out at a server are those of its handlers, also of
\* the ones for peers, and of its pending entries, copies for peers included.
RoomReturned ==
  \A s \in Servers, l \in Lanes :
    held[s][l] = Cardinality(Holders(s, l)) + Cardinality(Queued(s, l))

\* Every client gets an answer without a timeout having to fire: servers that
\* forward to each other with full queues, and with different ideas of who owns
\* what, do not wait in a circle.
AllAnswered == <>(\A r \in Reqs : pc[Home(r)] = "done")
=============================================================================
