-------------------------------- MODULE Pool --------------------------------
(***************************************************************************)
(* A pool of members: the control plane, each member's tracker, its        *)
(* lansport server, and the rendezvous.Router that follows the server and  *)
(* decides which member handles a key.  Processes stop and start again     *)
(* with a new identity and nothing remembered.                             *)
(***************************************************************************)
EXTENDS Lansport, Rendezvous

ASSUME PoolAssumption == Members \subseteq Names

VARIABLE
  routed       \* Router.cur: the peers and whether this process is in the table

vars == <<trackerVars, serverVars, routed>>

NoRouting == [peers |-> NoTransports, self |-> FALSE]

\* A pool at rest, from which everything that may happen starts.
Init ==
  /\ TrackerInit /\ ServerInit
  /\ routed = [n \in Members |-> [peers |-> reachable[n], self |-> TRUE]]

(***************************************************************************)
(* The router                                                              *)
(***************************************************************************)

\* publish signals its subscribers after it stored the set; a channel that
\* is full has a signal already.
ServerSignals(n) ==
  /\ up[n] /\ round[n].pc = "signal"
  /\ round' = [round EXCEPT ![n] = IdleRound]
  /\ sub' = [sub EXCEPT ![n] = TRUE]
  /\ UNCHANGED <<trackerVars, gen, peers, reachable, routed>>

\* run takes a signal and update replaces table and peers at once.  This
\* process is in the table when the source knows its key by now.
RouterUpdate(n) ==
  /\ up[n] /\ sub[n]
  /\ sub' = [sub EXCEPT ![n] = FALSE]
  /\ routed' = [routed EXCEPT ![n] = [peers |-> reachable[n], self |-> HaveSelf(n)]]
  /\ UNCHANGED <<trackerVars, gen, peers, round, reachable>>

\* The members of n's table.
TableOf(n) == {m \in Members : routed[n].peers[m] # 0} \cup (IF routed[n].self THEN {n} ELSE {})

\* Router.Pick: who handles k for n, n itself when the table is empty.
PickOf(n, k) == IF TableOf(n) = {} THEN n ELSE Pick(TableOf(n), k)

(***************************************************************************)
(* Processes stop and start                                                *)
(***************************************************************************)

\* All the process knew is gone.
Forgotten(n) ==
  /\ stream' = [stream EXCEPT ![n] = NoStream]
  /\ nodes' = [nodes EXCEPT ![n] = NoNodes]
  /\ self' = [self EXCEPT ![n] = "unset"]
  /\ changed' = [changed EXCEPT ![n] = FALSE]
  /\ peers' = [peers EXCEPT ![n] = [m \in Members |-> NoPeer]]
  /\ round' = [round EXCEPT ![n] = IdleRound]
  /\ reachable' = [reachable EXCEPT ![n] = NoTransports]
  /\ sub' = [sub EXCEPT ![n] = FALSE]
  /\ routed' = [routed EXCEPT ![n] = NoRouting]

Stop(n) ==
  /\ Happens /\ up[n]
  /\ up' = [up EXCEPT ![n] = FALSE]
  /\ Forgotten(n)
  /\ UNCHANGED <<net, gen>>

\* A new identity.  NewRouter subscribes and then updates for the first
\* time: a router that has just been made is one with a signal to take.
Start(n) ==
  /\ ~up[n]
  /\ up' = [up EXCEPT ![n] = TRUE]
  /\ gen' = [gen EXCEPT ![n] = @ + 1]
  /\ sub' = [sub EXCEPT ![n] = TRUE]
  /\ UNCHANGED <<net, events, stream, nodes, self, changed, peers, round, reachable, routed>>

(***************************************************************************)
(* The specification                                                       *)
(***************************************************************************)

Probe(n)  == \E m \in Members : \/ FetchAdvert(n, m) \/ FetchFails(n, m)
                                \/ CheckLAN(n, m) \/ CheckLANFails(n, m)
Server(n) == TickRound(n) \/ ChangesRound(n) \/ Probe(n) \/ RoundApply(n)

Next ==
  \/ TrackerNext /\ UNCHANGED <<serverVars, routed>>
  \/ \E n \in Members : Server(n) /\ UNCHANGED routed
  \/ \E n \in Members : ServerSignals(n) \/ RouterUpdate(n) \/ Stop(n) \/ Start(n)

\* Goroutines run and tickers fire: trackers, rounds and routers go on.
Fairness ==
  \A n \in Members :
    /\ WF_vars(TrackerRuns(n) /\ UNCHANGED <<serverVars, routed>>)
    /\ WF_vars((Server(n) /\ UNCHANGED routed) \/ ServerSignals(n))
    /\ WF_vars(RouterUpdate(n))

Spec     == Init /\ [][Next]_vars
FairSpec == Spec /\ Fairness

(***************************************************************************)
(* Properties                                                              *)
(***************************************************************************)

TypeOK ==
  /\ TrackerTypeOK /\ ServerTypeOK
  /\ routed \in [Members -> [peers : [Members -> Nat], self : BOOLEAN]]

\* No change of the reachable set is missed, a new transport to a peer that
\* restarted included: when a server rests between rounds and its router has
\* no signal, what the router picks from is what the last round found
\* reachable, and this process is in any table that has peers.
RouterFollows ==
  \A n \in Members :
    up[n] /\ round[n].pc = "idle" /\ ~sub[n] =>
      /\ \A m \in Members :
           routed[n].peers[m] = IF peers[n][m].reach THEN peers[n][m].pin ELSE 0
      /\ TableOf(n) \subseteq {n} \/ n \in TableOf(n)

\* The control plane is right about who runs.
Accurate == \A m \in Members : net[m] \in Tagged => (net[m] = "on" <=> up[m])

\* Those who should share the keys.
Serving == {m \in Members : net[m] = "on"}

\* Once the control plane is right for good, all serving members come to
\* pick the same serving member for every key, whatever restarts, timeouts,
\* refused checks and broken streams came before (a check that a peer refuses
\* for want of our advert is repeated, and it finds our advert in its turn).
Converges ==
  <>[]Accurate =>
    <>[](\A n \in Serving, k \in Keys : PickOf(n, k) = Pick(Serving, k))
=============================================================================
