------------------------------ MODULE Lansport ------------------------------
(***************************************************************************)
(* lansport.Server: every member probes the candidates its source reports. *)
(* A probe fetches the candidate's advert over the tailnet, which names    *)
(* the certificate (pin) of its LAN listener, and then checks the LAN path *)
(* with a transport pinned to it.  The candidate answers that check only   *)
(* when it knows the pin of the caller, from an advert of its own probes.  *)
(* A process makes a new identity each time it starts: a pin is the number *)
(* of the start.  The source is a TailnetSource over the member's Tracker, *)
(* so a routing key is a node and the advert address is that node's.       *)
(***************************************************************************)
EXTENDS Tracker

VARIABLES
  gen,         \* Server.identity: the pin of the running process
  peers,       \* Server.peers: candidate flag, pin of the last advert, Reachable
  round,       \* probeAll in progress: its state and the copies probe works on
  reachable,   \* Server.reachable: the pin of the transport to each peer, or 0
  sub          \* the router's one-slot channel holds a signal

serverVars == <<gen, peers, round, reachable, sub>>

\* What is kept of a peer, and what of a probe.
PeerStates == [cand : Tagged \cup {"none"}, pin : Nat, reach : BOOLEAN]
Results    == [st : {"no", "fetch", "check", "done"}, pin : Nat, reach : BOOLEAN]
Rounds     == [pc : {"idle", "probe", "signal"}, res : [Members -> Results]]

NoPeer  == [cand |-> "none", pin |-> 0, reach |-> FALSE]
NotProbed == [st |-> "no", pin |-> 0, reach |-> FALSE]
IdleRound == [pc |-> "idle", res |-> [m \in Members |-> NotProbed]]
NoTransports == [m \in Members |-> 0]

\* Every member has found all the others.
ServerInit ==
  /\ gen = [n \in Members |-> 1]
  /\ peers = [n \in Members |-> [m \in Members |->
                IF m = n THEN NoPeer ELSE [cand |-> "on", pin |-> 1, reach |-> TRUE]]]
  /\ round = [n \in Members |-> IdleRound]
  /\ reachable = [n \in Members |-> [m \in Members |-> IF m = n THEN 0 ELSE 1]]
  /\ sub = [n \in Members |-> FALSE]

\* peerByPin: whoever presents the pin of a candidate's last advert is known.
PeerByPin(n, pin) == \E m \in Members : peers[n][m].cand # "none" /\ peers[n][m].pin = pin

(***************************************************************************)
(* probeAll                                                                *)
(***************************************************************************)

\* The candidate list is brought in step with the source; those on line will
\* be probed, the others are unreachable, those no longer listed are deleted.
RoundStart(n) ==
  /\ up[n] /\ round[n].pc = "idle"
  /\ LET cands == nodes[n]
         kept  == [m \in Members |->
                     IF cands[m] = "none" THEN NoPeer
                     ELSE [cand |-> cands[m], pin |-> peers[n][m].pin,
                           reach |-> peers[n][m].reach /\ cands[m] = "on"]]
     IN /\ peers' = [peers EXCEPT ![n] = kept]
        /\ round' = [round EXCEPT ![n] =
             [pc  |-> "probe",
              res |-> [m \in Members |->
                         IF cands[m] = "on"
                           THEN [st |-> "fetch", pin |-> kept[m].pin, reach |-> kept[m].reach]
                           ELSE NotProbed]]]
  /\ UNCHANGED <<net, events, up, stream, nodes, self, gen, reachable, sub>>

\* run: a round at every tick, and one as soon as the source signals.
TickRound(n)    == RoundStart(n) /\ UNCHANGED changed
ChangesRound(n) == changed[n] /\ RoundStart(n) /\ changed' = [changed EXCEPT ![n] = FALSE]

Probing(n, m, st) == up[n] /\ round[n].pc = "probe" /\ round[n].res[m].st = st

\* probe of m by n goes on to st with this pin and this verdict.
Probed(n, m, st, pin, reach) ==
  /\ round' = [round EXCEPT ![n].res[m] = [st |-> st, pin |-> pin, reach |-> reach]]
  /\ UNCHANGED <<net, up, stream, nodes, self, changed, gen, peers, reachable, sub>>

\* fetchAdvert succeeds: a new pin means a new transport, not yet reachable.
FetchAdvert(n, m) ==
  /\ Probing(n, m, "fetch") /\ up[m]
  /\ LET r == round[n].res[m]
     IN Probed(n, m, "check", gen[m], r.reach /\ r.pin = gen[m])
  /\ UNCHANGED events

\* The candidate does not run, or the request times out.
FetchFails(n, m) ==
  /\ Probing(n, m, "fetch")
  /\ IF up[m] THEN Happens ELSE UNCHANGED events
  /\ Probed(n, m, "done", round[n].res[m].pin, FALSE)

\* The LAN check: m must still be the process whose certificate is pinned,
\* and must know the certificate n presents (serveTLS).
LANWorks(n, m) == up[m] /\ round[n].res[m].pin = gen[m] /\ PeerByPin(m, gen[n])

CheckLAN(n, m) ==
  /\ Probing(n, m, "check") /\ LANWorks(n, m)
  /\ Probed(n, m, "done", round[n].res[m].pin, TRUE)
  /\ UNCHANGED events

\* Fault: a peer that fails the LAN check has its advert forgotten.
CheckLANFails_Forgets(n, m) ==
  /\ Probing(n, m, "check")
  /\ IF LANWorks(n, m) THEN Happens ELSE UNCHANGED events
  /\ Probed(n, m, "done", 0, FALSE)

\* The check is refused, meets another certificate, or times out.  The
\* advert and its pin stay recorded.
CheckLANFails(n, m) ==
  /\ Probing(n, m, "check")
  /\ IF LANWorks(n, m) THEN Happens ELSE UNCHANGED events
  /\ Probed(n, m, "done", round[n].res[m].pin, FALSE)

\* Fault: only the keys of the reachable set are compared.
SamePeers_Keys(a, b) == \A m \in Members : a[m] = 0 <=> b[m] = 0

\* publish's comparison: a peer with another transport is a change.
SamePeers(a, b) == a = b

\* The results are applied under mu and publish stores the reachable set when
\* it changed.  Only this goroutine writes either, the one is read by other
\* members' checks alone and the other by n's router alone, so that one step
\* stands for both.
RoundApply(n) ==
  /\ up[n] /\ round[n].pc = "probe"
  /\ \A m \in Members : round[n].res[m].st \in {"no", "done"}
  /\ LET res     == round[n].res
         applied == [m \in Members |->
                       IF res[m].st = "no" THEN peers[n][m]
                       ELSE [cand |-> peers[n][m].cand, pin |-> res[m].pin, reach |-> res[m].reach]]
         next    == [m \in Members |-> IF applied[m].reach THEN applied[m].pin ELSE 0]
     IN /\ peers' = [peers EXCEPT ![n] = applied]
        /\ IF SamePeers(reachable[n], next)
             THEN round' = [round EXCEPT ![n] = IdleRound] /\ UNCHANGED reachable
             ELSE /\ round' = [round EXCEPT ![n] = [IdleRound EXCEPT !.pc = "signal"]]
                  /\ reachable' = [reachable EXCEPT ![n] = next]
  /\ UNCHANGED <<net, events, up, stream, nodes, self, changed, gen, sub>>

ServerTypeOK ==
  /\ gen \in [Members -> Nat] /\ sub \in [Members -> BOOLEAN]
  /\ peers \in [Members -> [Members -> PeerStates]]
  /\ round \in [Members -> Rounds]
  /\ reachable \in [Members -> [Members -> Nat]]

\* No change of the source is missed: when a server rests between rounds and
\* no signal is due or waiting, its candidates are those the tracker holds,
\* with the same online flags (signal after the merge, run's select, and
\* probeAll's read of the source after the signal was taken).
SourceFollowed ==
  \A n \in Members :
    up[n] /\ round[n].pc = "idle" /\ ~changed[n] /\ ~stream[n].signal =>
      \A m \in Members : peers[n][m].cand = nodes[n][m]
=============================================================================
