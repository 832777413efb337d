------------------------------ MODULE Tracker ------------------------------
(***************************************************************************)
(* tagpeers.Tracker: one tracker per member of the pool follows the nodes  *)
(* that carry the pool's tag through its local tailscaled's IPN bus.  A    *)
(* stream starts with a full status and goes on with deltas; when it       *)
(* breaks, the tracker keeps what it knew and reconnects after a backoff.  *)
(*                                                                         *)
(* A node is abstracted to what the control plane says of it: gone from    *)
(* the tailnet, present without the tag (plain), or tagged and on or off   *)
(* line.  A delta may leave the online flag out (unknown).                 *)
(***************************************************************************)
EXTENDS Naturals, Sequences

CONSTANTS
  Members,     \* the processes of the pool, each on a tailnet node of its own
  Changing,    \* the ones whose nodes the control plane changes
  MaxEvents    \* changes, stream breaks, restarts and faults of a behaviour

ASSUME TrackerAssumptions == MaxEvents \in Nat /\ Changing \subseteq Members

VARIABLES
  net,         \* what the control plane says of each node (external)
  events,      \* changes and faults so far
  up,          \* which processes run
  stream,      \* each tracker's stream: state, undelivered notifications,
               \* and whether a merge has yet to signal
  nodes,       \* Tracker.nodes, with "none" for a node not in the map
  self,        \* Tracker.self as last reported; "unset" is haveSelf = false
  changed      \* the subscriber's one-slot channel holds a signal

trackerVars == <<net, events, up, stream, nodes, self, changed>>

Tagged      == {"on", "off"}
Statuses    == Tagged \cup {"gone", "plain"}
NoStream    == [pc |-> "wait", q |-> <<>>, signal |-> FALSE]
OpenStream  == [NoStream EXCEPT !.pc = "open"]
NoNodes     == [m \in Members |-> "none"]
Status(s)   == [kind |-> "status", net |-> s]
Delta(m, s) == [kind |-> "delta", id |-> m, st |-> s]

HaveSelf(n) == self[n] # "unset"

\* All nodes tagged and on line, and every tracker on an open stream.
TrackerInit ==
  /\ net = [m \in Members |-> "on"]
  /\ events = 0
  /\ up = [n \in Members |-> TRUE]
  /\ stream = [n \in Members |-> OpenStream]
  /\ nodes = [n \in Members |-> [m \in Members |-> IF m = n THEN "none" ELSE "on"]]
  /\ self = [n \in Members |-> "on"]
  /\ changed = [n \in Members |-> FALSE]

\* One of the changes or faults a behaviour may have.
Happens == events < MaxEvents /\ events' = events + 1

(***************************************************************************)
(* tailscaled and the control plane (external)                             *)
(***************************************************************************)

\* Every open stream gets the delta d, except those in Skipped.
Deliver(d, Skipped) ==
  stream' = [n \in Members |->
               IF stream[n].pc = "open" /\ n \notin Skipped
                 THEN [stream[n] EXCEPT !.q = Append(@, d)]
                 ELSE stream[n]]

\* A node joins, leaves, gains or loses the tag or goes on or off line.  The
\* delta of a node that becomes tagged may lack the online flag.  A node is
\* not told of its own removal.
ControlChanges(m, s) ==
  /\ Happens /\ s # net[m]
  /\ net' = [net EXCEPT ![m] = s]
  /\ \/ Deliver(Delta(m, s), IF s = "gone" THEN {m} ELSE {})
     \/ s \in Tagged /\ net[m] \notin Tagged /\ Deliver(Delta(m, "unknown"), {})
  /\ UNCHANGED <<up, nodes, self, changed>>

\* Another field of a tagged node changes: it is sent again without its flag.
ControlTouches(m) ==
  /\ Happens /\ net[m] \in Tagged
  /\ Deliver(Delta(m, "unknown"), {})
  /\ UNCHANGED <<net, up, nodes, self, changed>>

\* The stream fails, and what it had not delivered is lost.
StreamBreaks(n) ==
  /\ Happens /\ up[n] /\ stream[n].pc = "open" /\ ~stream[n].signal
  /\ stream' = [stream EXCEPT ![n] = NoStream]
  /\ UNCHANGED <<net, up, nodes, self, changed>>

(***************************************************************************)
(* The tracker's goroutine: run, watch                                     *)
(***************************************************************************)

\* WatchIPNBus after the backoff: tailscaled queues its status of the moment,
\* with the local node in it (as the repository's fake tailscaled does).
Connect(n) ==
  /\ up[n] /\ stream[n].pc = "wait"
  /\ stream' = [stream EXCEPT ![n] = [OpenStream EXCEPT !.q = <<Status(net)>>]]
  /\ UNCHANGED <<net, events, up, nodes, self, changed>>

\* w.Next returns a notification once the one before has been applied.
Next1(n, kind) ==
  /\ up[n] /\ ~stream[n].signal /\ stream[n].q # <<>>
  /\ Head(stream[n].q).kind = kind

\* The merge's result and whether there is something to signal.
Merged(n, newNodes, newSelf) ==
  /\ nodes' = [nodes EXCEPT ![n] = newNodes]
  /\ self' = [self EXCEPT ![n] = newSelf]
  /\ stream' = [stream EXCEPT ![n] =
                  [pc |-> @.pc, q |-> Tail(@.q),
                   signal |-> newNodes # nodes[n] \/ newSelf # self[n]]]
  /\ UNCHANGED <<net, events, up, changed>>

\* The tagged peers of a status.
Fresh(n, st) == [m \in Members |-> IF m # n /\ st[m] \in Tagged THEN st[m] ELSE "none"]

\* Fault: the status is merged into the set in place of replacing it.
MergeStatus_Adds(n) ==
  /\ Next1(n, "status")
  /\ LET st == Head(stream[n].q).net IN
     Merged(n, [m \in Members |-> IF Fresh(n, st)[m] = "none" THEN nodes[n][m] ELSE Fresh(n, st)[m]],
            st[n])

\* Fault: nodes that are no longer tagged do not count as a change.
MergeStatus_IgnoresLosses(n) ==
  /\ Next1(n, "status")
  /\ LET st    == Head(stream[n].q).net
         fresh == Fresh(n, st)
     IN /\ nodes' = [nodes EXCEPT ![n] = fresh]
        /\ self' = [self EXCEPT ![n] = st[n]]
        /\ stream' = [stream EXCEPT ![n].q = Tail(@),
                        ![n].signal = \/ \E m \in Members : fresh[m] # "none" /\ fresh[m] # nodes[n][m]
                                      \/ self[n] # st[n]]
        /\ UNCHANGED <<net, events, up, changed>>

\* applyStatus, mergeStatus: the tracked set is replaced by the status's.  That
\* st.Self is never nil, which mergeStatus allows for, is part of Connect.
MergeStatus(n) ==
  /\ Next1(n, "status")
  /\ LET st == Head(stream[n].q).net IN Merged(n, Fresh(n, st), st[n])

\* nodeFromNetmap: a flag left out keeps its previous value, true at first.
Online(st, prev) == IF st # "unknown" THEN st ELSE IF prev \in Tagged THEN prev ELSE "on"

\* applyNotify, mergeNotify: SelfChange, PeersChanged or PeersRemoved.
MergeNotify(n) ==
  /\ Next1(n, "delta")
  /\ LET d   == Head(stream[n].q)
         old == nodes[n][d.id]
         new == IF d.st \in {"gone", "plain"} THEN "none" ELSE Online(d.st, old)
     IN IF d.id = n
          THEN Merged(n, nodes[n], Online(d.st, self[n]))
          ELSE Merged(n, [nodes[n] EXCEPT ![d.id] = new], self[n])

\* signal, after mu is released: a full channel already has one.
TrackerSignals(n) ==
  /\ up[n] /\ stream[n].signal
  /\ stream' = [stream EXCEPT ![n].signal = FALSE]
  /\ changed' = [changed EXCEPT ![n] = TRUE]
  /\ UNCHANGED <<net, events, up, nodes, self>>

TrackerNext ==
  \/ \E m \in Changing, s \in Statuses : ControlChanges(m, s)
  \/ \E m \in Changing : ControlTouches(m)
  \/ \E n \in Members : \/ StreamBreaks(n) \/ Connect(n) \/ MergeStatus(n)
                        \/ MergeNotify(n) \/ TrackerSignals(n)

\* What the tracker's goroutine does next, if anything.
TrackerRuns(n) == Connect(n) \/ MergeStatus(n) \/ MergeNotify(n) \/ TrackerSignals(n)

(***************************************************************************)
(* Properties                                                              *)
(***************************************************************************)

Messages == {Status(s) : s \in [Members -> Statuses]}
              \cup {Delta(m, s) : m \in Members, s \in Statuses \cup {"unknown"}}
Streams  == [pc : {"wait", "open"}, q : Seq(Messages), signal : BOOLEAN]

TrackerTypeOK ==
  /\ net \in [Members -> Statuses] /\ events \in 0..MaxEvents
  /\ up \in [Members -> BOOLEAN] /\ changed \in [Members -> BOOLEAN]
  /\ stream \in [Members -> Streams]
  /\ nodes \in [Members -> [Members -> Tagged \cup {"none"}]]
  /\ self \in [Members -> Statuses \cup {"unset"}]

\* A tracker that has applied all its open stream delivered, after whatever
\* breaks and reconnects, tracks exactly the other nodes that carry the tag,
\* and never takes one that is on line to be off line (mergeStatus and
\* mergeNotify, Online kept when a delta lacks it).
TrackedExact ==
  \A n \in Members :
    up[n] /\ stream[n].pc = "open" /\ stream[n].q = <<>> =>
      \A m \in Members \ {n} : /\ nodes[n][m] \in Tagged <=> net[m] \in Tagged
                               /\ net[m] = "on" => nodes[n][m] = "on"
=============================================================================
