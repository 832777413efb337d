----------------------------- MODULE MCAwscache -----------------------------
(* Two PUTs and a GET for TLC, on one host and on two.                     *)
EXTENDS Awscache

CONSTANTS a, b, p1, p2, g, global, extra, tiny, small, large

Sizes == [c \in Contents |-> CASE c = tiny -> 0 [] c = small -> 1 [] c = large -> 2]

Places(h1, k1, h2, k2, hg, kg) ==
  [host |-> [r \in Reqs |-> CASE r = p1 -> h1 [] r = p2 -> h2 [] r = g -> hg],
   key  |-> [r \in Reqs |-> CASE r = p1 -> k1 [] r = p2 -> k2 [] r = g -> kg]]

Load(places, c1, c2, closing, t, restart) ==
  [host |-> places.host, key |-> places.key,
   content |-> [p \in Puts |-> IF p = p1 THEN c1 ELSE c2],
   closing |-> closing, time |-> t, restarts |-> restart]

\* All on one host and short of spool space.
L1 == {Load(Places(a, global, a, extra, a, extra), c, large, {}, 0, 1) : c \in {large, small}}

\* Two hosts race for one action, which is read, bumped and expires.
L2 == {Load(Places(a, global, b, global, a, global), tiny, large, {a}, 3, 0)}

\* A blob under two keys, forgotten and deleted between its PUTs.
L3 == {Load(Places(a, global, b, extra, b, global), large, large, {}, 3, 1)}
SomeLoads == L1 \cup L2 \cup L3
=============================================================================
