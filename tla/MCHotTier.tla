----------------------------- MODULE MCHotTier -----------------------------
(* Small instances of the hot tier for TLC: two files that do not fit together. *)
EXTENDS HotTier, TLC

Sizes == [n \in Names |-> 2]

\* Names have equal sizes; neither they nor promotions are ordered.
Alike == Permutations(Names) \cup Permutations(Promoters)
=============================================================================
