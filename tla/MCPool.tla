------------------------------- MODULE MCPool -------------------------------
(* A pool of two members for TLC: each owns one of two keys. *)
EXTENDS Pool, TLC

CONSTANTS a, b, k1, k2

Scores == a :> (k1 :> 2 @@ k2 :> 1) @@ b :> (k1 :> 1 @@ k2 :> 2)
=============================================================================
