----------------------------- MODULE MCPutQueue -----------------------------
(* Small instances of the PUT pipeline for TLC. *)
EXTENDS PutQueue, TLC

CONSTANTS p1, p2, p3, k1, k2, s1, s2, i1

\* p1 and p2 upload the same content under two keys; p3 reuses p1's key.
SameContentKeys == p1 :> k1 @@ p2 :> k2 @@ p3 :> k1
SameContentShas == p1 :> s1 @@ p2 :> s1 @@ p3 :> i1
Sizes           == p1 :> 2 @@ p2 :> 2 @@ p3 :> 1

\* Two uploads only.
TwoKeys  == p1 :> k1 @@ p2 :> k2
OneKey   == p1 :> k1 @@ p2 :> k1
TwoSame  == p1 :> s1 @@ p2 :> s1
TwoDiff  == p1 :> s1 @@ p2 :> s2
TwoSizes == p1 :> 2 @@ p2 :> 2
=============================================================================
