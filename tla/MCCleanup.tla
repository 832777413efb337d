----------------------------- MODULE MCCleanup -----------------------------
(* Small instances of the cleanup loop for TLC. *)
EXTENDS Cleanup, TLC

CONSTANTS a1, a2, a3, b1, b2, s1

\* Two actions share a content, a third has one of its own.
Contents == a1 :> b1 @@ a2 :> b1 @@ a3 :> b2
TwoSizes == b1 :> 1 @@ b2 :> 2
OneShard == b1 :> s1 @@ b2 :> s1

SizeOnly == [maxSize |-> 1, maxAge |-> 0, batch |-> 2, usage |-> FALSE, puts |-> {a1, a3},
             time |-> 0, unknown |-> 0, restarts |-> 0]
PostedTo == [SizeOnly EXCEPT !.usage = TRUE, !.puts = {a3}]
Shared   == [SizeOnly EXCEPT !.batch = 3, !.puts = {a1, a2, a3}]
Unknown  == [SizeOnly EXCEPT !.unknown = 1]
AgeOnly  == [maxSize |-> 0, maxAge |-> 1, batch |-> 1, usage |-> FALSE, puts |-> {a1, a3},
             time |-> 2, unknown |-> 0, restarts |-> 0]
Restarts == [AgeOnly EXCEPT !.puts = {a3}, !.time = 1, !.restarts = 1]
Both     == [AgeOnly EXCEPT !.maxSize = 1, !.time = 1]

\* A server has one limit, or both; commits may fail or the process restart.
AllLimits  == {PostedTo, Shared, Unknown, AgeOnly, Restarts, Both}
BothLimits == {Both}
=============================================================================
