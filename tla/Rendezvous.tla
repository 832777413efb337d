----------------------------- MODULE Rendezvous -----------------------------
(***************************************************************************)
(* rendezvous.Table: the member of a table with the highest score owns a   *)
(* key.  Score hashes the member's name with the key and weighs the result *)
(* by the member's weight, which every member advertises and which is      *)
(* fixed for as long as its process runs: a parameter here, as a rank.     *)
(***************************************************************************)
EXTENDS Naturals

CONSTANTS
  Names,       \* the names of all members there may be
  Keys,        \* what can be owned
  Score        \* Score[m][k]: the rank of m's score for k

\* Two members never have one score for a key (a tie of 53-bit hashes).
ASSUME ScoreAssumption ==
  /\ Score \in [Names -> [Keys -> Nat]]
  /\ \A m, o \in Names, k \in Keys : Score[m][k] = Score[o][k] => m = o

\* Table.Pick on a table with at least one member.
Pick(table, k) == CHOOSE m \in table : \A o \in table : Score[o][k] <= Score[m][k]
=============================================================================
