----------------------------- MODULE MCCluster -----------------------------
(* Small instances of Cluster for TLC.                                     *)
EXTENDS Cluster

(* Two groups of slots, of which the seed has the second.                  *)
SeedLast == [s \in 1..2 |-> IF s = 1 THEN "b" ELSE "a"]
=============================================================================
