----------------------------- MODULE MCNatTable -----------------------------
(* NatTable for TLC: two sessions in two shards, a loop and a thread that     *)
(* calls cleanup() beside it.                                                 *)
EXTENDS NatTable

CONSTANTS k1, k2

MCShardOf == [k \in Keys |-> IF k = k1 THEN 1 ELSE 2]
=============================================================================
