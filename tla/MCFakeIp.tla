------------------------------ MODULE MCFakeIp ------------------------------
(***************************************************************************)
(* FakeIp for TLC: a /29 pool, caches small enough to evict.  Hosts and    *)
(* threads are interchangeable.                                            *)
(***************************************************************************)
EXTENDS FakeIp, TLC

Symmetry == Permutations(Hosts) \union Permutations(Threads)
=============================================================================
