------------------------------- MODULE FakeIp -------------------------------
(***************************************************************************)
(* FakeIpPool of redog-component/src/fakeip.rs, used by several threads at *)
(* once: lookup() takes the lock of host_to_ip, of offset, of ip_to_host   *)
(* and of host_to_ip again, one after the other, so four actions.          *)
(* Addresses are counted from the network address.                         *)
(***************************************************************************)
EXTENDS Lru, FiniteSets

CONSTANTS Hosts, Threads,
          PoolSize,  \* 2 ^ (32 - prefix length)
          Capacity   \* of both caches (LruCache::new turns a 0 into 64)

ASSUME FakeIpAssumption ==
    /\ PoolSize \in Nat \ {0}
    /\ Capacity \in Nat \ {0}

VARIABLES ip_to_host, host_to_ip, offset,
          pc, host, ip,  \* locals of each thread's lookup
          allocs,        \* history: number of allocations, up to Limit + 1
          answered       \* history: answers of lookup, up to Limit allocations

vars == <<ip_to_host, host_to_ip, offset, pc, host, ip, allocs, answered>>

\* Mutant: the broadcast address is not set aside.
Usable_WithBroadcast == PoolSize - 1

\* pool_size.saturating_sub(2).max(1)
Usable == IF PoolSize - 2 > 1 THEN PoolSize - 2 ELSE 1

\* Mutant: the offset is not reduced.
NextOffset_NoModulo(o) == o + 1

Address(o) == (o % Usable) + 1
NextOffset(o) == (o + 1) % Usable

\* Until this many allocations neither the pool nor the caches are exhausted.
Limit == IF Usable < Capacity THEN Usable ELSE Capacity

Init == /\ ip_to_host = {} /\ host_to_ip = {}
        /\ offset = 1
        /\ pc = [t \in Threads |-> "idle"]
        /\ host \in [Threads -> Hosts]
        /\ ip = [t \in Threads |-> 0]
        /\ allocs = 0
        /\ answered = {}

\* contains(): the address agrees with the network in the bits of the mask.
Contains(a) == a \div PoolSize = 0

Answer(t, a) == answered' = IF allocs > Limit THEN {} ELSE answered \union {<<host[t], a>>}

\* lookup(host) is called.
Call(t, h) == /\ pc[t] = "idle"
              /\ pc' = [pc EXCEPT ![t] = "get"]
              /\ host' = [host EXCEPT ![t] = h]
              /\ UNCHANGED <<ip_to_host, host_to_ip, offset, ip, allocs, answered>>

\* host_to_ip.get: a hit is the answer.
Hit(t) == /\ pc[t] = "get" /\ Has(host_to_ip, host[t])
          /\ host_to_ip' = Get(host_to_ip, host[t], Capacity)
          /\ Answer(t, Entry(host_to_ip, host[t]).v)
          /\ pc' = [pc EXCEPT ![t] = "idle"]
          /\ UNCHANGED <<ip_to_host, offset, host, ip, allocs>>

Miss(t) == /\ pc[t] = "get" /\ ~Has(host_to_ip, host[t])
           /\ pc' = [pc EXCEPT ![t] = "allocate"]
           /\ UNCHANGED <<ip_to_host, host_to_ip, offset, host, ip, allocs, answered>>

\* Mutant: the offset is read and written without its mutex, so that an
\* increment can be lost.
Allocate_Unlocked(t) == /\ pc[t] = "allocate"
                        /\ ip' = [ip EXCEPT ![t] = Address(offset)]
                        /\ offset' \in {offset, NextOffset(offset)}
                        /\ allocs' = IF allocs > Limit THEN allocs ELSE allocs + 1
                        /\ answered' = IF allocs' > Limit THEN {} ELSE answered
                        /\ pc' = [pc EXCEPT ![t] = "putIp"]
                        /\ UNCHANGED <<ip_to_host, host_to_ip, host>>

\* allocate(), under the offset's mutex.
Allocate(t) == /\ pc[t] = "allocate"
               /\ ip' = [ip EXCEPT ![t] = Address(offset)]
               /\ offset' = NextOffset(offset)
               /\ allocs' = IF allocs > Limit THEN allocs ELSE allocs + 1
               /\ answered' = IF allocs' > Limit THEN {} ELSE answered
               /\ pc' = [pc EXCEPT ![t] = "putIp"]
               /\ UNCHANGED <<ip_to_host, host_to_ip, host>>

PutIp(t) == /\ pc[t] = "putIp"
            /\ ip_to_host' = Put(ip_to_host, ip[t], host[t], Capacity)
            /\ pc' = [pc EXCEPT ![t] = "putHost"]
            /\ UNCHANGED <<host_to_ip, offset, host, ip, allocs, answered>>

PutHost(t) == /\ pc[t] = "putHost"
              /\ host_to_ip' = Put(host_to_ip, host[t], ip[t], Capacity)
              /\ Answer(t, ip[t])
              /\ pc' = [pc EXCEPT ![t] = "idle"]
              /\ ip' = [ip EXCEPT ![t] = 0]
              /\ UNCHANGED <<ip_to_host, offset, host, allocs>>

\* reverse_lookup of an address that is mapped: reorders ip_to_host.
ReverseLookup(a) == /\ Has(ip_to_host, a)
                    /\ ip_to_host' = Get(ip_to_host, a, Capacity)
                    /\ UNCHANGED <<host_to_ip, offset, pc, host, ip, allocs, answered>>

Next == \/ \E t \in Threads, h \in Hosts : Call(t, h)
        \/ \E t \in Threads : Hit(t)
        \/ \E t \in Threads : Miss(t)
        \/ \E t \in Threads : Allocate(t)
        \/ \E t \in Threads : PutIp(t)
        \/ \E t \in Threads : PutHost(t)
        \/ \E a \in 1 .. PoolSize : ReverseLookup(a)

Spec == Init /\ [][Next]_vars

-----------------------------------------------------------------------------
(* Properties *)

\* Strictly between the network and the broadcast address; empty for a /31 or
\* a /32, which have no room for both.
Inside == 1 .. PoolSize - 2

Cache(K, V) == SUBSET [k : K, v : V, age : 0 .. Capacity - 1]

\* Shape of the state.
TypeOK == /\ ip_to_host \in Cache(Nat, Hosts)
          /\ host_to_ip \in Cache(Hosts, Nat)
          /\ offset \in 0 .. Usable
          /\ pc \in [Threads -> {"idle", "get", "allocate", "putIp", "putHost"}]
          /\ host \in [Threads -> Hosts]
          /\ ip \in [Threads -> Nat]
          /\ allocs \in 0 .. Limit + 1
          /\ answered \subseteq Hosts \X Nat

\* Every address in a cache, on its way into one or handed to a caller lies
\* strictly inside the pool: it is never the network or the broadcast address
\* (doc/code-review-fixes.md #11), and contains() holds of it.
AddressesInside ==
    /\ \A e \in ip_to_host : e.k \in Inside
    /\ \A e \in host_to_ip : e.v \in Inside
    /\ \A t \in Threads : pc[t] \in {"putIp", "putHost"} => ip[t] \in Inside
    /\ \A x \in answered : x[2] \in Inside /\ Contains(x[2])

\* As long as neither the addresses nor the caches are exhausted, every address
\* that lookup ever answered maps back to its host, also when threads look up
\* the same or different hosts at the same time.
AnswersMapBack ==
    \A x \in answered :
        \E e \in ip_to_host : e.k = x[2] /\ e.v = x[1]
=============================================================================
