---------------------------- MODULE FakeIpProofs ----------------------------
(***************************************************************************)
(* Proofs about FakeIp for any pool, any capacity and any number of        *)
(* threads and hosts.                                                      *)
(***************************************************************************)
EXTENDS FakeIp, FiniteSetTheorems, TLAPS

\* An entry of a cache after put is the new one or, apart from its age, an old
\* one.
LEMMA PutEntries ==
    ASSUME NEW K, NEW V, NEW c \in Cache(K, V), NEW k \in K, NEW v \in V,
           NEW e \in Put(c, k, v, Capacity)
    PROVE  /\ e \in [k : K, v : V, age : 0 .. Capacity - 1]
           /\ \/ e.k = k /\ e.v = v
              \/ \E x \in c : e.k = x.k /\ e.v = x.v
<1> USE FakeIpAssumption
<1> DEFINE was == IF Has(c, k) THEN Entry(c, k).age ELSE Capacity
<1> DEFINE older(x) == IF x.age < was THEN [x EXCEPT !.age = @ + 1] ELSE x
<1>1. CASE e = [k |-> k, v |-> v, age |-> 0]
  BY <1>1
<1>2. CASE e # [k |-> k, v |-> v, age |-> 0]
  <2>1. PICK x \in c : e = older(x) /\ e.age < Capacity
    BY <1>2 DEF Put
  <2>2. x \in [k : K, v : V, age : 0 .. Capacity - 1]
    BY DEF Cache
  <2> HIDE DEF was
  <2>3. e = [x EXCEPT !.age = @ + 1] \/ e = x
    BY <2>1
  <2> QED
    BY <2>1, <2>2, <2>3
<1> QED
  BY <1>1, <1>2

\* put keeps a cache a cache.
LEMMA PutTyped ==
    ASSUME NEW K, NEW V, NEW c \in Cache(K, V), NEW k \in K, NEW v \in V
    PROVE  Put(c, k, v, Capacity) \in Cache(K, V)
<1>1. \A e \in Put(c, k, v, Capacity) : e \in [k : K, v : V, age : 0 .. Capacity - 1]
  BY PutEntries
<1> QED
  BY <1>1 DEF Cache

\* get of a key that is there is a put of the value it has.
LEMMA GetIsPut ==
    ASSUME NEW K, NEW V, NEW c \in Cache(K, V), NEW k \in K, Has(c, k)
    PROVE  \E e \in c : /\ e = Entry(c, k)
                        /\ e.k = k /\ e.v \in V
                        /\ Get(c, k, Capacity) = Put(c, k, e.v, Capacity)
<1>1. Entry(c, k) \in c /\ Entry(c, k).k = k
  BY DEF Has, Entry
<1>2. Entry(c, k).v \in V
  BY <1>1 DEF Cache
<1> QED
  BY <1>1, <1>2 DEF Get

\* Limit counts allocations; it is at most the number of addresses and at most
\* the capacity of a cache.
LEMMA LimitNat == /\ Usable \in Nat /\ Usable > 0
                  /\ Limit \in Nat /\ Limit <= Usable /\ Limit <= Capacity
  BY FakeIpAssumption DEF Limit, Usable

\* A remainder is below the divisor.
LEMMA Remainder == \A x \in Nat : x % Usable \in 0 .. Usable - 1
<1>1. Usable \in Nat /\ Usable > 0
  BY LimitNat
<1> QED
  BY <1>1

\* Every step of every thread keeps the state well-formed.
LEMMA StepType == TypeOK /\ [Next]_vars => TypeOK'
<1> SUFFICES ASSUME TypeOK, [Next]_vars PROVE TypeOK'
  OBVIOUS
<1> USE LimitNat
<1>0. ip_to_host \in Cache(Nat, Hosts) /\ host_to_ip \in Cache(Hosts, Nat)
  BY DEF TypeOK
<1>1. ASSUME NEW t \in Threads, NEW h \in Hosts, Call(t, h) PROVE TypeOK'
  BY <1>1 DEF TypeOK, Call
<1>2. ASSUME NEW t \in Threads, NEW a \in Nat, Answer(t, a) PROVE answered' \subseteq Hosts \X Nat
  BY <1>2 DEF TypeOK, Answer
<1>3. ASSUME NEW t \in Threads, Hit(t) PROVE TypeOK'
  <2>1. host[t] \in Hosts /\ Has(host_to_ip, host[t])
    BY <1>3 DEF TypeOK, Hit
  <2>2. PICK e \in host_to_ip : /\ e = Entry(host_to_ip, host[t]) /\ e.v \in Nat
                                /\ host_to_ip' = Put(host_to_ip, host[t], e.v, Capacity)
    BY <1>0, <1>3, <2>1, GetIsPut DEF Hit
  <2>3. host_to_ip' \in Cache(Hosts, Nat)
    BY <1>0, <2>1, <2>2, PutTyped
  <2>4. answered' \subseteq Hosts \X Nat
    BY <1>2, <1>3, <2>2 DEF Hit
  <2> QED
    BY <1>3, <2>3, <2>4 DEF TypeOK, Hit
<1>4. ASSUME NEW t \in Threads, Miss(t) PROVE TypeOK'
  BY <1>4 DEF TypeOK, Miss
<1>5. ASSUME NEW t \in Threads, Allocate(t) PROVE TypeOK'
  <2>1. offset \in Nat
    BY DEF TypeOK
  <2>2. Address(offset) \in Nat /\ NextOffset(offset) \in 0 .. Usable
    <3>1. offset % Usable \in 0 .. Usable - 1 /\ (offset + 1) % Usable \in 0 .. Usable - 1
      BY <2>1, Remainder
    <3> QED
      BY <3>1 DEF Address, NextOffset
  <2>3. allocs' \in 0 .. Limit + 1 /\ answered' \in {answered, {}}
    BY <1>5 DEF TypeOK, Allocate
  <2> QED
    BY <1>5, <2>2, <2>3 DEF TypeOK, Allocate
<1>6. ASSUME NEW t \in Threads, PutIp(t) PROVE TypeOK'
  <2>1. ip[t] \in Nat /\ host[t] \in Hosts
    BY DEF TypeOK
  <2>2. ip_to_host' \in Cache(Nat, Hosts)
    BY <1>0, <1>6, <2>1, PutTyped DEF PutIp
  <2> QED
    BY <1>6, <2>2 DEF TypeOK, PutIp
<1>7. ASSUME NEW t \in Threads, PutHost(t) PROVE TypeOK'
  <2>1. ip[t] \in Nat /\ host[t] \in Hosts
    BY DEF TypeOK
  <2>2. host_to_ip' \in Cache(Hosts, Nat)
    BY <1>0, <1>7, <2>1, PutTyped DEF PutHost
  <2>3. answered' \subseteq Hosts \X Nat
    BY <1>2, <1>7, <2>1 DEF PutHost
  <2> QED
    BY <1>7, <2>2, <2>3 DEF TypeOK, PutHost
<1>8. ASSUME NEW a \in 1 .. PoolSize, ReverseLookup(a) PROVE TypeOK'
  <2>1. a \in Nat
    BY FakeIpAssumption
  <2>2. PICK e \in ip_to_host : /\ e.v \in Hosts
                                /\ ip_to_host' = Put(ip_to_host, a, e.v, Capacity)
    BY <1>0, <1>8, <2>1, GetIsPut DEF ReverseLookup
  <2>3. ip_to_host' \in Cache(Nat, Hosts)
    BY <1>0, <2>1, <2>2, PutTyped
  <2> QED
    BY <1>8, <2>3 DEF TypeOK, ReverseLookup
<1>9. CASE UNCHANGED vars
  BY <1>9 DEF vars, TypeOK
<1> QED
  BY <1>1, <1>3, <1>4, <1>5, <1>6, <1>7, <1>8, <1>9 DEF Next

\* The pool starts well-formed.
LEMMA InitType == Init => TypeOK
  BY FakeIpAssumption, LimitNat DEF Init, TypeOK, Cache, Usable

\* The state keeps its shape, in a pool of any size.
THEOREM ShapeIsKept == Spec => []TypeOK
  BY InitType, StepType, PTL DEF Spec

-----------------------------------------------------------------------------
(* Addresses stay inside the pool *)

\* allocate() never leaves the inside of the pool, whatever the offset.
LEMMA AddressInside ==
    ASSUME PoolSize >= 4, NEW o \in Nat
    PROVE  Address(o) \in Inside
<1>1. Usable \in Nat /\ Usable > 0 /\ Usable <= PoolSize - 2
  BY FakeIpAssumption DEF Usable
<1>2. o % Usable \in 0 .. Usable - 1
  BY Remainder
<1> QED
  BY <1>1, <1>2, FakeIpAssumption DEF Address, Inside

\* contains() holds of every address inside the pool.
LEMMA InsideContained == \A a \in Inside : Contains(a)
<1> SUFFICES ASSUME NEW a \in Inside PROVE Contains(a)
  OBVIOUS
<1>1. a \in Nat /\ a < PoolSize
  BY FakeIpAssumption DEF Inside
<1>2. PoolSize \in Nat /\ PoolSize > 0
  BY FakeIpAssumption
<1>3. a \div PoolSize = 0
  BY <1>1, <1>2, Z3
<1> QED
  BY <1>3 DEF Contains

\* A step keeps the addresses inside: they come from allocate() or from where
\* one was already.
LEMMA StepInside ==
    PoolSize >= 4 /\ TypeOK /\ AddressesInside /\ [Next]_vars => AddressesInside'
<1> SUFFICES ASSUME PoolSize >= 4, TypeOK, AddressesInside, [Next]_vars PROVE AddressesInside'
  OBVIOUS
<1>0. ip_to_host \in Cache(Nat, Hosts) /\ host_to_ip \in Cache(Hosts, Nat)
  BY DEF TypeOK
<1> DEFINE Good(s) == \A x \in s : x[2] \in Inside /\ Contains(x[2])
<1>1. ASSUME NEW t \in Threads, NEW a \in Inside, Answer(t, a) PROVE Good(answered')
  <2>1. answered' = {} \/ answered' = answered \union {<<host[t], a>>}
    BY <1>1 DEF Answer
  <2> QED
    BY <2>1, InsideContained DEF AddressesInside
<1>2. ASSUME NEW k \in Hosts, NEW v \in Inside, host_to_ip' = Put(host_to_ip, k, v, Capacity)
      PROVE  \A e \in host_to_ip' : e.v \in Inside
  <2>1. v \in Nat
    BY FakeIpAssumption DEF Inside
  <2> QED
    BY <1>0, <1>2, <2>1, PutEntries DEF AddressesInside
<1>3. ASSUME NEW k \in Inside, NEW v \in Hosts, ip_to_host' = Put(ip_to_host, k, v, Capacity)
      PROVE  \A e \in ip_to_host' : e.k \in Inside
  <2>1. k \in Nat
    BY FakeIpAssumption DEF Inside
  <2> QED
    BY <1>0, <1>3, <2>1, PutEntries DEF AddressesInside
<1>4. ASSUME NEW t \in Threads, NEW h \in Hosts, Call(t, h) PROVE AddressesInside'
  BY <1>4 DEF TypeOK, AddressesInside, Call
<1>5. ASSUME NEW t \in Threads, Hit(t) PROVE AddressesInside'
  <2>1. host[t] \in Hosts /\ Has(host_to_ip, host[t])
    BY <1>5 DEF TypeOK, Hit
  <2>2. PICK e \in host_to_ip : /\ e = Entry(host_to_ip, host[t])
                                /\ host_to_ip' = Put(host_to_ip, host[t], e.v, Capacity)
    BY <1>0, <1>5, <2>1, GetIsPut DEF Hit
  <2>3. e.v \in Inside /\ Answer(t, e.v)
    BY <1>5, <2>2 DEF AddressesInside, Hit
  <2>4. Good(answered') /\ \A x \in host_to_ip' : x.v \in Inside
    BY <1>1, <1>2, <2>1, <2>2, <2>3
  <2> QED
    BY <1>5, <2>4 DEF TypeOK, AddressesInside, Hit
<1>6. ASSUME NEW t \in Threads, Miss(t) PROVE AddressesInside'
  BY <1>6 DEF TypeOK, AddressesInside, Miss
<1>7. ASSUME NEW t \in Threads, Allocate(t) PROVE AddressesInside'
  <2>1. Address(offset) \in Inside
    BY LimitNat, AddressInside DEF TypeOK
  <2>2. answered' \in {answered, {}}
    BY <1>7 DEF Allocate
  <2> QED
    BY <1>7, <2>1, <2>2 DEF TypeOK, AddressesInside, Allocate
<1>8. ASSUME NEW t \in Threads, PutIp(t) PROVE AddressesInside'
  <2>1. ip[t] \in Inside /\ host[t] \in Hosts
    BY <1>8 DEF TypeOK, AddressesInside, PutIp
  <2>2. \A x \in ip_to_host' : x.k \in Inside
    BY <1>3, <1>8, <2>1 DEF PutIp
  <2> QED
    BY <1>8, <2>1, <2>2 DEF TypeOK, AddressesInside, PutIp
<1>9. ASSUME NEW t \in Threads, PutHost(t) PROVE AddressesInside'
  <2>1. ip[t] \in Inside /\ host[t] \in Hosts
    BY <1>9 DEF TypeOK, AddressesInside, PutHost
  <2>2. Good(answered') /\ \A x \in host_to_ip' : x.v \in Inside
    BY <1>1, <1>2, <1>9, <2>1 DEF PutHost
  <2> QED
    BY <1>9, <2>1, <2>2 DEF TypeOK, AddressesInside, PutHost
<1>10. ASSUME NEW a \in 1 .. PoolSize, ReverseLookup(a) PROVE AddressesInside'
  <2>1. a \in Nat
    BY FakeIpAssumption
  <2>2. PICK e \in ip_to_host : /\ e.k = a /\ e.v \in Hosts
                                /\ ip_to_host' = Put(ip_to_host, a, e.v, Capacity)
    BY <1>0, <1>10, <2>1, GetIsPut DEF ReverseLookup
  <2>3. \A x \in ip_to_host' : x.k \in Inside
    BY <1>3, <2>2 DEF AddressesInside
  <2> QED
    BY <1>10, <2>3 DEF AddressesInside, ReverseLookup
<1>11. CASE UNCHANGED vars
  BY <1>11 DEF vars, AddressesInside
<1> QED
  BY <1>4, <1>5, <1>6, <1>7, <1>8, <1>9, <1>10, <1>11 DEF Next

\* In a pool with room for them (a /30 or larger), no fake address is ever the
\* network or the broadcast address.
THEOREM AddressesStayInside == PoolSize >= 4 => (Spec => []AddressesInside)
<1> SUFFICES ASSUME PoolSize >= 4 PROVE Spec => []AddressesInside
  OBVIOUS
<1>1. Init => AddressesInside
  BY DEF Init, AddressesInside
<1>2. TypeOK /\ AddressesInside /\ [Next]_vars => AddressesInside'
  BY StepInside
<1> QED
  BY <1>1, <1>2, ShapeIsKept, PTL DEF Spec

-----------------------------------------------------------------------------
(* The caches stay least-recently-used caches *)

\* What an entry becomes when the entry of age was is used.
Older(x, was) == IF x.age < was THEN [x EXCEPT !.age = @ + 1] ELSE x

\* The age of the entry that is used.
AgeOf(c, k) == IF Has(c, k) THEN Entry(c, k).age ELSE Capacity

\* An entry grows older by one or not at all, and keeps its key.
LEMMA OlderEntry ==
    ASSUME NEW K, NEW V, NEW x \in [k : K, v : V, age : 0 .. Capacity - 1], NEW was \in Nat
    PROVE  /\ Older(x, was).k = x.k /\ Older(x, was).v = x.v
           /\ x.age < was => Older(x, was).age = x.age + 1
           /\ x.age >= was => Older(x, was) = x
  BY FakeIpAssumption DEF Older

\* Keys and ages are unique and ages have no gaps: what Put relies on, and an
\* auxiliary invariant of AnswersAlwaysMapBack.
LruSound(c) == /\ \A e, f \in c : e.k = f.k \/ e.age = f.age => e = f
               /\ \A e \in c : \A a \in 0 .. e.age : \E f \in c : f.age = a

CachesSound == LruSound(ip_to_host) /\ LruSound(host_to_ip)

\* In a sound cache nothing but the entry of a key has that key or its age.
LEMMA AgeOfUsed ==
    ASSUME NEW K, NEW V, NEW c \in Cache(K, V), LruSound(c), NEW k
    PROVE  /\ AgeOf(c, k) \in 0 .. Capacity
           /\ \A x \in c : x.k = k <=> x.age = AgeOf(c, k)
<1> USE FakeIpAssumption
<1>0. \A x \in c : x.age \in 0 .. Capacity - 1
  BY DEF Cache
<1>1. CASE Has(c, k)
  <2>1. Entry(c, k) \in c /\ Entry(c, k).k = k
    BY <1>1 DEF Has, Entry
  <2> QED
    BY <1>0, <1>1, <2>1 DEF AgeOf, LruSound
<1>2. CASE ~Has(c, k)
  BY <1>0, <1>2 DEF AgeOf, Has
<1> QED
  BY <1>1, <1>2

\* put keeps keys and ages unique and leaves no gap between the ages.
LEMMA PutSound ==
    ASSUME NEW K, NEW V, NEW c \in Cache(K, V), LruSound(c), NEW k \in K, NEW v \in V
    PROVE  LruSound(Put(c, k, v, Capacity))
<1> USE FakeIpAssumption
<1> DEFINE was == AgeOf(c, k)
           old(x) == Older(x, was)
           new == [k |-> k, v |-> v, age |-> 0]
           P == Put(c, k, v, Capacity)
<1>1. was \in 0 .. Capacity /\ \A x \in c : x.k = k <=> x.age = was
  BY AgeOfUsed
<1>2. P = {e \in {old(x) : x \in {y \in c : y.k # k}} : e.age < Capacity} \union {new}
  BY DEF Put, AgeOf, Older
<1>3. \A x \in c : x \in [k : K, v : V, age : 0 .. Capacity - 1]
  BY DEF Cache
<1> HIDE DEF was, P
<1>4. ASSUME NEW x \in c, x.k # k
      PROVE  /\ x.age \in 0 .. Capacity - 1 /\ x.age # was
             /\ old(x).k = x.k
             /\ x.age < was => old(x).age = x.age + 1
             /\ x.age > was => old(x).age = x.age
  <2>1. x \in [k : K, v : V, age : 0 .. Capacity - 1] /\ was \in Nat
    BY <1>1, <1>3
  <2> QED
    BY <1>1, <1>4, <2>1, OlderEntry
<1> HIDE DEF old
<1>5. ASSUME NEW e \in P, e # new
      PROVE  \E x \in c : x.k # k /\ e = old(x) /\ e.age < Capacity
  BY <1>2, <1>5
<1>6. new \in P /\ new.k = k /\ new.age = 0
  BY <1>2
<1>7. ASSUME NEW x \in c, x.k # k, old(x).age < Capacity PROVE old(x) \in P
  BY <1>2, <1>7
<1>8. ASSUME NEW e \in P, e # new PROVE e.k # k /\ e.age \in Nat \ {0}
  <2>1. PICK x \in c : x.k # k /\ e = old(x)
    BY <1>5, <1>8
  <2> QED
    BY <1>1, <1>4, <2>1
<1>9. ASSUME NEW e \in P, NEW f \in P, e.k = f.k \/ e.age = f.age PROVE e = f
  <2>1. CASE e = new \/ f = new
    BY <1>6, <1>8, <1>9, <2>1
  <2>2. CASE e # new /\ f # new
    <3>1. PICK x \in c : x.k # k /\ e = old(x)
      BY <1>5, <2>2
    <3>2. PICK y \in c : y.k # k /\ f = old(y)
      BY <1>5, <2>2
    <3>3. x.k = y.k \/ x.age = y.age
      BY <1>1, <1>4, <1>9, <3>1, <3>2
    <3> QED
      BY <3>1, <3>2, <3>3 DEF LruSound
  <2> QED
    BY <2>1, <2>2
<1>10. ASSUME NEW e \in P, NEW a \in 0 .. e.age PROVE \E f \in P : f.age = a
  <2>1. CASE e = new \/ a = 0
    <3>1. a = 0
      BY <1>6, <2>1
    <3> QED
      BY <1>6, <3>1
  <2>2. CASE e # new /\ a # 0
    <3>1. PICK x \in c : x.k # k /\ e = old(x) /\ e.age < Capacity
      BY <1>5, <2>2
    <3>2. e.age \in Nat /\ a \in Nat /\ a > 0 /\ a <= e.age
      BY <1>8, <2>2
    <3>3. CASE a <= was
      <4>1. a - 1 \in 0 .. x.age
        BY <1>1, <1>4, <3>1, <3>2
      <4>2. PICK y \in c : y.age = a - 1
        BY <4>1 DEF LruSound
      <4>3. y.k # k /\ old(y).age = a
        BY <1>1, <1>4, <3>2, <3>3, <4>2
      <4> QED
        BY <1>7, <3>1, <3>2, <4>3
    <3>4. CASE a > was
      <4>1. a \in 0 .. x.age
        BY <1>1, <1>4, <3>1, <3>2, <3>4
      <4>2. PICK y \in c : y.age = a
        BY <4>1 DEF LruSound
      <4>3. y.k # k /\ old(y).age = a
        BY <1>1, <1>4, <3>2, <3>4, <4>2
      <4> QED
        BY <1>7, <3>1, <3>2, <4>3
    <3> QED
      BY <1>1, <3>2, <3>3, <3>4
  <2> QED
    BY <2>1, <2>2
<1> QED
  BY <1>9, <1>10 DEF LruSound, P

\* Every lock section that writes a cache puts an entry into it.
LEMMA StepSound == TypeOK /\ CachesSound /\ [Next]_vars => CachesSound'
<1> SUFFICES ASSUME TypeOK, CachesSound, [Next]_vars PROVE CachesSound'
  OBVIOUS
<1>0. ip_to_host \in Cache(Nat, Hosts) /\ host_to_ip \in Cache(Hosts, Nat)
  BY DEF TypeOK
<1>1. ASSUME NEW t \in Threads, Hit(t) PROVE CachesSound'
  <2> DEFINE e == Entry(host_to_ip, host[t])
  <2>1. e \in host_to_ip
    BY <1>1 DEF Hit, Has, Entry
  <2>2. e.v \in Nat /\ host[t] \in Hosts
    BY <1>0, <2>1 DEF Cache, TypeOK
  <2>3. host_to_ip' = Put(host_to_ip, host[t], e.v, Capacity) /\ ip_to_host' = ip_to_host
    BY <1>1 DEF Hit, Get
  <2> HIDE DEF e
  <2> QED
    BY <1>0, <2>2, <2>3, PutSound DEF CachesSound
<1>2. ASSUME NEW t \in Threads, PutIp(t) PROVE CachesSound'
  <2>1. ip[t] \in Nat /\ host[t] \in Hosts
    BY DEF TypeOK
  <2> QED
    BY <1>0, <1>2, <2>1, PutSound DEF PutIp, CachesSound
<1>3. ASSUME NEW t \in Threads, PutHost(t) PROVE CachesSound'
  <2>1. ip[t] \in Nat /\ host[t] \in Hosts
    BY DEF TypeOK
  <2> QED
    BY <1>0, <1>3, <2>1, PutSound DEF PutHost, CachesSound
<1>4. ASSUME NEW a \in 1 .. PoolSize, ReverseLookup(a) PROVE CachesSound'
  <2> DEFINE e == Entry(ip_to_host, a)
  <2>1. e \in ip_to_host /\ e.k = a
    BY <1>4 DEF ReverseLookup, Has, Entry
  <2>2. a \in Nat /\ e.v \in Hosts
    BY <1>0, <2>1, FakeIpAssumption DEF Cache
  <2>3. ip_to_host' = Put(ip_to_host, a, e.v, Capacity) /\ host_to_ip' = host_to_ip
    BY <1>4 DEF ReverseLookup, Get
  <2> HIDE DEF e
  <2> QED
    BY <1>0, <2>2, <2>3, PutSound DEF CachesSound
<1>5. CASE UNCHANGED <<ip_to_host, host_to_ip>>
  BY <1>5 DEF CachesSound
<1> QED
  BY <1>1, <1>2, <1>3, <1>4, <1>5 DEF Next, vars, Call, Miss, Allocate

\* Both caches are empty at the start.
LEMMA InitSound == Init => CachesSound
  BY DEF Init, CachesSound, LruSound

-----------------------------------------------------------------------------
(* Answers map back: the inductive invariant *)

\* ip_to_host maps the address to the host.
Mapped(h, a) == \E e \in ip_to_host : e.k = a /\ e.v = h

\* The addresses of the pool in the order allocate() gives them out: 2, 3, ...
\* Usable, 1.
Order(a) == IF a = 1 THEN Usable - 1 ELSE a - 2

\* The addresses given out so far, in a pool that is not exhausted.
Allocated == {a \in 1 .. Usable : Order(a) < allocs}

\* The offset stands at the first address that is still to be given out.
NextIsFresh == allocs < Limit => offset % Usable = IF allocs + 1 < Usable THEN allocs + 1 ELSE 0

\* ip_to_host has no address that was not given out.
KeysAllocated == \A e \in ip_to_host : e.k \in Allocated

\* An address on its way into ip_to_host is not there yet, nor on its way from
\* another thread.
PendingFresh ==
    \A t \in Threads : pc[t] = "putIp" =>
        /\ ip[t] \in Allocated /\ ~Has(ip_to_host, ip[t])
        /\ \A u \in Threads : pc[u] = "putIp" /\ ip[u] = ip[t] => u = t

\* What goes into host_to_ip, and what is there, maps back.
PutsMapped == \A t \in Threads : pc[t] = "putHost" => Mapped(host[t], ip[t])
HostsMapped == \A e \in host_to_ip : Mapped(e.k, e.v)

\* The parts of the invariant for a pool that is not exhausted.
Parts == /\ NextIsFresh /\ KeysAllocated /\ PendingFresh
         /\ PutsMapped /\ HostsMapped /\ AnswersMapBack

\* The inductive invariant; once something is exhausted it says nothing.
MapInv == /\ allocs <= Limit => Parts
          /\ allocs > Limit => answered = {}

\* put loses no mapping when it writes the value the key had, or when the key
\* is new and the cache is not full.
LEMMA PutExtends ==
    ASSUME NEW K, NEW V, NEW c \in Cache(K, V), LruSound(c), NEW k \in K, NEW v \in V,
           \/ \E e \in c : e.k = k /\ e.v = v
           \/ ~Has(c, k) /\ \A x \in c : x.age < Capacity - 1
    PROVE  /\ \E e \in Put(c, k, v, Capacity) : e.k = k /\ e.v = v
           /\ \A x \in c : \E e \in Put(c, k, v, Capacity) : e.k = x.k /\ e.v = x.v
<1> USE FakeIpAssumption
<1> DEFINE was == AgeOf(c, k)
           new == [k |-> k, v |-> v, age |-> 0]
           P == Put(c, k, v, Capacity)
<1>1. was \in 0 .. Capacity /\ \A x \in c : x.k = k <=> x.age = was
  BY AgeOfUsed
<1>2. P = {e \in {Older(x, was) : x \in {y \in c : y.k # k}} : e.age < Capacity} \union {new}
  BY DEF Put, AgeOf, Older
<1> HIDE DEF was, P
<1>3. ASSUME NEW x \in c, x.k # k PROVE \E e \in P : e.k = x.k /\ e.v = x.v
  <2>1. x \in [k : K, v : V, age : 0 .. Capacity - 1]
    BY DEF Cache
  <2>2. /\ Older(x, was).k = x.k /\ Older(x, was).v = x.v
        /\ x.age < was => Older(x, was).age = x.age + 1
        /\ x.age >= was => Older(x, was) = x
    BY <1>1, <2>1, OlderEntry
  <2>3. was < Capacity \/ x.age < Capacity - 1
    <3>1. CASE \E e \in c : e.k = k /\ e.v = v
      <4>1. PICK e \in c : e.k = k
        BY <3>1
      <4>2. e.age = was /\ e.age \in 0 .. Capacity - 1
        BY <1>1, <4>1 DEF Cache
      <4> QED
        BY <4>2
    <3>2. CASE \A y \in c : y.age < Capacity - 1
      BY <3>2
    <3> QED
      BY <3>1, <3>2
  <2>4. Older(x, was).age < Capacity
    BY <1>1, <2>1, <2>2, <2>3
  <2>5. Older(x, was) \in P
    BY <1>2, <1>3, <2>4
  <2> QED
    BY <2>2, <2>5
<1>4. new \in P /\ new.k = k /\ new.v = v
  BY <1>2
<1>5. ASSUME NEW x \in c, x.k = k PROVE x.v = v
  BY <1>5 DEF LruSound, Has
<1> QED
  BY <1>3, <1>4, <1>5 DEF P

\* A cache whose keys are addresses given out, when one more was given out and
\* no more than fit into the cache, is not full: were its ages 0 to
\* Capacity - 1 all there, Capacity + 1 addresses would have been given out.
LEMMA NotFull ==
    ASSUME TypeOK, CachesSound, KeysAllocated, allocs <= Limit,
           NEW a \in Allocated, ~Has(ip_to_host, a), NEW x \in ip_to_host
    PROVE  x.age < Capacity - 1
<1> USE FakeIpAssumption
<1> SUFFICES ASSUME x.age >= Capacity - 1 PROVE FALSE
  BY DEF TypeOK, Cache
<1> DEFINE at(i) == CHOOSE e \in ip_to_host : e.age = i
           key(i) == IF i = Capacity THEN a ELSE at(i).k
           f == [i \in 0 .. Capacity |-> Order(key(i))]
<1>1. x.age = Capacity - 1 /\ allocs \in Nat /\ allocs <= Capacity
  BY LimitNat DEF TypeOK, Cache
<1>2. ASSUME NEW i \in 0 .. Capacity - 1 PROVE at(i) \in ip_to_host /\ at(i).age = i
  <2>1. \E e \in ip_to_host : e.age = i
    BY <1>1 DEF CachesSound, LruSound
  <2> QED
    BY <2>1
<1> HIDE DEF at
<1>3. \A i \in 0 .. Capacity : key(i) \in Allocated
  BY <1>2 DEF KeysAllocated
<1>4. ASSUME NEW i \in 0 .. Capacity, NEW j \in 0 .. Capacity, key(i) = key(j) PROVE i = j
  <2>1. CASE i = Capacity \/ j = Capacity
    BY <1>2, <1>4, <2>1 DEF Has
  <2>2. CASE i # Capacity /\ j # Capacity
    BY <1>2, <1>4, <2>2 DEF CachesSound, LruSound
  <2> QED
    BY <2>1, <2>2
<1> HIDE DEF key
<1>5. \A p \in Allocated : Order(p) \in 0 .. allocs - 1
  BY <1>1, LimitNat DEF Allocated, Order
<1>6. \A p, q \in Allocated : Order(p) = Order(q) => p = q
  BY LimitNat DEF Allocated, Order
<1>7. f \in [0 .. Capacity -> 0 .. allocs - 1]
  BY <1>3, <1>5
<1>8. /\ IsFiniteSet(0 .. Capacity) /\ Cardinality(0 .. Capacity) = Capacity + 1
      /\ IsFiniteSet(0 .. allocs - 1) /\ Cardinality(0 .. allocs - 1) = allocs
  <2>1. /\ IsFiniteSet(0 .. Capacity)
        /\ Cardinality(0 .. Capacity) = IF 0 > Capacity THEN 0 ELSE Capacity - 0 + 1
    BY FS_Interval
  <2>2. /\ IsFiniteSet(0 .. allocs - 1)
        /\ Cardinality(0 .. allocs - 1) = IF 0 > allocs - 1 THEN 0 ELSE (allocs - 1) - 0 + 1
    BY <1>1, FS_Interval
  <2> QED
    BY <1>1, <2>1, <2>2
<1>9. PICK i \in 0 .. Capacity, j \in 0 .. Capacity : i # j /\ f[i] = f[j]
  <2>1. Cardinality(0 .. allocs - 1) < Cardinality(0 .. Capacity)
    BY <1>1, <1>8
  <2> DEFINE S == 0 .. Capacity
             T == 0 .. allocs - 1
  <2>2. IsFiniteSet(S) /\ IsFiniteSet(T) /\ Cardinality(T) < Cardinality(S) /\ f \in [S -> T]
    BY <1>7, <1>8, <2>1
  <2> HIDE DEF f, S, T
  <2>3. \E i, j \in S : i # j /\ f[i] = f[j]
    BY ONLY <2>2, FS_PigeonHole
  <2> QED
    BY <2>3 DEF S
<1> QED
  BY <1>3, <1>4, <1>6, <1>9

\* allocate() gives out the addresses in order.
LEMMA NextAddress ==
    ASSUME TypeOK, NextIsFresh, allocs < Limit
    PROVE  /\ Address(offset) \in 1 .. Usable /\ Order(Address(offset)) = allocs
           /\ allocs + 1 < Limit =>
                  NextOffset(offset) % Usable = IF allocs + 2 < Usable THEN allocs + 2 ELSE 0
<1>1. /\ Usable \in Nat /\ Usable > 0 /\ Limit \in Nat /\ Limit <= Usable
      /\ offset \in 0 .. Usable /\ allocs \in Nat
  BY LimitNat DEF TypeOK
<1>2. offset % Usable = IF allocs + 1 < Usable THEN allocs + 1 ELSE 0
  BY DEF NextIsFresh
<1>3. Address(offset) = IF allocs + 1 < Usable THEN allocs + 2 ELSE 1
  BY <1>1, <1>2 DEF Address
<1>4. \A x \in 0 .. Usable - 1 : x % Usable = x
  BY <1>1
<1>5. Usable % Usable = 0
  BY <1>1
<1>6. ASSUME allocs + 1 < Limit
      PROVE  NextOffset(offset) % Usable = IF allocs + 2 < Usable THEN allocs + 2 ELSE 0
  <2>1. offset = allocs + 1
    <3>1. offset % Usable = allocs + 1
      BY <1>1, <1>2, <1>6
    <3>2. offset # Usable
      BY <1>1, <1>5, <3>1
    <3>3. offset \in 0 .. Usable - 1
      BY <1>1, <3>2
    <3> QED
      BY <1>4, <3>1, <3>3
  <2>2. (allocs + 2) % Usable = IF allocs + 2 < Usable THEN allocs + 2 ELSE 0
    <3>1. CASE allocs + 2 < Usable
      <4>1. allocs + 2 \in 0 .. Usable - 1
        BY <1>1, <3>1
      <4> QED
        BY <1>4, <3>1, <4>1
    <3>2. CASE ~(allocs + 2 < Usable)
      <4>1. allocs + 2 = Usable
        BY <1>1, <1>6, <3>2
      <4> QED
        BY <1>5, <3>2, <4>1
    <3> QED
      BY <3>1, <3>2
  <2>3. NextOffset(offset) = IF allocs + 2 < Usable THEN allocs + 2 ELSE 0
    <3>1. offset + 1 = allocs + 2
      BY <1>1, <2>1
    <3> QED
      BY <2>2, <3>1 DEF NextOffset
  <2>4. NextOffset(offset) \in 0 .. Usable - 1
    BY <1>1, <2>3
  <2> QED
    BY <1>4, <2>3, <2>4
<1> QED
  BY <1>1, <1>3, <1>6 DEF Order

\* A step that takes no mapping away from ip_to_host and adds none with another
\* key keeps the parts that only read it.
LEMMA MappingsKept ==
    ASSUME \A x \in ip_to_host : \E e \in ip_to_host' : e.k = x.k /\ e.v = x.v
    PROVE  \A h, a : Mapped(h, a) => Mapped(h, a)'
  BY DEF Mapped

\* An answer that maps back is recorded as long as nothing is exhausted.
LEMMA AnswerMapsBack ==
    ASSUME NEW t \in Threads, NEW a, Answer(t, a), TypeOK,
           allocs <= Limit => AnswersMapBack /\ Mapped(host[t], a),
           UNCHANGED <<ip_to_host, allocs>>
    PROVE  /\ allocs <= Limit => AnswersMapBack'
           /\ allocs > Limit => answered' = {}
<1>1. allocs \in Nat /\ Limit \in Nat
  BY LimitNat DEF TypeOK
<1>2. allocs > Limit => answered' = {}
  BY DEF Answer
<1>3. ASSUME allocs <= Limit PROVE AnswersMapBack'
  <2>1. answered' = answered \union {<<host[t], a>>}
    BY <1>1, <1>3 DEF Answer
  <2> QED
    BY <1>3, <2>1 DEF AnswersMapBack, Mapped
<1> QED
  BY <1>2, <1>3

\* Every step keeps the invariant.
LEMMA StepMaps == TypeOK /\ CachesSound /\ MapInv /\ [Next]_vars => MapInv'
<1> SUFFICES ASSUME TypeOK, CachesSound, MapInv, [Next]_vars PROVE MapInv'
  OBVIOUS
<1> USE DEF Parts
<1>0. /\ ip_to_host \in Cache(Nat, Hosts) /\ host_to_ip \in Cache(Hosts, Nat)
      /\ LruSound(ip_to_host) /\ LruSound(host_to_ip)
      /\ allocs \in Nat /\ Limit \in Nat /\ Limit' = Limit
  BY LimitNat DEF TypeOK, CachesSound, Limit, Usable
<1>1. allocs <= Limit => Parts
  BY DEF MapInv
<1>2. ASSUME NEW t \in Threads, NEW h \in Hosts, Call(t, h) PROVE MapInv'
  <2>1. Parts => Parts'
    BY <1>2 DEF TypeOK, Call, NextIsFresh, KeysAllocated, PendingFresh, Allocated, PutsMapped,
                HostsMapped, AnswersMapBack, Mapped
  <2> QED
    BY <1>1, <1>2, <2>1 DEF MapInv, Call
<1>3. ASSUME NEW t \in Threads, Hit(t) PROVE MapInv'
  <2>1. host[t] \in Hosts /\ Has(host_to_ip, host[t])
    BY <1>3 DEF TypeOK, Hit
  <2>2. PICK e \in host_to_ip : /\ e = Entry(host_to_ip, host[t]) /\ e.k = host[t] /\ e.v \in Nat
                                /\ host_to_ip' = Put(host_to_ip, host[t], e.v, Capacity)
    BY <1>0, <1>3, <2>1, GetIsPut DEF Hit
  <2>3. allocs <= Limit => Mapped(host[t], e.v)
    BY <1>1, <2>2 DEF HostsMapped
  <2>4. /\ allocs <= Limit => AnswersMapBack'
        /\ allocs > Limit => answered' = {}
    BY <1>1, <1>3, <2>2, <2>3, AnswerMapsBack DEF Hit
  <2>5. ASSUME allocs <= Limit PROVE HostsMapped'
    <3>1. \A x \in host_to_ip' : Mapped(x.k, x.v)
      BY <1>0, <1>1, <2>1, <2>2, <2>3, <2>5, PutEntries DEF HostsMapped
    <3> QED
      BY <1>3, <3>1 DEF HostsMapped, Mapped, Hit
  <2>6. ASSUME Parts PROVE (NextIsFresh /\ KeysAllocated /\ PendingFresh /\ PutsMapped)'
    BY <1>3, <2>6 DEF TypeOK, Hit, NextIsFresh, KeysAllocated, PendingFresh, Allocated, PutsMapped, Mapped
  <2> QED
    BY <1>0, <1>1, <1>3, <2>4, <2>5, <2>6 DEF MapInv, Hit
<1>4. ASSUME NEW t \in Threads, Miss(t) PROVE MapInv'
  <2>1. Parts => Parts'
    BY <1>4 DEF TypeOK, Miss, NextIsFresh, KeysAllocated, PendingFresh, Allocated, PutsMapped,
                HostsMapped, AnswersMapBack, Mapped
  <2> QED
    BY <1>1, <1>4, <2>1 DEF MapInv, Miss
<1>5. ASSUME NEW t \in Threads, Allocate(t) PROVE MapInv'
  <2>1. CASE allocs >= Limit
    BY <1>0, <1>5, <2>1 DEF MapInv, Allocate
  <2>2. CASE allocs < Limit
    <3>1. Parts /\ allocs' = allocs + 1 /\ allocs' <= Limit /\ answered' = answered
      BY <1>0, <1>1, <1>5, <2>2 DEF Allocate
    <3>2. /\ Address(offset) \in 1 .. Usable /\ Order(Address(offset)) = allocs
          /\ allocs + 1 < Limit =>
                 NextOffset(offset) % Usable = IF allocs + 2 < Usable THEN allocs + 2 ELSE 0
      BY <2>2, <3>1, NextAddress
    <3>3. NextIsFresh'
      BY <1>0, <1>5, <3>1, <3>2 DEF NextIsFresh, Allocate
    <3>4. Allocated \subseteq Allocated' /\ Address(offset) \in Allocated' \ Allocated
      BY <1>0, <3>1, <3>2, LimitNat DEF Allocated, Order
    <3>5. KeysAllocated'
      BY <1>5, <3>1, <3>4 DEF KeysAllocated, Allocate
    <3>6. ~Has(ip_to_host, Address(offset))
      BY <3>1, <3>4 DEF KeysAllocated, Has
    <3>7. PendingFresh'
      <4>1. ASSUME NEW u \in Threads, pc'[u] = "putIp", u # t
            PROVE  /\ pc[u] = "putIp" /\ ip'[u] = ip[u]
                   /\ ip[u] \in Allocated /\ ~Has(ip_to_host, ip[u])
        BY <1>5, <3>1, <4>1 DEF TypeOK, Allocate, PendingFresh
      <4>2. ip'[t] = Address(offset) /\ ip_to_host' = ip_to_host
        BY <1>5 DEF TypeOK, Allocate
      <4>3. ASSUME NEW u \in Threads, pc'[u] = "putIp"
            PROVE  ip'[u] \in Allocated' /\ ~Has(ip_to_host', ip'[u])
        BY <3>4, <3>6, <4>1, <4>2, <4>3
      <4>4. ASSUME NEW u \in Threads, NEW w \in Threads,
                   pc'[u] = "putIp", pc'[w] = "putIp", ip'[u] = ip'[w]
            PROVE  u = w
        BY <3>1, <3>4, <4>1, <4>2, <4>4 DEF PendingFresh
      <4> QED
        BY <4>3, <4>4 DEF PendingFresh
    <3>8. (PutsMapped /\ HostsMapped /\ AnswersMapBack)'
      BY <1>5, <3>1 DEF TypeOK, Allocate, PutsMapped, HostsMapped, AnswersMapBack, Mapped
    <3> QED
      BY <1>0, <3>1, <3>3, <3>5, <3>7, <3>8 DEF MapInv
  <2> QED
    BY <1>0, <2>1, <2>2
<1>6. ASSUME NEW t \in Threads, PutIp(t) PROVE MapInv'
  <2>1. ip[t] \in Nat /\ host[t] \in Hosts
    BY DEF TypeOK
  <2>2. CASE allocs > Limit
    BY <1>0, <1>6, <2>2 DEF MapInv, PutIp
  <2>3. CASE allocs <= Limit
    <3>1. Parts /\ allocs' = allocs /\ answered' = answered
      BY <1>1, <1>6, <2>3 DEF PutIp
    <3>2. ip[t] \in Allocated /\ ~Has(ip_to_host, ip[t])
      BY <1>6, <3>1 DEF PendingFresh, PutIp
    <3>3. ip_to_host' = Put(ip_to_host, ip[t], host[t], Capacity)
      BY <1>6 DEF PutIp
    <3>4. \A x \in ip_to_host : x.age < Capacity - 1
      BY <2>3, <3>1, <3>2, NotFull
    <3>5. /\ \E e \in ip_to_host' : e.k = ip[t] /\ e.v = host[t]
          /\ \A x \in ip_to_host : \E e \in ip_to_host' : e.k = x.k /\ e.v = x.v
      BY <1>0, <2>1, <3>2, <3>3, <3>4, PutExtends
    <3>6. \A e \in ip_to_host' : e.k = ip[t] \/ \E x \in ip_to_host : e.k = x.k
      BY <1>0, <2>1, <3>3, PutEntries
    <3>7. Allocated' = Allocated
      BY <3>1 DEF Allocated
    <3>8. \A h, a : Mapped(h, a) => Mapped(h, a)'
      BY <3>5, MappingsKept
    <3>9. NextIsFresh' /\ KeysAllocated'
      BY <1>6, <3>1, <3>2, <3>6, <3>7 DEF NextIsFresh, KeysAllocated, PutIp
    <3>10. PendingFresh'
      <4>1. ASSUME NEW u \in Threads, pc'[u] = "putIp"
            PROVE  pc[u] = "putIp" /\ u # t
        BY <1>6, <4>1 DEF TypeOK, PutIp
      <4>2. ASSUME NEW u \in Threads, pc'[u] = "putIp"
            PROVE  ip[u] \in Allocated /\ ~Has(ip_to_host', ip[u])
        <5>1. ip[u] \in Allocated /\ ~Has(ip_to_host, ip[u]) /\ ip[u] # ip[t]
          BY <1>6, <3>1, <4>1, <4>2 DEF PendingFresh, PutIp
        <5> QED
          BY <3>6, <5>1 DEF Has
      <4>3. ip' = ip
        BY <1>6 DEF PutIp
      <4> QED
        BY <3>1, <3>7, <4>1, <4>2, <4>3 DEF PendingFresh
    <3>11. Mapped(host[t], ip[t])'
      BY <1>6, <3>5 DEF Mapped, PutIp
    <3>12. PutsMapped'
      <4>1. \A u \in Threads : pc'[u] = "putHost" => u = t \/ pc[u] = "putHost"
        BY <1>6 DEF TypeOK, PutIp
      <4>2. ip' = ip /\ host' = host
        BY <1>6 DEF PutIp
      <4> QED
        BY <3>1, <3>8, <3>11, <4>1, <4>2 DEF PutsMapped, Mapped
    <3>13. host_to_ip' = host_to_ip
      BY <1>6 DEF PutIp
    <3>14. HostsMapped' /\ AnswersMapBack'
      BY <3>1, <3>8, <3>13 DEF HostsMapped, AnswersMapBack, Mapped
    <3> QED
      BY <1>0, <2>3, <3>1, <3>9, <3>10, <3>12, <3>14 DEF MapInv
  <2> QED
    BY <1>0, <2>2, <2>3
<1>7. ASSUME NEW t \in Threads, PutHost(t) PROVE MapInv'
  <2>1. ip[t] \in Nat /\ host[t] \in Hosts
    BY DEF TypeOK
  <2>2. allocs <= Limit => Mapped(host[t], ip[t])
    BY <1>1, <1>7 DEF PutsMapped, PutHost
  <2>3. /\ allocs <= Limit => AnswersMapBack'
        /\ allocs > Limit => answered' = {}
    BY <1>1, <1>7, <2>2, AnswerMapsBack DEF PutHost
  <2>4. ASSUME allocs <= Limit PROVE HostsMapped'
    <3>1. host_to_ip' = Put(host_to_ip, host[t], ip[t], Capacity) /\ ip_to_host' = ip_to_host
      BY <1>7 DEF PutHost
    <3>2. \A x \in host_to_ip' : Mapped(x.k, x.v)
      BY <1>0, <1>1, <2>1, <2>2, <2>4, <3>1, PutEntries DEF HostsMapped
    <3> QED
      BY <3>1, <3>2 DEF HostsMapped, Mapped
  <2>5. ASSUME Parts PROVE (NextIsFresh /\ KeysAllocated /\ PendingFresh /\ PutsMapped)'
    BY <1>7, <2>5 DEF TypeOK, PutHost, NextIsFresh, KeysAllocated, PendingFresh, Allocated, PutsMapped, Mapped
  <2> QED
    BY <1>0, <1>1, <1>7, <2>3, <2>4, <2>5 DEF MapInv, PutHost
<1>8. ASSUME NEW a \in 1 .. PoolSize, ReverseLookup(a) PROVE MapInv'
  <2>1. a \in Nat
    BY FakeIpAssumption
  <2>2. PICK e \in ip_to_host : /\ e.k = a /\ e.v \in Hosts
                                /\ ip_to_host' = Put(ip_to_host, a, e.v, Capacity)
    BY <1>0, <1>8, <2>1, GetIsPut DEF ReverseLookup
  <2>3. \A x \in ip_to_host : \E f \in ip_to_host' : f.k = x.k /\ f.v = x.v
    BY <1>0, <2>1, <2>2, PutExtends
  <2>4. \A f \in ip_to_host' : \E x \in ip_to_host : f.k = x.k
    BY <1>0, <2>1, <2>2, PutEntries
  <2>5. \A h, b : Mapped(h, b) => Mapped(h, b)'
    BY <2>3, MappingsKept
  <2>6. \A b : Has(ip_to_host', b) => Has(ip_to_host, b)
    BY <2>4 DEF Has
  <2>7. UNCHANGED <<host_to_ip, offset, pc, host, ip, allocs, answered>>
    BY <1>8 DEF ReverseLookup
  <2>8. ASSUME Parts PROVE (NextIsFresh /\ KeysAllocated /\ PendingFresh)'
    BY <2>4, <2>6, <2>7, <2>8 DEF NextIsFresh, KeysAllocated, PendingFresh, Allocated
  <2>9. ASSUME Parts PROVE (PutsMapped /\ HostsMapped /\ AnswersMapBack)'
    <3>1. PutsMapped'
      BY <2>5, <2>7, <2>9 DEF PutsMapped, Mapped
    <3>2. HostsMapped'
      BY <2>5, <2>7, <2>9 DEF HostsMapped, Mapped
    <3>3. AnswersMapBack'
      BY <2>3, <2>7, <2>9 DEF AnswersMapBack
    <3> QED
      BY <3>1, <3>2, <3>3
  <2> QED
    BY <1>0, <1>1, <2>7, <2>8, <2>9 DEF MapInv
<1>9. CASE UNCHANGED vars
  <2>1. Parts => Parts'
    BY <1>9 DEF vars, NextIsFresh, KeysAllocated, PendingFresh, Allocated, PutsMapped,
                HostsMapped, AnswersMapBack, Mapped
  <2> QED
    BY <1>0, <1>1, <1>9, <2>1 DEF MapInv, vars
<1> QED
  BY <1>2, <1>3, <1>4, <1>5, <1>6, <1>7, <1>8, <1>9 DEF Next

\* As long as neither the pool nor the caches are exhausted, every address that
\* lookup ever answered, to whichever thread, maps back to its host.
THEOREM AnswersAlwaysMapBack == Spec => []AnswersMapBack
<1>1. Init => MapInv
  <2> SUFFICES ASSUME Init PROVE MapInv
    OBVIOUS
  <2>1. offset = 1 /\ allocs = 0 /\ 1 \in Nat
    BY DEF Init
  <2>2. Usable \in Nat /\ Usable > 0
    BY LimitNat
  <2>3. 1 % Usable = IF 1 < Usable THEN 1 ELSE 0
    <3>1. CASE Usable = 1
      BY <3>1
    <3>2. CASE 1 < Usable
      BY <2>2, <3>2
    <3> QED
      BY <2>2, <3>1, <3>2
  <2>4. NextIsFresh
    BY <2>1, <2>3 DEF NextIsFresh
  <2> QED
    BY <2>4, LimitNat DEF Init, MapInv, Parts, KeysAllocated, PendingFresh, PutsMapped, HostsMapped, AnswersMapBack
<1>2. TypeOK /\ MapInv => AnswersMapBack
  BY LimitNat DEF TypeOK, MapInv, Parts, AnswersMapBack
<1> QED
  BY <1>1, <1>2, ShapeIsKept, InitSound, StepSound, StepMaps, PTL DEF Spec
=============================================================================
