--------------------------- MODULE NatTableProofs ---------------------------
(***************************************************************************)
(* Proofs about NatTable for any sessions, shards, loops, callers and      *)
(* timeout.                                                                *)
(***************************************************************************)
EXTENDS NatTable, FiniteSetTheorems, TLAPS

\* Sets of sessions can be counted.
LEMMA SessionsFinite ==
    ASSUME NEW S, S \subseteq Keys
    PROVE  IsFiniteSet(S) /\ Cardinality(S) \in Nat
<1>1. IsFiniteSet(S)
  BY NatTableAssumption, FS_Subset
<1> QED
  BY <1>1, FS_CardinalityType

-----------------------------------------------------------------------------
(* Used sessions *)

\* The inductive invariant: the promise of a session and its age add up to the
\* timeout, so that what is promised has not expired.
UsedInv ==
    /\ age \in [Keys -> Nat \union {Absent}] /\ due \in [Keys -> Nat]
    /\ \A k \in Keys : due[k] > 0 => age[k] # Absent /\ age[k] + due[k] = Timeout

\* A step that changes neither ages nor promises.
LEMMA StillKeepsUsed == UsedInv /\ UNCHANGED <<age, due>> => UsedInv'
  BY DEF UsedInv

\* Every step of callers, cleanups and the clock keeps the invariant.
LEMMA StepUsed == UsedInv /\ [Next]_vars => UsedInv'
<1> SUFFICES ASSUME UsedInv, [Next]_vars PROVE UsedInv'
  OBVIOUS
<1> USE NatTableAssumption
<1>1. ASSUME NEW k \in Keys, Get(k) \/ Insert(k) PROVE UsedInv'
  BY <1>1 DEF Get, Insert, UsedInv
<1>2. ASSUME NEW k \in Keys, Remove(k) PROVE UsedInv'
  BY <1>2 DEF Remove, UsedInv
<1>3. CASE Tick
  <2>1. /\ age' = [k \in Keys |-> IF age[k] # Absent /\ age[k] < Timeout
                                  THEN age[k] + 1 ELSE age[k]]
        /\ due' = [k \in Keys |-> IF due[k] > 0 THEN due[k] - 1 ELSE 0]
    BY <1>3 DEF Tick
  <2>2. ASSUME NEW k \in Keys
        PROVE  /\ age'[k] \in Nat \union {Absent} /\ due'[k] \in Nat
               /\ due'[k] > 0 => age'[k] # Absent /\ age'[k] + due'[k] = Timeout
    BY <2>1 DEF UsedInv
  <2> QED
    BY <2>1, <2>2 DEF UsedInv
<1>4. ASSUME NEW w \in Walkers, RetainShard(w) PROVE UsedInv'
  <2>1. due' = due /\ age' \in [Keys -> Nat \union {Absent}]
    BY <1>4 DEF RetainShard, UsedInv
  <2>2. ASSUME NEW k \in Keys, due[k] > 0 PROVE age'[k] = age[k]
    <3>1. ~Expired(k)
      BY <2>2 DEF UsedInv, Expired
    <3> QED
      BY <1>4, <3>1 DEF RetainShard, UsedInv
  <2> QED
    BY <2>1, <2>2 DEF UsedInv
<1>5. ASSUME \/ \E w \in Walkers : CountBefore(w) \/ CountAfter(w) \/ Subtract(w) \/ BeginCleanup(w)
             \/ \E l \in Loops : StartCleanupLoop(l) \/ CancelSeen(l)
             \/ StopCleanup \/ DropHandle \/ UNCHANGED vars
      PROVE  UsedInv'
  BY <1>5, StillKeepsUsed DEF CountBefore, CountAfter, Subtract, BeginCleanup,
       StartCleanupLoop, CancelSeen, StopCleanup, DropHandle, vars
<1> QED
  BY <1>1, <1>2, <1>3, <1>4, <1>5 DEF Next

\* A session in use is never cleaned up.
THEOREM UsedSessionsAreKept == Spec => []UsedSessionsStay
<1>1. Init => UsedInv
  BY NatTableAssumption DEF Init, UsedInv
<1>2. UsedInv => UsedSessionsStay
  BY DEF UsedInv, UsedSessionsStay
<1> QED
  BY <1>1, <1>2, StepUsed, PTL DEF Spec

-----------------------------------------------------------------------------
(* What cleanup() counts *)

\* Sessions that still weigh in the difference cleanup() computes: while it
\* counts for the first time those of the shards it has counted, in retain()
\* all, while it counts again those of the shards it has still to count.
Weighs(w, k) ==
    \/ pc[w] = "before" /\ ShardOf[k] < shard[w]
    \/ pc[w] = "retain"
    \/ pc[w] = "after" /\ ShardOf[k] >= shard[w]

Rest(w) == {k \in Present : Weighs(w, k)}

\* The first count is off from the rest, the second count and the removed ones
\* by no more than the churn.
Balance(w, rest) ==
    /\ after[w] + rest + removed[w] <= before[w] + added[w]
    /\ before[w] <= after[w] + rest + removed[w] + gone[w]

\* The inductive invariant, for one walker.
WalkerInv(w) ==
    /\ pc[w] \in Walking => Balance(w, Cardinality(Rest(w)))
    /\ pc[w] = "panicked" => Balance(w, 0) /\ added[w] > 0
    /\ pc[w] \in {"off", "select", "stopped"} =>
           before[w] = 0 /\ after[w] = 0 /\ removed[w] = 0 /\ added[w] = 0 /\ gone[w] = 0
    /\ pc[w] \in {"off", "select", "stopped", "subtract"} => shard[w] = 1

ChurnInv == TypeOK /\ \A w \in Walkers : WalkerInv(w)

\* Sets of present sessions can be counted.
LEMMA PresentFinite ==
    /\ \A w : IsFiniteSet(Rest(w)) /\ Cardinality(Rest(w)) \in Nat
    /\ \A s : IsFiniteSet(InShard(s)) /\ Cardinality(InShard(s)) \in Nat
  BY SessionsFinite DEF Rest, InShard, Present

\* The sizes of disjoint sets add up.
LEMMA DisjointSizes ==
    ASSUME NEW S, NEW T, IsFiniteSet(S), IsFiniteSet(T), S \cap T = {}
    PROVE  Cardinality(S \union T) = Cardinality(S) + Cardinality(T)
<1>1. /\ Cardinality(S \union T) = Cardinality(S) + Cardinality(T) - Cardinality(S \cap T)
      /\ Cardinality(S \cap T) = 0
  BY FS_Union, FS_EmptySet
<1>2. Cardinality(S) \in Nat /\ Cardinality(T) \in Nat
  BY FS_CardinalityType
<1> QED
  BY <1>1, <1>2

\* An element taken out makes a set smaller by one or by none.
LEMMA OneLess ==
    ASSUME NEW S, NEW k, IsFiniteSet(S)
    PROVE  /\ Cardinality(S \ {k}) \in Nat
           /\ Cardinality(S \ {k}) <= Cardinality(S)
           /\ Cardinality(S) <= Cardinality(S \ {k}) + 1
<1>1. Cardinality(S) \in Nat /\ Cardinality(S \ {k}) \in Nat
  BY FS_CardinalityType, FS_RemoveElement
<1>2. Cardinality(S \ {k}) = IF k \in S THEN Cardinality(S) - 1 ELSE Cardinality(S)
  BY FS_RemoveElement
<1> QED
  BY <1>1, <1>2

\* A tally keeps its type and goes up where it should.
LEMMA NotedTally ==
    ASSUME NEW tally \in [Walkers -> Nat], NEW n \in Nat, NEW ws
    PROVE  /\ Noted(tally, n, ws) \in [Walkers -> Nat]
           /\ \A w \in Walkers : Noted(tally, n, ws)[w] =
                IF w \in ws /\ pc[w] \in Walking THEN tally[w] + n ELSE tally[w]
  BY DEF Noted

\* The next shard is a shard.
LEMMA ShardNext ==
    ASSUME TypeOK, NEW w \in Walkers
    PROVE  NextShard(w) \in 1 .. Shards
  BY NatTableAssumption DEF TypeOK, NextShard

\* What a step of somebody else may do to a walker: its rest grows by what the
\* step adds and shrinks by what it takes away, and both are noted.
LEMMA StayBalanced ==
    ASSUME ChurnInv, NEW w \in Walkers, NEW a \in Nat, NEW g \in Nat,
           pc'[w] = pc[w], shard'[w] = shard[w], before'[w] = before[w],
           after'[w] = after[w], removed'[w] = removed[w],
           pc[w] \notin Walking => added'[w] = added[w] /\ gone'[w] = gone[w],
           pc[w] \in Walking =>
               /\ added'[w] = added[w] + a /\ gone'[w] = gone[w] + g
               /\ Cardinality(Rest(w)') <= Cardinality(Rest(w)) + a
               /\ Cardinality(Rest(w)) <= Cardinality(Rest(w)') + g,
           Cardinality(Rest(w)') \in Nat
    PROVE  WalkerInv(w)'
<1> USE DEF ChurnInv, TypeOK, WalkerInv, Walking
<1>1. Cardinality(Rest(w)) \in Nat
  BY PresentFinite
<1>2. CASE pc[w] \in Walking
  <2>1. Balance(w, Cardinality(Rest(w)))
    BY <1>2
  <2>2. Balance(w, Cardinality(Rest(w)))'
    BY <1>1, <1>2, <2>1 DEF Balance
  <2> QED
    BY <1>2, <2>2
<1>3. CASE pc[w] \notin Walking
  BY <1>3 DEF Balance
<1> QED
  BY <1>2, <1>3

\* A step that changes neither which sessions are there nor the walkers.
LEMMA StillBalanced ==
    ASSUME ChurnInv, Present' = Present, UNCHANGED <<pc, walk, churn>>
    PROVE  \A w \in Walkers : WalkerInv(w)'
<1> SUFFICES ASSUME NEW w \in Walkers PROVE WalkerInv(w)'
  OBVIOUS
<1>1. Rest(w)' = Rest(w)
  BY DEF Rest, Weighs, walk
<1> QED
  BY <1>1, PresentFinite DEF WalkerInv, Balance, ChurnInv, walk, churn

\* Walkers other than the one that takes a step.
LEMMA OthersBalanced ==
    ASSUME ChurnInv, NEW w \in Walkers, Present' = Present, UNCHANGED <<added, gone>>,
           \A v \in Walkers \ {w} :
               /\ pc'[v] = pc[v] /\ shard'[v] = shard[v] /\ before'[v] = before[v]
               /\ after'[v] = after[v] /\ removed'[v] = removed[v]
    PROVE  \A v \in Walkers \ {w} : WalkerInv(v)'
<1> SUFFICES ASSUME NEW v \in Walkers \ {w} PROVE WalkerInv(v)'
  OBVIOUS
<1>1. Rest(v)' = Rest(v)
  BY DEF Rest, Weighs
<1> QED
  BY <1>1, PresentFinite DEF WalkerInv, Balance, ChurnInv

\* A stored session weighs one more, unless it replaces another.
LEMMA InsertBalanced ==
    ASSUME ChurnInv, NEW k \in Keys, Insert(k)
    PROVE  \A w \in Walkers : WalkerInv(w)'
<1> SUFFICES ASSUME NEW w \in Walkers PROVE WalkerInv(w)'
  OBVIOUS
<1> DEFINE n == IF age[k] = Absent THEN 1 ELSE 0
<1>1. /\ UNCHANGED <<pc, walk, removed, gone>>
      /\ age' = [age EXCEPT ![k] = 0] /\ added' = Noted(added, n, Walkers)
  BY DEF Insert
<1>2. Present' = Present \union {k} /\ (n = 0 => k \in Present)
  BY <1>1, NatTableAssumption DEF Present, ChurnInv, TypeOK
<1>3. Rest(w)' = Rest(w) \/ (n = 1 /\ Rest(w)' = Rest(w) \union {k})
  BY <1>1, <1>2 DEF Rest, Weighs, walk
<1>4. /\ Cardinality(Rest(w)') \in Nat /\ Cardinality(Rest(w)) <= Cardinality(Rest(w)')
      /\ Cardinality(Rest(w)') <= Cardinality(Rest(w)) + n
  BY <1>3, PresentFinite, FS_AddElement
<1>5. /\ pc[w] \in Walking => added'[w] = added[w] + n
      /\ pc[w] \notin Walking => added'[w] = added[w]
  BY <1>1, NotedTally DEF ChurnInv, TypeOK
<1>6. gone[w] \in Nat
  BY DEF ChurnInv, TypeOK
<1> HIDE DEF n
<1>7. n \in Nat
  BY DEF n
<1>8. /\ gone'[w] = gone[w] + 0
      /\ Cardinality(Rest(w)) <= Cardinality(Rest(w)') + 0
  BY <1>1, <1>4, <1>6, PresentFinite
<1> QED
  BY <1>1, <1>4, <1>5, <1>7, <1>8, StayBalanced DEF walk

\* A session taken away weighs one less.
LEMMA RemoveBalanced ==
    ASSUME ChurnInv, NEW k \in Keys, Remove(k)
    PROVE  \A w \in Walkers : WalkerInv(w)'
<1> SUFFICES ASSUME NEW w \in Walkers PROVE WalkerInv(w)'
  OBVIOUS
<1>1. /\ UNCHANGED <<pc, walk, removed, added>>
      /\ age' = [age EXCEPT ![k] = Absent] /\ gone' = Noted(gone, 1, Walkers)
  BY DEF Remove
<1>2. Present' = Present \ {k}
  BY <1>1 DEF Present, ChurnInv, TypeOK
<1>3. Rest(w)' = Rest(w) \ {k}
  BY <1>1, <1>2 DEF Rest, Weighs, walk
<1>4. /\ Cardinality(Rest(w)') \in Nat /\ Cardinality(Rest(w)') <= Cardinality(Rest(w)) + 0
      /\ Cardinality(Rest(w)) <= Cardinality(Rest(w)') + 1
  <2>1. IsFiniteSet(Rest(w)) /\ Cardinality(Rest(w)) \in Nat
    BY PresentFinite
  <2>2. /\ Cardinality(Rest(w) \ {k}) \in Nat
        /\ Cardinality(Rest(w) \ {k}) <= Cardinality(Rest(w))
        /\ Cardinality(Rest(w)) <= Cardinality(Rest(w) \ {k}) + 1
    BY <2>1, OneLess
  <2> QED
    BY <1>3, <2>1, <2>2
<1>5. /\ pc[w] \in Walking => gone'[w] = gone[w] + 1
      /\ pc[w] \notin Walking => gone'[w] = gone[w]
  BY <1>1, NotedTally DEF ChurnInv, TypeOK
<1>6. added[w] \in Nat
  BY DEF ChurnInv, TypeOK
<1>7. added'[w] = added[w] + 0
  BY <1>1, <1>6
<1> QED
  BY <1>1, <1>4, <1>5, <1>7, StayBalanced DEF walk

\* The walker that counts for the first time: a shard more weighs.
LEMMA CountBeforeBalanced ==
    ASSUME ChurnInv, NEW w \in Walkers, CountBefore(w)
    PROVE  \A v \in Walkers : WalkerInv(v)'
<1> DEFINE s == InShard(shard[w])
<1>0. pc[w] = "before" /\ shard[w] \in 1 .. Shards /\ Balance(w, Cardinality(Rest(w)))
  BY DEF CountBefore, ChurnInv, TypeOK, WalkerInv, Walking
<1>1. /\ pc'[w] = (IF shard[w] = Shards THEN "retain" ELSE "before")
      /\ shard'[w] = NextShard(w) /\ before'[w] = before[w] + Cardinality(s)
      /\ UNCHANGED <<age, after, churn>>
  BY <1>0 DEF CountBefore, ChurnInv, TypeOK, Advance
<1>2. Rest(w)' = Rest(w) \union s
  BY <1>0, <1>1, NatTableAssumption DEF Rest, Weighs, InShard, NextShard, Present
<1>3. Rest(w) \cap s = {}
  BY <1>0, NatTableAssumption DEF Rest, Weighs, InShard
<1>4. Cardinality(Rest(w)') = Cardinality(Rest(w)) + Cardinality(s)
  <2>1. IsFiniteSet(Rest(w)) /\ IsFiniteSet(s)
    BY PresentFinite
  <2>2. Cardinality(Rest(w) \union s) = Cardinality(Rest(w)) + Cardinality(s)
    BY <1>3, <2>1, DisjointSizes
  <2> QED
    BY <1>2, <2>2
<1>5. Balance(w, Cardinality(Rest(w)))'
  BY <1>0, <1>1, <1>4, PresentFinite DEF Balance, ChurnInv, TypeOK, churn
<1>6. WalkerInv(w)'
  BY <1>1, <1>5 DEF WalkerInv
<1>7. \A v \in Walkers \ {w} : WalkerInv(v)'
  <2>1. \A v \in Walkers \ {w} :
          /\ pc'[v] = pc[v] /\ shard'[v] = shard[v] /\ before'[v] = before[v]
          /\ after'[v] = after[v] /\ removed'[v] = removed[v]
    BY DEF CountBefore, ChurnInv, TypeOK, Advance, churn
  <2> QED
    BY <1>1, <2>1, OthersBalanced DEF Present, churn
<1> QED
  BY <1>6, <1>7

\* The walker that counts again: a shard less weighs.
LEMMA CountAfterBalanced ==
    ASSUME ChurnInv, NEW w \in Walkers, CountAfter(w)
    PROVE  \A v \in Walkers : WalkerInv(v)'
<1> DEFINE s == InShard(shard[w])
<1>0. pc[w] = "after" /\ shard[w] \in 1 .. Shards /\ Balance(w, Cardinality(Rest(w)))
  BY DEF CountAfter, ChurnInv, TypeOK, WalkerInv, Walking
<1>1. /\ pc'[w] = (IF shard[w] = Shards THEN "subtract" ELSE "after")
      /\ shard'[w] = NextShard(w) /\ after'[w] = after[w] + Cardinality(s)
      /\ UNCHANGED <<age, before, churn>>
  BY <1>0 DEF CountAfter, ChurnInv, TypeOK, Advance
<1>2. Rest(w) = Rest(w)' \union s
  BY <1>0, <1>1, NatTableAssumption DEF Rest, Weighs, InShard, NextShard, Present
<1>3. Rest(w)' \cap s = {}
  BY <1>0, <1>1, NatTableAssumption DEF Rest, Weighs, InShard, NextShard, Present
<1>4. IsFiniteSet(Rest(w)') /\ Cardinality(Rest(w)') \in Nat
  BY <1>2, PresentFinite, FS_Subset, FS_CardinalityType
<1>5. Cardinality(Rest(w)) = Cardinality(Rest(w)') + Cardinality(s)
  <2>1. IsFiniteSet(s)
    BY PresentFinite
  <2>2. Cardinality(Rest(w)' \union s) = Cardinality(Rest(w)') + Cardinality(s)
    BY <1>3, <1>4, <2>1, DisjointSizes
  <2> QED
    BY <1>2, <2>2
<1>6. Balance(w, Cardinality(Rest(w)))'
  BY <1>0, <1>1, <1>4, <1>5, PresentFinite DEF Balance, ChurnInv, TypeOK, churn
<1>7. WalkerInv(w)'
  BY <1>0, <1>1, <1>6 DEF WalkerInv, NextShard
<1>8. \A v \in Walkers \ {w} : WalkerInv(v)'
  <2>1. \A v \in Walkers \ {w} :
          /\ pc'[v] = pc[v] /\ shard'[v] = shard[v] /\ before'[v] = before[v]
          /\ after'[v] = after[v] /\ removed'[v] = removed[v]
    BY DEF CountAfter, ChurnInv, TypeOK, Advance, churn
  <2> QED
    BY <1>1, <2>1, OthersBalanced DEF Present, churn
<1> QED
  BY <1>7, <1>8

\* What retain() takes out of a shard is removed for its own walker and gone
\* for the others.
LEMMA RetainBalanced ==
    ASSUME ChurnInv, NEW w \in Walkers, RetainShard(w)
    PROVE  \A v \in Walkers : WalkerInv(v)'
<1> DEFINE out == {k \in InShard(shard[w]) : Expired(k)}
           n == Cardinality(out)
<1>0. IsFiniteSet(out) /\ n \in Nat
  BY SessionsFinite DEF InShard, Present
<1>1. /\ pc[w] = "retain" /\ shard[w] \in 1 .. Shards
      /\ Balance(w, Cardinality(Rest(w)))
      /\ pc'[w] = (IF shard[w] = Shards THEN "after" ELSE "retain")
      /\ shard'[w] = NextShard(w) /\ removed'[w] = removed[w] + n
      /\ age' = [k \in Keys |-> IF k \in out THEN Absent ELSE age[k]]
      /\ gone' = Noted(gone, n, Walkers \ {w}) /\ UNCHANGED <<before, after, added>>
  BY DEF RetainShard, ChurnInv, TypeOK, WalkerInv, Walking, Advance
<1>2. Present' = Present \ out
  BY <1>1 DEF Present
<1> HIDE DEF out, n
<1>3. gone'[w] = gone[w]
  BY <1>0, <1>1, NotedTally DEF ChurnInv, TypeOK
<1>4. Rest(w) = Present /\ Rest(w)' = Present \ out
  BY <1>1, <1>2, NatTableAssumption DEF Rest, Weighs, NextShard, Present
<1>5. out \subseteq Present
  BY DEF out, InShard
<1>6. Cardinality(Rest(w)') = Cardinality(Rest(w)) - n /\ Cardinality(Rest(w)') \in Nat
  <2>1. Present \cap out = out
    BY <1>5
  <2> QED
    BY <1>4, <2>1, PresentFinite, FS_Difference, FS_CardinalityType DEF n
<1>7. WalkerInv(w)'
  <2>1. Balance(w, Cardinality(Rest(w)))'
    BY <1>0, <1>1, <1>3, <1>6, PresentFinite DEF Balance, ChurnInv, TypeOK
  <2> QED
    BY <1>1, <2>1 DEF WalkerInv
<1>8. ASSUME NEW v \in Walkers \ {w} PROVE WalkerInv(v)'
  <2>1. /\ pc'[v] = pc[v] /\ shard'[v] = shard[v] /\ before'[v] = before[v]
        /\ after'[v] = after[v] /\ removed'[v] = removed[v] /\ added'[v] = added[v]
    BY DEF RetainShard, ChurnInv, TypeOK, Advance
  <2>2. /\ pc[v] \in Walking => gone'[v] = gone[v] + n
        /\ pc[v] \notin Walking => gone'[v] = gone[v]
    BY <1>0, <1>1, NotedTally DEF ChurnInv, TypeOK
  <2>3. Rest(v)' = Rest(v) \ out
    BY <1>2, <2>1 DEF Rest, Weighs
  <2>4. /\ Cardinality(Rest(v)') = Cardinality(Rest(v)) - Cardinality(Rest(v) \cap out)
        /\ Cardinality(Rest(v)') \in Nat
    BY <2>3, PresentFinite, FS_Difference, FS_CardinalityType
  <2>5. Cardinality(Rest(v) \cap out) \in Nat /\ Cardinality(Rest(v) \cap out) <= n
    BY <1>0, FS_Subset, FS_CardinalityType DEF n
  <2>6. added[v] \in Nat /\ added'[v] = added[v] + 0
    BY <2>1 DEF ChurnInv, TypeOK
  <2>7. /\ Cardinality(Rest(v)') <= Cardinality(Rest(v)) + 0
        /\ Cardinality(Rest(v)) <= Cardinality(Rest(v)') + n
    BY <1>0, <2>4, <2>5, PresentFinite
  <2> QED
    BY <1>0, <2>1, <2>2, <2>4, <2>6, <2>7, StayBalanced
<1> QED
  BY <1>7, <1>8

\* The subtraction ends the walk, or the task if it underflows.
LEMMA SubtractBalanced ==
    ASSUME ChurnInv, NEW w \in Walkers, Subtract(w)
    PROVE  \A v \in Walkers : WalkerInv(v)'
<1>0. pc[w] = "subtract" /\ shard[w] = 1 /\ Balance(w, Cardinality(Rest(w)))
  BY DEF Subtract, ChurnInv, WalkerInv, Walking
<1>1. Cardinality(Rest(w)) = 0
  <2>1. Rest(w) = {}
    BY <1>0 DEF Rest, Weighs
  <2> QED
    BY <2>1, FS_EmptySet
<1>2. WalkerInv(w)'
  <2>1. CASE checked /\ before[w] < after[w]
    BY <1>0, <1>1, <2>1 DEF Subtract, WalkerInv, Balance, ChurnInv, TypeOK, walk, churn, Walking
  <2>2. CASE ~(checked /\ before[w] < after[w])
    BY <1>0, <2>2 DEF Subtract, WalkerInv, ChurnInv, TypeOK, Walking
  <2> QED
    BY <2>1, <2>2
<1>3. ASSUME NEW v \in Walkers \ {w} PROVE WalkerInv(v)'
  <2>1. /\ pc'[v] = pc[v] /\ shard'[v] = shard[v] /\ before'[v] = before[v]
        /\ after'[v] = after[v] /\ removed'[v] = removed[v] /\ added'[v] = added[v]
        /\ gone'[v] = gone[v] /\ age' = age
    BY DEF Subtract, ChurnInv, TypeOK, walk, churn
  <2>2. Rest(v)' = Rest(v)
    BY <2>1 DEF Rest, Weighs, Present
  <2> QED
    BY <2>1, <2>2, PresentFinite DEF WalkerInv, Balance, ChurnInv
<1> QED
  BY <1>2, <1>3

\* Every step keeps the shape of the state and the balance of the walkers.
LEMMA StepChurn == ChurnInv /\ [Next]_vars => ChurnInv'
<1> SUFFICES ASSUME ChurnInv, [Next]_vars PROVE ChurnInv'
  OBVIOUS
<1> USE NatTableAssumption DEF TypeOK
<1> TypeOK
  BY DEF ChurnInv
<1>1. ASSUME NEW k \in Keys, Get(k) PROVE ChurnInv'
  <2>1. TypeOK'
    BY <1>1 DEF Get, walk, churn
  <2>2. Present' = Present /\ UNCHANGED <<pc, walk, churn>>
    BY <1>1 DEF Get, Present
  <2> QED
    BY <2>1, <2>2, StillBalanced DEF ChurnInv
<1>2. ASSUME NEW k \in Keys, Insert(k) PROVE ChurnInv'
  <2>1. TypeOK'
    BY <1>2, NotedTally DEF Insert, walk
  <2> QED
    BY <1>2, <2>1, InsertBalanced DEF ChurnInv
<1>3. ASSUME NEW k \in Keys, Remove(k) PROVE ChurnInv'
  <2>1. TypeOK'
    BY <1>3, NotedTally DEF Remove, walk
  <2> QED
    BY <1>3, <2>1, RemoveBalanced DEF ChurnInv
<1>4. CASE Tick
  <2>1. /\ age' = [k \in Keys |-> IF age[k] # Absent /\ age[k] < Timeout
                                  THEN age[k] + 1 ELSE age[k]]
        /\ due' = [k \in Keys |-> IF due[k] > 0 THEN due[k] - 1 ELSE 0]
        /\ UNCHANGED <<pc, walk, handles, cancelled, checked, churn>>
    BY <1>4 DEF Tick
  <2>2. ASSUME NEW k \in Keys
        PROVE  /\ age'[k] \in 0 .. Timeout \union {Absent} /\ due'[k] \in 0 .. Timeout
               /\ age'[k] = Absent <=> age[k] = Absent
    BY <2>1
  <2>3. TypeOK'
    BY <2>1, <2>2 DEF walk, churn
  <2>4. Present' = Present
    BY <2>2 DEF Present
  <2> QED
    BY <2>1, <2>3, <2>4, StillBalanced DEF ChurnInv
<1>5. ASSUME NEW l \in Loops, StartCleanupLoop(l) PROVE ChurnInv'
  <2>1. TypeOK'
    BY <1>5 DEF StartCleanupLoop, walk, churn, Alive
  <2>2. \A v \in Walkers \ {l} : WalkerInv(v)'
    BY <1>5, OthersBalanced DEF StartCleanupLoop, walk, churn, Present, Walkers
  <2>3. WalkerInv(l)'
    BY <1>5 DEF StartCleanupLoop, walk, churn, ChurnInv, WalkerInv, Walkers, Walking
  <2> QED
    BY <2>1, <2>2, <2>3 DEF ChurnInv
<1>6. ASSUME NEW w \in Walkers, BeginCleanup(w) PROVE ChurnInv'
  <2>1. TypeOK'
    BY <1>6 DEF BeginCleanup, walk, churn, Alive, Walking
  <2>2. \A v \in Walkers \ {w} : WalkerInv(v)'
    BY <1>6, OthersBalanced DEF BeginCleanup, walk, churn, Present
  <2>3. Rest(w)' = {}
    <3>1. pc'[w] = "before" /\ shard'[w] = 1
      BY <1>6 DEF BeginCleanup, walk, ChurnInv, WalkerInv
    <3>2. \A k \in Keys : ~(ShardOf[k] < 1)
      OBVIOUS
    <3> QED
      BY <3>1, <3>2 DEF Rest, Weighs, Present
  <2>4. Cardinality(Rest(w))' = 0
    BY <2>3, FS_EmptySet
  <2>5. WalkerInv(w)'
    BY <1>6, <2>4 DEF BeginCleanup, walk, churn, ChurnInv, WalkerInv, Walking, Balance
  <2> QED
    BY <2>1, <2>2, <2>5 DEF ChurnInv
<1>7. ASSUME NEW w \in Walkers, CountBefore(w) PROVE ChurnInv'
  <2>1. Cardinality(InShard(shard[w])) \in Nat /\ NextShard(w) \in 1 .. Shards
    BY PresentFinite, ShardNext
  <2>2. TypeOK'
    BY <1>7, <2>1 DEF CountBefore, Advance, churn, Alive, Walking
  <2> QED
    BY <1>7, <2>2, CountBeforeBalanced DEF ChurnInv
<1>8. ASSUME NEW w \in Walkers, RetainShard(w) PROVE ChurnInv'
  <2> DEFINE out == {k \in InShard(shard[w]) : Expired(k)}
  <2>1. Cardinality(out) \in Nat /\ NextShard(w) \in 1 .. Shards
    BY SessionsFinite, ShardNext DEF InShard, Present
  <2>2. age' \in [Keys -> 0 .. Timeout \union {Absent}]
    BY <1>8 DEF RetainShard
  <2>3. gone' \in [Walkers -> Nat] /\ removed' \in [Walkers -> Nat]
    <3>1. /\ gone' = Noted(gone, Cardinality(out), Walkers \ {w})
          /\ removed' = [removed EXCEPT ![w] = @ + Cardinality(out)]
      BY <1>8 DEF RetainShard
    <3> HIDE DEF out
    <3> QED
      BY <2>1, <3>1, NotedTally
  <2>4. TypeOK'
    BY <1>8, <2>1, <2>2, <2>3 DEF RetainShard, Advance, Alive, Walking
  <2> QED
    BY <1>8, <2>4, RetainBalanced DEF ChurnInv
<1>9. ASSUME NEW w \in Walkers, CountAfter(w) PROVE ChurnInv'
  <2>1. Cardinality(InShard(shard[w])) \in Nat /\ NextShard(w) \in 1 .. Shards
    BY PresentFinite, ShardNext
  <2>2. TypeOK'
    BY <1>9, <2>1 DEF CountAfter, Advance, churn, Alive, Walking
  <2> QED
    BY <1>9, <2>2, CountAfterBalanced DEF ChurnInv
<1>10. ASSUME NEW w \in Walkers, Subtract(w) PROVE ChurnInv'
  <2>1. TypeOK'
    BY <1>10 DEF Subtract, walk, churn, Alive, LastArc
  <2> QED
    BY <1>10, <2>1, SubtractBalanced DEF ChurnInv
<1>11. ASSUME NEW l \in Loops, CancelSeen(l) PROVE ChurnInv'
  <2>1. TypeOK'
    BY <1>11 DEF CancelSeen, walk, churn
  <2>2. \A v \in Walkers \ {l} : WalkerInv(v)'
    BY <1>11, OthersBalanced DEF CancelSeen, walk, churn, Present, Walkers
  <2>3. WalkerInv(l)'
    BY <1>11 DEF CancelSeen, walk, churn, ChurnInv, WalkerInv, Walkers, Walking
  <2> QED
    BY <2>1, <2>2, <2>3 DEF ChurnInv
<1>12. CASE StopCleanup \/ DropHandle \/ UNCHANGED vars
  <2>1. TypeOK'
    <3>1. CASE DropHandle
      <4>1. Cardinality({c \in Callers : pc[c] \in Walking}) \in Nat
        BY FS_Subset, FS_CardinalityType
      <4>2. handles' \in 0 .. Handles
        BY <3>1, <4>1 DEF DropHandle
      <4> QED
        BY <3>1, <4>2 DEF DropHandle, walk, churn
    <3> QED
      BY <1>12, <3>1 DEF StopCleanup, vars, walk, churn
  <2>2. Present' = Present /\ UNCHANGED <<pc, walk, churn>>
    BY <1>12 DEF StopCleanup, DropHandle, vars, Present
  <2> QED
    BY <2>1, <2>2, StillBalanced DEF ChurnInv
<1> QED
  BY <1>1, <1>2, <1>3, <1>4, <1>5, <1>6, <1>7, <1>8, <1>9, <1>10, <1>11, <1>12 DEF Next

\* At first nothing is there and nobody walks.
LEMMA InitChurn == Init => ChurnInv
<1> SUFFICES ASSUME Init PROVE ChurnInv
  OBVIOUS
<1>1. TypeOK
  <2>1. /\ age \in [Keys -> 0 .. Timeout \union {Absent}]
        /\ due \in [Keys -> 0 .. Timeout]
    BY NatTableAssumption DEF Init
  <2>2. shard \in [Walkers -> 1 .. Shards] /\ handles \in 0 .. Handles
    BY NatTableAssumption DEF Init
  <2> QED
    BY <2>1, <2>2 DEF Init, TypeOK
<1>2. \A w \in Walkers : WalkerInv(w)
  BY DEF Init, WalkerInv, Walking
<1> QED
  BY <1>1, <1>2 DEF ChurnInv

\* Whatever callers and other cleanups do meanwhile, the difference cleanup()
\* computes is off by no more than their insertions and removals, and it never
\* underflows unless somebody inserted.
THEOREM CountIsWithinChurn == Spec => []CountWithinChurn
<1>1. ChurnInv => CountWithinChurn
  <2> SUFFICES ASSUME ChurnInv, NEW w \in Walkers, pc[w] \in {"subtract", "panicked"}
               PROVE  /\ before[w] + added[w] >= after[w] + removed[w]
                      /\ before[w] <= after[w] + removed[w] + gone[w]
                      /\ pc[w] = "panicked" => added[w] > 0
    BY DEF CountWithinChurn
  <2>1. CASE pc[w] = "subtract"
    <3>1. Rest(w) = {}
      BY <2>1 DEF Rest, Weighs
    <3>2. Cardinality(Rest(w)) = 0
      BY <3>1, FS_EmptySet
    <3> QED
      BY <2>1, <3>2 DEF ChurnInv, TypeOK, WalkerInv, Walking, Balance
  <2>2. CASE pc[w] = "panicked"
    BY <2>2 DEF ChurnInv, TypeOK, WalkerInv, Balance
  <2> QED
    BY <2>1, <2>2
<1> QED
  BY <1>1, InitChurn, StepChurn, PTL DEF Spec

\* The state keeps its shape.
THEOREM ShapeIsKept == Spec => []TypeOK
<1>1. ChurnInv => TypeOK
  BY DEF ChurnInv
<1> QED
  BY <1>1, InitChurn, StepChurn, PTL DEF Spec
=============================================================================
