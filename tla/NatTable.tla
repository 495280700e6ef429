------------------------------ MODULE NatTable ------------------------------
(***************************************************************************)
(* The UDP NAT table, redog-component/src/nat.rs: a DashMap of sessions,   *)
(* cleanup() that walks it shard by shard while callers go on using it,    *)
(* the background loops that call it, their cancellation and Drop.         *)
(* An Instant is modelled by the session's age, counted in ticks of the    *)
(* clock up to Timeout; the wait for a shard's lock is below that grain.   *)
(***************************************************************************)
EXTENDS Naturals, FiniteSets

CONSTANTS Keys,     \* session keys
          Shards,   \* number of shards of the DashMap
          ShardOf,  \* which shard the hash puts a key into
          Timeout,  \* NatTable.timeout, in ticks
          Loops,    \* start_cleanup_loop calls
          Callers,  \* threads that call cleanup() themselves
          Handles,  \* Arcs to the table held outside the loops at first
          MaxChurn, \* bound: sessions that callers add or remove in a cleanup
          Absent    \* no session under the key

ASSUME NatTableAssumption ==
    /\ IsFiniteSet(Keys) /\ IsFiniteSet(Callers)
    /\ Shards \in Nat \ {0} /\ ShardOf \in [Keys -> 1 .. Shards]
    /\ Timeout \in Nat \ {0}
    /\ Handles \in Nat /\ MaxChurn \in Nat
    /\ Absent \notin Nat /\ Loops \cap Callers = {}

VARIABLES age,       \* time since last_active of each session, or Absent
          pc,        \* where each loop or calling thread is
          shard,     \* locals of its cleanup(): the next shard,
          before,    \*   the first len() so far,
          after,     \*   the second len() so far
          handles,   \* Arcs held outside the loops
          cancelled, \* the cancellation token
          checked,   \* the build has overflow checks
          due,       \* history: time each session is still promised
          removed,   \* history of each running cleanup: sessions it removed,
          added,     \*   sessions others added meanwhile,
          gone       \*   sessions others took away

walk == <<shard, before, after>>
churn == <<removed, added, gone>>
vars == <<age, pc, walk, handles, cancelled, checked, due, churn>>

Walkers == Loops \union Callers
Walking == {"before", "retain", "after", "subtract"}
Alive == {"select"} \union Walking
Present == {k \in Keys : age[k] # Absent}
InShard(s) == {k \in Present : ShardOf[k] = s}

Init == /\ age = [k \in Keys |-> Absent]
        /\ pc = [w \in Walkers |-> "off"]
        /\ shard = [w \in Walkers |-> 1]
        /\ before = [w \in Walkers |-> 0] /\ after = [w \in Walkers |-> 0]
        /\ handles = Handles
        /\ cancelled = FALSE
        /\ checked \in BOOLEAN
        /\ due = [k \in Keys |-> 0]
        /\ removed = [w \in Walkers |-> 0]
        /\ added = [w \in Walkers |-> 0] /\ gone = [w \in Walkers |-> 0]

\* The tallies of the cleanups in progress among ws go up by n.
Noted(tally, n, ws) ==
    [w \in Walkers |-> IF w \in ws /\ pc[w] \in Walking THEN tally[w] + n ELSE tally[w]]

RoomToNote(tally, n) == \A w \in Walkers : pc[w] \in Walking => tally[w] + n <= MaxChurn

\* Mutant: the session is returned without refreshing last_active.
Get_NoRefresh(k) ==
    /\ handles > 0 /\ age[k] # Absent
    /\ due' = [due EXCEPT ![k] = Timeout]
    /\ UNCHANGED <<age, pc, walk, handles, cancelled, checked, churn>>

\* get() that finds the session; one that does not changes nothing.
Get(k) ==
    /\ handles > 0 /\ age[k] # Absent
    /\ age' = [age EXCEPT ![k] = 0]
    /\ due' = [due EXCEPT ![k] = Timeout]
    /\ UNCHANGED <<pc, walk, handles, cancelled, checked, churn>>

\* insert(): a new session, or one in place of another.
Insert(k) ==
    LET n == IF age[k] = Absent THEN 1 ELSE 0
    IN  /\ handles > 0 /\ RoomToNote(added, n)
        /\ age' = [age EXCEPT ![k] = 0]
        /\ due' = [due EXCEPT ![k] = Timeout]
        /\ added' = Noted(added, n, Walkers)
        /\ UNCHANGED <<pc, walk, handles, cancelled, checked, removed, gone>>

Remove(k) ==
    /\ handles > 0 /\ age[k] # Absent /\ RoomToNote(gone, 1)
    /\ age' = [age EXCEPT ![k] = Absent]
    /\ due' = [due EXCEPT ![k] = 0]
    /\ gone' = Noted(gone, 1, Walkers)
    /\ UNCHANGED <<pc, walk, handles, cancelled, checked, removed, added>>

\* The clock.
Tick ==
    /\ \E k \in Present : age[k] < Timeout
    /\ age' = [k \in Keys |-> IF age[k] # Absent /\ age[k] < Timeout
                              THEN age[k] + 1 ELSE age[k]]
    /\ due' = [k \in Keys |-> IF due[k] > 0 THEN due[k] - 1 ELSE 0]
    /\ UNCHANGED <<pc, walk, handles, cancelled, checked, churn>>

\* start_cleanup_loop(self: Arc<Self>): the task keeps an Arc of its own.
StartCleanupLoop(l) ==
    /\ handles > 0 /\ pc[l] = "off"
    /\ pc' = [pc EXCEPT ![l] = "select"]
    /\ UNCHANGED <<age, walk, handles, cancelled, checked, due, churn>>

\* cleanup() begins: the ticker's branch of select!, or a call of its own.
BeginCleanup(w) ==
    /\ \/ w \in Loops /\ pc[w] = "select"
       \/ w \in Callers /\ pc[w] = "off" /\ handles > 0
    /\ pc' = [pc EXCEPT ![w] = "before"]
    /\ UNCHANGED <<age, walk, handles, cancelled, checked, due, churn>>

\* After a shard comes the next one, after the last one the next phase.
Advance(w, next) ==
    IF shard[w] = Shards THEN [pc EXCEPT ![w] = next] ELSE pc

\* Mutant: the walk runs one shard past the last.
NextShard_PastEnd(w) == shard[w] + 1

NextShard(w) == IF shard[w] = Shards THEN 1 ELSE shard[w] + 1

\* len() adds up the shards, one read lock after the other.
CountBefore(w) ==
    /\ pc[w] = "before"
    /\ pc' = Advance(w, "retain")
    /\ shard' = [shard EXCEPT ![w] = NextShard(w)]
    /\ before' = [before EXCEPT ![w] = @ + Cardinality(InShard(shard[w]))]
    /\ UNCHANGED <<age, after, handles, cancelled, checked, due, churn>>

\* Mutant: elapsed() > timeout instead of elapsed() < timeout is kept.
Expired_TooLate(k) == age[k] # Absent /\ age[k] > Timeout

\* Not last_active.elapsed() < timeout.
Expired(k) == age[k] # Absent /\ age[k] >= Timeout

\* retain() on one shard, under its write lock.
RetainShard(w) ==
    LET out == {k \in InShard(shard[w]) : Expired(k)}
        n == Cardinality(out)
    IN  /\ pc[w] = "retain"
        /\ pc' = Advance(w, "after")
        /\ shard' = [shard EXCEPT ![w] = NextShard(w)]
        /\ age' = [k \in Keys |-> IF k \in out THEN Absent ELSE age[k]]
        /\ gone' = Noted(gone, n, Walkers \ {w})
        /\ removed' = [removed EXCEPT ![w] = @ + n]
        /\ UNCHANGED <<before, after, handles, cancelled, checked, due, added>>

\* Mutant: the second len() sees only the last shard.
CountAfter_LastOnly(w) ==
    /\ pc[w] = "after"
    /\ pc' = Advance(w, "subtract")
    /\ shard' = [shard EXCEPT ![w] = NextShard(w)]
    /\ after' = [after EXCEPT ![w] = Cardinality(InShard(shard[w]))]
    /\ UNCHANGED <<age, before, handles, cancelled, checked, due, churn>>

CountAfter(w) ==
    /\ pc[w] = "after"
    /\ pc' = Advance(w, "subtract")
    /\ shard' = [shard EXCEPT ![w] = NextShard(w)]
    /\ after' = [after EXCEPT ![w] = @ + Cardinality(InShard(shard[w]))]
    /\ UNCHANGED <<age, before, handles, cancelled, checked, due, churn>>

\* Nobody but w holds an Arc to the table: when w ends, Drop runs.
LastArc(w) == handles = 0 /\ \A v \in Loops \ {w} : pc[v] \notin Alive

\* before - len in usize: a panic that ends the task, or a value nobody but
\* the log looks at.
Subtract(w) ==
    /\ pc[w] = "subtract"
    /\ \/ /\ checked /\ before[w] < after[w]
          /\ pc' = [pc EXCEPT ![w] = "panicked"]
          /\ cancelled' = (cancelled \/ LastArc(w))
          /\ UNCHANGED <<walk, churn>>
       \/ /\ ~(checked /\ before[w] < after[w])
          /\ pc' = [pc EXCEPT ![w] = IF w \in Loops THEN "select" ELSE "off"]
          /\ before' = [before EXCEPT ![w] = 0] /\ after' = [after EXCEPT ![w] = 0]
          /\ removed' = [removed EXCEPT ![w] = 0]
          /\ added' = [added EXCEPT ![w] = 0] /\ gone' = [gone EXCEPT ![w] = 0]
          /\ UNCHANGED cancelled
    /\ UNCHANGED <<age, shard, handles, checked, due>>

\* Mutant: the loop looks at the token before it starts only.
CancelSeen_Never(l) ==
    /\ pc[l] = "off" /\ cancelled
    /\ pc' = [pc EXCEPT ![l] = "stopped"]
    /\ UNCHANGED <<age, walk, handles, cancelled, checked, due, churn>>

\* select! takes the cancellation branch.
CancelSeen(l) ==
    /\ pc[l] = "select" /\ cancelled
    /\ pc' = [pc EXCEPT ![l] = "stopped"]
    /\ UNCHANGED <<age, walk, handles, cancelled, checked, due, churn>>

StopCleanup ==
    /\ handles > 0 /\ ~cancelled
    /\ cancelled' = TRUE
    /\ UNCHANGED <<age, pc, walk, handles, checked, due, churn>>

\* An Arc outside the loops goes away (a caller of cleanup keeps its own); the
\* last of all Arcs runs Drop, which cancels the token.
DropHandle ==
    /\ handles > Cardinality({c \in Callers : pc[c] \in Walking})
    /\ handles' = handles - 1
    /\ cancelled' = (cancelled \/ (handles = 1 /\ \A l \in Loops : pc[l] \notin Alive))
    /\ UNCHANGED <<age, pc, walk, checked, due, churn>>

Next == \/ \E k \in Keys : Get(k)
        \/ \E k \in Keys : Insert(k)
        \/ \E k \in Keys : Remove(k)
        \/ Tick
        \/ \E l \in Loops : StartCleanupLoop(l)
        \/ \E w \in Walkers : BeginCleanup(w)
        \/ \E w \in Walkers : CountBefore(w)
        \/ \E w \in Walkers : RetainShard(w)
        \/ \E w \in Walkers : CountAfter(w)
        \/ \E w \in Walkers : Subtract(w)
        \/ \E l \in Loops : CancelSeen(l)
        \/ StopCleanup
        \/ DropHandle

Spec == Init /\ [][Next]_vars

Step(w) == CountBefore(w) \/ RetainShard(w) \/ CountAfter(w) \/ Subtract(w)

\* A cleanup in progress goes on, the ticker fires every 30 seconds, and
\* select! picks a branch that stays ready sooner or later.
Fairness ==
    /\ \A w \in Walkers : WF_vars(Step(w))
    /\ \A l \in Loops : WF_vars(BeginCleanup(l)) /\ SF_vars(CancelSeen(l))

FairSpec == Spec /\ Fairness

-----------------------------------------------------------------------------
(* Properties *)

\* Shape of the state.
TypeOK ==
    /\ age \in [Keys -> 0 .. Timeout \union {Absent}]
    /\ pc \in [Walkers -> {"off", "stopped", "panicked"} \union Alive]
    /\ shard \in [Walkers -> 1 .. Shards]
    /\ before \in [Walkers -> Nat] /\ after \in [Walkers -> Nat]
    /\ handles \in 0 .. Handles
    /\ cancelled \in BOOLEAN /\ checked \in BOOLEAN
    /\ due \in [Keys -> 0 .. Timeout]
    /\ removed \in [Walkers -> Nat] /\ added \in [Walkers -> Nat] /\ gone \in [Walkers -> Nat]

\* A session that was handed out or stored less than the timeout ago, and that
\* nobody removed by hand, is still in the table: no interleaving of get() with
\* the loops' retain() (nat.rs:60) takes it away early.
UsedSessionsStay == \A k \in Keys : due[k] > 0 => age[k] # Absent

\* The difference cleanup() computes (nat.rs:61) is off from what it removed by
\* no more than what others added or removed meanwhile; so it underflows, and
\* a build with overflow checks loses the loop, only if somebody inserted.
CountWithinChurn ==
    \A w \in Walkers : pc[w] \in {"subtract", "panicked"} =>
        /\ before[w] + added[w] >= after[w] + removed[w]
        /\ before[w] <= after[w] + removed[w] + gone[w]
        /\ pc[w] = "panicked" => added[w] > 0

\* A session that stays idle for the timeout is removed, as long as a loop runs
\* that has not been cancelled or lost to the panic.
IdleSessionsGo ==
    \A k \in Keys : age[k] = Timeout ~>
        (age[k] # Timeout \/ cancelled \/ \A l \in Loops : pc[l] \notin Alive)

\* Once the token is cancelled (stop_cleanup, or Drop of the last Arc) every
\* cleanup loop ends.
CancelEndsLoops == cancelled ~> \A l \in Loops : pc[l] \notin Alive
=============================================================================
