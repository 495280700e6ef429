------------------------------ MODULE UrlTest ------------------------------
(***************************************************************************)
(* The URLTest group, redog-adapter/src/proxy_group/url_test.rs: the       *)
(* background health-check tasks, the measured delays, the index of the    *)
(* fastest proxy with its tolerance, cancellation and Drop.  Delays are    *)
(* u16; the sum in check_all is computed in u16, so it panics in a build   *)
(* with overflow checks and wraps in one without.                          *)
(***************************************************************************)
EXTENDS Naturals, Sequences, FiniteSets

CONSTANTS N,          \* number of proxies in the group
          MaxU16,     \* u16::MAX, also the delay of a failed test
          Tolerance,  \* the group's tolerance
          Delays,     \* delays a test may measure
          Tasks,      \* start_health_check calls
          Handles     \* Arcs to the group held outside the tasks at first

ASSUME UrlTestAssumption ==
    /\ N \in Nat \ {0} /\ MaxU16 \in Nat
    /\ Tolerance \in 0 .. MaxU16
    /\ Delays \subseteq 0 .. MaxU16
    /\ Handles \in Nat

VARIABLES fastest,   \* index of the chosen proxy
          delays,    \* last delay of each proxy
          task,      \* state of each health-check task
          results,   \* what its running check_all has measured so far
          handles,   \* Arcs still held outside the tasks
          cancelled, \* the cancellation token
          poisoned,  \* both locks: a holder panicked
          checked    \* the build has overflow checks

vars == <<fastest, delays, task, results, handles, cancelled, poisoned, checked>>

Proxies == 1 .. N
Alive == {"select", "testing"}

Init == /\ fastest = 1
        /\ delays = [i \in Proxies |-> MaxU16]
        /\ task = [t \in Tasks |-> "off"]
        /\ results = [t \in Tasks |-> <<>>]
        /\ handles = Handles
        /\ cancelled = FALSE
        /\ poisoned = FALSE
        /\ checked \in BOOLEAN

\* start_health_check(self: Arc<Self>): the task keeps an Arc of its own.
StartHealthCheck(t) ==
    /\ handles > 0 /\ task[t] = "off"
    /\ task' = [task EXCEPT ![t] = "select"]
    /\ UNCHANGED <<fastest, delays, results, handles, cancelled, poisoned, checked>>

\* select! takes the ticker's branch (it may, even when the token is cancelled).
Tick(t) ==
    /\ task[t] = "select"
    /\ task' = [task EXCEPT ![t] = "testing"]
    /\ UNCHANGED <<fastest, delays, results, handles, cancelled, poisoned, checked>>

\* Mutant: cancellation is looked at before the loop only.
CancelSeen_Never(t) ==
    /\ task[t] = "off" /\ cancelled
    /\ task' = [task EXCEPT ![t] = "stopped"]
    /\ UNCHANGED <<fastest, delays, results, handles, cancelled, poisoned, checked>>

\* select! takes the cancellation branch.
CancelSeen(t) ==
    /\ task[t] = "select" /\ cancelled
    /\ task' = [task EXCEPT ![t] = "stopped"]
    /\ UNCHANGED <<fastest, delays, results, handles, cancelled, poisoned, checked>>

\* Nobody but task t holds an Arc to the group: when t ends, Drop runs.
LastArc(t) == handles = 0 /\ \A u \in Tasks \ {t} : task[u] \notin Alive

\* Mutant: the loop over the proxies runs once too often.
TestDelay_Unbounded(t) ==
    /\ task[t] = "testing" /\ Len(results[t]) <= N
    /\ \E d \in Delays \union {MaxU16} :
          results' = [results EXCEPT ![t] = Append(@, d)]
    /\ UNCHANGED <<fastest, delays, task, handles, cancelled, poisoned, checked>>

\* One test_delay: connected within 5 s, or MaxU16.
TestDelay(t) ==
    /\ task[t] = "testing" /\ Len(results[t]) < N
    /\ \E d \in Delays \union {MaxU16} :
          results' = [results EXCEPT ![t] = Append(@, d)]
    /\ UNCHANGED <<fastest, delays, task, handles, cancelled, poisoned, checked>>

\* min_by_key: the first of the proxies with the least delay.
FirstMin(r) == CHOOSE i \in Proxies : \A j \in Proxies : r[i] < r[j] \/ (r[i] = r[j] /\ i <= j)

Overflows(r) == r[FirstMin(r)] + Tolerance > MaxU16

\* Mutant: a proxy that is exactly as slow as the tolerance allows is left.
Switches_OrEqual(r, current) == (r[FirstMin(r)] + Tolerance) % (MaxU16 + 1) <= r[current]

\* new_delay + tolerance < current_delay, in u16 arithmetic.
Switches(r, current) == (r[FirstMin(r)] + Tolerance) % (MaxU16 + 1) < r[current]

\* Mutant: the comparison uses the current proxy's delay of the previous round.
Update_StaleDelay(t) ==
    /\ task[t] = "testing" /\ Len(results[t]) = N /\ ~poisoned
    /\ delays' = [i \in Proxies |-> results[t][i]]
    /\ results' = [results EXCEPT ![t] = <<>>]
    /\ fastest' = IF results[t][FirstMin(results[t])] + Tolerance < delays[fastest]
                  THEN FirstMin(results[t]) ELSE fastest
    /\ task' = [task EXCEPT ![t] = "select"]
    /\ UNCHANGED <<handles, cancelled, poisoned, checked>>

\* The critical section of check_all, under both write locks.
Update(t) ==
    /\ task[t] = "testing" /\ Len(results[t]) = N /\ ~poisoned
    /\ delays' = [i \in Proxies |-> results[t][i]]
    /\ results' = [results EXCEPT ![t] = <<>>]
    /\ \/ /\ checked /\ Overflows(results[t])
          /\ poisoned' = TRUE
          /\ task' = [task EXCEPT ![t] = "panicked"]
          /\ cancelled' = (cancelled \/ LastArc(t))
          /\ UNCHANGED fastest
       \/ /\ ~(checked /\ Overflows(results[t]))
          /\ fastest' = IF Switches(results[t], fastest) THEN FirstMin(results[t])
                                                         ELSE fastest
          /\ task' = [task EXCEPT ![t] = "select"]
          /\ UNCHANGED <<poisoned, cancelled>>
    /\ UNCHANGED <<handles, checked>>

\* write().unwrap() on a poisoned lock.
UpdatePanics(t) ==
    /\ task[t] = "testing" /\ Len(results[t]) = N /\ poisoned
    /\ task' = [task EXCEPT ![t] = "panicked"]
    /\ results' = [results EXCEPT ![t] = <<>>]
    /\ cancelled' = (cancelled \/ LastArc(t))
    /\ UNCHANGED <<fastest, delays, handles, poisoned, checked>>

StopHealthCheck ==
    /\ handles > 0 /\ ~cancelled
    /\ cancelled' = TRUE
    /\ UNCHANGED <<fastest, delays, task, results, handles, poisoned, checked>>

\* An Arc outside the tasks goes away; the last of all Arcs runs Drop, which
\* cancels the token.
DropHandle ==
    /\ handles > 0
    /\ handles' = handles - 1
    /\ cancelled' = (cancelled \/ (handles = 1 /\ \A t \in Tasks : task[t] \notin Alive))
    /\ UNCHANGED <<fastest, delays, task, results, poisoned, checked>>

Next == \/ \E t \in Tasks : StartHealthCheck(t)
        \/ \E t \in Tasks : Tick(t)
        \/ \E t \in Tasks : CancelSeen(t)
        \/ \E t \in Tasks : TestDelay(t)
        \/ \E t \in Tasks : Update(t)
        \/ \E t \in Tasks : UpdatePanics(t)
        \/ StopHealthCheck
        \/ DropHandle

Spec == Init /\ [][Next]_vars

\* The runtime polls a task that can go on, and select! picks a branch that
\* stays ready sooner or later.
Fairness ==
    \A t \in Tasks : /\ WF_vars(Tick(t) \/ TestDelay(t) \/ Update(t) \/ UpdatePanics(t))
                     /\ SF_vars(CancelSeen(t))

FairSpec == Spec /\ Fairness

-----------------------------------------------------------------------------
(* Properties *)

\* Shape of the state.
TypeOK ==
    /\ fastest \in Proxies
    /\ delays \in [Proxies -> 0 .. MaxU16]
    /\ task \in [Tasks -> {"off", "stopped", "panicked"} \union Alive]
    /\ results \in [Tasks -> Seq(0 .. MaxU16)]
    /\ \A t \in Tasks : Len(results[t]) <= N
    /\ handles \in 0 .. Handles
    /\ cancelled \in BOOLEAN /\ poisoned \in BOOLEAN /\ checked \in BOOLEAN

\* The chosen proxy is within the tolerance of every proxy by the latest
\* measurements, however many checks run concurrently and whether or not the
\* sum overflows: delays and fastest are updated under one lock interval
\* (doc/code-review-fixes.md #9).
WithinTolerance == \A i \in Proxies : delays[fastest] <= delays[i] + Tolerance

\* check_all switches away from a proxy only for one that is faster by more
\* than the tolerance, as long as the sum fits into a u16.
SwitchIsJustified ==
    [][fastest' # fastest /\ delays'[fastest'] + Tolerance <= MaxU16
         => delays'[fastest'] + Tolerance < delays'[fastest]]_vars

\* Once the token is cancelled every health-check task ends.
CancelEndsTasks == cancelled ~> \A t \in Tasks : task[t] \notin Alive

\* doc/07-proxy-groups.md:83: only a proxy that is faster than the current one
\* by more than the tolerance is switched to.
SwitchOnlyIfFaster ==
    [][fastest' # fastest => delays'[fastest'] + Tolerance < delays'[fastest]]_vars
=============================================================================
