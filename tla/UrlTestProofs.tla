--------------------------- MODULE UrlTestProofs ---------------------------
(***************************************************************************)
(* Proofs about UrlTest for any number of proxies and concurrent checks,   *)
(* any width of the delays and any tolerance.                              *)
(***************************************************************************)
EXTENDS UrlTest, WellFoundedInduction, TLAPS

\* A non-empty set of naturals has a least element.
LEMMA LeastNat ==
    ASSUME NEW T, T \subseteq Nat, T # {}
    PROVE  \E x \in T : \A y \in T : x <= y
<1>1. IsWellFoundedOn(OpToRel(<, Nat), Nat)
  BY NatLessThanWellFounded
<1>2. PICK x \in T : \A y \in T : ~ (<<y, x>> \in OpToRel(<, Nat))
  BY <1>1, WFMin
<1>3. \A y \in T : ~ (y < x)
  BY <1>2 DEF OpToRel
<1> QED
  BY <1>3

\* min_by_key finds a proxy with the least delay.
LEMMA FirstMinLeast ==
    ASSUME NEW r, \A i \in Proxies : r[i] \in Nat
    PROVE  FirstMin(r) \in Proxies /\ \A j \in Proxies : r[FirstMin(r)] <= r[j]
<1> DEFINE Values == {r[i] : i \in Proxies}
<1>1. Values \subseteq Nat /\ Values # {}
  BY UrlTestAssumption DEF Proxies
<1>2. PICK m \in Values : \A y \in Values : m <= y
  BY <1>1, LeastNat
<1> DEFINE At == {i \in Proxies : r[i] = m}
<1>3. At \subseteq Nat /\ At # {}
  BY <1>2, UrlTestAssumption DEF Proxies
<1>4. PICK i \in At : \A k \in At : i <= k
  BY <1>3, LeastNat
<1>5. i \in Proxies /\ r[i] = m /\ \A j \in Proxies : m <= r[j]
  BY <1>2, <1>4
<1>6. \A j \in Proxies : r[i] < r[j] \/ (r[i] = r[j] /\ i <= j)
  BY <1>4, <1>5, <1>1, UrlTestAssumption DEF Proxies
<1>7. /\ FirstMin(r) \in Proxies
      /\ \A j \in Proxies : r[FirstMin(r)] < r[j] \/ (r[FirstMin(r)] = r[j] /\ FirstMin(r) <= j)
  BY <1>5, <1>6 DEF FirstMin
<1> QED
  BY <1>7

\* Reducing to the width of a u16 makes a sum no larger.
LEMMA WrapNoLarger ==
    ASSUME NEW x \in Nat, NEW y \in Nat, y > 0
    PROVE  x % y \in Nat /\ x % y <= x
  OBVIOUS

\* The inductive invariant.
UInv == TypeOK /\ WithinTolerance

\* The critical section of check_all re-establishes WithinTolerance from any
\* results, whether the sum fits, wraps or panics.
LEMMA UpdateKeeps ==
    ASSUME UInv, NEW t \in Tasks, Update(t)
    PROVE  UInv'
<1> USE UrlTestAssumption
<1> DEFINE r == results[t]
<1> DEFINE m == FirstMin(r)
<1>1. /\ Len(r) = N /\ r \in Seq(0 .. MaxU16)
      /\ \A i \in Proxies : r[i] \in 0 .. MaxU16
  <2>1. Len(r) = N
    BY Zenon DEF Update
  <2>2. r \in Seq(0 .. MaxU16)
    BY Zenon DEF UInv, TypeOK
  <2> HIDE DEF r
  <2> QED
    BY <2>1, <2>2 DEF Proxies
<1>2. m \in Proxies /\ \A j \in Proxies : r[m] <= r[j]
  BY <1>1, FirstMinLeast
<1>3. fastest \in Proxies
  BY DEF UInv, TypeOK
<1>4. \A i \in Proxies : delays'[i] = r[i]
  BY DEF Update
<1>5. delays' \in [Proxies -> 0 .. MaxU16]
  BY <1>1 DEF Update
<1>6. fastest' \in Proxies
  BY <1>2, <1>3 DEF Update
<1>7. /\ task' \in [Tasks -> {"off", "stopped", "panicked"} \union Alive]
      /\ results' \in [Tasks -> Seq(0 .. MaxU16)]
      /\ \A u \in Tasks : Len(results'[u]) <= N
  <2>1. task' \in [Tasks -> {"off", "stopped", "panicked"} \union Alive]
    <3>1. \/ task' = [task EXCEPT ![t] = "panicked"]
          \/ task' = [task EXCEPT ![t] = "select"]
      BY DEF Update
    <3> QED
      BY <3>1 DEF UInv, TypeOK, Alive
  <2>2. results' = [results EXCEPT ![t] = <<>>]
    BY DEF Update
  <2>3. results' \in [Tasks -> Seq(0 .. MaxU16)]
    BY <2>2 DEF UInv, TypeOK
  <2>4. \A u \in Tasks : Len(results'[u]) <= N
    BY <2>2 DEF UInv, TypeOK
  <2> QED
    BY <2>1, <2>3, <2>4
<1>8. poisoned' \in BOOLEAN /\ handles' \in 0 .. Handles /\ cancelled' \in BOOLEAN
      /\ checked' \in BOOLEAN
  BY Zenon DEF UInv, TypeOK, Update
<1>9. TypeOK'
  BY <1>5, <1>6, <1>7, <1>8, Zenon DEF TypeOK
<1>10. \A i \in Proxies : r[fastest'] <= r[i] + Tolerance
  <2>1. CASE checked /\ Overflows(r)
    <3>1. r[m] + Tolerance > MaxU16 /\ fastest' = fastest
      BY <2>1 DEF Overflows, Update
    <3> HIDE DEF m, r
    <3> QED
      BY <3>1, <1>1, <1>2, <1>3
  <2>2. CASE ~(checked /\ Overflows(r)) /\ Switches(r, fastest)
    <3>1. fastest' = m
      BY <2>2 DEF Update
    <3> QED
      BY <3>1, <1>1, <1>2
  <2>3. CASE ~(checked /\ Overflows(r)) /\ ~Switches(r, fastest)
    <3>1. fastest' = fastest
      BY <2>3 DEF Update
    <3>2. ~((r[m] + Tolerance) % (MaxU16 + 1) < r[fastest])
      BY <2>3 DEF Switches
    <3>a. r[m] + Tolerance \in Nat /\ MaxU16 + 1 \in Nat /\ MaxU16 + 1 > 0
      BY <1>1, <1>2
    <3>3. /\ (r[m] + Tolerance) % (MaxU16 + 1) \in Nat
          /\ (r[m] + Tolerance) % (MaxU16 + 1) <= r[m] + Tolerance
      BY <3>a, WrapNoLarger
    <3>4. r[fastest] <= r[m] + Tolerance
      BY <3>2, <3>3, <1>1, <1>2, <1>3
    <3> HIDE DEF m, r
    <3> QED
      BY <3>1, <3>4, <1>1, <1>2, <1>3
  <2> QED
    BY <2>1, <2>2, <2>3
<1>11. WithinTolerance'
  BY <1>4, <1>6, <1>10 DEF WithinTolerance
<1> QED
  BY <1>9, <1>11 DEF UInv

\* Every other step leaves delays and fastest alone.
LEMMA StepKeeps == UInv /\ [Next]_vars => UInv'
<1> SUFFICES ASSUME UInv, [Next]_vars PROVE UInv'
  OBVIOUS
<1> USE UrlTestAssumption
<1>1. ASSUME NEW t \in Tasks, StartHealthCheck(t) \/ Tick(t) \/ CancelSeen(t) PROVE UInv'
  <2>1. TypeOK'
    BY <1>1 DEF UInv, TypeOK, StartHealthCheck, Tick, CancelSeen, Alive
  <2>2. WithinTolerance'
    BY <1>1 DEF UInv, WithinTolerance, StartHealthCheck, Tick, CancelSeen
  <2> QED
    BY <2>1, <2>2 DEF UInv
<1>2. ASSUME NEW t \in Tasks, TestDelay(t) PROVE UInv'
  <2>0. PICK d \in Delays \union {MaxU16} : results' = [results EXCEPT ![t] = Append(@, d)]
    BY <1>2 DEF TestDelay
  <2>1. d \in 0 .. MaxU16
    OBVIOUS
  <2>2. /\ results' \in [Tasks -> Seq(0 .. MaxU16)]
        /\ \A u \in Tasks : Len(results'[u]) <= N
    BY <2>0, <2>1, <1>2 DEF UInv, TypeOK, TestDelay
  <2>3. TypeOK'
    BY <1>2, <2>2 DEF UInv, TypeOK, TestDelay
  <2>4. WithinTolerance'
    BY <1>2 DEF UInv, WithinTolerance, TestDelay
  <2> QED
    BY <2>3, <2>4 DEF UInv
<1>3. ASSUME NEW t \in Tasks, UpdatePanics(t) PROVE UInv'
  <2>1. TypeOK'
    <3>1. cancelled' \in BOOLEAN
      BY <1>3, Zenon DEF UInv, TypeOK, UpdatePanics
    <3> QED
      BY <1>3, <3>1 DEF UInv, TypeOK, UpdatePanics, Alive
  <2>2. WithinTolerance'
    BY <1>3 DEF UInv, WithinTolerance, UpdatePanics
  <2> QED
    BY <2>1, <2>2 DEF UInv
<1>4. ASSUME StopHealthCheck \/ DropHandle PROVE UInv'
  <2>1. cancelled' \in BOOLEAN
    BY <1>4, Zenon DEF UInv, TypeOK, StopHealthCheck, DropHandle
  <2>2. handles' \in 0 .. Handles
    BY <1>4 DEF UInv, TypeOK, StopHealthCheck, DropHandle
  <2>3. UNCHANGED <<fastest, delays, task, results, poisoned, checked>>
    BY <1>4 DEF StopHealthCheck, DropHandle
  <2>4. TypeOK'
    BY <2>1, <2>2, <2>3 DEF UInv, TypeOK
  <2>5. WithinTolerance'
    BY <2>3 DEF UInv, WithinTolerance
  <2> QED
    BY <2>4, <2>5 DEF UInv
<1>5. CASE UNCHANGED vars
  BY <1>5 DEF vars, UInv, TypeOK, WithinTolerance
<1> QED
  BY <1>1, <1>2, <1>3, <1>4, <1>5, UpdateKeeps DEF Next

\* At the start every proxy has the delay of a failed test.
LEMMA InitKeeps == Init => UInv
<1> SUFFICES ASSUME Init PROVE TypeOK /\ WithinTolerance
  BY DEF UInv
<1> USE UrlTestAssumption
<1>1. cancelled \in BOOLEAN /\ poisoned \in BOOLEAN /\ checked \in BOOLEAN
  BY Zenon DEF Init
<1>2. TypeOK
  BY <1>1 DEF Init, TypeOK, Proxies, Alive
<1>3. WithinTolerance
  BY DEF Init, WithinTolerance, Proxies
<1> QED
  BY <1>2, <1>3

\* The proxy that connections are sent through is always within the tolerance
\* of the best of the latest measurements.
THEOREM ChosenIsWithinTolerance == Spec => []WithinTolerance
<1>1. UInv => WithinTolerance
  BY DEF UInv
<1> QED
  BY <1>1, InitKeeps, StepKeeps, PTL DEF Spec

\* The index, the delays and the results of every round keep their shape: no
\* index or measurement leaves its range, whatever task publishes when.
THEOREM ShapeIsKept == Spec => []TypeOK
<1>1. UInv => TypeOK
  BY DEF UInv
<1> QED
  BY <1>1, InitKeeps, StepKeeps, PTL DEF Spec

\* What SwitchIsJustified says of one step.
Justified == fastest' # fastest /\ delays'[fastest'] + Tolerance <= MaxU16
                => delays'[fastest'] + Tolerance < delays'[fastest]

\* Only the critical section moves the index, and a sum that fits is compared
\* unreduced.
LEMMA StepJustified == UInv /\ [Next]_vars => [Justified]_vars
<1> SUFFICES ASSUME UInv, [Next]_vars, fastest' # fastest,
                    delays'[fastest'] + Tolerance <= MaxU16
             PROVE  delays'[fastest'] + Tolerance < delays'[fastest]
  BY DEF Justified
<1> USE UrlTestAssumption
<1>1. PICK t \in Tasks : Update(t)
  BY DEF Next, vars, StartHealthCheck, Tick, CancelSeen, TestDelay, UpdatePanics,
         StopHealthCheck, DropHandle
<1> DEFINE r == results[t]
<1> DEFINE m == FirstMin(r)
<1>2. Len(r) = N /\ \A i \in Proxies : r[i] \in 0 .. MaxU16
  <2>1. Len(r) = N
    BY <1>1, Zenon DEF Update
  <2>2. r \in Seq(0 .. MaxU16)
    BY Zenon DEF UInv, TypeOK
  <2> HIDE DEF r
  <2> QED
    BY <2>1, <2>2 DEF Proxies
<1>3. m \in Proxies /\ fastest \in Proxies
  BY <1>2, FirstMinLeast DEF UInv, TypeOK
<1>4. \A i \in Proxies : delays'[i] = r[i]
  BY <1>1 DEF Update
<1>5. fastest' = m /\ Switches(r, fastest)
  BY <1>1, Zenon DEF Update
<1>6. (r[m] + Tolerance) % (MaxU16 + 1) < r[fastest]
  BY <1>5 DEF Switches
<1> HIDE DEF m, r
<1>7. r[m] + Tolerance \in 0 .. MaxU16 /\ r[m] \in Nat
  BY <1>2, <1>3, <1>4, <1>5
<1>8. \A x \in 0 .. MaxU16 : x % (MaxU16 + 1) = x
  OBVIOUS
<1>9. (r[m] + Tolerance) % (MaxU16 + 1) = r[m] + Tolerance
  BY <1>7, <1>8
<1> QED
  BY <1>3, <1>4, <1>5, <1>6, <1>9

\* The group leaves a proxy only for one that is faster by more than the
\* tolerance, whenever the sum of check_all fits into a u16.
THEOREM SwitchesAreJustified == Spec => SwitchIsJustified
<1>1. Spec => [][Justified]_vars
  BY InitKeeps, StepKeeps, StepJustified, PTL DEF Spec
<1> QED
  BY <1>1 DEF SwitchIsJustified, Justified
=============================================================================
