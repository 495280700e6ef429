--------------------------- MODULE DispatchProofs ---------------------------
(***************************************************************************)
(* Proofs about Dispatch for any number of listeners, connections, channel *)
(* slots, permits and retries.                                             *)
(***************************************************************************)
EXTENDS Dispatch, FiniteSetTheorems, SequenceTheorems, TLAPS

\* The set of connections in a given state is finite, so it can be counted.
LEMMA InStateFinite ==
    ASSUME NEW s
    PROVE  IsFiniteSet(InState(s)) /\ Cardinality(InState(s)) \in Nat
<1>1. IsFiniteSet(Conns)
  BY DispatchAssumption
<1>2. IsFiniteSet(InState(s))
  BY <1>1, FS_Subset DEF InState
<1> QED
  BY <1>2, FS_CardinalityType

\* The initial state: empty channel, all permits free, nothing accepted.
LEMMA InitIInv == Init => IInv
<1> SUFFICES ASSUME Init PROVE IInv
  OBVIOUS
<1> USE DispatchAssumption DEF Init
<1>1. TypeOK
  BY DEF TypeOK, ListenerState, ConnState
<1>2. PermitAccounting
  <2>1. InState("running") = {}
    BY DEF InState
  <2>2. Cardinality(InState("running")) = 0
    BY <2>1, FS_EmptySet
  <2> QED
    BY <2>2 DEF PermitAccounting
<1>3. ChannelAccounting
  BY DEF ChannelAccounting, InState
<1>4. RetryBudget /\ ExitIsClean
  BY DEF RetryBudget, ExitIsClean
<1> QED
  BY <1>1, <1>2, <1>3, <1>4 DEF IInv

\* One more handler takes one permit, one handler less gives it back.
LEMMA CountRunning ==
    ASSUME NEW c \in Conns
    PROVE  /\ c \notin InState("running") /\ InState("running")' = InState("running") \union {c}
                => Cardinality(InState("running")') = Cardinality(InState("running")) + 1
           /\ c \in InState("running") /\ InState("running")' = InState("running") \ {c}
                => Cardinality(InState("running")') = Cardinality(InState("running")) - 1
<1>1. IsFiniteSet(InState("running"))
  BY InStateFinite
<1> QED
  BY <1>1, FS_AddElement, FS_RemoveElement

\* Every step of every task preserves the invariant.
LEMMA NextIInv == IInv /\ [Next]_vars => IInv'
<1> SUFFICES ASSUME IInv, [Next]_vars PROVE IInv'
  OBVIOUS
<1> USE DispatchAssumption DEF IInv
<1>1. ASSUME NEW l \in Listeners, Bind(l) PROVE IInv'
  <2> USE <1>1 DEF Bind
  <2>1. TypeOK'
    BY DEF TypeOK, ListenerState, ConnState
  <2>2. PermitAccounting'
    <3>1. InState("running")' = InState("running")
      BY DEF InState, TypeOK
    <3> QED
      BY <3>1 DEF PermitAccounting
  <2>3. ChannelAccounting'
    BY DEF TypeOK, ChannelAccounting, InState, ConnState
  <2>4. RetryBudget'
    BY DEF TypeOK, RetryBudget
  <2>5. ExitIsClean'
    BY DEF TypeOK, ExitIsClean, Senders, InState, ConnState, ListenerState
  <2> QED
    BY <2>1, <2>2, <2>3, <2>4, <2>5
<1>2. ASSUME NEW l \in Listeners, ListenerFails(l) PROVE IInv'
  <2> USE <1>2 DEF ListenerFails
  <2>1. TypeOK'
    BY DEF TypeOK, ListenerState, ConnState, RetryBudget
  <2>2. PermitAccounting'
    <3>1. InState("running")' = InState("running")
      BY DEF InState, TypeOK
    <3> QED
      BY <3>1 DEF PermitAccounting
  <2>3. ChannelAccounting'
    BY DEF TypeOK, ChannelAccounting, InState, ConnState
  <2>4. RetryBudget'
    BY DEF TypeOK, RetryBudget
  <2>5. ExitIsClean'
    BY DEF TypeOK, ExitIsClean, Senders, InState, ConnState, ListenerState
  <2> QED
    BY <2>1, <2>2, <2>3, <2>4, <2>5
<1>3. ASSUME NEW l \in Listeners, BackoffElapsed(l) PROVE IInv'
  <2> USE <1>3 DEF BackoffElapsed
  <2>1. TypeOK'
    BY DEF TypeOK, ListenerState, ConnState
  <2>2. PermitAccounting'
    <3>1. InState("running")' = InState("running")
      BY DEF InState, TypeOK
    <3> QED
      BY <3>1 DEF PermitAccounting
  <2>3. ChannelAccounting'
    BY DEF TypeOK, ChannelAccounting, InState, ConnState
  <2>4. RetryBudget'
    BY DEF TypeOK, RetryBudget
  <2>5. ExitIsClean'
    BY DEF TypeOK, ExitIsClean, Senders, InState, ConnState, ListenerState
  <2> QED
    BY <2>1, <2>2, <2>3, <2>4, <2>5
<1>4. ASSUME NEW l \in Listeners, NEW c \in Conns, Accept(l, c) PROVE IInv'
  <2> USE <1>4 DEF Accept
  <2>1. TypeOK'
    BY DEF TypeOK, ListenerState, ConnState
  <2>2. PermitAccounting'
    <3>1. InState("running")' = InState("running")
      BY DEF InState, TypeOK
    <3> QED
      BY <3>1 DEF PermitAccounting
  <2>3. ChannelAccounting'
    BY DEF TypeOK, ChannelAccounting, InState, ConnState
  <2>4. RetryBudget'
    BY DEF TypeOK, RetryBudget
  <2>5. ExitIsClean'
    BY DEF TypeOK, ExitIsClean, Senders, InState, ConnState, ListenerState
  <2> QED
    BY <2>1, <2>2, <2>3, <2>4, <2>5
<1>5. ASSUME NEW c \in Conns, HandshakeOk(c) PROVE IInv'
  <2> USE <1>5 DEF HandshakeOk
  <2>1. TypeOK'
    BY DEF TypeOK, ListenerState, ConnState
  <2>2. PermitAccounting'
    <3>1. InState("running")' = InState("running")
      BY DEF InState, TypeOK
    <3> QED
      BY <3>1 DEF PermitAccounting
  <2>3. ChannelAccounting'
    BY DEF TypeOK, ChannelAccounting, InState, ConnState
  <2>4. RetryBudget'
    BY DEF TypeOK, RetryBudget
  <2>5. ExitIsClean'
    BY DEF TypeOK, ExitIsClean, Senders, InState, ConnState, ListenerState
  <2> QED
    BY <2>1, <2>2, <2>3, <2>4, <2>5
<1>6. ASSUME NEW c \in Conns, HandshakeFails(c) PROVE IInv'
  <2> USE <1>6 DEF HandshakeFails
  <2>1. TypeOK'
    BY DEF TypeOK, ListenerState, ConnState
  <2>2. PermitAccounting'
    <3>1. InState("running")' = InState("running")
      BY DEF InState, TypeOK
    <3> QED
      BY <3>1 DEF PermitAccounting
  <2>3. ChannelAccounting'
    BY DEF TypeOK, ChannelAccounting, InState, ConnState
  <2>4. RetryBudget'
    BY DEF TypeOK, RetryBudget
  <2>5. ExitIsClean'
    BY DEF TypeOK, ExitIsClean, Senders, InState, ConnState, ListenerState
  <2> QED
    BY <2>1, <2>2, <2>3, <2>4, <2>5
<1>7. ASSUME NEW c \in Conns, Send(c) PROVE IInv'
  <2> USE <1>7 DEF Send
  <2>1. TypeOK'
    BY DEF TypeOK, ListenerState, ConnState
  <2>2. PermitAccounting'
    <3>1. InState("running")' = InState("running")
      BY DEF InState, TypeOK
    <3> QED
      BY <3>1 DEF PermitAccounting
  <2>3. ChannelAccounting'
    BY DEF TypeOK, ChannelAccounting, InState, ConnState
  <2>4. RetryBudget'
    BY DEF TypeOK, RetryBudget
  <2>5. ExitIsClean'
    BY DEF TypeOK, ExitIsClean, Senders, InState, ConnState, ListenerState
  <2> QED
    BY <2>1, <2>2, <2>3, <2>4, <2>5
<1>8. ASSUME NEW c \in Conns, HandlerEnds(c) PROVE IInv'
  <2> USE <1>8 DEF HandlerEnds
  <2>1. TypeOK'
    <3>0. c \in InState("running") /\ IsFiniteSet(InState("running"))
      BY InStateFinite DEF InState
    <3>1. Cardinality(InState("running")) # 0
      BY <3>0, FS_EmptySet
    <3>2. permits + 1 \in 0 .. MaxConcurrent
      BY <3>1, InStateFinite DEF PermitAccounting, TypeOK
    <3> QED
      BY <3>2 DEF TypeOK, ConnState
  <2>2. PermitAccounting'
    <3>1. c \in InState("running") /\ InState("running")' = InState("running") \ {c}
      BY DEF InState, TypeOK, ConnState
    <3> QED
      BY <3>1, CountRunning, InStateFinite DEF PermitAccounting, TypeOK
  <2>3. ChannelAccounting'
    BY DEF TypeOK, ChannelAccounting, InState, ConnState
  <2>4. RetryBudget'
    BY DEF TypeOK, RetryBudget
  <2>5. ExitIsClean'
    BY DEF TypeOK, ExitIsClean, Senders, InState, ConnState, ListenerState
  <2> QED
    BY <2>1, <2>2, <2>3, <2>4, <2>5
<1>9. ASSUME Recv PROVE IInv'
  <2> USE <1>9 DEF Recv
  <2>0. Head(chan) \in Conns /\ conn[Head(chan)] = "queued" /\ InState("held") = {}
    BY DEF TypeOK, ChannelAccounting, InState
  <2>1. TypeOK'
    BY DEF TypeOK, ListenerState, ConnState
  <2>2. PermitAccounting'
    <3>1. InState("running")' = InState("running")
      BY <2>0 DEF InState, TypeOK
    <3> QED
      BY <3>1 DEF PermitAccounting
  <2>3. ChannelAccounting'
    <3>1. /\ Len(chan') = Len(chan) - 1
          /\ \A i \in 1 .. Len(chan') : chan'[i] = chan[i + 1]
      BY DEF TypeOK
    <3>2. /\ Len(chan') <= Capacity
          /\ \A i, j \in 1 .. Len(chan') : chan'[i] = chan'[j] => i = j
      BY <3>1 DEF TypeOK, ChannelAccounting
    <3>3. ASSUME NEW c \in Conns
          PROVE  conn'[c] = "queued" <=> \E i \in 1 .. Len(chan') : chan'[i] = c
      <4>1. CASE c = Head(chan)
        <5>1. ~ \E i \in 1 .. Len(chan') : chan'[i] = c
          BY <3>1, <4>1 DEF TypeOK, ChannelAccounting
        <5> QED
          BY <4>1, <5>1, <2>0 DEF TypeOK
      <4>2. CASE c # Head(chan)
        <5>1. ASSUME NEW i \in 1 .. Len(chan), chan[i] = c
              PROVE  i - 1 \in 1 .. Len(chan') /\ chan'[i - 1] = c
          BY <5>1, <4>2, <3>1 DEF TypeOK
        <5>2. ASSUME NEW i \in 1 .. Len(chan'), chan'[i] = c
              PROVE  i + 1 \in 1 .. Len(chan) /\ chan[i + 1] = c
          BY <5>2, <3>1 DEF TypeOK
        <5>3. conn'[c] = conn[c]
          BY <4>2 DEF TypeOK
        <5>4. conn[c] = "queued" <=> \E i \in 1 .. Len(chan) : chan[i] = c
          BY DEF ChannelAccounting
        <5> QED
          BY <5>1, <5>2, <5>3, <5>4
      <4> QED
        BY <4>1, <4>2
    <3>4. InState("held")' = {Head(chan)}
      BY <2>0 DEF InState, TypeOK
    <3> QED
      BY <3>2, <3>3, <3>4 DEF ChannelAccounting
  <2>4. RetryBudget'
    BY DEF TypeOK, RetryBudget
  <2>5. ExitIsClean'
    BY DEF TypeOK, ExitIsClean, Senders, InState, ConnState, ListenerState
  <2> QED
    BY <2>1, <2>2, <2>3, <2>4, <2>5
<1>10. ASSUME Acquire PROVE IInv'
  <2> USE <1>10 DEF Acquire
  <2>1. TypeOK'
    BY DEF TypeOK, ListenerState, ConnState
  <2>2. PermitAccounting'
    <3>1. PICK c \in Conns : c \in InState("held")
      BY DEF ChannelAccounting, InState
    <3>2. c \notin InState("running") /\ InState("running")' = InState("running") \union {c}
      BY <3>1 DEF InState, TypeOK, ChannelAccounting
    <3> QED
      BY <3>2, CountRunning, InStateFinite DEF PermitAccounting, TypeOK
  <2>3. ChannelAccounting'
    BY DEF TypeOK, ChannelAccounting, InState, ConnState
  <2>4. RetryBudget'
    BY DEF TypeOK, RetryBudget
  <2>5. ExitIsClean'
    BY DEF TypeOK, ExitIsClean, Senders, InState, ConnState, ListenerState
  <2> QED
    BY <2>1, <2>2, <2>3, <2>4, <2>5
<1>11. ASSUME RecvClosed PROVE IInv'
  <2> USE <1>11 DEF RecvClosed
  <2>1. TypeOK'
    BY DEF TypeOK, ListenerState, ConnState
  <2>2. PermitAccounting'
    <3>1. InState("running")' = {}
      BY DEF InState
    <3>2. Cardinality(InState("running")') = 0
      BY <3>1, FS_EmptySet
    <3> QED
      BY <3>2 DEF PermitAccounting
  <2>3. ChannelAccounting'
    BY DEF TypeOK, ChannelAccounting, InState, ConnState
  <2>4. RetryBudget'
    BY DEF TypeOK, RetryBudget
  <2>5. ExitIsClean'
    BY DEF TypeOK, ExitIsClean, Senders, InState, ConnState, ListenerState
  <2> QED
    BY <2>1, <2>2, <2>3, <2>4, <2>5
<1>12. CASE UNCHANGED vars
  BY <1>12 DEF vars, TypeOK, PermitAccounting, ChannelAccounting, RetryBudget,
               ExitIsClean, InState, Senders
<1> QED
  BY <1>1, <1>2, <1>3, <1>4, <1>5, <1>6, <1>7, <1>8, <1>9, <1>10, <1>11, <1>12
     DEF Next, Exited

\* The state has its shape in every reachable state.
THEOREM TypeCorrect == Spec => []TypeOK
<1>1. IInv => TypeOK
  BY DEF IInv
<1> QED
  BY <1>1, InitIInv, NextIInv, PTL DEF Spec

\* Back-pressure holds for every number of connections: a permit is free or
\* belongs to exactly one running handler.
THEOREM PermitsNeverLeak == Spec => []PermitAccounting
<1>1. IInv => PermitAccounting
  BY DEF IInv
<1> QED
  BY <1>1, InitIInv, NextIInv, PTL DEF Spec

\* The channel's buffer and main's hand hold every received connection once.
THEOREM ChannelNeverLoses == Spec => []ChannelAccounting
<1>1. IInv => ChannelAccounting
  BY DEF IInv
<1> QED
  BY <1>1, InitIInv, NextIInv, PTL DEF Spec

\* main returns only when every listener gave up and no connection is between
\* accept and its handler.
THEOREM ExitIsSafe == Spec => []ExitLosesNoParsedConnection
<1>1. IInv => ExitLosesNoParsedConnection
  <2> SUFFICES ASSUME IInv, main = "exited"
               PROVE  /\ \A l \in Listeners : lst[l] = "stopped" /\ retries[l] = MaxRetries + 1
                      /\ \A c \in Conns : conn[c] \in {"new", "closed", "dropped", "aborted"}
    BY DEF ExitLosesNoParsedConnection
  <2>1. \A l \in Listeners : lst[l] = "stopped" /\ retries[l] = MaxRetries + 1
    BY DEF IInv, ExitIsClean, Senders, RetryBudget
  <2>2. ASSUME NEW c \in Conns
        PROVE  conn[c] \notin {"handshake", "sending", "queued", "held", "running"}
    BY DEF IInv, ExitIsClean, Senders, ChannelAccounting, InState
  <2> QED
    BY <2>1, <2>2 DEF IInv, TypeOK, ConnState
<1> QED
  BY <1>1, InitIInv, NextIInv, PTL DEF Spec

-----------------------------------------------------------------------------
(* Dispatch implements Admission *)

\* Putting one connection in front of a queue and taking it off again.
LEMMA FrontOfQueue ==
    ASSUME NEW S, NEW q \in Seq(S), NEW h \in S, NEW c \in S
    PROVE  /\ <<h>> \o q # <<>>
           /\ Head(<<h>> \o q) = h
           /\ Tail(<<h>> \o q) = q
           /\ <<h>> \o Append(q, c) = Append(<<h>> \o q, c)
           /\ q # <<>> => <<Head(q)>> \o Tail(q) = q
  OBVIOUS

\* The connection main holds is the one the refinement mapping chooses.
LEMMA ChooseHeld ==
    ASSUME NEW f, NEW h \in Conns, \A c \in Conns : f[c] = "held" <=> c = h
    PROVE  (CHOOSE c \in Conns : f[c] = "held") = h
  OBVIOUS

\* Nothing is offered, waiting or active at the start.
LEMMA InitAdmission == Init => Adm!AInit
  BY DEF Init, Adm!AInit, InState, HeldThenQueued

\* Every step is a step of Admission or changes nothing it sees.
LEMMA StepAdmission == IInv /\ [Next]_vars => [Adm!ANext]_(Adm!avars)
<1> SUFFICES ASSUME IInv, [Next]_vars PROVE [Adm!ANext]_(Adm!avars)
  OBVIOUS
<1> USE DispatchAssumption
<1> DEFINE Off(f) == {c \in Conns : f[c] \in {"queued", "held", "running", "closed", "aborted"}}
<1>0. /\ chan \in Seq(Conns) /\ conn \in [Conns -> ConnState]
      /\ main = "acquire" => \E h \in Conns : \A c \in Conns : conn[c] = "held" <=> c = h
      /\ main # "acquire" => \A c \in Conns : conn[c] # "held"
  BY DEF IInv, TypeOK, ChannelAccounting, InState
\* A step that moves no connection into, within or out of the pipeline.
<1>1. ASSUME main' = main, chan' = chan,
             \A c \in Conns : conn'[c] # conn[c] =>
                 /\ conn[c] \in {"new", "handshake"}
                 /\ conn'[c] \in {"handshake", "sending", "dropped"}
      PROVE  UNCHANGED Adm!avars
  <2>1. \A c \in Conns : conn'[c] = "held" <=> conn[c] = "held"
    BY <1>1
  <2>2. HeldThenQueued' = HeldThenQueued
    <3>1. CASE main = "acquire"
      <4>1. PICK h \in Conns : \A c \in Conns : conn[c] = "held" <=> c = h
        BY <1>0, <3>1
      <4>2. \A c \in Conns : conn'[c] = "held" <=> c = h
        BY <2>1, <4>1
      <4>3. /\ (CHOOSE c \in Conns : conn[c] = "held") = h
            /\ (CHOOSE c \in Conns : conn'[c] = "held") = h
        BY <4>1, <4>2, ChooseHeld
      <4>4. HeldThenQueued = <<h>> \o chan
        BY <3>1, <4>3 DEF HeldThenQueued
      <4>5. HeldThenQueued' = <<h>> \o chan
        BY <1>1, <3>1, <4>3 DEF HeldThenQueued
      <4> QED
        BY <4>4, <4>5
    <3>2. CASE main # "acquire"
      BY <1>1, <3>2 DEF HeldThenQueued
    <3> QED
      BY <3>1, <3>2
  <2>3. InState("running")' = InState("running") /\ Off(conn') = Off(conn)
    BY <1>1 DEF InState
  <2> QED
    BY <1>1, <2>2, <2>3 DEF Adm!avars
<1>2. ASSUME NEW l \in Listeners, Bind(l) \/ ListenerFails(l) \/ BackoffElapsed(l)
      PROVE  UNCHANGED Adm!avars
  BY <1>1, <1>2 DEF Bind, ListenerFails, BackoffElapsed
<1>3. ASSUME NEW c \in Conns,
             (\E l \in Listeners : Accept(l, c)) \/ HandshakeOk(c) \/ HandshakeFails(c)
      PROVE  UNCHANGED Adm!avars
  BY <1>0, <1>1, <1>3 DEF Accept, HandshakeOk, HandshakeFails
<1>4. ASSUME NEW c \in Conns, Send(c) PROVE Adm!Offer(c)
  <2> USE <1>4 DEF Send
  <2>1. main # "exited"
    BY DEF IInv, ExitIsClean, Senders
  <2>2. c \notin Off(conn) /\ Off(conn') = Off(conn) \union {c}
    BY <1>0
  <2>3. InState("running")' = InState("running")
    BY <1>0 DEF InState
  <2>4. HeldThenQueued' = Append(HeldThenQueued, c)
    <3>1. CASE main = "acquire"
      <4>1. PICK h \in Conns : \A d \in Conns : conn[d] = "held" <=> d = h
        BY <1>0, <3>1
      <4>2. \A d \in Conns : conn'[d] = "held" <=> d = h
        BY <1>0, <4>1
      <4>3. /\ (CHOOSE d \in Conns : conn[d] = "held") = h
            /\ (CHOOSE d \in Conns : conn'[d] = "held") = h
        BY <4>1, <4>2, ChooseHeld
      <4>4. <<h>> \o Append(chan, c) = Append(<<h>> \o chan, c)
        BY <1>0, FrontOfQueue
      <4> QED
        BY <3>1, <4>3, <4>4 DEF HeldThenQueued
    <3>2. CASE main # "acquire"
      BY <3>2 DEF HeldThenQueued
    <3> QED
      BY <3>1, <3>2
  <2> QED
    BY <2>1, <2>2, <2>3, <2>4 DEF Adm!Offer
<1>5. ASSUME NEW c \in Conns, HandlerEnds(c) PROVE Adm!Finish(c)
  <2> USE <1>5 DEF HandlerEnds
  <2>1. c \in InState("running") /\ InState("running")' = InState("running") \ {c}
    BY <1>0 DEF InState
  <2>2. Off(conn') = Off(conn)
    BY <1>0
  <2>3. HeldThenQueued' = HeldThenQueued
    <3>1. CASE main = "acquire"
      <4>1. PICK h \in Conns : \A d \in Conns : conn[d] = "held" <=> d = h
        BY <1>0, <3>1
      <4>2. \A d \in Conns : conn'[d] = "held" <=> d = h
        BY <1>0, <4>1
      <4>3. /\ (CHOOSE d \in Conns : conn[d] = "held") = h
            /\ (CHOOSE d \in Conns : conn'[d] = "held") = h
        BY <4>1, <4>2, ChooseHeld
      <4>4. HeldThenQueued = <<h>> \o chan
        BY <3>1, <4>3 DEF HeldThenQueued
      <4>5. HeldThenQueued' = <<h>> \o chan
        BY <3>1, <4>3 DEF HeldThenQueued
      <4> QED
        BY <4>4, <4>5
    <3>2. CASE main # "acquire"
      BY <3>2 DEF HeldThenQueued
    <3> QED
      BY <3>1, <3>2
  <2> QED
    BY <2>1, <2>2, <2>3 DEF Adm!Finish
<1>6. ASSUME Recv PROVE UNCHANGED Adm!avars
  <2> USE <1>6 DEF Recv
  <2>1. Head(chan) \in Conns /\ conn[Head(chan)] = "queued"
    BY DEF IInv, TypeOK, ChannelAccounting
  <2>2. InState("running")' = InState("running") /\ Off(conn') = Off(conn)
    BY <1>0, <2>1 DEF InState
  <2>3. \A d \in Conns : conn'[d] = "held" <=> d = Head(chan)
    BY <1>0, <2>1
  <2>4. (CHOOSE d \in Conns : conn'[d] = "held") = Head(chan)
    BY <2>1, <2>3, ChooseHeld
  <2>5. <<Head(chan)>> \o Tail(chan) = chan
    BY <1>0, <2>1, FrontOfQueue
  <2>6. HeldThenQueued' = HeldThenQueued
    BY <2>4, <2>5 DEF HeldThenQueued
  <2> QED
    BY <2>2, <2>6 DEF Adm!avars
<1>7. ASSUME Acquire PROVE Adm!Admit
  <2> USE <1>7 DEF Acquire
  <2>1. PICK h \in Conns : \A c \in Conns : conn[c] = "held" <=> c = h
    BY <1>0
  <2>2. (CHOOSE d \in Conns : conn[d] = "held") = h
    BY <2>1, ChooseHeld
  <2>3. /\ HeldThenQueued # <<>>
        /\ Head(HeldThenQueued) = h
        /\ HeldThenQueued' = Tail(HeldThenQueued)
    BY <1>0, <2>2, FrontOfQueue DEF HeldThenQueued
  <2>4. /\ InState("running")' = InState("running") \union {h}
        /\ Off(conn') = Off(conn)
    BY <1>0, <2>1 DEF InState
  <2>5. Cardinality(InState("running")) < MaxConcurrent
    BY InStateFinite DEF IInv, PermitAccounting, TypeOK
  <2>6. (main = "exited") = FALSE /\ (main' = "exited") = FALSE
    OBVIOUS
  <2>7. InState("running")' = InState("running") \union {Head(HeldThenQueued)}
    BY <2>3, <2>4
  <2> HIDE <1>7 DEF Acquire
  <2> QED
    BY <2>3, <2>4, <2>5, <2>6, <2>7 DEF Adm!Admit, Adm!Cardinality, Cardinality
<1>8. ASSUME RecvClosed PROVE Adm!Shutdown
  <2> USE <1>8 DEF RecvClosed
  <2>1. InState("running")' = {} /\ Off(conn') = Off(conn)
    BY <1>0 DEF InState
  <2>2. HeldThenQueued = <<>> /\ HeldThenQueued' = <<>>
    BY DEF HeldThenQueued
  <2> QED
    BY <2>1, <2>2 DEF Adm!Shutdown
<1>9. ASSUME UNCHANGED vars PROVE UNCHANGED Adm!avars
  BY <1>1, <1>9 DEF vars
<1> QED
  BY <1>2, <1>3, <1>4, <1>5, <1>6, <1>7, <1>8, <1>9 DEF Next, Exited, Adm!ANext

\* The main loop, listeners and channel implement Admission for every number of
\* listeners and connections: FIFO admission, bounded concurrency and no loss of
\* a parsed connection.
THEOREM DispatchImplementsAdmission == Spec => ImplementsAdmission
  BY InitIInv, NextIInv, InitAdmission, StepAdmission, PTL
     DEF Spec, ImplementsAdmission, Adm!ASpec
=============================================================================
