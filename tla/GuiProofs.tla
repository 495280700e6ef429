----------------------------- MODULE GuiProofs -----------------------------
(***************************************************************************)
(* Proofs about the system-proxy switch for any services, kinds of         *)
(* settings and platforms, whatever the window and the tray ask for, and   *)
(* about the checkbox, the mode and its tab for any number of clicks.      *)
(***************************************************************************)
EXTENDS Gui, SequenceTheorems, TLAPS

OpSet == [enable : BOOLEAN, svc : Services, i : 1 .. 2 * Len(Kinds) + 1, admin : BOOLEAN]

\* A function on 1 .. n is a sequence of length n.
LEMMA FunctionAsSeq ==
    ASSUME NEW S, NEW n \in Nat, NEW f \in [1 .. n -> S]
    PROVE  f \in Seq(S) /\ Len(f) = n
  OBVIOUS

\* The kinds of settings are counted from 1.
LEMMA KindsListed ==
    /\ Len(Kinds) \in Nat \ {0} /\ DOMAIN Kinds = 1 .. Len(Kinds)
    /\ \A i \in 1 .. Len(Kinds) : Kinds[i] \in KindSet
  BY SysProxyAssumption, EmptySeq, LenProperties DEF KindSet

\* A run of one command over every kind.
LEMMA SetListed ==
    ASSUME NEW what
    PROVE  /\ Len(Set(what)) = Len(Kinds)
           /\ Set(what) \in Seq([set : {what}, kind : KindSet])
           /\ \A i \in 1 .. Len(Kinds) : Set(what)[i] = [set |-> what, kind |-> Kinds[i]]
<1>1. \A i \in 1 .. Len(Kinds) : Set(what)[i] = [set |-> what, kind |-> Kinds[i]]
  BY KindsListed DEF Set
<1>2. Set(what) \in [1 .. Len(Kinds) -> [set : {what}, kind : KindSet]]
  BY <1>1, KindsListed DEF Set
<1>3. Set(what) \in Seq([set : {what}, kind : KindSet]) /\ Len(Set(what)) = Len(Kinds)
  BY <1>2, KindsListed, FunctionAsSeq
<1> QED
  BY <1>1, <1>3

\* The batch that switches on, on macOS: the addresses, then the switches.
LEMMA EnableListed ==
    LET n == Len(Kinds)
        b == NetworksetupBatch(TRUE)
    IN  /\ Len(b) = 2 * n
        /\ DOMAIN b = 1 .. 2 * n
        /\ \A i \in 1 .. n : b[i] = [set |-> "addr", kind |-> Kinds[i]]
        /\ \A i \in n + 1 .. 2 * n : b[i] = [set |-> "on", kind |-> Kinds[i - n]]
<1> DEFINE n == Len(Kinds)
           S == [set : {"addr", "on"}, kind : KindSet]
           b == NetworksetupBatch(TRUE)
<1>1. Set("addr") \in Seq(S) /\ Set("on") \in Seq(S)
  <2>1. ASSUME NEW what \in {"addr", "on"} PROVE Set(what) \in Seq(S)
    <3>1. Set(what) \in [1 .. n -> S]
      BY SetListed, KindsListed DEF Set
    <3> QED
      BY <3>1, KindsListed, FunctionAsSeq
  <2> QED
    BY <2>1
<1>2. b = Set("addr") \o Set("on")
  BY DEF NetworksetupBatch
<1>3. /\ Len(b) = Len(Set("addr")) + Len(Set("on")) /\ b \in Seq(S)
      /\ \A i \in 1 .. Len(Set("addr")) + Len(Set("on")) :
           b[i] = IF i <= Len(Set("addr")) THEN Set("addr")[i]
                  ELSE Set("on")[i - Len(Set("addr"))]
  BY <1>1, <1>2, ConcatProperties
<1> HIDE DEF b
<1>4. Len(Set("addr")) = n /\ Len(Set("on")) = n /\ n \in Nat
  BY SetListed, KindsListed
<1>5. Len(b) = 2 * n /\ DOMAIN b = 1 .. 2 * n
  BY <1>3, <1>4, LenProperties
<1>6. ASSUME NEW i \in 1 .. n PROVE b[i] = [set |-> "addr", kind |-> Kinds[i]]
  <2>1. i \in 1 .. n + n /\ i <= n
    BY <1>4
  <2>2. b[i] = Set("addr")[i]
    BY <1>3, <1>4, <2>1
  <2> QED
    BY <2>2, SetListed
<1>7. ASSUME NEW i \in n + 1 .. 2 * n PROVE b[i] = [set |-> "on", kind |-> Kinds[i - n]]
  <2>1. i \in 1 .. n + n /\ ~(i <= n) /\ i - n \in 1 .. n
    BY <1>4
  <2>2. b[i] = Set("on")[i - n]
    BY <1>3, <1>4, <2>1
  <2> QED
    BY <2>1, <2>2, SetListed
<1> QED
  BY <1>5, <1>6, <1>7 DEF b

\* A batch only gives addresses and switches on, or only switches off.
OneSided(on) ==
    LET c == Commands(on)
    IN  /\ Len(c) \in 1 .. 2 * Len(Kinds) /\ DOMAIN c = 1 .. Len(c)
        /\ \A i \in 1 .. Len(c) :
             c[i].kind \in KindSet /\ c[i].set \in (IF on THEN {"addr", "on"} ELSE {"off"})

\* The batch has a command that does what to the settings of a kind.
Includes(on, what, kind) ==
    \E a \in 1 .. Len(Commands(on)) : Commands(on)[a] = [set |-> what, kind |-> kind]

\* Whatever the batch to enable names is given the address and switched on, and
\* switched off by the other batch.
Paired ==
    \A i \in 1 .. Len(Commands(TRUE)) :
        LET kind == Commands(TRUE)[i].kind
        IN  Includes(TRUE, "addr", kind) /\ Includes(TRUE, "on", kind) /\ Includes(FALSE, "off", kind)

\* Each setting has its address before it is switched on.
AddressFirst ==
    \A i \in 1 .. Len(Commands(TRUE)) : Commands(TRUE)[i].set = "on" =>
        \E a \in 1 .. Len(Commands(TRUE)) :
            a < i /\ Commands(TRUE)[a] = [set |-> "addr", kind |-> Commands(TRUE)[i].kind]

\* The batches name the first kind only, as on Windows.
OneKind ==
    /\ \A on \in BOOLEAN : \A i \in 1 .. Len(Commands(on)) : Commands(on)[i].kind = Kinds[1]
    /\ Includes(FALSE, "off", Kinds[1])

\* What is needed of the batches below.
LEMMA Batch ==
    /\ OneSided(TRUE) /\ OneSided(FALSE) /\ Paired
    /\ platform = "macos" => AddressFirst /\ \A k \in KindSet : Includes(FALSE, "off", k)
    /\ platform # "macos" => OneKind
<1> DEFINE n == Len(Kinds)
<1>0. n \in Nat \ {0} /\ \A i \in 1 .. n : Kinds[i] \in KindSet
  BY KindsListed
<1>1. CASE platform = "macos"
  <2> DEFINE e == Commands(TRUE)
             d == Commands(FALSE)
  <2>1. /\ Len(e) = 2 * n /\ DOMAIN e = 1 .. 2 * n
        /\ \A i \in 1 .. n : e[i] = [set |-> "addr", kind |-> Kinds[i]]
        /\ \A i \in n + 1 .. 2 * n : e[i] = [set |-> "on", kind |-> Kinds[i - n]]
    BY <1>1, EnableListed DEF Commands
  <2>2. /\ Len(d) = n /\ DOMAIN d = 1 .. n
        /\ \A i \in 1 .. n : d[i] = [set |-> "off", kind |-> Kinds[i]]
    BY <1>1, SetListed, KindsListed DEF Commands, NetworksetupBatch, Set
  <2> HIDE DEF e, d, n
  <2>3. ASSUME NEW i \in 1 .. 2 * n
        PROVE  \E j \in 1 .. n :
                 /\ e[i] = [set |-> IF i <= n THEN "addr" ELSE "on", kind |-> Kinds[j]]
                 /\ e[j] = [set |-> "addr", kind |-> Kinds[j]]
                 /\ e[n + j] = [set |-> "on", kind |-> Kinds[j]]
                 /\ d[j] = [set |-> "off", kind |-> Kinds[j]]
                 /\ Kinds[j] \in KindSet /\ (i > n => j < i)
                 /\ j \in 1 .. 2 * n /\ n + j \in 1 .. 2 * n
    <3> DEFINE j == IF i <= n THEN i ELSE i - n
    <3>1. /\ j \in 1 .. n /\ j \in 1 .. 2 * n /\ n + j \in n + 1 .. 2 * n
          /\ n + j \in 1 .. 2 * n /\ (n + j) - n = j /\ (i > n => j < i)
      BY <1>0
    <3>2. e[i] = [set |-> IF i <= n THEN "addr" ELSE "on", kind |-> Kinds[j]]
      <4>1. CASE i <= n
        <5>1. i \in 1 .. n
          BY <1>0, <4>1
        <5> QED
          BY <2>1, <4>1, <5>1
      <4>2. CASE ~(i <= n)
        <5>1. i \in n + 1 .. 2 * n
          BY <1>0, <4>2
        <5> QED
          BY <2>1, <4>2, <5>1
      <4> QED
        BY <4>1, <4>2
    <3> HIDE DEF j
    <3>3. /\ e[j] = [set |-> "addr", kind |-> Kinds[j]]
          /\ e[n + j] = [set |-> "on", kind |-> Kinds[j]]
          /\ d[j] = [set |-> "off", kind |-> Kinds[j]]
      BY <2>1, <2>2, <3>1
    <3> QED
      BY <1>0, <3>1, <3>2, <3>3
  <2>4. OneSided(TRUE)
    <3>1. Len(e) \in 1 .. 2 * n /\ DOMAIN e = 1 .. Len(e)
      BY <1>0, <2>1
    <3>2. ASSUME NEW i \in 1 .. Len(e)
          PROVE  e[i].kind \in KindSet /\ e[i].set \in {"addr", "on"}
      <4>1. i \in 1 .. 2 * n
        BY <2>1
      <4>2. PICK j \in 1 .. n :
              /\ e[i] = [set |-> IF i <= n THEN "addr" ELSE "on", kind |-> Kinds[j]]
              /\ Kinds[j] \in KindSet
        BY <2>3, <4>1
      <4> QED
        BY <4>2
    <3> QED
      BY <3>1, <3>2 DEF OneSided, e, n
  <2>5. OneSided(FALSE)
    <3>1. Len(d) \in 1 .. 2 * n /\ DOMAIN d = 1 .. Len(d)
      BY <1>0, <2>2
    <3>2. ASSUME NEW i \in 1 .. Len(d)
          PROVE  d[i].kind \in KindSet /\ d[i].set \in {"off"}
      BY <1>0, <2>2
    <3> QED
      BY <3>1, <3>2 DEF OneSided, d, n
  <2>6. ASSUME NEW i \in 1 .. Len(e)
        PROVE  \E j \in 1 .. Len(e) :
                 /\ e[i].kind = Kinds[j] /\ (e[i].set = "on" => j < i)
                 /\ e[j] = [set |-> "addr", kind |-> Kinds[j]]
                 /\ n + j \in 1 .. Len(e) /\ e[n + j] = [set |-> "on", kind |-> Kinds[j]]
                 /\ j \in 1 .. Len(d) /\ d[j] = [set |-> "off", kind |-> Kinds[j]]
    <3>1. i \in 1 .. 2 * n
      BY <2>1
    <3>2. PICK j \in 1 .. n :
                 /\ e[i] = [set |-> IF i <= n THEN "addr" ELSE "on", kind |-> Kinds[j]]
                 /\ e[j] = [set |-> "addr", kind |-> Kinds[j]]
                 /\ e[n + j] = [set |-> "on", kind |-> Kinds[j]]
                 /\ d[j] = [set |-> "off", kind |-> Kinds[j]]
                 /\ Kinds[j] \in KindSet /\ (i > n => j < i)
                 /\ j \in 1 .. 2 * n /\ n + j \in 1 .. 2 * n
      BY <2>3, <3>1
    <3>3. e[i].kind = Kinds[j] /\ (e[i].set = "on" => j < i)
      BY <1>0, <3>2
    <3>4. j \in 1 .. Len(e) /\ n + j \in 1 .. Len(e) /\ j \in 1 .. Len(d)
      BY <2>1, <2>2, <3>2
    <3> QED
      BY <3>2, <3>3, <3>4
  <2>7. Paired
    <3> SUFFICES ASSUME NEW i \in 1 .. Len(e)
                 PROVE  /\ Includes(TRUE, "addr", e[i].kind) /\ Includes(TRUE, "on", e[i].kind)
                        /\ Includes(FALSE, "off", e[i].kind)
      BY DEF Paired, e
    <3>1. PICK j \in 1 .. Len(e) :
                 /\ e[i].kind = Kinds[j] /\ e[j] = [set |-> "addr", kind |-> Kinds[j]]
                 /\ n + j \in 1 .. Len(e) /\ e[n + j] = [set |-> "on", kind |-> Kinds[j]]
                 /\ j \in 1 .. Len(d) /\ d[j] = [set |-> "off", kind |-> Kinds[j]]
      BY <2>6
    <3> QED
      BY <3>1 DEF Includes, e, d
  <2>8. AddressFirst
    <3> SUFFICES ASSUME NEW i \in 1 .. Len(e), e[i].set = "on"
                 PROVE  \E a \in 1 .. Len(e) :
                          a < i /\ e[a] = [set |-> "addr", kind |-> e[i].kind]
      BY DEF AddressFirst, e
    <3>1. PICK j \in 1 .. Len(e) : j < i /\ e[i].kind = Kinds[j]
                                   /\ e[j] = [set |-> "addr", kind |-> Kinds[j]]
      BY <2>6
    <3> QED
      BY <3>1
  <2>9. \A k \in KindSet : Includes(FALSE, "off", k)
    BY <2>2, KindsListed DEF KindSet, Includes, d, n
  <2> QED
    BY <1>1, <2>4, <2>5, <2>7, <2>8, <2>9
<1>2. CASE platform # "macos"
  <2> DEFINE e == Commands(TRUE)
             d == Commands(FALSE)
  <2>1. /\ Commands(TRUE) = <<[set |-> "on", kind |-> Kinds[1]],
                              [set |-> "addr", kind |-> Kinds[1]]>>
        /\ Commands(FALSE) = <<[set |-> "off", kind |-> Kinds[1]]>>
    BY <1>2 DEF Commands, RegCommands
  <2>2. /\ e = <<[set |-> "on", kind |-> Kinds[1]], [set |-> "addr", kind |-> Kinds[1]]>>
        /\ d = <<[set |-> "off", kind |-> Kinds[1]]>>
    BY <2>1
  <2> HIDE DEF e, d
  <2>3. Kinds[1] \in KindSet /\ 2 \in 1 .. 2 * n /\ 1 \in 1 .. 2 * n
    BY <1>0
  <2>4. Len(e) = 2 /\ Len(d) = 1
    BY <2>2
  <2>5. /\ e[1] = [set |-> "on", kind |-> Kinds[1]]
        /\ e[2] = [set |-> "addr", kind |-> Kinds[1]]
        /\ d[1] = [set |-> "off", kind |-> Kinds[1]]
        /\ DOMAIN e = 1 .. 2 /\ DOMAIN d = 1 .. 1
    BY <2>2
  <2>6. OneSided(TRUE) /\ OneSided(FALSE)
    <3>1. \A i \in 1 .. 2 : i = 1 \/ i = 2
      OBVIOUS
    <3>2. \A i \in 1 .. 1 : i = 1
      OBVIOUS
    <3>3. ASSUME NEW i \in 1 .. 2
          PROVE  e[i].kind \in KindSet /\ e[i].set \in {"addr", "on"}
      BY <2>3, <2>5, <3>1
    <3>4. ASSUME NEW i \in 1 .. 1
          PROVE  d[i].kind \in KindSet /\ d[i].set \in {"off"}
      BY <2>3, <2>5, <3>2
    <3> QED
      BY <2>3, <2>4, <2>5, <3>3, <3>4 DEF OneSided, e, d, n
  <2>7. /\ Includes(TRUE, "addr", Kinds[1]) /\ Includes(TRUE, "on", Kinds[1])
        /\ Includes(FALSE, "off", Kinds[1])
        /\ \A i \in 1 .. Len(e) : e[i].kind = Kinds[1]
        /\ \A i \in 1 .. Len(d) : d[i].kind = Kinds[1]
    <3>1. 1 \in 1 .. Len(e) /\ 2 \in 1 .. Len(e)
          /\ 1 \in 1 .. Len(d)
      BY <2>4
    <3>2. \A i \in 1 .. Len(e) : e[i].kind = Kinds[1]
      BY <2>4, <2>5
    <3>3. \A i \in 1 .. Len(d) : d[i].kind = Kinds[1]
      BY <2>4, <2>5
    <3> QED
      BY <2>5, <3>1, <3>2, <3>3 DEF Includes, e, d
  <2>8. Paired /\ OneKind
    BY <2>7 DEF Paired, OneKind, e, d
  <2> QED
    BY <1>2, <2>6, <2>8
<1> QED
  BY <1>1, <1>2

-----------------------------------------------------------------------------
(* The switch *)

\* What a command leaves behind in the settings of a service.
Did(s, c) ==
    LET setting == os[s][c.kind]
    IN  /\ c.set = "addr" => setting.ours
        /\ c.set = "on" => setting.on
        /\ c.set = "off" => ~setting.on

On(s, k) == os[s][k].on

Shape ==
    /\ platform \in {"macos", "windows", "other"}
    /\ flag \in BOOLEAN /\ troubled \in BOOLEAN /\ active \in Services
    /\ os \in [Services -> [KindSet -> [on : BOOLEAN, ours : BOOLEAN]]]
    /\ op = None \/ op \in OpSet
    /\ settled = None \/ settled \in OpSet
    /\ op # None => settled = None

\* The batch in progress has done what its commands so far say.
Progress ==
    op # None =>
        /\ op.i \in 1 .. Len(Commands(op.enable)) + 1
        /\ \A j \in 1 .. op.i - 1 : Did(op.svc, Commands(op.enable)[j])

\* The last switch has done all its commands.
Complete ==
    settled # None =>
        /\ flag = settled.enable
        /\ \A j \in 1 .. Len(Commands(settled.enable)) :
             Did(settled.svc, Commands(settled.enable)[j])

\* Nothing is on where it should not be.
Contained ==
    /\ \A s \in Services, k \in KindSet : On(s, k) =>
         /\ platform = "macos" => os[s][k].ours
         /\ platform # "macos" => platform # "other" /\ k = Kinds[1]
    /\ ~troubled =>
         /\ \A s \in Services \ {active}, k \in KindSet : ~On(s, k)
         /\ op # None => op.svc = active
         /\ op = None /\ ~flag => \A s \in Services, k \in KindSet : ~On(s, k)

\* The inductive invariant.
SysInv == Shape /\ Progress /\ Complete /\ Contained

\* The batches are the same while the platform is.
LEMMA SameBatches == UNCHANGED platform => \A on \in BOOLEAN : Commands(on)' = Commands(on)
  BY DEF Commands

\* A switch in progress is told from none.
LEMMA OpNotNone == \A x \in OpSet : x # None
<1> SUFFICES ASSUME NEW x \in OpSet PROVE x # None
  OBVIOUS
<1>1. x \in [enable : BOOLEAN, svc : Services, i : Nat, admin : BOOLEAN]
  BY KindsListed DEF OpSet
<1> QED
  BY <1>1, SysProxyAssumption

\* A switch begins with nothing done.
LEMMA BeginInv == ASSUME SysInv, NEW on \in BOOLEAN, Begin(on) PROVE SysInv'
<1>1. /\ op = None /\ op' = [enable |-> on, svc |-> active, i |-> 1, admin |-> FALSE]
      /\ settled' = None /\ UNCHANGED <<platform, flag, os, active, troubled>>
  BY DEF Begin
<1>2. /\ op' \in OpSet /\ op' # None /\ op'.i = 1 /\ op'.enable = on /\ op'.svc = active
  <2>1. op' \in OpSet /\ op'.i = 1 /\ op'.enable = on /\ op'.svc = active
    BY <1>1, KindsListed DEF OpSet, SysInv, Shape
  <2> QED
    BY <2>1, OpNotNone
<1>3. Shape' /\ Complete' /\ Contained'
  BY <1>1, <1>2 DEF SysInv, Shape, Complete, Contained, On
<1>4. Progress'
  <2>1. Len(Commands(on)') \in Nat
    BY <1>1, Batch, SameBatches, KindsListed DEF OneSided
  <2> QED
    BY <1>2, <2>1 DEF Progress
<1> QED
  BY <1>3, <1>4 DEF SysInv

\* The batch starts over; what was done stays.
LEMMA NeedsAdminInv == ASSUME SysInv, NeedsAdmin PROVE SysInv'
<1>1. /\ op # None /\ op' = [op EXCEPT !.i = 1, !.admin = TRUE]
      /\ UNCHANGED <<platform, flag, os, active, settled, troubled>>
  BY DEF NeedsAdmin, Unfinished
<1>2. op \in OpSet /\ Len(Kinds) \in Nat
  BY <1>1, KindsListed DEF SysInv, Shape
<1>3. op' \in OpSet /\ op'.i = 1 /\ op'.enable = op.enable /\ op'.svc = op.svc /\ op' # None
  <2>1. op' = [enable |-> op.enable, svc |-> op.svc, i |-> 1, admin |-> TRUE]
    BY <1>1, <1>2 DEF OpSet
  <2>2. op' \in OpSet
    BY <1>2, <2>1 DEF OpSet
  <2> QED
    BY <2>1, <2>2, OpNotNone
<1>4. Shape' /\ Complete' /\ Contained'
  BY <1>1, <1>3 DEF SysInv, Shape, Complete, Contained, On
<1>5. Progress'
  <2>1. op.enable \in BOOLEAN
    BY <1>2 DEF OpSet
  <2>2. Len(Commands(op.enable)') \in Nat
    BY <1>1, <2>1, Batch, SameBatches, KindsListed DEF OneSided
  <2> QED
    BY <1>1, <1>3, <2>1, <2>2, SameBatches DEF Progress
<1> QED
  BY <1>4, <1>5 DEF SysInv

\* A switch that fails, and what happens outside a switch, leaves the settings.
LEMMA FailInv ==
    ASSUME SysInv, Fail \/ ServiceChanges \/ Restart \/ UNCHANGED sysvars
    PROVE  SysInv'
<1>1. CASE CommandFails
  <2>1. /\ op # None /\ op' = None /\ troubled' = TRUE
        /\ UNCHANGED <<platform, flag, os, active, settled>>
    BY <1>1 DEF CommandFails, Unfinished
  <2>2. Shape' /\ Progress' /\ Complete'
    BY <2>1 DEF SysInv, Shape, Progress, Complete
  <2>3. Contained'
    BY <2>1 DEF SysInv, Contained, On
  <2> QED
    BY <2>2, <2>3 DEF SysInv
<1>2. CASE Unsupported
  <2>1. /\ op # None /\ platform = "other" /\ op' = None
        /\ UNCHANGED <<platform, flag, os, active, settled, troubled>>
    BY <1>2 DEF Unsupported
  <2>2. Shape' /\ Progress' /\ Complete'
    BY <2>1 DEF SysInv, Shape, Progress, Complete
  <2>3. \A s \in Services, k \in KindSet : ~On(s, k)
    BY <2>1 DEF SysInv, Contained
  <2>4. Contained'
    BY <2>1, <2>3 DEF Contained, On
  <2> QED
    BY <2>2, <2>4 DEF SysInv
<1>3. CASE ServiceChanges
  <2>1. PICK s \in Services \ {active} : active' = s
    BY <1>3 DEF ServiceChanges
  <2>2. troubled' = TRUE /\ UNCHANGED <<platform, flag, os, op, settled>>
    BY <1>3 DEF ServiceChanges
  <2>3. Progress' /\ Complete'
    BY <2>2 DEF SysInv, Progress, Complete, Did, Commands
  <2> QED
    BY <2>1, <2>2, <2>3 DEF SysInv, Shape, Contained, On
<1>4. CASE Restart
  BY <1>4 DEF Restart, SysInv, Shape, Progress, Complete, Contained, On
<1>5. CASE UNCHANGED sysvars
  <2>1. UNCHANGED <<platform, flag, os, active, op, settled, troubled>>
    BY <1>5 DEF sysvars
  <2>2. Progress' /\ Complete'
    BY <2>1 DEF SysInv, Progress, Complete, Did, Commands
  <2> QED
    BY <2>1, <2>2 DEF SysInv, Shape, Contained, On
<1> QED
  BY <1>1, <1>2, <1>3, <1>4, <1>5 DEF Fail

\* A switch that succeeds has done every command of its batch.
LEMMA SucceedInv == ASSUME SysInv, Succeed PROVE SysInv'
<1>1. /\ op # None /\ platform # "other" /\ ~Unfinished
      /\ flag' = op.enable /\ settled' = op /\ op' = None
      /\ UNCHANGED <<platform, os, active, troubled>>
  BY DEF Succeed
<1>2. op \in OpSet /\ op.enable \in BOOLEAN /\ op.svc \in Services /\ op.i \in Nat
  BY <1>1, KindsListed DEF SysInv, Shape, OpSet
<1> DEFINE c == Commands(op.enable)
<1>3. Len(c) \in Nat
  BY <1>2, Batch, KindsListed DEF OneSided
<1>4. \A j \in 1 .. Len(c) : Did(op.svc, c[j])
  <2>1. op.i = Len(c) + 1
    BY <1>1, <1>2, <1>3 DEF SysInv, Progress, Unfinished
  <2>2. op.i - 1 = Len(c)
    BY <1>3, <2>1
  <2> QED
    BY <1>1, <2>2 DEF SysInv, Progress
<1>5. Shape' /\ Progress'
  BY <1>1, <1>2 DEF SysInv, Shape, Progress
<1>6. Complete'
  <2>1. settled' = op /\ flag' = op.enable
    BY <1>1
  <2>3. \A on \in BOOLEAN : Commands(on)' = Commands(on)
    BY <1>1, SameBatches
  <2>4. \A x : Did(op.svc, x) => Did(settled.svc, x)'
    BY <1>1 DEF Did
  <2>5. Commands(settled.enable)' = c
    BY <1>1, <1>2, <2>3 DEF Commands
  <2> QED
    BY <1>4, <2>1, <2>4, <2>5 DEF Complete
<1>7. Contained'
  <2>1. ~op.enable => \A k \in KindSet : Includes(FALSE, "off", k) => ~On(op.svc, k)
    <3> SUFFICES ASSUME ~op.enable, NEW k \in KindSet, Includes(FALSE, "off", k)
                 PROVE  ~On(op.svc, k)
      OBVIOUS
    <3>1. c = Commands(FALSE)
      BY <1>2
    <3>2. PICK j \in 1 .. Len(c) : c[j] = [set |-> "off", kind |-> k]
      BY <3>1 DEF Includes
    <3> QED
      BY <1>4, <3>2 DEF Did, On
  <2>2. ~troubled /\ ~op.enable => \A s \in Services, k \in KindSet : ~On(s, k)
    <3> SUFFICES ASSUME ~troubled, ~op.enable, NEW s \in Services, NEW k \in KindSet, On(s, k)
                 PROVE  FALSE
      OBVIOUS
    <3>1. s = op.svc
      BY <1>1 DEF SysInv, Contained
    <3>2. Includes(FALSE, "off", k)
      BY Batch DEF SysInv, Contained, OneKind
    <3> QED
      BY <2>1, <3>1, <3>2
  <2> QED
    BY <1>1, <2>2 DEF SysInv, Contained, On
<1> QED
  BY <1>5, <1>6, <1>7 DEF SysInv

\* A command does what it says, and nothing a command of the same batch has
\* done is undone.
LEMMA CommandOkInv == ASSUME SysInv, CommandOk PROVE SysInv'
<1> DEFINE c == Commands(op.enable)
           cmd == c[op.i]
           old == os[op.svc][cmd.kind]
<1>1. /\ op # None /\ platform # "other" /\ op.i <= Len(c)
      /\ op' = [op EXCEPT !.i = @ + 1]
      /\ UNCHANGED <<platform, flag, active, settled, troubled>>
  BY DEF CommandOk, Unfinished
<1>2. op \in OpSet /\ op.enable \in BOOLEAN /\ op.svc \in Services /\ settled = None
  BY <1>1 DEF SysInv, Shape, OpSet
<1>3. /\ Len(c) \in 1 .. 2 * Len(Kinds)
      /\ \A i \in 1 .. Len(c) :
           c[i].kind \in KindSet /\ c[i].set \in (IF op.enable THEN {"addr", "on"} ELSE {"off"})
  <2>1. OneSided(op.enable)
    BY <1>2, Batch
  <2> QED
    BY <2>1 DEF OneSided
<1>4. op.i \in 1 .. Len(c) /\ \A j \in 1 .. op.i - 1 : Did(op.svc, c[j])
  BY <1>1, <1>3, KindsListed DEF SysInv, Progress
<1>5. cmd.kind \in KindSet /\ cmd.set \in (IF op.enable THEN {"addr", "on"} ELSE {"off"})
  BY <1>3, <1>4
<1>6. old \in [on : BOOLEAN, ours : BOOLEAN]
  BY <1>2, <1>5 DEF SysInv, Shape
<1>7. PICK on \in CASE cmd.set = "addr" -> {old.on, platform = "macos" \/ old.on}
                    [] cmd.set = "on" -> {TRUE}
                    [] cmd.set = "off" -> {FALSE} :
        os' = [os EXCEPT ![op.svc][cmd.kind] =
                 [on |-> on, ours |-> old.ours \/ cmd.set = "addr"]]
  BY DEF CommandOk, Command
<1> DEFINE new == [on |-> on, ours |-> old.ours \/ cmd.set = "addr"]
<1>8. /\ on \in BOOLEAN /\ (cmd.set = "on" => on) /\ (cmd.set = "off" => ~on)
      /\ cmd.set = "addr" => (old.on => on) /\ (platform # "macos" => on = old.on)
  BY <1>5, <1>6, <1>7
<1>9. new \in [on : BOOLEAN, ours : BOOLEAN]
  BY <1>6, <1>8
<1>10. op' \in OpSet /\ op'.i = op.i + 1 /\ op'.enable = op.enable /\ op'.svc = op.svc
  BY <1>1, <1>2, <1>3, <1>4, KindsListed DEF OpSet
<1>11. os' \in [Services -> [KindSet -> [on : BOOLEAN, ours : BOOLEAN]]]
  BY <1>2, <1>5, <1>7, <1>9 DEF SysInv, Shape
<1>12. \A s \in Services, k \in KindSet :
         os'[s][k] = IF s = op.svc /\ k = cmd.kind THEN new ELSE os[s][k]
  BY <1>2, <1>5, <1>7, <1>9 DEF SysInv, Shape
<1> HIDE DEF c, cmd, old, new
<1>13. new.on = on /\ new.ours = (old.ours \/ cmd.set = "addr")
  BY DEF new
<1>14. c' = c
  BY <1>1, <1>10 DEF Commands, c
<1>15. Shape'
  BY <1>1, <1>2, <1>10, <1>11 DEF SysInv, Shape
<1>16. ASSUME NEW x, x.kind \in KindSet, Did(op.svc, x),
              x.set \in (IF op.enable THEN {"addr", "on"} ELSE {"off"})
       PROVE  Did(op.svc, x)'
  <2>1. CASE x.kind = cmd.kind
    <3>1. os'[op.svc][x.kind] = new /\ os[op.svc][x.kind] = old
      BY <1>2, <1>12, <1>16, <2>1 DEF old
    <3> QED
      BY <1>5, <1>8, <1>10, <1>13, <1>16, <3>1 DEF Did
  <2>2. CASE x.kind # cmd.kind
    <3>1. os'[op.svc][x.kind] = os[op.svc][x.kind]
      BY <1>2, <1>12, <1>16, <2>2
    <3> QED
      BY <1>10, <1>16, <3>1 DEF Did
  <2> QED
    BY <2>1, <2>2
<1>17. ASSUME NEW x, x = cmd PROVE Did(op.svc, x)'
  <2>1. os'[op.svc][x.kind] = new
    BY <1>2, <1>5, <1>12, <1>17
  <2> QED
    BY <1>8, <1>10, <1>13, <1>17, <2>1 DEF Did
<1>18. Progress'
  <2>1. op'.i \in 1 .. Len(c) + 1
    BY <1>3, <1>4, <1>10, KindsListed
  <2>2. ASSUME NEW j \in 1 .. op'.i - 1 PROVE Did(op.svc, c[j])'
    <3>1. PICK x : x = c[j]
      OBVIOUS
    <3>2. CASE j = op.i
      BY <1>14, <1>17, <3>1, <3>2 DEF cmd
    <3>3. CASE j # op.i
      <4>1. j \in 1 .. op.i - 1 /\ j \in 1 .. Len(c)
        BY <1>3, <1>4, <1>10, <3>3, KindsListed
      <4>2. Did(op.svc, x)'
        BY <1>3, <1>4, <1>16, <3>1, <4>1
      <4> QED
        BY <1>14, <3>1, <4>2
    <3> QED
      BY <3>2, <3>3
  <2> QED
    BY <1>14, <2>1, <2>2 DEF Progress, c
<1>19. Contained'
  <2>1. platform = "macos" /\ on => new.ours
    <3> SUFFICES ASSUME platform = "macos", on, cmd.set = "on" PROVE old.ours
      BY <1>5, <1>8, <1>13
    <3>1. op.enable
      BY <1>5
    <3>2. c = Commands(TRUE) /\ AddressFirst
      BY <1>2, <3>1, Batch DEF c
    <3>3. PICK a \in 1 .. Len(c) : a < op.i /\ c[a] = [set |-> "addr", kind |-> cmd.kind]
      BY <1>4, <3>2 DEF AddressFirst, cmd
    <3>4. Did(op.svc, c[a])
      BY <1>3, <1>4, <3>3, KindsListed
    <3> QED
      BY <3>3, <3>4 DEF Did, old
  <2>2. platform # "macos" => cmd.kind = Kinds[1]
    BY <1>2, <1>4, Batch DEF OneKind, cmd, c
  <2>3. ASSUME NEW s \in Services, NEW k \in KindSet, On(s, k)'
        PROVE  /\ platform = "macos" => os'[s][k].ours
               /\ platform # "macos" => platform # "other" /\ k = Kinds[1]
               /\ ~troubled => s = active
    <3>1. CASE s = op.svc /\ k = cmd.kind
      <4>1. os'[s][k] = new /\ on
        BY <1>12, <1>13, <2>3, <3>1 DEF On
      <4> QED
        BY <1>1, <2>1, <2>2, <3>1, <4>1 DEF SysInv, Contained
    <3>2. CASE ~(s = op.svc /\ k = cmd.kind)
      <4>1. os'[s][k] = os[s][k]
        BY <1>12, <3>2
      <4> QED
        BY <2>3, <4>1 DEF SysInv, Contained, On
    <3> QED
      BY <3>1, <3>2
  <2> QED
    BY <1>1, <1>10, <2>3, OpNotNone DEF SysInv, Contained
<1>20. Complete'
  BY <1>1, <1>2 DEF Complete
<1> QED
  BY <1>15, <1>18, <1>19, <1>20 DEF SysInv

\* Every step of the program keeps the invariant of the switch.
LEMMA StepSys == SysInv /\ [Next]_vars => SysInv'
<1> SUFFICES ASSUME SysInv, [Next]_vars PROVE SysInv'
  OBVIOUS
<1>1. ASSUME Serve PROVE SysInv'
  <2>1. UNCHANGED sysvars \/ \E on \in BOOLEAN : Begin(on)
    BY <1>1 DEF Serve, SysInv, Shape
  <2> QED
    BY <2>1, BeginInv, FailInv
<1>2. ASSUME Switch PROVE SysInv'
  BY <1>2, CommandOkInv, NeedsAdminInv, SucceedInv DEF Switch, Work
<1>3. ASSUME SwitchFails \/ ChangeService \/ Relaunch PROVE SysInv'
  BY <1>3, FailInv DEF SwitchFails, ChangeService, Relaunch
<1>4. ASSUME \/ ClickCheckbox \/ ClickTrayToggle \/ Refresh
             \/ \E i \in DOMAIN replies : Reply(i) \/ ShowConfigs(i)
             \/ \E m \in Modes : TrayMode(m) \/ TabMode(m)
             \/ \E r \in flying : Deliver(r) \/ RequestFails(r) \/ ConfigsAnswered(r)
             \/ UNCHANGED vars
      PROVE  SysInv'
  <2>1. UNCHANGED sysvars
    BY <1>4 DEF ClickCheckbox, ClickTrayToggle, Refresh, Reply, ShowConfigs, TrayMode,
         TabMode, Deliver, RequestFails, ConfigsAnswered, vars
  <2> QED
    BY <2>1, FailInv
<1> QED
  BY <1>1, <1>2, <1>3, <1>4 DEF Next

\* At first everything is off.
LEMMA InitSys == Init => SysInv
<1> SUFFICES ASSUME Init PROVE SysInv
  OBVIOUS
<1>1. /\ platform \in Platforms /\ flag = FALSE /\ active \in Services /\ op = None
      /\ os = [s \in Services |-> [k \in KindSet |-> [on |-> FALSE, ours |-> FALSE]]]
      /\ settled = None /\ troubled = FALSE
  BY DEF Init, SysInit
<1>2. \A s \in Services, k \in KindSet : ~On(s, k)
  BY <1>1 DEF On
<1>3. Shape
  BY <1>1, SysProxyAssumption DEF Shape
<1> QED
  BY <1>1, <1>2, <1>3 DEF SysInv, Progress, Complete, Contained

\* On macOS nothing is ever switched on without redog's address, for any
\* services and kinds of settings, wherever a batch stops.
THEOREM MacSettingsAreAddressed == Spec => []MacOnIsAddressed
<1>1. SysInv => MacOnIsAddressed
  BY DEF SysInv, Contained, On, MacOnIsAddressed
<1> QED
  BY <1>1, InitSys, StepSys, PTL DEF Spec

\* A switch that reports success is complete, and without trouble the settings
\* are as the flag says.
THEOREM FlagIsTrue == Spec => []FlagTellsOs
<1>1. SysInv => FlagTellsOs
  <2> SUFFICES ASSUME SysInv PROVE FlagTellsOs
    OBVIOUS
  <2>1. ASSUME settled # None, NEW i \in DOMAIN Commands(TRUE)
        PROVE  LET setting == os[settled.svc][Commands(TRUE)[i].kind]
               IN  setting.on = flag /\ (flag => setting.ours)
    <3> DEFINE kind == Commands(TRUE)[i].kind
               setting == os[settled.svc][kind]
    <3>1. settled \in OpSet /\ flag = settled.enable
      BY <2>1 DEF SysInv, Shape, Complete
    <3>2. i \in 1 .. Len(Commands(TRUE)) /\ kind \in KindSet
      BY Batch DEF OneSided
    <3>3. settled.svc \in Services /\ setting \in [on : BOOLEAN, ours : BOOLEAN]
      BY <3>1, <3>2 DEF OpSet, SysInv, Shape
    <3>4. Includes(TRUE, "addr", kind) /\ Includes(TRUE, "on", kind) /\ Includes(FALSE, "off", kind)
      BY <3>2, Batch DEF Paired
    <3>5. ASSUME NEW what, Includes(flag, what, kind)
          PROVE  Did(settled.svc, [set |-> what, kind |-> kind])
      BY <2>1, <3>1, <3>5 DEF SysInv, Complete, Includes
    <3>6. flag \in BOOLEAN
      BY DEF SysInv, Shape
    <3> HIDE DEF kind
    <3>7. CASE flag
      <4>1. /\ Did(settled.svc, [set |-> "addr", kind |-> kind])
            /\ Did(settled.svc, [set |-> "on", kind |-> kind])
        BY <3>4, <3>5, <3>7, <3>6
      <4>2. setting.on /\ setting.ours
        BY <4>1 DEF Did
      <4> QED
        BY <3>3, <3>7, <4>2 DEF kind
    <3>8. CASE ~flag
      <4>0. flag = FALSE
        BY <3>6, <3>8
      <4>1. Did(settled.svc, [set |-> "off", kind |-> kind])
        BY <3>4, <3>5, <4>0
      <4>2. ~setting.on
        BY <4>1 DEF Did
      <4>3. setting.on = FALSE
        BY <3>3, <4>2
      <4> QED
        BY <4>0, <4>3 DEF kind
    <3> QED
      BY <3>7, <3>8
  <2>2. ~troubled /\ op = None =>
          \A s \in Services : (\E k \in KindSet : os[s][k].on) => flag /\ s = active
    BY DEF SysInv, Contained, On
  <2>3. settled # None => flag = settled.enable
    BY DEF SysInv, Complete
  <2> QED
    BY <2>1, <2>2, <2>3 DEF FlagTellsOs
<1> QED
  BY <1>1, InitSys, StepSys, PTL DEF Spec

-----------------------------------------------------------------------------
(* Shape of the whole state *)

\* RemoveAt takes one element away and keeps the order of the others.
LEMMA RemoveAtProperties ==
    ASSUME NEW S, NEW s \in Seq(S), NEW i \in DOMAIN s
    PROVE  /\ RemoveAt(s, i) \in Seq(S) /\ Len(RemoveAt(s, i)) = Len(s) - 1
           /\ \A k \in DOMAIN RemoveAt(s, i) :
                \E j \in DOMAIN s : j # i /\ RemoveAt(s, i)[k] = s[j]
           /\ \A j \in DOMAIN s : j # i =>
                \E k \in DOMAIN RemoveAt(s, i) : RemoveAt(s, i)[k] = s[j]
<1> DEFINE n == Len(s)
           a == SubSeq(s, 1, i - 1)
           b == SubSeq(s, i + 1, n)
           r == RemoveAt(s, i)
<1>1. n \in Nat /\ DOMAIN s = 1 .. n /\ i \in 1 .. n
  BY LenProperties
<1>2. /\ a \in Seq(S) /\ Len(a) = i - 1
      /\ \A k \in 1 .. i - 1 : a[k] = s[k]
  <2>1. \A k \in 1 .. i - 1 : k \in 1 .. n
    BY <1>1
  <2> QED
    BY <1>1, <2>1, SubSeqProperties
<1>3. /\ b \in Seq(S) /\ Len(b) = n - i
      /\ \A k \in 1 .. n - i : b[k] = s[k + i]
  <2>1. \A k \in i + 1 .. n : k \in 1 .. n
    BY <1>1
  <2>2. /\ b \in Seq(S) /\ Len(b) = IF i + 1 <= n THEN n - (i + 1) + 1 ELSE 0
        /\ \A k \in 1 .. n - (i + 1) + 1 : b[k] = s[(i + 1) + k - 1]
    BY <1>1, <2>1, SubSeqProperties
  <2>3. n - (i + 1) + 1 = n - i /\ \A k \in 1 .. n - i : (i + 1) + k - 1 = k + i
    BY <1>1
  <2>4. Len(b) = n - i
    BY <1>1, <2>2
  <2> HIDE DEF b
  <2> QED
    BY <2>2, <2>3, <2>4
<1>4. r = a \o b
  BY DEF RemoveAt
<1> HIDE DEF a, b, r
<1>5. /\ r \in Seq(S) /\ Len(r) = Len(a) + Len(b)
      /\ \A k \in 1 .. Len(a) + Len(b) : r[k] = IF k <= Len(a) THEN a[k] ELSE b[k - Len(a)]
  BY <1>2, <1>3, <1>4, ConcatProperties
<1>6. Len(r) = n - 1 /\ DOMAIN r = 1 .. n - 1
  <2>1. Len(r) = n - 1
    BY <1>1, <1>2, <1>3, <1>5
  <2> QED
    BY <1>5, <2>1, LenProperties
<1>7. ASSUME NEW k \in 1 .. n - 1 PROVE r[k] = IF k < i THEN s[k] ELSE s[k + 1]
  <2>1. k \in 1 .. Len(a) + Len(b)
    BY <1>1, <1>2, <1>3
  <2>2. CASE k < i
    <3>1. k \in 1 .. i - 1 /\ k <= Len(a)
      BY <1>1, <1>2, <2>2
    <3> QED
      BY <1>2, <1>5, <2>1, <2>2, <3>1
  <2>3. CASE ~(k < i)
    <3>1. k - (i - 1) \in 1 .. n - i /\ ~(k <= Len(a)) /\ (k - (i - 1)) + i = k + 1
      BY <1>1, <1>2, <2>3
    <3> QED
      BY <1>2, <1>3, <1>5, <2>1, <2>3, <3>1
  <2> QED
    BY <2>2, <2>3
<1>8. ASSUME NEW k \in DOMAIN r PROVE \E j \in DOMAIN s : j # i /\ r[k] = s[j]
  <2> DEFINE j == IF k < i THEN k ELSE k + 1
  <2>1. j \in 1 .. n /\ j # i
    BY <1>1, <1>6
  <2> QED
    BY <1>1, <1>6, <1>7, <2>1
<1>9. ASSUME NEW j \in DOMAIN s, j # i PROVE \E k \in DOMAIN r : r[k] = s[j]
  <2> DEFINE k == IF j < i THEN j ELSE j - 1
  <2>1. k \in 1 .. n - 1 /\ (IF k < i THEN k ELSE k + 1) = j
    BY <1>1, <1>9
  <2>2. r[k] = s[j]
    BY <1>7, <2>1
  <2> QED
    BY <1>6, <2>1, <2>2
<1> QED
  BY <1>5, <1>6, <1>8, <1>9 DEF r

\* Append adds one element at the end.
LEMMA AppendListed ==
    ASSUME NEW S, NEW s \in Seq(S), NEW x \in S
    PROVE  /\ Append(s, x) \in Seq(S) /\ Len(Append(s, x)) = Len(s) + 1 /\ Append(s, x) # <<>>
           /\ DOMAIN Append(s, x) = 1 .. Len(s) + 1 /\ DOMAIN s = 1 .. Len(s)
           /\ \A i \in 1 .. Len(s) : Append(s, x)[i] = s[i]
           /\ Append(s, x)[Len(s) + 1] = x
  BY AppendProperties, LenProperties

Asks == [from : {"window", "tray"}, ask : {"on", "off", "toggle", "get"}]
Answers == [what : {"ok", "error", "on", "off", "configs"}, mode : Modes]

\* TypeOK without the parts that SysInv has.
BoxType == /\ queue \in Seq(Asks) /\ replies \in Seq(Answers)
           /\ current \in {"window", "tray", None} /\ (current = None <=> op = None)
           /\ checkbox \in BOOLEAN /\ mixed \in BOOLEAN /\ stale \in BOOLEAN
ModeType == /\ mode \in Modes /\ tab \in Modes /\ clicked \subseteq Modes /\ untold \in BOOLEAN
            /\ flying \subseteq [ask : Modes \union {"configs"}, nr : 0 .. MaxEvents]
            /\ events \in 0 .. MaxEvents

\* An answer is of the right kind.
LEMMA AnswerTyped ==
    ASSUME BoxType, ModeType, NEW what \in {"ok", "error", "on", "off", "configs"}
    PROVE  Answer(what) \in Seq(Answers)
<1>1. [what |-> what, mode |-> mode] \in Answers
  BY DEF ModeType, Answers
<1> QED
  BY <1>1, AppendListed DEF Answer, BoxType

\* A switch in progress goes on with the same goal or stores it in the flag.
LEMMA WorkOutcome ==
    ASSUME SysInv, Work
    PROVE  /\ op # None
           /\ \/ op' # None /\ op'.enable = op.enable /\ flag' = flag
              \/ op' = None /\ flag' = op.enable
<1>1. CASE CommandOk \/ NeedsAdmin
  <2>1. op # None /\ flag' = flag
    BY <1>1 DEF CommandOk, NeedsAdmin, Unfinished
  <2>2. op \in OpSet /\ op.i \in Nat
    BY <2>1, KindsListed DEF SysInv, Shape, OpSet
  <2>3. \E i \in Nat, admin \in BOOLEAN :
          op' = [enable |-> op.enable, svc |-> op.svc, i |-> i, admin |-> admin]
    <3>1. CASE CommandOk
      <4>1. op' = [op EXCEPT !.i = op.i + 1]
        BY <3>1 DEF CommandOk
      <4>2. op' = [enable |-> op.enable, svc |-> op.svc, i |-> op.i + 1, admin |-> op.admin]
            /\ op.i + 1 \in Nat /\ op.admin \in BOOLEAN
        BY <2>2, <4>1 DEF OpSet
      <4> QED
        BY <4>2
    <3>2. CASE NeedsAdmin
      <4>1. op' = [op EXCEPT !.i = 1, !.admin = TRUE]
        BY <3>2 DEF NeedsAdmin
      <4>2. op' = [enable |-> op.enable, svc |-> op.svc, i |-> 1, admin |-> TRUE]
        BY <2>2, <4>1 DEF OpSet
      <4> QED
        BY <4>2
    <3> QED
      BY <1>1, <3>1, <3>2
  <2>4. op' # None /\ op'.enable = op.enable
    <3>1. op.enable \in BOOLEAN /\ op.svc \in Services
      BY <2>2 DEF OpSet
    <3> QED
      BY <2>3, <3>1, SysProxyAssumption
  <2> QED
    BY <2>1, <2>4
<1>2. CASE Succeed
  BY <1>2 DEF Succeed
<1> QED
  BY <1>1, <1>2 DEF Work

\* A switch that fails leaves the flag.
LEMMA FailOutcome == ASSUME Fail PROVE op # None /\ op' = None /\ flag' = flag
  BY DEF Fail, CommandFails, Unsupported, Unfinished

\* The platform is what the program was built for.
LEMMA PlatformKept == [Next]_vars => platform' = platform
<1> SUFFICES ASSUME [Next]_vars PROVE platform' = platform
  OBVIOUS
<1>1. CASE Serve
  BY <1>1 DEF Serve, Begin, sysvars
<1>2. CASE Switch
  BY <1>2 DEF Switch, Work, CommandOk, NeedsAdmin, Succeed
<1>3. CASE SwitchFails \/ ChangeService \/ Relaunch
  BY <1>3 DEF SwitchFails, ChangeService, Relaunch, Fail, CommandFails, Unsupported,
              ServiceChanges, Restart
<1>4. CASE \/ ClickCheckbox \/ ClickTrayToggle \/ Refresh
           \/ \E i \in DOMAIN replies : Reply(i) \/ ShowConfigs(i)
           \/ \E m \in Modes : TrayMode(m) \/ TabMode(m)
           \/ \E r \in flying : Deliver(r) \/ RequestFails(r) \/ ConfigsAnswered(r)
           \/ UNCHANGED vars
  BY <1>4 DEF ClickCheckbox, ClickTrayToggle, Refresh, Reply, ShowConfigs, TrayMode,
       TabMode, Deliver, RequestFails, ConfigsAnswered, vars, sysvars
<1> QED
  BY <1>1, <1>2, <1>3, <1>4 DEF Next

\* Every step keeps the shape of what the window and the main thread share.
LEMMA StepBoxType == SysInv /\ BoxType /\ ModeType /\ [Next]_vars => BoxType'
<1> SUFFICES ASSUME SysInv, BoxType, ModeType, [Next]_vars PROVE BoxType'
  OBVIOUS
<1> USE GuiAssumption
<1>0. /\ queue \in Seq(Asks) /\ replies \in Seq(Answers) /\ flag \in BOOLEAN
      /\ current \in {"window", "tray", None} /\ (current = None <=> op = None)
      /\ checkbox \in BOOLEAN /\ mixed \in BOOLEAN /\ stale \in BOOLEAN
  BY DEF BoxType, SysInv, Shape
<1>1. ASSUME NEW from \in {"window", "tray"}, NEW ask \in {"on", "off", "toggle", "get"}
      PROVE  Append(queue, [from |-> from, ask |-> ask]) \in Seq(Asks)
  <2>1. [from |-> from, ask |-> ask] \in Asks
    BY DEF Asks
  <2> QED
    BY <1>0, <2>1, AppendListed
<1>2. ASSUME NEW i \in DOMAIN replies PROVE RemoveAt(replies, i) \in Seq(Answers)
  BY <1>0, RemoveAtProperties
<1>3. CASE ClickCheckbox
  <2>1. /\ checkbox' = ~checkbox /\ mixed' = (mixed \/ ~Quiet)
        /\ UNCHANGED <<op, current, replies, stale>>
    BY <1>3 DEF ClickCheckbox, Enqueue, sysvars
  <2>2. queue' \in Seq(Asks)
    BY <1>1, <1>3 DEF ClickCheckbox, Enqueue
  <2>3. mixed' \in BOOLEAN
    BY <1>0, <2>1
  <2> QED
    BY <1>0, <2>1, <2>2, <2>3 DEF BoxType
<1>4. CASE ClickTrayToggle
  <2>1. mixed' = (mixed \/ ~Quiet) /\ UNCHANGED <<op, current, replies, checkbox, stale>>
    BY <1>4 DEF ClickTrayToggle, Enqueue, sysvars
  <2>2. queue' \in Seq(Asks)
    BY <1>1, <1>4 DEF ClickTrayToggle, Enqueue
  <2>3. mixed' \in BOOLEAN
    BY <1>0, <2>1
  <2> QED
    BY <1>0, <2>1, <2>2, <2>3 DEF BoxType
<1>5. CASE Serve
  <2>1. /\ op = None /\ queue # <<>> /\ queue' = Tail(queue)
        /\ UNCHANGED <<checkbox, mixed, stale>>
    BY <1>5 DEF Serve
  <2>2. Head(queue) \in Asks /\ Tail(queue) \in Seq(Asks)
    BY <1>0, <2>1, HeadTailProperties
  <2>3. CASE Head(queue).ask = "get"
    <3>1. replies' = Answer(IF flag THEN "on" ELSE "off") /\ UNCHANGED <<op, current>>
      BY <1>5, <2>3 DEF Serve, sysvars
    <3>2. replies' \in Seq(Answers)
      BY <3>1, AnswerTyped
    <3> QED
      BY <1>0, <2>1, <2>2, <3>1, <3>2 DEF BoxType
  <2>4. CASE Head(queue).ask # "get"
    <3>1. /\ \E on : Begin(on)
          /\ current' = Head(queue).from /\ UNCHANGED replies
      BY <1>5, <2>4 DEF Serve
    <3>2. current' \in {"window", "tray"}
      BY <2>2, <3>1 DEF Asks
    <3>3. op' # None
      <4>1. PICK on \in BOOLEAN : Begin(on)
        BY <1>0, <1>5, <2>2, <2>4 DEF Serve, Asks
      <4>2. op' = [enable |-> on, svc |-> active, i |-> 1, admin |-> FALSE]
        BY <4>1 DEF Begin
      <4>3. active \in Services
        BY DEF SysInv, Shape
      <4>4. op' \in [enable : BOOLEAN, svc : Services, i : Nat, admin : BOOLEAN]
        BY <4>1, <4>2, <4>3
      <4> QED
        BY <4>4, SysProxyAssumption
    <3> QED
      BY <1>0, <2>1, <2>2, <3>1, <3>2, <3>3 DEF BoxType
  <2> QED
    BY <2>3, <2>4
<1>6. CASE Switch
  <2>1. Work /\ UNCHANGED <<queue, checkbox, mixed>>
    BY <1>6 DEF Switch
  <2>2. op # None
    BY <2>1, WorkOutcome
  <2>3. CASE op' = None
    <3>1. /\ replies' = (IF current = "window" THEN Answer("ok") ELSE replies)
          /\ stale' = (stale \/ current = "tray") /\ current' = None
      BY <1>6, <2>3 DEF Switch
    <3>2. replies' \in Seq(Answers) /\ stale' \in BOOLEAN
      BY <1>0, <3>1, AnswerTyped
    <3> QED
      BY <1>0, <2>1, <2>3, <3>1, <3>2 DEF BoxType
  <2>4. CASE op' # None
    BY <1>0, <1>6, <2>1, <2>2, <2>4 DEF BoxType, Switch
  <2> QED
    BY <2>3, <2>4
<1>7. CASE SwitchFails
  <2>1. /\ op' = None /\ current' = None /\ UNCHANGED <<queue, checkbox, mixed, stale>>
        /\ replies' = (IF current = "window" THEN Answer("error") ELSE replies)
    BY <1>7, FailOutcome DEF SwitchFails
  <2>2. replies' \in Seq(Answers)
    BY <1>0, <2>1, AnswerTyped
  <2> QED
    BY <1>0, <2>1, <2>2 DEF BoxType
<1>8. ASSUME NEW i, Reply(i) PROVE BoxType'
  <2>1. /\ i \in DOMAIN replies /\ replies[i].what # "configs" /\ replies' = RemoveAt(replies, i)
        /\ checkbox' = CheckboxAfter(replies[i].what)
        /\ mixed' = (mixed /\ ~(Len(replies) = 1 /\ queue = <<>> /\ op = None))
        /\ stale' = CASE replies[i].what = "ok" -> stale
                      [] replies[i].what = "error" -> stale \/ mixed
                      [] OTHER -> mixed
        /\ UNCHANGED <<op, queue, current>>
    BY <1>8 DEF Reply, sysvars
  <2>2. replies[i] \in Answers
    BY <1>0, <2>1, ElementOfSeq, LenProperties
  <2>3. replies[i].what \in {"ok", "error", "on", "off"}
    BY <2>1, <2>2 DEF Answers
  <2>4. checkbox' \in BOOLEAN /\ stale' \in BOOLEAN /\ mixed' \in BOOLEAN
    BY <1>0, <2>1, <2>3 DEF CheckboxAfter
  <2> QED
    BY <1>0, <1>2, <2>1, <2>4 DEF BoxType
<1>9. CASE Relaunch
  <2>1. /\ queue' = <<>> /\ current' = None /\ replies' = <<>> /\ checkbox' = FALSE
        /\ mixed' = FALSE /\ stale' = FALSE /\ op' = None
    BY <1>9 DEF Relaunch, Restart
  <2> QED
    BY <2>1, EmptySeq DEF BoxType
<1>10. ASSUME NEW r, ConfigsAnswered(r) PROVE BoxType'
  <2>1. replies' = Answer("configs") /\ UNCHANGED <<op, queue, current, checkbox, mixed, stale>>
    BY <1>10 DEF ConfigsAnswered, sysvars
  <2>2. replies' \in Seq(Answers)
    BY <2>1, AnswerTyped
  <2> QED
    BY <1>0, <2>1, <2>2 DEF BoxType
<1>11. ASSUME NEW i, ShowConfigs(i) PROVE BoxType'
  <2>1. /\ i \in DOMAIN replies /\ replies' = RemoveAt(replies, i)
        /\ queue' = Append(queue, [from |-> "window", ask |-> "get"])
        /\ mixed' = (mixed \/ queue # <<>> \/ op # None \/ Len(replies) > 1)
        /\ UNCHANGED <<op, current, checkbox, stale>>
    BY <1>11 DEF ShowConfigs, sysvars
  <2>2. mixed' \in BOOLEAN
    BY <1>0, <2>1
  <2> QED
    BY <1>0, <1>1, <1>2, <2>1, <2>2 DEF BoxType
<1>12. ASSUME \/ ChangeService \/ Refresh
              \/ \E m \in Modes : TrayMode(m) \/ TabMode(m)
              \/ \E r \in flying : Deliver(r) \/ RequestFails(r)
              \/ UNCHANGED vars
       PROVE  BoxType'
  <2>1. UNCHANGED <<op, boxvars>>
    BY <1>12 DEF ChangeService, ServiceChanges, Refresh, TrayMode, TabMode, Deliver,
                 RequestFails, vars, sysvars
  <2> QED
    BY <1>0, <2>1 DEF BoxType, boxvars
<1> QED
  BY <1>3, <1>4, <1>5, <1>6, <1>7, <1>8, <1>9, <1>10, <1>11, <1>12 DEF Next

\* Every step keeps the shape of what is about the mode.
LEMMA StepModeType == BoxType /\ ModeType /\ [Next]_vars => ModeType'
<1> SUFFICES ASSUME BoxType, ModeType, [Next]_vars PROVE ModeType'
  OBVIOUS
<1> USE GuiAssumption
<1> DEFINE Requests == [ask : Modes \union {"configs"}, nr : 0 .. MaxEvents]
<1>0. /\ mode \in Modes /\ tab \in Modes /\ clicked \subseteq Modes /\ untold \in BOOLEAN
      /\ flying \subseteq Requests /\ events \in 0 .. MaxEvents
  BY DEF ModeType
<1>1. Event => events + 1 \in 0 .. MaxEvents /\ events' = events + 1
  BY <1>0 DEF Event
<1>2. ASSUME Event, NEW a \in Modes \union {"configs"}, Fly(a) PROVE flying' \subseteq Requests
  <2>1. [ask |-> a, nr |-> events + 1] \in Requests
    BY <1>1, <1>2
  <2> QED
    BY <1>0, <1>2, <2>1 DEF Fly
<1>3. ASSUME NEW m \in Modes, TrayMode(m) \/ TabMode(m) PROVE ModeType'
  <2>1. /\ Event /\ Fly(m) /\ Clicks(m) /\ mode' = mode /\ tab' \in {tab, m}
        /\ untold' \in BOOLEAN
    BY <1>3 DEF TrayMode, TabMode
  <2>2. clicked' \subseteq Modes
    BY <1>0, <2>1 DEF Clicks
  <2> QED
    BY <1>0, <1>1, <1>2, <2>1, <2>2 DEF ModeType
<1>4. CASE Refresh
  <2>1. Event /\ Fly("configs") /\ UNCHANGED <<mode, tab, clicked, untold>>
    BY <1>4 DEF Refresh
  <2> QED
    BY <1>0, <1>1, <1>2, <2>1 DEF ModeType
<1>5. ASSUME NEW r \in flying, Deliver(r) PROVE ModeType'
  <2>1. r.ask \in Modes
    BY <1>0, <1>5 DEF Deliver
  <2>2. mode' = r.ask /\ flying' \subseteq flying /\ UNCHANGED <<tab, clicked, untold, events>>
    BY <1>5 DEF Deliver
  <2> QED
    BY <1>0, <2>1, <2>2 DEF ModeType
<1>6. ASSUME NEW r \in flying, RequestFails(r) PROVE ModeType'
  <2>1. /\ flying' \subseteq flying /\ untold' \in BOOLEAN /\ clicked' = clicked \union {mode}
        /\ UNCHANGED <<mode, tab, events>>
    BY <1>0, <1>6 DEF RequestFails
  <2> QED
    BY <1>0, <2>1 DEF ModeType
<1>7. ASSUME NEW r \in flying, ConfigsAnswered(r) PROVE ModeType'
  <2>1. flying' \subseteq flying /\ UNCHANGED <<mode, tab, clicked, untold, events>>
    BY <1>7 DEF ConfigsAnswered
  <2> QED
    BY <1>0, <2>1 DEF ModeType
<1>8. ASSUME NEW i, ShowConfigs(i) PROVE ModeType'
  <2>1. /\ i \in DOMAIN replies /\ tab' = replies[i].mode
        /\ untold' = (flying # {} \/ replies[i].mode # mode)
        /\ UNCHANGED <<mode, flying, clicked, events>>
    BY <1>8 DEF ShowConfigs
  <2>2. replies[i] \in Answers
    BY <2>1, ElementOfSeq, LenProperties DEF BoxType
  <2>3. tab' \in Modes /\ untold' \in BOOLEAN
    BY <2>1, <2>2 DEF Answers
  <2> QED
    BY <1>0, <2>1, <2>3 DEF ModeType
<1>9. CASE Relaunch
  <2>1. Event /\ tab' = "rule" /\ untold' = TRUE /\ mode' = mode
    BY <1>9 DEF Relaunch
  <2>2. PICK left \in SUBSET Patches :
          /\ flying' = left \union {[ask |-> "configs", nr |-> events + 1]}
          /\ clicked' = IF left = {} THEN {mode} ELSE {r.ask : r \in left}
    BY <1>9 DEF Relaunch
  <2>3. flying' \subseteq Requests
    BY <1>0, <1>1, <2>1, <2>2 DEF Patches
  <2>4. clicked' \subseteq Modes
    <3>1. \A r \in left : r.ask \in Modes
      BY <1>0 DEF Patches
    <3> QED
      BY <1>0, <2>2, <3>1
  <2> QED
    BY <1>0, <1>1, <2>1, <2>3, <2>4 DEF ModeType
<1>10. CASE ClickCheckbox \/ ClickTrayToggle \/ ChangeService
  <2>1. Event /\ UNCHANGED modevars
    BY <1>10 DEF ClickCheckbox, ClickTrayToggle, ChangeService
  <2> QED
    BY <1>0, <1>1, <2>1 DEF ModeType, modevars
<1>11. ASSUME Serve \/ Switch \/ SwitchFails \/ (\E i \in DOMAIN replies : Reply(i)) \/ UNCHANGED vars
       PROVE  ModeType'
  <2>1. UNCHANGED <<modevars, events>>
    BY <1>11 DEF Serve, Switch, SwitchFails, Reply, vars
  <2> QED
    BY <1>0, <2>1 DEF ModeType, modevars
<1> QED
  BY <1>3, <1>4, <1>5, <1>6, <1>7, <1>8, <1>9, <1>10, <1>11 DEF Next

\* The inductive invariant with the shape of the whole state.
GuiInv == SysInv /\ BoxType /\ ModeType /\ platform \in Platforms

LEMMA StepGui == GuiInv /\ [Next]_vars => GuiInv'
  BY StepSys, StepBoxType, StepModeType, PlatformKept DEF GuiInv

LEMMA InitGui == Init => GuiInv
<1> SUFFICES ASSUME Init PROVE GuiInv
  OBVIOUS
<1>1. BoxType
  BY GuiAssumption, EmptySeq DEF Init, SysInit, BoxType
<1>2. ModeType
  BY GuiAssumption DEF Init, ModeType
<1> QED
  BY <1>1, <1>2, InitSys DEF Init, SysInit, GuiInv

\* The state keeps its shape: there is a switch in progress exactly when someone
\* asked for one, and every answer and request is one the other side knows.
THEOREM GuiShapeIsKept == Spec => []TypeOK
<1>1. GuiInv => TypeOK
  BY KindsListed DEF GuiInv, SysInv, Shape, OpSet, BoxType, ModeType, Asks, Answers, TypeOK, SysTypeOK
<1> QED
  BY <1>1, InitGui, StepGui, PTL DEF Spec

-----------------------------------------------------------------------------
(* The outbound mode *)

\* Every change on its way was clicked, and so was the mode when none is; while
\* the tab is told, at most one change is on its way and the tab shows it, or
\* else the mode.
ModeInv ==
    /\ \A r \in Patches : r.ask \in clicked
    /\ Patches = {} => mode \in clicked
    /\ ~untold => /\ \A r, q \in Patches : r = q
                  /\ \A r \in Patches : r.ask = tab
                  /\ Patches = {} => tab = mode

\* The steps about the mode keep this.
LEMMA StepMode == ModeType /\ ModeInv /\ [Next]_vars => ModeInv'
<1> SUFFICES ASSUME ModeType, ModeInv, [Next]_vars PROVE ModeInv'
  OBVIOUS
<1> USE GuiAssumption
<1> DEFINE new(a) == [ask |-> a, nr |-> events + 1]
<1>1. ASSUME NEW m \in Modes, TrayMode(m) \/ TabMode(m) PROVE ModeInv'
  <2>1. /\ flying' = flying \union {new(m)} /\ mode' = mode
        /\ clicked' = (IF Patches = {} THEN {m} ELSE clicked \union {m})
        /\ untold' = TRUE \/ (untold' = (flying # {}) /\ tab' = m)
    BY <1>1 DEF TrayMode, TabMode, Fly, Clicks
  <2>2. new(m).ask = m /\ m # "configs"
    OBVIOUS
  <2> HIDE DEF new
  <2>3. Patches' = Patches \union {new(m)}
    BY <2>1, <2>2 DEF Patches
  <2>4. \A r \in Patches' : r.ask \in clicked'
    BY <2>1, <2>2, <2>3 DEF ModeInv
  <2>5. ~untold' => Patches' = {new(m)} /\ tab' = m
    BY <2>1, <2>3 DEF Patches
  <2> QED
    BY <2>2, <2>3, <2>4, <2>5 DEF ModeInv
<1>2. CASE Refresh
  <2>1. flying' = flying \union {new("configs")} /\ UNCHANGED <<mode, tab, clicked, untold>>
    BY <1>2 DEF Refresh, Fly
  <2>2. new("configs").ask = "configs"
    OBVIOUS
  <2> HIDE DEF new
  <2>3. Patches' = Patches
    BY <2>1, <2>2 DEF Patches
  <2> QED
    BY <2>1, <2>3 DEF ModeInv
<1>3. ASSUME NEW r \in flying, Deliver(r) PROVE ModeInv'
  <2>1. /\ r \in Patches /\ mode' = r.ask /\ Patches' = Patches \ {r}
        /\ UNCHANGED <<tab, clicked, untold>>
    BY <1>3 DEF Deliver, Patches
  <2> QED
    BY <2>1 DEF ModeInv
<1>4. ASSUME NEW r \in flying, RequestFails(r) PROVE ModeInv'
  <2>1. /\ Patches' = Patches \ {r} /\ (r.ask # "configs" => untold' = TRUE)
        /\ (r.ask = "configs" => r \notin Patches /\ untold' = untold)
        /\ clicked' = clicked \union {mode} /\ UNCHANGED <<mode, tab>>
    BY <1>4 DEF RequestFails, Patches, ModeType
  <2>2. CASE r.ask # "configs"
    BY <2>1, <2>2 DEF ModeInv
  <2>3. CASE r.ask = "configs"
    <3>1. Patches' = Patches
      BY <2>1, <2>3
    <3>2. untold' = untold
      BY <2>1, <2>3
    <3> QED
      BY <2>1, <3>1, <3>2 DEF ModeInv
  <2> QED
    BY <2>2, <2>3
<1>5. ASSUME NEW r \in flying, ConfigsAnswered(r) PROVE ModeInv'
  <2>1. Patches' = Patches /\ UNCHANGED <<mode, tab, clicked, untold>>
    BY <1>5 DEF ConfigsAnswered, Patches
  <2> QED
    BY <2>1 DEF ModeInv
<1>6. ASSUME NEW i, ShowConfigs(i) PROVE ModeInv'
  <2>1. /\ tab' = replies[i].mode /\ untold' = (flying # {} \/ replies[i].mode # mode)
        /\ Patches' = Patches /\ UNCHANGED <<mode, flying, clicked>>
    BY <1>6 DEF ShowConfigs, Patches
  <2>2. ~untold' => Patches' = {} /\ tab' = mode'
    BY <2>1 DEF Patches
  <2> QED
    BY <2>1, <2>2 DEF ModeInv
<1>7. CASE Relaunch
  <2>1. untold' = TRUE /\ mode' = mode
    BY <1>7 DEF Relaunch
  <2>2. PICK left \in SUBSET Patches :
          /\ flying' = left \union {new("configs")}
          /\ clicked' = IF left = {} THEN {mode} ELSE {r.ask : r \in left}
    BY <1>7 DEF Relaunch
  <2>3. new("configs").ask = "configs"
    OBVIOUS
  <2> HIDE DEF new
  <2>4. Patches' = left
    BY <2>2, <2>3 DEF Patches
  <2>5. (\A r \in left : r.ask \in clicked') /\ (left = {} => mode \in clicked')
    BY <2>2
  <2> QED
    BY <2>1, <2>4, <2>5 DEF ModeInv
<1>8. ASSUME \/ ClickCheckbox \/ ClickTrayToggle \/ Serve \/ Switch \/ SwitchFails
             \/ (\E i \in DOMAIN replies : Reply(i)) \/ ChangeService \/ UNCHANGED vars
      PROVE  ModeInv'
  <2>1. UNCHANGED <<mode, flying, tab, clicked, untold>>
    BY <1>8 DEF ClickCheckbox, ClickTrayToggle, Serve, Switch, SwitchFails, Reply, ChangeService,
                vars, modevars
  <2> QED
    BY <2>1 DEF ModeInv, Patches
<1> QED
  BY <1>1, <1>2, <1>3, <1>4, <1>5, <1>6, <1>7, <1>8 DEF Next

\* The proxy runs the mode of one of the clicks that were on their way together,
\* and the tab shows it unless it was not told.
THEOREM ModeIsClicked == Spec => []ModeFollowsClicks
<1>1. Init => ModeInv
  <2> SUFFICES ASSUME Init PROVE ModeInv
    OBVIOUS
  <2>1. flying = {[ask |-> "configs", nr |-> 0]} /\ clicked = {mode} /\ untold = TRUE
    BY DEF Init
  <2>2. Patches = {}
    BY <2>1 DEF Patches
  <2> QED
    BY <2>1, <2>2 DEF ModeInv
<1>2. ModeInv => ModeFollowsClicks
  BY DEF ModeInv, ModeFollowsClicks, Patches
<1>3. GuiInv => ModeType
  BY DEF GuiInv
<1> QED
  BY <1>1, <1>2, <1>3, InitGui, StepGui, StepMode, PTL DEF Spec

-----------------------------------------------------------------------------
(* The checkbox *)

Sets(e) == e.ask \in {"on", "off"}

\* What the last of the requests on their way that sets the switch asked for, if
\* there is one, is what the checkbox b shows.
Heard(q, b) ==
    \A i \in DOMAIN q : Sets(q[i]) /\ (\A j \in DOMAIN q : j > i => ~Sets(q[j]))
                            => (b <=> q[i].ask = "on")
Silent(q) == \A i \in DOMAIN q : ~Sets(q[i])

\* A click speaks for the checkbox from then on.
LEMMA HeardClick ==
    ASSUME NEW q \in Seq(Asks), NEW e \in Asks, Sets(e)
    PROVE  Heard(Append(q, e), e.ask = "on") /\ ~Silent(Append(q, e))
<1> DEFINE p == Append(q, e)
           n == Len(q)
<1>1. /\ n \in Nat /\ DOMAIN p = 1 .. n + 1 /\ p[n + 1] = e
  BY AppendListed, LenProperties
<1> HIDE DEF p, n
<1>2. n + 1 \in DOMAIN p
  BY <1>1
<1>3. ASSUME NEW i \in DOMAIN p, \A j \in DOMAIN p : j > i => ~Sets(p[j])
      PROVE  p[i] = e
  <2>1. i = n + 1 \/ n + 1 > i
    BY <1>1
  <2> QED
    BY <1>1, <1>2, <1>3, <2>1
<1>4. Heard(p, e.ask = "on")
  BY <1>3 DEF Heard
<1>5. ~Silent(p)
  BY <1>1, <1>2 DEF Silent
<1> QED
  BY <1>4, <1>5 DEF p

\* A request that does not set the switch makes no difference.
LEMMA HeardOther ==
    ASSUME NEW q \in Seq(Asks), NEW e \in Asks, ~Sets(e), NEW b \in BOOLEAN
    PROVE  /\ Heard(q, b) => Heard(Append(q, e), b)
           /\ Silent(Append(q, e)) => Silent(q)
<1> DEFINE p == Append(q, e)
           n == Len(q)
<1>1. /\ n \in Nat /\ DOMAIN p = 1 .. n + 1 /\ DOMAIN q = 1 .. n /\ p[n + 1] = e
      /\ \A i \in 1 .. n : p[i] = q[i]
  BY AppendListed, LenProperties
<1> HIDE DEF p, n
<1>2. ASSUME Heard(q, b), NEW i \in DOMAIN p, Sets(p[i]),
             \A j \in DOMAIN p : j > i => ~Sets(p[j])
      PROVE  b <=> p[i].ask = "on"
  <2>1. i \in DOMAIN q /\ p[i] = q[i]
    <3>1. i # n + 1
      BY <1>1, <1>2
    <3> QED
      BY <1>1, <3>1
  <2>2. \A j \in DOMAIN q : j > i => ~Sets(q[j])
    <3>1. \A j \in DOMAIN q : j \in DOMAIN p /\ p[j] = q[j]
      BY <1>1
    <3> QED
      BY <1>2, <3>1
  <2> QED
    BY <1>2, <2>1, <2>2 DEF Heard
<1>3. ASSUME Silent(p) PROVE Silent(q)
  <2>1. \A j \in DOMAIN q : j \in DOMAIN p /\ p[j] = q[j]
    BY <1>1
  <2> QED
    BY <1>3, <2>1 DEF Silent
<1>4. Heard(q, b) => Heard(p, b)
  BY <1>2 DEF Heard
<1> QED
  BY <1>3, <1>4 DEF p

\* Taking the next request off the queue: the later ones speak for the checkbox
\* as before, and if none does, the one taken does.
LEMMA HeardTail ==
    ASSUME NEW q \in Seq(Asks), q # <<>>, NEW b \in BOOLEAN
    PROVE  /\ Heard(q, b) => Heard(Tail(q), b)
           /\ Heard(q, b) /\ Silent(Tail(q)) /\ Sets(Head(q)) => (b <=> Head(q).ask = "on")
           /\ Silent(Tail(q)) /\ ~Sets(Head(q)) => Silent(q)
           /\ \A i \in DOMAIN Tail(q) : \E j \in DOMAIN q : Tail(q)[i] = q[j]
           /\ \A j \in DOMAIN q : q[j] = Head(q) \/ \E i \in DOMAIN Tail(q) : q[j] = Tail(q)[i]
           /\ 1 \in DOMAIN q /\ Head(q) = q[1]
           /\ Len(q) <= 1 => Tail(q) = <<>>
<1> DEFINE t == Tail(q)
           h == Head(q)
           n == Len(q)
<1>1. /\ n \in Nat /\ n # 0 /\ DOMAIN q = 1 .. n /\ DOMAIN t = 1 .. n - 1 /\ h = q[1]
      /\ \A i \in 1 .. n - 1 : t[i] = q[i + 1]
      /\ t \in Seq(Asks) /\ Len(t) = n - 1
  <2>1. /\ h \in Asks /\ t \in Seq(Asks) /\ Len(t) = n - 1
        /\ \A i \in 1 .. Len(t) : t[i] = q[i + 1]
    BY HeadTailProperties
  <2>2. n \in Nat /\ n # 0 /\ DOMAIN q = 1 .. n
    BY EmptySeq, LenProperties
  <2>3. h = q[1]
    BY DEF h
  <2> HIDE DEF t, h, n
  <2>4. DOMAIN t = 1 .. n - 1
    BY <2>1, LenProperties
  <2> QED
    BY <2>1, <2>2, <2>3, <2>4
<1> HIDE DEF t, h, n
<1>2. \A i \in DOMAIN t : i + 1 \in DOMAIN q /\ t[i] = q[i + 1]
  BY <1>1
<1>3. \A j \in DOMAIN q : j = 1 \/ (j - 1 \in DOMAIN t /\ q[j] = t[j - 1] /\ j > 1)
  <2> SUFFICES ASSUME NEW j \in DOMAIN q, j # 1
               PROVE  j - 1 \in DOMAIN t /\ q[j] = t[j - 1] /\ j > 1
    OBVIOUS
  <2>1. j - 1 \in 1 .. n - 1 /\ (j - 1) + 1 = j /\ j > 1
    BY <1>1
  <2> QED
    BY <1>1, <2>1
<1>4. ASSUME Heard(q, b), NEW i \in DOMAIN t, Sets(t[i]),
             \A j \in DOMAIN t : j > i => ~Sets(t[j])
      PROVE  b <=> t[i].ask = "on"
  <2>1. i + 1 \in DOMAIN q /\ t[i] = q[i + 1] /\ i \in Nat /\ i > 0
    BY <1>1, <1>2
  <2>2. ASSUME NEW j \in DOMAIN q, j > i + 1 PROVE ~Sets(q[j])
    <3>1. j \in Nat
      BY <1>1
    <3>2. j - 1 \in DOMAIN t /\ q[j] = t[j - 1] /\ j - 1 > i
      BY <1>3, <2>1, <2>2, <3>1
    <3> QED
      BY <1>4, <3>2
  <2> QED
    BY <1>4, <2>1, <2>2 DEF Heard
<1>5. Heard(q, b) => Heard(t, b)
  BY <1>4 DEF Heard
<1>6. ASSUME Heard(q, b), Silent(t), Sets(h) PROVE b <=> h.ask = "on"
  <2>1. \A j \in DOMAIN q : j > 1 => ~Sets(q[j])
    BY <1>3, <1>6 DEF Silent
  <2>2. 1 \in DOMAIN q
    BY <1>1
  <2> QED
    BY <1>1, <1>6, <2>1, <2>2 DEF Heard
<1>7. Silent(t) /\ ~Sets(h) => Silent(q)
  BY <1>1, <1>3 DEF Silent
<1>8. n <= 1 => t = <<>>
  BY <1>1, EmptySeq
<1>9. /\ \A i \in DOMAIN t : \E j \in DOMAIN q : t[i] = q[j]
      /\ \A j \in DOMAIN q : q[j] = h \/ \E i \in DOMAIN t : q[j] = t[i]
      /\ 1 \in DOMAIN q
  <2>1. \A i \in DOMAIN t : \E j \in DOMAIN q : t[i] = q[j]
    BY <1>2
  <2>2. ASSUME NEW j \in DOMAIN q, q[j] # h PROVE \E i \in DOMAIN t : q[j] = t[i]
    <3>1. j # 1
      BY <1>1, <2>2
    <3> QED
      BY <1>3, <3>1
  <2>3. 1 \in DOMAIN q
    BY <1>1
  <2> QED
    BY <2>1, <2>2, <2>3
<1>10. /\ Heard(q, b) => Heard(t, b)
       /\ Heard(q, b) /\ Silent(t) /\ Sets(h) => (b <=> h.ask = "on")
       /\ Silent(t) /\ ~Sets(h) => Silent(q)
       /\ n <= 1 => t = <<>>
       /\ h = q[1]
  BY <1>1, <1>5, <1>6, <1>7, <1>8
<1> QED
  BY ONLY <1>9, <1>10 DEF t, h, n

\* An answer of one of these kinds is on its way to the window.
Said(kinds) == \E i \in DOMAIN replies : replies[i].what \in kinds

\* As long as the window's requests do not overlap, there is one of them, in the
\* queue, in progress or answered, and an answer about the switch is still true.
Alone ==
    /\ Len(queue) <= 1
    /\ queue # <<>> => op = None
    /\ queue # <<>> \/ op # None => ~Said({"ok", "error", "on", "off"})
    /\ \A i, j \in DOMAIN replies :
         replies[i].what # "configs" /\ replies[j].what # "configs" => i = j
    /\ (Said({"on"}) => flag) /\ (Said({"off"}) => ~flag)

\* An answer is, or will be, on its way that may turn the checkbox round wrongly.
Doubt == Said({"error", "on", "off"}) \/ \E i \in DOMAIN queue : queue[i].ask = "get"

\* What the switch will be if everything the window asked for succeeds.
Goal == IF current = "window" THEN op.enable ELSE flag

\* The checkbox shows what the window asked for last, or the switch if nothing
\* of that is on its way; after an error, the opposite of the switch.
Follows ==
    /\ Said({"error"}) => (checkbox <=> ~flag)
    /\ ~Said({"error"}) => Heard(queue, checkbox) /\ (Silent(queue) => (checkbox <=> Goal))

\* What the window asks for alone turns the switch round.
Turns == /\ \A i \in DOMAIN queue : Sets(queue[i]) => (queue[i].ask = "on" <=> ~flag)
         /\ current = "window" => (op.enable <=> ~flag)

\* The inductive invariant.  An error or a refresh that overlaps with another
\* request leaves doubt, and the answer then marks the checkbox stale.
BoxInv ==
    /\ ~mixed => Alone
    /\ ~stale /\ ~(mixed /\ Doubt) => Follows
    /\ ~stale /\ ~mixed => Turns
    /\ \A i \in DOMAIN queue : queue[i].from = "window" <=> queue[i].ask # "toggle"

\* A new answer is said, and nothing else changes.
LEMMA SaidAppend ==
    ASSUME BoxType, ModeType, NEW what \in {"ok", "error", "on", "off", "configs"},
           replies' = Answer(what)
    PROVE  /\ \A kinds : Said(kinds)' <=> Said(kinds) \/ what \in kinds
           /\ ~Said({"ok", "error", "on", "off"}) =>
                \A i, j \in DOMAIN replies' :
                  replies'[i].what # "configs" /\ replies'[j].what # "configs" => i = j
           /\ what = "configs" => \A i \in DOMAIN replies' :
                replies'[i].what # "configs" => i \in DOMAIN replies /\ replies'[i] = replies[i]
<1> DEFINE x == [what |-> what, mode |-> mode]
           n == Len(replies)
<1>1. x \in Answers /\ replies \in Seq(Answers) /\ x.what = what
  BY DEF BoxType, ModeType, Answers
<1>2. replies' = Append(replies, x)
  BY DEF Answer
<1> HIDE DEF x, n
<1>3. /\ n \in Nat /\ DOMAIN replies' = 1 .. n + 1 /\ DOMAIN replies = 1 .. n
      /\ replies'[n + 1] = x /\ \A i \in 1 .. n : replies'[i] = replies[i]
  BY <1>1, <1>2, AppendListed, LenProperties DEF n
<1>4. \A i \in DOMAIN replies' : i = n + 1 \/ (i \in DOMAIN replies /\ replies'[i] = replies[i])
  BY <1>3
<1>5. \A i \in DOMAIN replies : i \in DOMAIN replies' /\ replies'[i] = replies[i]
  BY <1>3
<1>6. ASSUME NEW kinds PROVE Said(kinds)' <=> Said(kinds) \/ what \in kinds
  <2>1. n + 1 \in DOMAIN replies'
    BY <1>3
  <2> QED
    BY <1>1, <1>3, <1>4, <1>5, <2>1 DEF Said
<1>7. ASSUME ~Said({"ok", "error", "on", "off"}),
             NEW i \in DOMAIN replies', replies'[i].what # "configs"
      PROVE  i = n + 1
  <2>1. ASSUME i \in DOMAIN replies PROVE FALSE
    <3>1. replies[i] \in Answers /\ replies'[i] = replies[i]
      BY <1>1, <1>5, <2>1, ElementOfSeq, LenProperties
    <3> QED
      BY <1>7, <2>1, <3>1 DEF Said, Answers
  <2> QED
    BY <1>4, <2>1
<1>8. ASSUME what = "configs", NEW i \in DOMAIN replies', replies'[i].what # "configs"
      PROVE  i \in DOMAIN replies /\ replies'[i] = replies[i]
  BY <1>1, <1>3, <1>4, <1>8
<1> QED
  BY <1>6, <1>7, <1>8

\* An answer that was handled is not said any more; the others are.
LEMMA SaidRemove ==
    ASSUME BoxType, NEW i \in DOMAIN replies, replies' = RemoveAt(replies, i)
    PROVE  /\ \A kinds : Said(kinds)' => Said(kinds)
           /\ \A kinds : replies[i].what \notin kinds /\ Said(kinds) => Said(kinds)'
           /\ (\A k, j \in DOMAIN replies :
                 replies[k].what # "configs" /\ replies[j].what # "configs" => k = j)
              /\ replies[i].what # "configs"
                => \A k \in DOMAIN replies' : replies'[k].what = "configs"
           /\ Len(replies) <= 1 => replies' = <<>>
<1>1. replies \in Seq(Answers)
  BY DEF BoxType
<1>2. /\ replies' \in Seq(Answers) /\ Len(replies') = Len(replies) - 1
      /\ \A k \in DOMAIN replies' : \E j \in DOMAIN replies : j # i /\ replies'[k] = replies[j]
      /\ \A j \in DOMAIN replies : j # i => \E k \in DOMAIN replies' : replies'[k] = replies[j]
  BY <1>1, RemoveAtProperties
<1>3. Len(replies) <= 1 => replies' = <<>>
  BY <1>1, <1>2, EmptySeq, LenProperties
<1> QED
  BY <1>2, <1>3 DEF Said

\* The types the steps below need.
LEMMA BoxTypes ==
    ASSUME GuiInv
    PROVE  /\ BoxType /\ ModeType /\ SysInv
           /\ queue \in Seq(Asks) /\ replies \in Seq(Answers) /\ DOMAIN replies = 1 .. Len(replies)
           /\ flag \in BOOLEAN /\ checkbox \in BOOLEAN /\ mixed \in BOOLEAN /\ stale \in BOOLEAN
           /\ op # None => op.enable \in BOOLEAN
           /\ current = "window" => op # None
           /\ \A i \in DOMAIN queue : queue[i] \in Asks
<1>1. queue \in Seq(Asks) /\ replies \in Seq(Answers)
  BY DEF GuiInv, BoxType
<1>2. \A i \in DOMAIN queue : queue[i] \in Asks
  BY <1>1, ElementOfSeq, LenProperties
<1>3. op # None => op.enable \in BOOLEAN
  BY DEF GuiInv, SysInv, Shape, OpSet
<1> QED
  BY <1>1, <1>2, <1>3, LenProperties, GuiAssumption DEF GuiInv, BoxType, SysInv, Shape

\* A click on the checkbox.
LEMMA ClickBox == ASSUME GuiInv, BoxInv, ClickCheckbox PROVE BoxInv'
<1> DEFINE e == [from |-> "window", ask |-> IF checkbox THEN "off" ELSE "on"]
<1>1. /\ checkbox' = ~checkbox /\ queue' = Append(queue, e) /\ mixed' = (mixed \/ ~Quiet)
      /\ UNCHANGED <<op, flag, current, replies, stale>>
  BY DEF ClickCheckbox, Enqueue, sysvars
<1>2. e \in Asks /\ Sets(e) /\ (checkbox' <=> e.ask = "on") /\ e.ask # "get"
      /\ e.from = "window" /\ e.ask # "toggle"
  BY <1>1, BoxTypes DEF Asks, Sets
<1> HIDE DEF e
<1>3. Heard(queue', checkbox') /\ ~Silent(queue')
  <2>1. Heard(queue', e.ask = "on") /\ ~Silent(queue')
    BY <1>1, <1>2, BoxTypes, HeardClick
  <2> QED
    BY <1>2, <2>1 DEF Heard
<1>4. /\ DOMAIN queue' = 1 .. Len(queue) + 1 /\ DOMAIN queue = 1 .. Len(queue) /\ Len(queue) \in Nat
      /\ queue'[Len(queue) + 1] = e /\ \A i \in 1 .. Len(queue) : queue'[i] = queue[i]
      /\ Len(queue') = Len(queue) + 1
  BY <1>1, <1>2, BoxTypes, AppendListed, LenProperties
<1>5. /\ \A i \in DOMAIN queue' : queue'[i] = e \/ (i \in DOMAIN queue /\ queue'[i] = queue[i])
      /\ \A i \in DOMAIN queue : i \in DOMAIN queue' /\ queue'[i] = queue[i]
  BY <1>4
<1>6. \A kinds : Said(kinds)' <=> Said(kinds)
  BY <1>1 DEF Said
<1>7. ASSUME ~mixed' PROVE Alone'
  <2>1. queue = <<>> /\ op = None /\ replies = <<>>
    BY <1>1, <1>7 DEF Quiet
  <2>2. Len(queue) = 0 /\ DOMAIN replies = {}
    BY <2>1
  <2>3. Len(queue') <= 1
    BY <1>4, <2>2
  <2> QED
    BY <1>1, <2>1, <2>2, <2>3 DEF Alone, Said
<1>8. ASSUME ~stale', ~(mixed' /\ Doubt') PROVE Follows'
  <2>1. ~Said({"error"})
    <3> SUFFICES ASSUME Said({"error"}) PROVE FALSE
      OBVIOUS
    <3>1. Doubt'
      BY <1>6 DEF Doubt, Said
    <3>2. mixed'
      <4> SUFFICES ASSUME replies = <<>> PROVE FALSE
        BY <1>1 DEF Quiet
      <4>1. DOMAIN replies = {}
        OBVIOUS
      <4> QED
        BY <4>1 DEF Said
    <3> QED
      BY <1>8, <3>1, <3>2
  <2> QED
    BY <1>3, <1>6, <2>1 DEF Follows
<1>9. \A i \in DOMAIN queue' : queue'[i].from = "window" <=> queue'[i].ask # "toggle"
  BY <1>2, <1>5 DEF BoxInv
<1>10. ASSUME ~stale', ~mixed' PROVE Turns'
  <2>1. queue = <<>> /\ op = None /\ replies = <<>> /\ ~mixed
    BY <1>1, <1>10 DEF Quiet
  <2>2. DOMAIN queue = {} /\ DOMAIN replies = {} /\ current # "window"
    BY <2>1, BoxTypes
  <2>3. Follows
    BY <1>1, <1>10, <2>1 DEF BoxInv
  <2>4. checkbox <=> flag
    BY <2>2, <2>3 DEF Follows, Said, Silent, Goal
  <2>5. \A i \in DOMAIN queue' : queue'[i] = e
    BY <1>5, <2>2
  <2>6. e.ask = "on" <=> ~flag'
    BY <1>1, <1>2, <2>4
  <2> QED
    BY <1>1, <2>2, <2>5, <2>6 DEF Turns
<1> QED
  BY <1>7, <1>8, <1>9, <1>10 DEF BoxInv

\* A toggle from the tray waits in the queue, or a refresh of the window, which
\* took an answer about the mode away.
LEMMA OtherBox ==
    ASSUME GuiInv, BoxInv, NEW e \in Asks, ~Sets(e), queue' = Append(queue, e),
           e.from = "window" <=> e.ask # "toggle",
           UNCHANGED <<op, flag, current, checkbox, stale>>,
           \A kinds : "configs" \notin kinds => (Said(kinds)' <=> Said(kinds)),
           mixed => mixed', mixed' \in BOOLEAN,
           ~mixed' => queue = <<>> /\ op = None /\ replies' = <<>>
    PROVE  BoxInv'
<1>1. /\ DOMAIN queue' = 1 .. Len(queue) + 1 /\ DOMAIN queue = 1 .. Len(queue) /\ Len(queue) \in Nat
      /\ queue'[Len(queue) + 1] = e /\ \A i \in 1 .. Len(queue) : queue'[i] = queue[i]
      /\ Len(queue') = Len(queue) + 1
  BY BoxTypes, AppendListed, LenProperties
<1>2. /\ \A i \in DOMAIN queue' : queue'[i] = e \/ (i \in DOMAIN queue /\ queue'[i] = queue[i])
      /\ \A i \in DOMAIN queue : i \in DOMAIN queue' /\ queue'[i] = queue[i]
  BY <1>1
<1>3. ASSUME ~mixed' PROVE Alone'
  <2>1. Len(queue) = 0 /\ DOMAIN replies' = {} /\ op' = None
    BY <1>3
  <2>2. Len(queue') <= 1
    BY <1>1, <2>1
  <2> QED
    BY <2>1, <2>2 DEF Alone, Said
<1>4. ASSUME ~stale', ~(mixed' /\ Doubt') PROVE Follows'
  <2>1. Said({"error"})' <=> Said({"error"})
    OBVIOUS
  <2>2. Doubt => Doubt'
    <3>1. Said({"error", "on", "off"}) => Said({"error", "on", "off"})'
      OBVIOUS
    <3> QED
      BY <1>2, <3>1 DEF Doubt
  <2>3. Follows
    BY <1>4, <2>2 DEF BoxInv
  <2>4. /\ Heard(queue, checkbox) => Heard(queue', checkbox)
        /\ Silent(queue') => Silent(queue)
    BY BoxTypes, HeardOther
  <2>5. (Goal' <=> Goal) /\ (checkbox' <=> checkbox) /\ (flag' <=> flag)
    BY DEF Goal
  <2>6. CASE Said({"error"})
    BY <2>1, <2>3, <2>5, <2>6 DEF Follows
  <2>7. CASE ~Said({"error"})
    <3>1. Heard(queue', checkbox') /\ (Silent(queue') => (checkbox' <=> Goal'))
      BY <2>3, <2>4, <2>5, <2>7 DEF Follows
    <3> QED
      BY <2>1, <2>7, <3>1 DEF Follows
  <2> QED
    BY <2>6, <2>7
<1>5. \A i \in DOMAIN queue' : queue'[i].from = "window" <=> queue'[i].ask # "toggle"
  BY <1>2 DEF BoxInv
<1>6. ASSUME ~mixed' PROVE Turns'
  <2>1. DOMAIN queue = {} /\ op = None /\ current # "window"
    BY <1>6, BoxTypes
  <2>2. \A i \in DOMAIN queue' : queue'[i] = e
    BY <1>2, <2>1
  <2> QED
    BY <2>1, <2>2 DEF Turns
<1> QED
  BY <1>3, <1>4, <1>5, <1>6 DEF BoxInv

\* Nothing about the switch is on its way any more.
LEMMA CalmBox ==
    ASSUME queue' = <<>>, op' = None, current' # "window",
           \A k \in DOMAIN replies' : replies'[k].what = "configs",
           ~stale' => (checkbox' <=> flag')
    PROVE  /\ Alone' /\ Turns' /\ BoxInv'
           /\ \A kinds : "configs" \notin kinds => ~Said(kinds)'
<1>1. Len(queue') = 0 /\ DOMAIN queue' = {}
  OBVIOUS
<1>2. ASSUME NEW kinds, "configs" \notin kinds PROVE ~Said(kinds)'
  BY <1>2 DEF Said
<1>3. ~Said({"ok", "error", "on", "off"})' /\ ~Said({"on"})' /\ ~Said({"off"})' /\ ~Said({"error"})'
  BY <1>2
<1>4. Alone'
  BY <1>1, <1>3 DEF Alone
<1>5. Turns'
  BY <1>1 DEF Turns
<1>6. ~stale' => Follows'
  BY <1>1, <1>3 DEF Follows, Heard, Goal
<1> QED
  BY <1>1, <1>2, <1>4, <1>5, <1>6 DEF BoxInv

\* The main thread takes a request off the queue.
LEMMA ServeBox == ASSUME GuiInv, BoxInv, Serve PROVE BoxInv'
<1> DEFINE h == Head(queue)
<1>1. /\ op = None /\ queue # <<>> /\ queue' = Tail(queue) /\ flag' = flag
      /\ UNCHANGED <<checkbox, mixed, stale>>
  BY DEF Serve, Begin, sysvars
<1>2. /\ Heard(queue, checkbox) => Heard(queue', checkbox)
      /\ Heard(queue, checkbox) /\ Silent(queue') /\ Sets(h) => (checkbox <=> h.ask = "on")
      /\ Silent(queue') /\ ~Sets(h) => Silent(queue)
      /\ \A i \in DOMAIN queue' : \E j \in DOMAIN queue : queue'[i] = queue[j]
      /\ \A j \in DOMAIN queue : queue[j] = h \/ \E i \in DOMAIN queue' : queue[j] = queue'[i]
      /\ \E j \in DOMAIN queue : queue[j] = h
      /\ Len(queue) <= 1 => queue' = <<>>
  <2>1. queue \in Seq(Asks) /\ checkbox \in BOOLEAN
    BY BoxTypes
  <2> QED
    BY <1>1, <2>1, HeardTail
<1>3. current # "window" /\ Goal = flag
  BY <1>1, BoxTypes DEF Goal
<1>4. h \in Asks /\ (h.from = "window" <=> h.ask # "toggle")
  BY <1>2, BoxTypes DEF BoxInv
<1>5. \A i \in DOMAIN queue' : queue'[i].from = "window" <=> queue'[i].ask # "toggle"
  BY <1>2 DEF BoxInv
<1>6. ~mixed => /\ Alone /\ queue' = <<>> /\ ~Said({"ok", "error", "on", "off"})
                /\ ~Said({"error"}) /\ ~Said({"on"}) /\ ~Said({"off"})
  <2> SUFFICES ASSUME ~mixed PROVE /\ Alone /\ queue' = <<>> /\ ~Said({"ok", "error", "on", "off"})
                /\ ~Said({"error"}) /\ ~Said({"on"}) /\ ~Said({"off"})
    OBVIOUS
  <2>1. Alone
    BY DEF BoxInv
  <2>2. queue' = <<>> /\ ~Said({"ok", "error", "on", "off"})
    BY <1>1, <1>2, <2>1 DEF Alone
  <2> QED
    BY <2>1, <2>2 DEF Said
<1>7. CASE h.ask = "get"
  <2> DEFINE what == IF flag THEN "on" ELSE "off"
  <2>1. replies' = Answer(what) /\ UNCHANGED <<op, current>>
    BY <1>7 DEF Serve, sysvars
  <2>2. what \in {"ok", "error", "on", "off", "configs"} /\ (what = "on" <=> flag)
        /\ what \in {"on", "off"} /\ BoxType /\ ModeType
    BY BoxTypes
  <2> HIDE DEF what, h
  <2>3. /\ \A kinds : Said(kinds)' <=> Said(kinds) \/ what \in kinds
        /\ ~Said({"ok", "error", "on", "off"}) =>
             \A i, j \in DOMAIN replies' :
               replies'[i].what # "configs" /\ replies'[j].what # "configs" => i = j
    BY <2>1, <2>2, SaidAppend
  <2>4. Doubt'
    BY <2>2, <2>3 DEF Doubt
  <2>5. ASSUME ~mixed PROVE Alone'
    <3>1. Said({"on"})' => flag
      BY <1>6, <2>2, <2>3, <2>5
    <3>2. Said({"off"})' => ~flag
      BY <1>6, <2>2, <2>3, <2>5
    <3>3. queue' = <<>> /\ Len(queue') = 0
      BY <1>6, <2>5
    <3> QED
      BY <1>1, <1>6, <2>1, <2>3, <2>5, <3>1, <3>2, <3>3 DEF Alone
  <2>6. ASSUME ~stale, ~mixed PROVE Follows' /\ Turns'
    <3>1. Follows /\ ~Said({"error"})
      BY <1>6, <2>6 DEF BoxInv
    <3>2. ~Said({"error"})'
      BY <2>2, <2>3, <3>1
    <3>3. DOMAIN queue' = {}
      BY <1>6, <2>6
    <3>4. checkbox <=> flag
      BY <1>2, <1>3, <1>7, <3>1, <3>3 DEF Follows, Silent, Sets
    <3> QED
      BY <1>1, <1>3, <2>1, <3>2, <3>3, <3>4 DEF Follows, Heard, Turns, Goal
  <2> QED
    BY <1>1, <1>5, <2>4, <2>5, <2>6 DEF BoxInv
<1>8. CASE h.ask # "get"
  <2> DEFINE on == IF h.ask = "toggle" THEN ~flag ELSE h.ask = "on"
  <2>1. Begin(on) /\ current' = h.from /\ UNCHANGED replies
    BY <1>8 DEF Serve
  <2>2. /\ op' = [enable |-> on, svc |-> active, i |-> 1, admin |-> FALSE]
    BY <2>1 DEF Begin
  <2>3. (op'.enable <=> on) /\ \A kinds : Said(kinds)' <=> Said(kinds)
    BY <2>1, <2>2 DEF Said
  <2>4. /\ h.from = "window" => Sets(h) /\ (op'.enable <=> h.ask = "on")
        /\ h.from # "window" => ~Sets(h)
    BY <1>4, <1>8, <2>3 DEF Asks, Sets
  <2> HIDE DEF on, h
  <2>5. mixed /\ Doubt => Doubt'
    <3>1. ASSUME NEW j \in DOMAIN queue, queue[j].ask = "get"
          PROVE  \E i \in DOMAIN queue' : queue'[i].ask = "get"
      BY <1>2, <1>8, <3>1
    <3> QED
      BY <2>3, <3>1 DEF Doubt
  <2>6. ASSUME ~mixed PROVE Alone'
    <3>1. queue' = <<>> /\ Len(queue') = 0
      BY <1>6, <2>6
    <3> QED
      BY <1>1, <1>6, <2>1, <2>3, <2>6, <3>1 DEF Alone
  <2>7. ASSUME ~stale, ~(mixed /\ Doubt') PROVE Follows'
    <3>1. Follows
      BY <2>5, <2>7 DEF BoxInv
    <3>2. CASE Said({"error"})
      BY <1>1, <2>3, <3>1, <3>2 DEF Follows
    <3>3. CASE ~Said({"error"})
      <4>1. Heard(queue, checkbox) /\ (Silent(queue) => (checkbox <=> flag))
        BY <1>3, <3>1, <3>3 DEF Follows
      <4>2. Silent(queue') => (checkbox <=> Goal')
        BY <1>1, <1>2, <2>1, <2>4, <4>1 DEF Goal
      <4> QED
        BY <1>1, <1>2, <2>3, <3>3, <4>1, <4>2 DEF Follows
    <3> QED
      BY <3>2, <3>3
  <2>8. ASSUME ~stale, ~mixed PROVE Turns'
    <3>1. Turns /\ DOMAIN queue' = {}
      BY <1>6, <2>8 DEF BoxInv
    <3>2. Sets(h) => (h.ask = "on" <=> ~flag)
      BY <1>2, <3>1 DEF Turns
    <3>3. current' = "window" => (op'.enable <=> ~flag')
      BY <1>1, <2>1, <2>4, <3>2
    <3> QED
      BY <3>1, <3>3 DEF Turns
  <2> QED
    BY <1>1, <1>5, <2>6, <2>7, <2>8 DEF BoxInv
<1> QED
  BY <1>7, <1>8

\* What is known while a switch is in progress and requests do not overlap.
LEMMA AloneSwitch ==
    ASSUME GuiInv, BoxInv, op # None, ~mixed
    PROVE  queue = <<>> /\ \A k \in DOMAIN replies : replies[k].what = "configs"
<1>1. Alone
  BY DEF BoxInv
<1>2. queue = <<>> /\ ~Said({"ok", "error", "on", "off"})
  BY <1>1 DEF Alone
<1>3. \A k \in DOMAIN replies : replies[k] \in Answers
  BY BoxTypes, ElementOfSeq
<1> QED
  BY <1>2, <1>3 DEF Said, Answers

\* The switch goes on, or ends and the window is answered.
LEMMA SwitchBox == ASSUME GuiInv, BoxInv, Switch PROVE BoxInv'
<1>1. /\ op # None /\ UNCHANGED <<queue, checkbox, mixed>>
      /\ \/ op' # None /\ op'.enable = op.enable /\ flag' = flag
         \/ op' = None /\ flag' = op.enable
  BY WorkOutcome, BoxTypes DEF Switch
<1>2. CASE op' # None
  <2>1. UNCHANGED <<replies, stale, current, flag>> /\ op'.enable = op.enable
    BY <1>1, <1>2 DEF Switch
  <2>2. /\ Alone => Alone'
        /\ Doubt => Doubt'
        /\ Follows => Follows'
        /\ Turns => Turns'
    BY <1>1, <1>2, <2>1 DEF Alone, Doubt, Follows, Turns, Said, Goal
  <2> QED
    BY <1>1, <2>1, <2>2 DEF BoxInv
<1>3. CASE op' = None
  <2>1. /\ replies' = (IF current = "window" THEN Answer("ok") ELSE replies)
        /\ stale' = (stale \/ current = "tray") /\ current' = None /\ (flag' <=> op.enable)
    BY <1>1, <1>3 DEF Switch
  <2>2. current \in {"window", "tray"} /\ None # "window"
    BY <1>1, GuiAssumption DEF GuiInv, BoxType
  <2>3. CASE current = "tray"
    <3>1. stale' = TRUE /\ replies' = replies
      BY <2>1, <2>3
    <3>2. ASSUME ~mixed PROVE Alone'
      <4>1. queue = <<>> /\ \A k \in DOMAIN replies : replies[k].what = "configs"
        BY <1>1, <3>2, AloneSwitch
      <4> QED
        BY <1>1, <1>3, <2>1, <2>2, <3>1, <4>1, CalmBox
    <3> QED
      BY <1>1, <3>1, <3>2 DEF BoxInv
  <2>4. CASE current = "window"
    <3>1. replies' = Answer("ok") /\ (stale' <=> stale)
      BY <2>1, <2>4, BoxTypes
    <3>2. /\ \A kinds : Said(kinds)' <=> Said(kinds) \/ "ok" \in kinds
          /\ ~Said({"ok", "error", "on", "off"}) =>
               \A i, j \in DOMAIN replies' :
                 replies'[i].what # "configs" /\ replies'[j].what # "configs" => i = j
      BY <3>1, BoxTypes, SaidAppend
    <3>3. (Said({"error"})' <=> Said({"error"})) /\ (Said({"on"})' <=> Said({"on"}))
          /\ (Said({"off"})' <=> Said({"off"}))
          /\ (Said({"error", "on", "off"})' <=> Said({"error", "on", "off"}))
      BY <3>2
    <3>4. ~mixed => /\ queue = <<>> /\ ~Said({"ok", "error", "on", "off"}) /\ ~Said({"error"})
                    /\ ~Said({"on"}) /\ ~Said({"off"})
      BY <1>1, AloneSwitch DEF Said
    <3>5. ASSUME ~mixed PROVE Alone' /\ Turns'
      <4>1. queue' = <<>> /\ Len(queue') = 0 /\ DOMAIN queue' = {}
        BY <1>1, <3>4, <3>5
      <4> QED
        BY <1>3, <2>1, <2>2, <3>2, <3>3, <3>4, <3>5, <4>1 DEF Alone, Turns
    <3>6. ASSUME ~stale, ~(mixed /\ Doubt') PROVE Follows'
      <4>1. Doubt' <=> Doubt
        BY <1>1, <3>3 DEF Doubt
      <4>2. Follows
        BY <3>6, <4>1 DEF BoxInv
      <4>3. ~Said({"error"})
        BY <3>4, <3>6, <4>1 DEF Doubt, Said
      <4>4. Heard(queue, checkbox) /\ (Silent(queue) => (checkbox <=> op.enable))
        BY <2>4, <4>2, <4>3 DEF Follows, Goal
      <4> QED
        BY <1>1, <2>1, <2>2, <3>3, <4>3, <4>4 DEF Follows, Goal
    <3> QED
      BY <1>1, <3>1, <3>5, <3>6 DEF BoxInv
  <2> QED
    BY <2>2, <2>3, <2>4
<1> QED
  BY <1>2, <1>3

\* The switch fails, and the window is answered.
LEMMA FailsBox == ASSUME GuiInv, BoxInv, SwitchFails PROVE BoxInv'
<1>1. /\ op # None /\ op' = None /\ flag' = flag /\ current' = None
      /\ UNCHANGED <<queue, checkbox, mixed, stale>>
      /\ replies' = (IF current = "window" THEN Answer("error") ELSE replies)
  BY FailOutcome DEF SwitchFails
<1>2. current \in {"window", "tray"} /\ None # "window"
  BY <1>1, GuiAssumption DEF GuiInv, BoxType
<1>3. ~mixed => /\ queue = <<>> /\ ~Said({"ok", "error", "on", "off"})
                /\ ~Said({"on"}) /\ ~Said({"off"}) /\ ~Said({"error"})
  BY <1>1, AloneSwitch DEF Said
<1>4. ASSUME ~mixed PROVE Turns'
  BY <1>1, <1>2, <1>3, <1>4 DEF Turns
<1>5. CASE current = "tray"
  <2>1. replies' = replies
    BY <1>1, <1>5
  <2>2. ASSUME ~mixed PROVE Alone'
    <3>1. Len(queue') = 0
      BY <1>1, <1>3, <2>2
    <3>2. Alone
      BY <2>2 DEF BoxInv
    <3> QED
      BY <1>1, <1>3, <2>1, <2>2, <3>1, <3>2 DEF Alone, Said
  <2>3. Follows => Follows'
    BY <1>1, <1>2, <1>5, <2>1 DEF Follows, Goal, Said
  <2>4. Doubt => Doubt'
    BY <1>1, <2>1 DEF Doubt, Said
  <2> QED
    BY <1>1, <1>4, <2>2, <2>3, <2>4 DEF BoxInv
<1>6. CASE current = "window"
  <2>1. replies' = Answer("error")
    BY <1>1, <1>6
  <2>2. /\ \A kinds : Said(kinds)' <=> Said(kinds) \/ "error" \in kinds
        /\ ~Said({"ok", "error", "on", "off"}) =>
             \A i, j \in DOMAIN replies' :
               replies'[i].what # "configs" /\ replies'[j].what # "configs" => i = j
    BY <2>1, BoxTypes, SaidAppend
  <2>3. /\ Said({"error"})' /\ Said({"error", "on", "off"})'
        /\ (Said({"on"})' <=> Said({"on"})) /\ (Said({"off"})' <=> Said({"off"}))
    BY <2>2
  <2>4. ASSUME ~mixed PROVE Alone'
    <3>1. queue' = <<>> /\ Len(queue') = 0
      BY <1>1, <1>3, <2>4
    <3> QED
      BY <1>1, <1>3, <2>2, <2>3, <2>4, <3>1 DEF Alone
  <2>5. Doubt'
    BY <2>3 DEF Doubt
  <2>6. ASSUME ~stale, ~mixed PROVE Follows'
    <3>1. Follows /\ Turns /\ ~Said({"error"}) /\ DOMAIN queue = {}
      BY <1>3, <2>6 DEF BoxInv
    <3>2. checkbox <=> op.enable
      BY <1>6, <3>1 DEF Follows, Silent, Goal
    <3>3. op.enable <=> ~flag
      BY <1>6, <3>1 DEF Turns
    <3> QED
      BY <1>1, <2>3, <3>2, <3>3 DEF Follows
  <2> QED
    BY <1>1, <1>4, <2>4, <2>5, <2>6 DEF BoxInv
<1> QED
  BY <1>2, <1>5, <1>6

\* The window handles an answer about the switch.
LEMMA ReplyBox == ASSUME GuiInv, BoxInv, NEW i, Reply(i) PROVE BoxInv'
<1> DEFINE what == replies[i].what
<1>1. /\ i \in DOMAIN replies /\ replies' = RemoveAt(replies, i) /\ what # "configs"
      /\ checkbox' = CheckboxAfter(what)
      /\ mixed' = (mixed /\ ~(Len(replies) = 1 /\ queue = <<>> /\ op = None))
      /\ stale' = CASE what = "ok" -> stale
                    [] what = "error" -> stale \/ mixed
                    [] OTHER -> mixed
      /\ UNCHANGED <<op, flag, queue, current>>
  BY DEF Reply, sysvars
<1>2. what \in {"ok", "error", "on", "off"}
  <2>1. replies[i] \in Answers
    BY <1>1, BoxTypes, ElementOfSeq
  <2> QED
    BY <1>1, <2>1 DEF Answers
<1>3. /\ what = "ok" => (stale' <=> stale) /\ checkbox' = checkbox
      /\ what = "error" => (stale' <=> stale \/ mixed) /\ (checkbox' <=> ~checkbox)
      /\ what = "on" => (stale' <=> mixed) /\ checkbox'
      /\ what = "off" => (stale' <=> mixed) /\ ~checkbox'
  BY <1>1, BoxTypes DEF CheckboxAfter
<1>4. /\ \A kinds : what \in kinds => Said(kinds)
      /\ \A kinds : Said(kinds)' => Said(kinds)
      /\ \A kinds : what \notin kinds /\ Said(kinds) => Said(kinds)'
      /\ (\A k, j \in DOMAIN replies :
            replies[k].what # "configs" /\ replies[j].what # "configs" => k = j)
           => \A k \in DOMAIN replies' : replies'[k].what = "configs"
      /\ Len(replies) <= 1 => replies' = <<>>
  <2>1. BoxType
    BY BoxTypes
  <2>2. \A kinds : what \in kinds => Said(kinds)
    BY <1>1 DEF Said
  <2> QED
    BY <1>1, <2>1, <2>2, SaidRemove
<1> HIDE DEF what
<1>5. CASE ~mixed
  <2>1. Alone /\ Said({"ok", "error", "on", "off"})
    BY <1>2, <1>4, <1>5 DEF BoxInv
  <2>2. queue = <<>> /\ op = None /\ ~mixed'
    BY <1>1, <1>5, <2>1 DEF Alone
  <2>3. current # "window" /\ Goal = flag /\ DOMAIN queue = {}
    BY <2>2, BoxTypes DEF Goal
  <2>4. \A k \in DOMAIN replies' : replies'[k].what = "configs"
    BY <1>4, <2>1 DEF Alone
  <2>5. ASSUME ~stale' PROVE checkbox' <=> flag'
    <3>1. CASE what = "ok"
      <4>1. ~Said({"error"})
        BY <1>1, <2>1, <3>1 DEF Alone, Said, what
      <4>2. Follows
        BY <1>3, <1>5, <2>5, <3>1 DEF BoxInv
      <4> QED
        BY <1>1, <1>3, <2>3, <3>1, <4>1, <4>2 DEF Follows, Silent
    <3>2. CASE what = "error"
      <4>1. Said({"error"})
        BY <1>4, <3>2
      <4>2. Follows
        BY <1>3, <1>5, <2>5, <3>2 DEF BoxInv
      <4> QED
        BY <1>1, <1>3, <3>2, <4>1, <4>2 DEF Follows
    <3>3. CASE what = "on"
      BY <1>1, <1>3, <1>4, <2>1, <3>3 DEF Alone
    <3>4. CASE what = "off"
      BY <1>1, <1>3, <1>4, <2>1, <3>4 DEF Alone
    <3> QED
      BY <1>2, <3>1, <3>2, <3>3, <3>4
  <2>6. queue' = <<>> /\ op' = None /\ current' # "window"
    BY <1>1, <2>2, <2>3
  <2> QED
    BY <2>4, <2>5, <2>6, CalmBox
<1>6. CASE mixed
  <2>1. ~stale' => what = "ok" /\ ~stale
    BY <1>2, <1>3, <1>6
  <2>2. CASE mixed'
    <3>1. ASSUME ~stale', ~Doubt' PROVE Follows'
      <4>1. what = "ok" /\ ~stale /\ checkbox' = checkbox
        BY <1>3, <2>1, <3>1
      <4>2. ~Doubt
        BY <1>1, <1>4, <3>1, <4>1 DEF Doubt
      <4>3. Follows /\ ~Said({"error"})
        BY <4>1, <4>2 DEF BoxInv, Doubt, Said
      <4>4. ~Said({"error"})'
        BY <1>4, <4>3
      <4> QED
        BY <1>1, <4>1, <4>3, <4>4 DEF Follows, Goal
    <3>2. \A k \in DOMAIN queue' : queue'[k].from = "window" <=> queue'[k].ask # "toggle"
      BY <1>1 DEF BoxInv
    <3> QED
      BY <2>2, <3>1, <3>2 DEF BoxInv
  <2>3. CASE ~mixed'
    <3>1. Len(replies) = 1 /\ queue = <<>> /\ op = None
      BY <1>1, <1>6, <2>3
    <3>2. replies' = <<>> /\ DOMAIN replies = {i}
      BY <1>1, <1>4, <3>1, BoxTypes
    <3>3. current # "window" /\ Goal = flag /\ DOMAIN queue = {}
      BY <3>1, BoxTypes DEF Goal
    <3>4. ASSUME ~stale' PROVE checkbox' <=> flag'
      <4>1. what = "ok" /\ ~stale /\ checkbox' = checkbox
        BY <1>3, <2>1, <3>4
      <4>2. ~Said({"error", "on", "off"}) /\ ~Said({"error"})
        BY <3>2, <4>1 DEF Said, what
      <4>3. ~Doubt
        BY <3>3, <4>2 DEF Doubt
      <4>4. Follows
        BY <4>1, <4>3 DEF BoxInv
      <4> QED
        BY <1>1, <3>3, <4>1, <4>2, <4>4 DEF Follows, Silent
    <3>5. queue' = <<>> /\ op' = None /\ current' # "window" /\ DOMAIN replies' = {}
      BY <1>1, <3>1, <3>2, <3>3
    <3> QED
      BY <3>4, <3>5, CalmBox
  <2> QED
    BY <2>2, <2>3
<1> QED
  BY <1>5, <1>6

\* Every step of the program keeps the invariant of the checkbox.
LEMMA StepBox == GuiInv /\ BoxInv /\ [Next]_vars => BoxInv'
<1> SUFFICES ASSUME GuiInv, BoxInv, [Next]_vars PROVE BoxInv'
  OBVIOUS
<1>1. CASE ClickTrayToggle
  <2> DEFINE e == [from |-> "tray", ask |-> "toggle"]
  <2>1. /\ queue' = Append(queue, e) /\ mixed' = (mixed \/ ~Quiet)
        /\ UNCHANGED <<op, flag, current, replies, checkbox, stale>>
    BY <1>1 DEF ClickTrayToggle, Enqueue, sysvars
  <2>2. e \in Asks /\ ~Sets(e) /\ (e.from = "window" <=> e.ask # "toggle")
    BY DEF Asks, Sets
  <2>3. \A kinds : Said(kinds)' <=> Said(kinds)
    BY <2>1 DEF Said
  <2>4. /\ mixed => mixed'
        /\ mixed' \in BOOLEAN
        /\ ~mixed' => queue = <<>> /\ op = None /\ replies' = <<>>
    BY <2>1, BoxTypes DEF Quiet
  <2> HIDE DEF e
  <2> QED
    BY <2>1, <2>2, <2>3, <2>4, OtherBox
<1>2. ASSUME NEW i, ShowConfigs(i) PROVE BoxInv'
  <2> DEFINE e == [from |-> "window", ask |-> "get"]
  <2>1. /\ i \in DOMAIN replies /\ replies[i].what = "configs" /\ replies' = RemoveAt(replies, i)
        /\ queue' = Append(queue, e)
        /\ mixed' = (mixed \/ queue # <<>> \/ op # None \/ Len(replies) > 1)
        /\ UNCHANGED <<op, flag, current, checkbox, stale>>
    BY <1>2 DEF ShowConfigs, sysvars
  <2>2. e \in Asks /\ ~Sets(e) /\ (e.from = "window" <=> e.ask # "toggle")
    BY DEF Asks, Sets
  <2>3. /\ \A kinds : Said(kinds)' => Said(kinds)
        /\ \A kinds : "configs" \notin kinds /\ Said(kinds) => Said(kinds)'
        /\ Len(replies) <= 1 => replies' = <<>>
    <3>1. BoxType
      BY BoxTypes
    <3> QED
      BY <2>1, <3>1, SaidRemove
  <2>4. /\ mixed => mixed'
        /\ mixed' \in BOOLEAN
        /\ ~mixed' => queue = <<>> /\ op = None /\ replies' = <<>>
    <3>1. Len(replies) \in Nat
      BY BoxTypes, LenProperties
    <3> DEFINE several == Len(replies) > 1
    <3>2. mixed' = (mixed \/ queue # <<>> \/ op # None \/ several)
      BY <2>1
    <3>3. ~several => Len(replies) <= 1
      BY <3>1
    <3> HIDE DEF several
    <3>4. mixed' \in BOOLEAN /\ (mixed => mixed')
      BY <3>2, Zenon
    <3>5. ~mixed' => queue = <<>> /\ op = None /\ ~several
      BY <3>2, Zenon
    <3> QED
      BY <2>3, <3>3, <3>4, <3>5
  <2> HIDE DEF e
  <2> QED
    BY <2>1, <2>2, <2>3, <2>4, OtherBox
<1>3. ASSUME NEW r, ConfigsAnswered(r) PROVE BoxInv'
  <2>1. /\ replies' = Answer("configs")
        /\ UNCHANGED <<op, flag, queue, current, checkbox, mixed, stale>>
    BY <1>3 DEF ConfigsAnswered, sysvars
  <2>2. /\ \A kinds : Said(kinds)' <=> Said(kinds) \/ "configs" \in kinds
        /\ \A i \in DOMAIN replies' :
             replies'[i].what # "configs" => i \in DOMAIN replies /\ replies'[i] = replies[i]
    BY <2>1, BoxTypes, SaidAppend
  <2>3. /\ Said({"error"})' <=> Said({"error"})
        /\ Said({"on"})' <=> Said({"on"})
        /\ Said({"off"})' <=> Said({"off"})
        /\ Said({"error", "on", "off"})' <=> Said({"error", "on", "off"})
        /\ Said({"ok", "error", "on", "off"})' <=> Said({"ok", "error", "on", "off"})
    BY <2>2
  <2>4. Alone => Alone'
    BY <2>1, <2>2, <2>3 DEF Alone
  <2>5. (Doubt <=> Doubt') /\ (Follows => Follows') /\ (Turns => Turns')
    BY <2>1, <2>3 DEF Doubt, Follows, Turns, Goal
  <2> QED
    BY <2>1, <2>4, <2>5 DEF BoxInv
<1>4. CASE Relaunch
  <2>1. /\ queue' = <<>> /\ current' = None /\ replies' = <<>> /\ checkbox' = FALSE
        /\ op' = None /\ flag' = FALSE
    BY <1>4 DEF Relaunch, Restart
  <2>2. current' # "window" /\ DOMAIN replies' = {}
    BY <2>1, GuiAssumption
  <2> QED
    BY <2>1, <2>2, CalmBox
<1>5. ASSUME \/ ChangeService \/ Refresh
             \/ \E m \in Modes : TrayMode(m) \/ TabMode(m)
             \/ \E r \in flying : Deliver(r) \/ RequestFails(r)
             \/ UNCHANGED vars
      PROVE  BoxInv'
  <2>1. UNCHANGED <<op, flag, queue, current, replies, checkbox, mixed, stale>>
    BY <1>5 DEF ChangeService, ServiceChanges, Refresh, TrayMode, TabMode, Deliver,
                RequestFails, vars, sysvars, boxvars
  <2>2. (Alone => Alone') /\ (Doubt => Doubt')
    BY <2>1 DEF Alone, Doubt, Said
  <2>3. (Follows => Follows') /\ (Turns => Turns')
    BY <2>1 DEF Follows, Turns, Said, Goal
  <2> QED
    BY <2>1, <2>2, <2>3 DEF BoxInv
<1> QED
  BY <1>1, <1>2, <1>3, <1>4, <1>5, ClickBox, ServeBox, SwitchBox, FailsBox, ReplyBox DEF Next

\* Once all is answered the checkbox shows the switch, for any number of clicks
\* of the window and the tray: only a toggle from the tray, or an error or a
\* refresh that overlaps with another request, can leave it wrong.
THEOREM CheckboxShowsFlag == Spec => []CheckboxAgrees
<1>1. Init => BoxInv
  <2> SUFFICES ASSUME Init PROVE BoxInv
    OBVIOUS
  <2>1. /\ queue = <<>> /\ current # "window" /\ replies = <<>> /\ op = None
        /\ checkbox = FALSE /\ flag = FALSE
    BY GuiAssumption DEF Init, SysInit
  <2>2. Len(queue) = 0 /\ DOMAIN queue = {} /\ DOMAIN replies = {}
    BY <2>1
  <2> QED
    BY <2>1, <2>2 DEF BoxInv, Alone, Follows, Turns, Said, Heard, Silent, Goal
<1>2. GuiInv /\ BoxInv => CheckboxAgrees
  <2> SUFFICES ASSUME GuiInv, BoxInv, Quiet, ~stale PROVE checkbox = flag
    BY DEF CheckboxAgrees
  <2>1. DOMAIN queue = {} /\ DOMAIN replies = {} /\ current # "window"
    BY BoxTypes DEF Quiet
  <2>2. Follows
    BY <2>1 DEF BoxInv, Doubt, Said
  <2>3. checkbox <=> flag
    BY <2>1, <2>2 DEF Follows, Said, Silent, Goal
  <2> QED
    BY <2>3, BoxTypes
<1> QED
  BY <1>1, <1>2, InitGui, StepGui, StepBox, PTL DEF Spec
=============================================================================
