--------------------------- MODULE RoutingProofs ---------------------------
(***************************************************************************)
(* Proofs about Routing for every file, every request and every resolver.  *)
(***************************************************************************)
EXTENDS Routing, DomainTrie, WellFoundedInduction, TLAPS

-----------------------------------------------------------------------------
(* Least and greatest positions *)

\* A non-empty set of positions has a least one.
LEMMA MinOfPositions ==
    ASSUME NEW n \in Nat, NEW S, S \subseteq 1 .. n, S # {}
    PROVE  Min(S) \in S /\ \A y \in S : Min(S) <= y
<1>1. IsWellFoundedOn(OpToRel(<, Nat), Nat)
  BY NatLessThanWellFounded
<1>2. S \subseteq Nat
  OBVIOUS
<1>3. PICK x \in S : \A y \in S : ~ (<<y, x>> \in OpToRel(<, Nat))
  BY <1>1, <1>2, WFMin
<1>4. \A y \in S : ~ (y < x)
  BY <1>2, <1>3 DEF OpToRel
<1>5. \A y \in S : x <= y
  BY <1>2, <1>4
<1>6. \A z \in S : (\A y \in S : z <= y) => z = x
  BY <1>2, <1>5
<1> QED
  BY <1>2, <1>5, <1>6 DEF Min

\* The same from the other end.
LEMMA MaxOfPositions ==
    ASSUME NEW n \in Nat, NEW S, S \subseteq 1 .. n, S # {}
    PROVE  Max(S) \in S /\ \A y \in S : Max(S) >= y
<1> DEFINE Mirror == {n + 1 - x : x \in S}
<1>1. Mirror \subseteq 1 .. n /\ Mirror # {}
  <2>1. \A x \in S : n + 1 - x \in 1 .. n
    OBVIOUS
  <2> QED
    BY <2>1
<1>2. PICK m \in Mirror : \A y \in Mirror : m <= y
  BY <1>1, MinOfPositions
<1>3. PICK x \in S : m = n + 1 - x
  BY <1>2
<1>4. \A y \in S : x >= y
  <2> TAKE y \in S
  <2>1. n + 1 - y \in Mirror
    OBVIOUS
  <2> QED
    BY <1>2, <1>3, <2>1
<1> QED
  BY <1>4 DEF Max

\* A position that is the only one is both.
LEMMA OnlyPosition ==
    ASSUME NEW n \in Nat, NEW i \in 1 .. n
    PROVE  Min({i}) = i /\ Max({i}) = i
  BY DEF Min, Max

-----------------------------------------------------------------------------
(* What main has in effect *)

\* What the constants may be is true of the default configuration, and validate
\* has no objection to it.
LEMMA DefaultIsUsable ==
    /\ ConfigShape(DefaultConfig) /\ PortsValid(DefaultConfig) /\ RulesValid(DefaultConfig)
    /\ Len(DefaultConfig.rules) = 1
<1>1. ConfigShape(DefaultConfig)
  <2>1. DOMAIN DefaultConfig = ConfigFields
    BY DEF DefaultConfig, ConfigFields
  <2>2. {DefaultConfig.port, DefaultConfig.socks, DefaultConfig.mixed, DefaultConfig.controller}
            \subseteq Ports \union {None}
    BY RoutingAssumption DEF DefaultConfig
  <2>3. DefaultConfig.rules \in Seq(Range(DefaultConfig.rules))
    BY DEF DefaultConfig, Range
  <2>4. \A i \in DOMAIN DefaultConfig.rules : LineShape(DefaultConfig.rules[i])
    <3>1. <<"DIRECT">> # None
      BY RoutingAssumption DEF Proxies
    <3> QED
      BY <3>1 DEF DefaultConfig, LineShape, Range
  <2> QED
    BY <2>1, <2>2, <2>3, <2>4 DEF ConfigShape
<1>2. PortsValid(DefaultConfig)
  BY DEF DefaultConfig, PortsValid, AllPorts
<1>3. RulesValid(DefaultConfig)
  <2> DEFINE line == [type |-> "MATCH", payload |-> None, rest |-> <<"DIRECT">>]
  <2>1. Fields(line) >= 2
    BY DEF Fields
  <2>2. DefaultConfig.rules = <<line>>
    BY DEF DefaultConfig
  <2> HIDE DEF line
  <2> QED
    BY <2>1, <2>2 DEF RulesValid
<1>4. Len(DefaultConfig.rules) = 1
  BY DEF DefaultConfig
<1> QED
  BY <1>1, <1>2, <1>3, <1>4

\* A configuration that main runs with: the one on disk or the default, and
\* then validate has let its ports and its rules through.
LEMMA LoadedIsUsable ==
    ASSUME NEW f \in Files
    PROVE  /\ Load(f) \in Files \union {DefaultConfig}
           /\ ConfigShape(Load(f)) /\ PortsValid(Load(f)) /\ RulesValid(Load(f))
<1>1. CASE Load(f) = DefaultConfig
  BY <1>1, DefaultIsUsable
<1>2. CASE Load(f) # DefaultConfig
  BY <1>2, RoutingAssumption DEF Load, Validate
<1> QED
  BY <1>1, <1>2

-----------------------------------------------------------------------------
(* The inductive invariant *)

\* The configuration in effect, and how far the loop over its lines has come.
Loading ==
    /\ file \in Files
    /\ config = IF next = 0 THEN DefaultConfig ELSE Load(file)
    /\ next \in 0 .. Len(config.rules) + 1

\* pos is the line, of the first n, that each rule of rs stems from: they are in
\* the order of the lines, and only lines that do not parse are left out.
StemFrom(rs, lines, n, pos) ==
    /\ \A j, k \in 1 .. Len(rs) : j < k => pos[j] < pos[k]
    /\ \A k \in 1 .. Len(rs) : rs[k] = ParseRule(lines[pos[k]]) /\ rs[k].ok
    /\ \A i \in 1 .. n : ParseRule(lines[i]).ok => \E k \in 1 .. Len(rs) : pos[k] = i

\* The rules are what the lines read so far parse to.
ParsedInOrder ==
    /\ rules \in Seq({ParseRule(config.rules[i]) : i \in DOMAIN config.rules})
    /\ IF next = 0 THEN rules = <<>> ELSE Len(rules) < next
    /\ \E pos \in [1 .. Len(rules) -> 1 .. next - 1] :
          StemFrom(rules, config.rules, next - 1, pos)

\* Nothing is bound before the rules are read; then a listener has its own port,
\* or none, and one that failed has lost its port to another one.
OwnPorts ==
    /\ bound \in [Listeners -> Ports \union {None}] /\ failed \subseteq Listeners
    /\ ~Started => bound = [l \in Listeners |-> None] /\ failed = {} /\ conn = None
    /\ \A l \in Listeners : bound[l] \in {None, PortFor[l]}
    /\ \A l \in failed : bound[l] = None /\ PortFor[l] # None /\ Taken(PortFor[l])

\* The adapter that rule_match finds for m.
FirstUsable(m) ==
    LET usable == {i \in DOMAIN rules : Matches(rules[i], m) /\ rules[i].adapter \in Proxies}
    IN  IF usable = {} THEN <<"DIRECT">> ELSE rules[Min(usable)].adapter

\* The Metadata, the adapter and the address belong to the request in hand.
OneRequest ==
    /\ conn \in Requests \union {None}
    /\ conn = None => meta = None
    /\ meta # None => Target(conn).ok /\ meta = Metadata(conn)
    /\ meta = None => route = None
    /\ route # None => route = FirstUsable(meta)
    /\ route = None => dialled = None
    /\ dialled # None => dialled \in ResolveAddr

RoutingInv == Loading /\ ParsedInOrder /\ OwnPorts /\ OneRequest

\* The lines in effect are a list, whatever was loaded.
LEMMA LinesAreListed ==
    ASSUME Loading
    PROVE  /\ config \in Files \union {DefaultConfig} /\ ConfigShape(config)
           /\ config.rules \in Seq(Range(config.rules)) /\ Len(config.rules) \in Nat
           /\ DOMAIN config.rules = 1 .. Len(config.rules)
           /\ next \in Nat /\ (next = 0 => ~Started)
<1>1. config = DefaultConfig \/ config = Load(file)
  BY DEF Loading
<1>2. /\ config \in Files \union {DefaultConfig}
      /\ ConfigShape(config)
  <2>1. CASE config = Load(file)
    BY <2>1, LoadedIsUsable DEF Loading
  <2>2. CASE config = DefaultConfig
    BY <2>2, DefaultIsUsable
  <2> QED
    BY <1>1, <2>1, <2>2
<1>3. config.rules \in Seq(Range(config.rules))
  BY <1>2 DEF ConfigShape
<1>4. next \in Nat
  BY <1>3 DEF Loading
<1>5. next = 0 => ~Started
  BY <1>3 DEF Loading, Started, DefaultConfig
<1> QED
  BY <1>2, <1>3, <1>4, <1>5

\* At the start nothing is read, bound or under way.
LEMMA InitRouting == Init => RoutingInv
<1> SUFFICES ASSUME Init PROVE RoutingInv
  OBVIOUS
<1>1. Loading
  BY DefaultIsUsable DEF Init, Loading, ConfigShape
<1>2. ParsedInOrder
  <2>1. Len(rules) = 0 /\ next = 0 /\ rules = <<>>
    BY DEF Init
  <2>2. << >> \in [1 .. Len(rules) -> 1 .. next - 1]
    BY <2>1
  <2>3. StemFrom(rules, config.rules, next - 1, <<>>)
    BY <2>1 DEF StemFrom
  <2>4. rules \in Seq({ParseRule(config.rules[i]) : i \in DOMAIN config.rules})
    BY <2>1
  <2> QED
    BY <2>1, <2>2, <2>3, <2>4 DEF ParsedInOrder
<1>3. OwnPorts
  BY DEF Init, OwnPorts, Taken
<1>4. OneRequest
  BY DEF Init, OneRequest
<1> QED
  BY <1>1, <1>2, <1>3, <1>4 DEF RoutingInv

\* Every step keeps track of the configuration.
LEMMA StepLoading == Loading /\ [Next]_vars => Loading'
<1> SUFFICES ASSUME Loading, [Next]_vars PROVE Loading'
  OBVIOUS
<1>1. CASE LoadConfig
  <2>1. Len(Load(file).rules) \in Nat
    BY LoadedIsUsable DEF Loading, ConfigShape
  <2> QED
    BY <1>1, <2>1 DEF LoadConfig, Loading
<1>2. CASE BuildRule
  BY <1>2, LinesAreListed DEF BuildRule, Loading
<1>3. CASE UNCHANGED start
  BY <1>3 DEF start, Loading
<1> QED
  BY <1>1, <1>2, <1>3 DEF Next, vars, Bind, Accept, Route, Dial, Finish

\* Every step keeps the rules in the order of their lines.
LEMMA StepParsed == Loading /\ ParsedInOrder /\ [Next]_vars => ParsedInOrder'
<1> SUFFICES ASSUME Loading, ParsedInOrder, [Next]_vars PROVE ParsedInOrder'
  OBVIOUS
<1>1. CASE LoadConfig
  <2>1. rules' = <<>> /\ next' = 1
    BY <1>1 DEF LoadConfig, ParsedInOrder
  <2>2. << >> \in [1 .. Len(rules') -> 1 .. next' - 1]
    BY <2>1
  <2>3. StemFrom(rules', config'.rules, next' - 1, <<>>)
    BY <2>1 DEF StemFrom
  <2>4. rules' \in Seq({ParseRule(config'.rules[i]) : i \in DOMAIN config'.rules})
    BY <2>1
  <2>5. IF next' = 0 THEN rules' = <<>> ELSE Len(rules') < next'
    BY <2>1
  <2> QED
    BY <2>2, <2>3, <2>4, <2>5 DEF ParsedInOrder
<1>2. CASE BuildRule
  <2> DEFINE line == config.rules[next]
             P == {ParseRule(config.rules[i]) : i \in DOMAIN config.rules}
  <2>1. /\ next \in DOMAIN config.rules /\ next \in Nat \ {0} /\ next' = next + 1
        /\ config' = config
    BY <1>2, LinesAreListed DEF BuildRule
  <2>2. rules \in Seq(P) /\ Len(rules) < next /\ Len(rules) \in Nat
    BY <2>1 DEF ParsedInOrder
  <2>3. PICK pos \in [1 .. Len(rules) -> 1 .. next - 1] :
          StemFrom(rules, config.rules, next - 1, pos)
    BY DEF ParsedInOrder
  <2>4. CASE ~ParseRule(line).ok
    <3>1. rules' = rules
      BY <1>2, <2>4 DEF BuildRule
    <3>2. pos \in [1 .. Len(rules') -> 1 .. next' - 1]
      BY <2>1, <2>2, <2>3, <3>1
    <3>3. StemFrom(rules', config'.rules, next' - 1, pos)
      <4>1. \A i \in 1 .. next : i = next \/ i \in 1 .. next - 1
        BY <2>1
      <4> QED
        BY <2>1, <2>3, <2>4, <3>1, <4>1 DEF StemFrom
    <3> QED
      BY <2>1, <2>2, <3>1, <3>2, <3>3 DEF ParsedInOrder
  <2>5. CASE ParseRule(line).ok
    <3> DEFINE n == Len(rules)
               longer == [k \in 1 .. n + 1 |-> IF k = n + 1 THEN next ELSE pos[k]]
    <3>1. rules' = Append(rules, ParseRule(line)) /\ ParseRule(line) \in P
      BY <1>2, <2>1, <2>5 DEF BuildRule
    <3>2. /\ rules' \in Seq(P) /\ Len(rules') = n + 1 /\ rules'[n + 1] = ParseRule(line)
          /\ \A k \in 1 .. n : rules'[k] = rules[k]
      BY <2>2, <3>1
    <3>3. /\ longer \in [1 .. Len(rules') -> 1 .. next' - 1]
          /\ longer[n + 1] = next /\ \A k \in 1 .. n : longer[k] = pos[k]
      BY <2>1, <2>2, <3>2
    <3>4. \A k \in 1 .. n + 1 : k = n + 1 \/ k \in 1 .. n
      BY <2>2
    <3>5. \A k \in 1 .. n : pos[k] < next
      BY <2>1
    <3> HIDE DEF longer
    <3>6. \A j, k \in 1 .. Len(rules') : j < k => longer[j] < longer[k]
      <4>1. SUFFICES ASSUME NEW j \in 1 .. n + 1, NEW k \in 1 .. n + 1, j < k
                     PROVE  longer[j] < longer[k]
        BY <3>2
      <4>2. j \in 1 .. n
        BY <2>2, <4>1
      <4> QED
        BY <2>3, <3>3, <3>4, <3>5, <4>1, <4>2 DEF StemFrom
    <3>7. \A k \in 1 .. Len(rules') : /\ rules'[k] = ParseRule(config'.rules[longer[k]])
                                      /\ rules'[k].ok
      BY <2>1, <2>3, <2>5, <3>2, <3>3, <3>4 DEF StemFrom
    <3>8. \A i \in 1 .. next' - 1 :
             ParseRule(config'.rules[i]).ok => \E k \in 1 .. Len(rules') : longer[k] = i
      <4>1. SUFFICES ASSUME NEW i \in 1 .. next, ParseRule(config.rules[i]).ok
                     PROVE  \E k \in 1 .. n + 1 : longer[k] = i
        <5>1. next' - 1 = next /\ config' = config /\ Len(rules') = n + 1
          BY <2>1, <3>2
        <5> QED
          BY <5>1
      <4>2. CASE i = next
        BY <2>2, <3>3, <4>2
      <4>3. CASE i # next
        <5>1. i \in 1 .. next - 1
          BY <2>1, <4>3
        <5>2. PICK k \in 1 .. n : pos[k] = i
          BY <2>3, <4>1, <5>1 DEF StemFrom
        <5> QED
          BY <2>2, <3>3, <5>2
      <4> QED
        BY <4>2, <4>3
    <3>9. StemFrom(rules', config'.rules, next' - 1, longer)
      BY <3>6, <3>7, <3>8 DEF StemFrom
    <3>10. IF next' = 0 THEN rules' = <<>> ELSE Len(rules') < next'
      BY <2>1, <2>2, <3>2
    <3>11. rules' \in Seq({ParseRule(config'.rules[i]) : i \in DOMAIN config'.rules})
      BY <2>1, <3>2
    <3> QED
      BY <3>3, <3>9, <3>10, <3>11 DEF ParsedInOrder
  <2> QED
    BY <2>4, <2>5
<1>3. CASE UNCHANGED start
  BY <1>3 DEF start, ParsedInOrder
<1> QED
  BY <1>1, <1>2, <1>3 DEF Next, vars, Bind, Accept, Route, Dial, Finish

\* The ports of the listeners are ports, and two of them are equal only where
\* validate does not look.
LEMMA PortsOfListeners ==
    ASSUME Loading
    PROVE  /\ \A l \in Listeners : PortFor[l] \in Ports \union {None}
           /\ \A l, o \in Listeners : l # o /\ PortFor[l] # None /\ PortFor[o] = PortFor[l] =>
                 "api" \in {l, o} \/ ("mixed" \in {l, o} /\ config.mixed = None)
<1>1. PortsValid(config)
  BY LoadedIsUsable, DefaultIsUsable DEF Loading
<1>2. {config.port, config.socks, config.mixed, config.controller} \subseteq Ports \union {None}
  BY LinesAreListed DEF ConfigShape
<1>3. /\ PortFor["mixed"] = IF config.mixed = None THEN 7890 ELSE config.mixed
      /\ PortFor["http"] = config.port /\ PortFor["socks"] = config.socks
      /\ PortFor["api"] = config.controller
  BY DEF PortFor
<1>4. \A l \in Listeners : PortFor[l] \in Ports \union {None}
  BY <1>2, <1>3, RoutingAssumption DEF Listeners
<1>5. /\ config.port # None => config.port # config.socks /\ config.port # config.mixed
      /\ config.socks # None => config.socks # config.mixed
  <2>1. /\ AllPorts(config)[1] = config.port /\ AllPorts(config)[2] = config.socks
        /\ AllPorts(config)[3] = config.mixed
    BY DEF AllPorts
  <2>2. \A i, j \in 1 .. 3 : AllPorts(config)[i] # None /\ i # j =>
           AllPorts(config)[j] # AllPorts(config)[i]
    BY <1>1 DEF PortsValid
  <2> QED
    BY <2>1, <2>2
<1>6. ASSUME NEW l \in Listeners, NEW o \in Listeners, l # o, PortFor[l] # None,
             PortFor[o] = PortFor[l]
      PROVE  "api" \in {l, o} \/ ("mixed" \in {l, o} /\ config.mixed = None)
  BY <1>3, <1>5, <1>6 DEF Listeners
<1> QED
  BY <1>4, <1>6

\* Every step leaves each listener with its own port or none.
LEMMA StepPorts == Loading /\ OwnPorts /\ [Next]_vars => OwnPorts'
<1> SUFFICES ASSUME Loading, OwnPorts, [Next]_vars PROVE OwnPorts'
  OBVIOUS
<1>1. CASE LoadConfig \/ BuildRule
  <2>1. ~Started
    BY <1>1, LinesAreListed DEF LoadConfig, BuildRule, Started
  <2>2. bound = [l \in Listeners |-> None] /\ failed = {} /\ conn = None
    BY <2>1 DEF OwnPorts
  <2>3. UNCHANGED <<bound, failed, conn>>
    BY <1>1 DEF LoadConfig, BuildRule
  <2> QED
    BY <2>2, <2>3 DEF OwnPorts
<1>2. ASSUME NEW l \in Listeners, Bind(l) PROVE OwnPorts'
  <2>1. /\ Started /\ PortFor[l] # None /\ bound[l] = None /\ l \notin failed
        /\ config' = config /\ next' = next /\ conn' = conn
    BY <1>2 DEF Bind, start
  <2>2. PortFor' = PortFor /\ Started'
    BY <2>1 DEF PortFor, Started
  <2>3. PortFor[l] \in Ports \union {None}
    BY PortsOfListeners
  <2>4. CASE ~Taken(PortFor[l]) /\ bound' = [bound EXCEPT ![l] = PortFor[l]] /\ UNCHANGED failed
    <3>1. bound' \in [Listeners -> Ports \union {None}]
      BY <2>3, <2>4 DEF OwnPorts
    <3>2. \A k \in Listeners : bound'[k] \in {None, PortFor[k]}
      BY <2>4 DEF OwnPorts
    <3>3. \A k \in failed : bound'[k] = None /\ \E o \in Listeners : bound'[o] = PortFor[k]
      <4> TAKE k \in failed
      <4>1. k # l /\ bound[k] = None /\ PortFor[k] # None
        BY <2>1 DEF OwnPorts
      <4>2. PICK o \in Listeners : bound[o] = PortFor[k]
        BY DEF OwnPorts, Taken
      <4> QED
        BY <2>1, <2>4, <4>1, <4>2 DEF OwnPorts
    <3> QED
      BY <2>1, <2>2, <2>4, <3>1, <3>2, <3>3 DEF OwnPorts, Taken
  <2>5. CASE Taken(PortFor[l]) /\ failed' = failed \union {l} /\ UNCHANGED bound
    BY <2>1, <2>2, <2>5 DEF OwnPorts, Taken
  <2> QED
    BY <1>2, <2>4, <2>5 DEF Bind
<1>3. ASSUME NEW l \in Listeners, NEW r \in Requests, Accept(l, r) PROVE OwnPorts'
  <2>1. Started /\ UNCHANGED <<start, bound, failed>>
    BY <1>3 DEF Accept, OwnPorts
  <2> QED
    BY <2>1 DEF OwnPorts, start, PortFor, Taken, Started
<1>4. CASE Finish
  <2>1. (conn = None => conn' = None) /\ UNCHANGED <<start, bound, failed>>
    BY <1>4 DEF Finish
  <2> QED
    BY <2>1 DEF OwnPorts, start, PortFor, Taken, Started
<1>5. CASE UNCHANGED <<start, bound, failed, conn>>
  BY <1>5 DEF OwnPorts, start, PortFor, Taken, Started
<1> QED
  BY <1>1, <1>2, <1>3, <1>4, <1>5 DEF Next, vars, Route, Dial

\* Every step keeps Metadata, adapter and address those of one request.
LEMMA StepRequest == Loading /\ OwnPorts /\ OneRequest /\ [Next]_vars => OneRequest'
<1> SUFFICES ASSUME Loading, OwnPorts, OneRequest, [Next]_vars PROVE OneRequest'
  OBVIOUS
<1>1. CASE LoadConfig \/ BuildRule
  <2>1. ~Started
    BY <1>1, LinesAreListed DEF LoadConfig, BuildRule, Started
  <2>2. conn = None /\ meta = None /\ route = None /\ dialled = None
    BY <2>1 DEF OwnPorts, OneRequest
  <2>3. UNCHANGED <<conn, meta, route, dialled>>
    BY <1>1 DEF LoadConfig, BuildRule
  <2> QED
    BY <2>2, <2>3 DEF OneRequest
<1>2. ASSUME NEW l \in Listeners, Bind(l) PROVE OneRequest'
  BY <1>2 DEF Bind, start, OneRequest, FirstUsable, ResolveAddr
<1>3. ASSUME NEW l \in Listeners, NEW r \in Requests, Accept(l, r) PROVE OneRequest'
  <2>1. /\ conn' = r /\ r # None
        /\ meta' = IF Target(r).ok THEN Metadata(r) ELSE None
        /\ route = None /\ dialled = None /\ UNCHANGED <<route, dialled>>
    BY <1>3, RoutingAssumption DEF Accept, OneRequest
  <2> QED
    BY <2>1 DEF OneRequest
<1>4. CASE Route
  <2>1. /\ meta # None /\ route = None /\ route' = FirstUsable(meta)
        /\ UNCHANGED <<rules, conn, meta, dialled>>
    BY <1>4 DEF Route, FirstUsable, start
  <2>2. FirstUsable(meta)' = FirstUsable(meta)
    BY <2>1 DEF FirstUsable
  <2> QED
    BY <2>1, <2>2 DEF OneRequest
<1>5. CASE Dial
  <2>1. route # None
    BY <1>5, RoutingAssumption DEF Dial, Proxies
  <2>2. /\ dialled' \in ResolveAddr /\ UNCHANGED <<rules, conn, meta, route>>
    BY <1>5 DEF Dial, start
  <2>3. ResolveAddr' = ResolveAddr /\ FirstUsable(meta)' = FirstUsable(meta)
    BY <2>2 DEF ResolveAddr, FirstUsable
  <2> QED
    BY <2>1, <2>2, <2>3 DEF OneRequest
<1>6. CASE Finish
  BY <1>6 DEF Finish, OneRequest
<1>7. CASE UNCHANGED vars
  BY <1>7 DEF vars, start, OneRequest, FirstUsable, ResolveAddr
<1> QED
  BY <1>1, <1>2, <1>3, <1>4, <1>5, <1>6, <1>7 DEF Next

\* The four facts together.
LEMMA RoutingIsInvariant == Spec => []RoutingInv
<1>1. RoutingInv /\ [Next]_vars => RoutingInv'
  BY StepLoading, StepParsed, StepPorts, StepRequest, Zenon DEF RoutingInv
<1> QED
  BY <1>1, InitRouting, PTL DEF Spec

-----------------------------------------------------------------------------
(* Shape and ports *)

\* Whatever text the parser gets, what it accepts has a port.
LEMMA ParsedPort ==
    ASSUME NEW s, NEW default \in Ports
    PROVE  /\ ParseHostPort(s, default).ok => ParseHostPort(s, default).port \in Ports
           /\ ExtractHost(s, default).ok => ExtractHost(s, default).port \in Ports
<1> DEFINE Good(x) == x.ok => x.port \in Ports
<1>1. ASSUME NEW host, NEW text PROVE Good(WithPort(host, text, default))
  BY RoutingAssumption DEF WithPort, HostAndPort, ParseError
<1>2. ASSUME NEW host PROVE Good(HostAndPort(host, default))
  BY DEF HostAndPort
<1>3. Good(ParseError)
  BY DEF ParseError
<1> HIDE DEF Good
<1>4. ASSUME NEW t PROVE Good(ParseBracketed(t, default)) /\ Good(ParsePlain(t, default))
  BY <1>1, <1>3 DEF ParseBracketed, ParsePlain
<1>5. ASSUME NEW t PROVE Good(ParseHostPort(t, default))
  BY <1>2, <1>3, <1>4 DEF ParseHostPort
<1>6. Good(ExtractHost(s, default))
  BY <1>5 DEF ExtractHost
<1> QED
  BY <1>5, <1>6 DEF Good

LEMMA TargetPort ==
    ASSUME NEW r \in Requests, Target(r).ok
    PROVE  Target(r).port \in Ports
<1>1. RequestShape(r) /\ 80 \in Ports /\ 443 \in Ports
  BY RoutingAssumption
<1>2. CASE r.form = "connect"
  BY <1>1, <1>2, ParsedPort DEF Target
<1>3. CASE r.form = "absolute"
  BY <1>1, <1>3, ParsedPort DEF Target
<1>4. CASE r.form = "socks"
  BY <1>1, <1>4 DEF Target, HostAndPort, RequestShape
<1> QED
  BY <1>1, <1>2, <1>3, <1>4 DEF RequestShape

\* rule_match answers with an adapter that is installed.
LEMMA FirstIsInstalled ==
    ASSUME ParsedInOrder, NEW m
    PROVE  FirstUsable(m) \in Proxies
<1> DEFINE usable == {i \in DOMAIN rules : Matches(rules[i], m) /\ rules[i].adapter \in Proxies}
<1>1. Len(rules) \in Nat /\ DOMAIN rules = 1 .. Len(rules)
  BY DEF ParsedInOrder
<1>2. usable # {} => Min(usable) \in usable
  BY <1>1, MinOfPositions
<1> QED
  BY <1>2 DEF FirstUsable, Proxies

\* The state keeps its shape: among others, every rule in use has parsed, an
\* adapter is an installed one, and what is dialled has a port.
THEOREM RoutingShapeIsKept == Spec => []TypeOK
<1>1. RoutingInv => TypeOK
  <2> SUFFICES ASSUME RoutingInv PROVE TypeOK
    OBVIOUS
  <2> USE DEF RoutingInv
  <2>1. /\ file \in Files /\ config \in Files \union {DefaultConfig}
        /\ DOMAIN config = ConfigFields
        /\ next \in 0 .. Len(config.rules) + 1
    BY LinesAreListed DEF Loading, ConfigShape
  <2>2. Len(rules) <= Len(config.rules)
    BY <2>1, LinesAreListed DEF ParsedInOrder
  <2>3. \A i \in DOMAIN rules : rules[i].ok
    BY DEF ParsedInOrder, StemFrom
  <2>4. bound \in [Listeners -> Ports \union {None}] /\ failed \subseteq Listeners
    BY DEF OwnPorts
  <2>5. conn \in Requests \union {None} /\ route \in Proxies \union {None}
    BY FirstIsInstalled DEF OneRequest
  <2>6. meta # None => meta.dst_port \in Ports
    <3>1. meta # None => conn \in Requests
      BY DEF OneRequest
    <3> QED
      BY <3>1, TargetPort DEF OneRequest, Metadata
  <2>7. dialled # None => dialled.port \in Ports
    BY <2>6 DEF OneRequest, ResolveAddr
  <2> QED
    BY <2>1, <2>2, <2>3, <2>4, <2>5, <2>6, <2>7 DEF TypeOK
<1> QED
  BY <1>1, RoutingIsInvariant, PTL

\* Two listeners want the same port only if one is the controller, or the mixed
\* one with its default: validate (types.rs:121) rules out all other conflicts.
THEOREM OnlyUncheckedConflicts == Spec => []ConflictsAreUnchecked
<1>1. RoutingInv => ConflictsAreUnchecked
  <2> SUFFICES ASSUME RoutingInv, NEW l \in failed
               PROVE  \E o \in Listeners \ {l} :
                         /\ bound[o] = PortFor[l]
                         /\ "api" \in {l, o} \/ ("mixed" \in {l, o} /\ config.mixed = None)
    BY DEF ConflictsAreUnchecked
  <2>1. /\ l \in Listeners /\ bound[l] = None /\ PortFor[l] # None
        /\ \E o \in Listeners : bound[o] = PortFor[l]
    BY DEF RoutingInv, OwnPorts, Taken
  <2>2. PICK o \in Listeners : bound[o] = PortFor[l]
    BY <2>1
  <2>3. o # l /\ PortFor[o] = PortFor[l]
    BY <2>1, <2>2 DEF RoutingInv, OwnPorts
  <2>4. "api" \in {l, o} \/ ("mixed" \in {l, o} /\ config.mixed = None)
    BY <2>1, <2>3, PortsOfListeners, Zenon DEF RoutingInv
  <2> QED
    BY <2>2, <2>3, <2>4
<1> QED
  BY <1>1, RoutingIsInvariant, PTL

-----------------------------------------------------------------------------
(* The target of an HTTP request is parsed to what was written *)

\* Every piece a well-formed target is made of.
Pieces == DOMAIN Lower \union DOMAIN PortOf \union Delimiters

\* A port text leaves the port out, or is a colon and a number.
LEMMA PortTextForms ==
    ASSUME NEW port, NEW t \in PortTexts(port)
    PROVE  \/ port = None /\ (t = <<>> \/ t = <<":">>)
           \/ \E x \in DOMAIN PortOf : port # None /\ t = <<":", x>> /\ PortOf[x] = port
  BY Zenon DEF PortTexts

\* Its only colon is at the start, and it has no bracket.
LEMMA PortTextShape ==
    ASSUME NEW port, NEW t \in PortTexts(port)
    PROVE  /\ t \in Seq(Pieces) /\ Len(t) \in Nat
           /\ Len(t) >= 1 => t[1] = ":"
           /\ \A i \in 1 .. Len(t) : t[i] \notin {"]", "/"} /\ (t[i] = ":" => i = 1)
<1>1. /\ ":" \in Pieces
      /\ \A x \in DOMAIN PortOf : x \in Pieces /\ x \notin {":", "]", "/"}
  BY RoutingAssumption DEF Pieces, Delimiters
<1>2. CASE t = <<>>
  BY <1>2
<1>3. CASE t = <<":">>
  BY <1>1, <1>3
<1>4. ASSUME NEW x \in DOMAIN PortOf, t = <<":", x>>
      PROVE  /\ t \in Seq(Pieces) /\ Len(t) = 2
             /\ t[1] = ":" /\ t[2] = x
  BY <1>1, <1>4
<1>5. ASSUME NEW x \in DOMAIN PortOf, t = <<":", x>>
      PROVE  \A i \in 1 .. Len(t) : t[i] \notin {"]", "/"} /\ (t[i] = ":" => i = 1)
  <2>1. Len(t) = 2 /\ t[1] = ":" /\ t[2] = x
    BY <1>4, <1>5
  <2>2. x \notin {":", "]", "/"}
    BY <1>1
  <2> QED
    BY ONLY <2>1, <2>2
<1> QED
  BY <1>2, <1>3, <1>4, <1>5, PortTextForms

\* The port that a port text gives, default when it gives none.
LEMMA PortTextParses ==
    ASSUME NEW port, NEW t \in PortTexts(port), NEW host, NEW default
    PROVE  WithPort(host, AfterColon(t), default) =
              HostAndPort(host, IF port # None THEN port ELSE default)
<1>1. WithPort(host, <<>>, default) = HostAndPort(host, default)
  BY DEF WithPort
<1>2. CASE port = None
  <2>1. AfterColon(<<":">>) = <<>> /\ AfterColon(<<>>) = <<>>
    BY DEF AfterColon
  <2>2. t = <<>> \/ t = <<":">>
    BY <1>2, PortTextForms
  <2> QED
    BY <1>1, <1>2, <2>1, <2>2
<1>3. ASSUME NEW x \in DOMAIN PortOf, port # None, t = <<":", x>>, PortOf[x] = port
      PROVE  WithPort(host, AfterColon(t), default) =
                HostAndPort(host, IF port # None THEN port ELSE default)
  <2>1. Tail(<<":", x>>) = <<x>> /\ <<":", x>>[1] = ":" /\ <<":", x>> # <<>>
    OBVIOUS
  <2>2. WithPort(host, <<x>>, default) = HostAndPort(host, PortOf[x])
    <3>1. <<x>> # <<>> /\ Len(<<x>>) = 1 /\ <<x>>[1] = x
      OBVIOUS
    <3> QED
      BY <3>1 DEF WithPort
  <2>3. AfterColon(t) = <<x>>
    BY <1>3, <2>1 DEF AfterColon
  <2> QED
    BY <1>3, <2>2, <2>3, Zenon
<1> QED
  BY <1>2, <1>3, PortTextForms

\* Cutting a concatenation where it was put together.
LEMMA CutConcat ==
    ASSUME NEW S, NEW u \in Seq(S), NEW v \in Seq(S)
    PROVE  /\ SubSeq(u \o v, 1, Len(u)) = u
           /\ SubSeq(u \o v, Len(u) + 1, Len(u \o v)) = v
<1> DEFINE s == u \o v
           right == SubSeq(s, Len(u) + 1, Len(s))
<1>1. /\ s \in Seq(S) /\ Len(s) = Len(u) + Len(v) /\ Len(u) \in Nat /\ Len(v) \in Nat
      /\ \A i \in 1 .. Len(u) : s[i] = u[i]
      /\ \A i \in 1 .. Len(v) : s[Len(u) + i] = v[i]
  OBVIOUS
<1> HIDE DEF s
<1>2. SubSeq(s, 1, Len(u)) = u
  BY <1>1
<1>3. right \in Seq(S) /\ Len(right) = Len(v)
  BY <1>1
<1>4. \A i \in 1 .. Len(v) : right[i] = s[Len(u) + i]
  BY <1>1
<1>5. right = v
  <2> HIDE DEF right
  <2> QED
    BY <1>1, <1>3, <1>4
<1> QED
  BY <1>2, <1>5 DEF s

\* A host without delimiters and a port text, as ParsePlain cuts them.
LEMMA PlainParses ==
    ASSUME NEW h \in Seq(Pieces), h # <<>>,
           \A i \in 1 .. Len(h) : h[i] \notin Delimiters,
           NEW port, NEW t \in PortTexts(port), NEW default
    PROVE  /\ ParseHostPort(h \o t, default) =
                 HostAndPort(h, IF port # None THEN port ELSE default)
           /\ Positions(h \o t, "/") = {}
<1> DEFINE s == h \o t
           n == Len(h)
           m == Len(t)
<1>1. /\ s \in Seq(Pieces) /\ DOMAIN s = 1 .. n + m /\ s # <<>>
      /\ n \in Nat \ {0} /\ m \in Nat /\ Len(s) = n + m
      /\ \A i \in 1 .. n : s[i] = h[i]
      /\ \A i \in 1 .. m : s[n + i] = t[i]
  BY PortTextShape
<1>2. \A i \in 1 .. n + m : i \in 1 .. n \/ \E j \in 1 .. m : i = n + j
  <2> TAKE i \in 1 .. n + m
  <2>1. i \in 1 .. n \/ (i - n \in 1 .. m /\ i = n + (i - n))
    BY <1>1
  <2> QED
    BY <2>1
<1>3. SubSeq(s, 1, n) = h /\ SubSeq(s, n + 1, Len(s)) = t
  BY CutConcat, PortTextShape
<1>4. \A i \in 1 .. n : s[i] \notin {"]", ":", "/"}
  BY <1>1 DEF Delimiters
<1>5. \A j \in 1 .. m : s[n + j] \notin {"]", "/"} /\ (s[n + j] = ":" => j = 1)
  BY <1>1, PortTextShape
<1> HIDE DEF s
<1>6. Positions(s, "]") = {} /\ Positions(s, "/") = {} /\ Positions(s, ":") \subseteq {n + 1}
  BY <1>1, <1>2, <1>4, <1>5 DEF Positions
<1>7. CASE m = 0
  <2>1. n + 1 \notin DOMAIN s
    BY <1>1, <1>7
  <2>2. Positions(s, ":") = {}
    BY <1>6, <2>1 DEF Positions
  <2>3. s = h /\ port = None
    <3>1. t = <<>>
      BY <1>7, PortTextShape
    <3>2. h \o <<>> = h
      OBVIOUS
    <3>3. \A x : <<":", x>> # <<>>
      OBVIOUS
    <3>4. port = None
      BY <3>1, <3>3, PortTextForms, Zenon
    <3> QED
      BY <3>1, <3>2, <3>4 DEF s
  <2> QED
    BY <1>1, <1>6, <2>2, <2>3 DEF ParseHostPort, s
<1>8. CASE m > 0
  <2>1. s[n + 1] = ":" /\ n + 1 \in DOMAIN s /\ t # <<>> /\ t[1] = ":"
    BY <1>1, <1>8, PortTextShape
  <2>2. Positions(s, ":") = {n + 1}
    BY <1>6, <2>1 DEF Positions
  <2>3. Max(Positions(s, ":")) = n + 1
    <3>1. n + m \in Nat /\ n + 1 \in 1 .. n + m
      BY <1>1, <2>1
    <3> QED
      BY <2>2, <3>1, OnlyPosition
  <2>4. Before(s, n + 1) = h
    BY <1>1, <1>3 DEF Before
  <2>5. After(s, n + 1) = Tail(t)
    <3>1. /\ Tail(t) = SubSeq(t, 2, m)
          /\ SubSeq(s, n + 1 + 1, Len(s)) = SubSeq(SubSeq(s, n + 1, Len(s)), 2, m)
      BY <1>1, <1>8
    <3> QED
      BY <1>3, <3>1 DEF After
  <2>6. ParsePlain(s, default) = WithPort(h, Tail(t), default)
    <3>1. n + 1 # 1
      BY <1>1
    <3> QED
      BY <2>3, <2>4, <2>5, <3>1, Zenon DEF ParsePlain
  <2>7. WithPort(h, Tail(t), default) = HostAndPort(h, IF port # None THEN port ELSE default)
    <3>1. AfterColon(t) = Tail(t)
      BY <2>1 DEF AfterColon
    <3>2. WithPort(h, AfterColon(t), default) =
             HostAndPort(h, IF port # None THEN port ELSE default)
      BY PortTextParses
    <3> QED
      BY <3>1, <3>2
  <2>8. ParseHostPort(s, default) = ParsePlain(s, default)
    BY <1>1, <1>6, <2>2 DEF ParseHostPort
  <2> QED
    BY <1>6, <2>6, <2>7, <2>8 DEF s
<1> QED
  BY <1>1, <1>7, <1>8

\* The same in brackets, as ParseBracketed cuts it.
LEMMA BracketedParses ==
    ASSUME NEW h \in Seq(Pieces), h # <<>>,
           \A i \in 1 .. Len(h) : h[i] \notin Delimiters,
           NEW port, NEW t \in PortTexts(port), NEW default
    PROVE  LET s == (<<"[">> \o h \o <<"]">>) \o t
           IN  /\ ParseHostPort(s, default) =
                     HostAndPort(h, IF port # None THEN port ELSE default)
               /\ Positions(s, "/") = {}
<1> DEFINE n == Len(h)
           m == Len(t)
           left == <<"[">> \o h
           b == left \o <<"]">>
           s == b \o t
<1>1. "[" \in Pieces /\ "]" \in Pieces /\ n \in Nat \ {0} /\ m \in Nat
  BY PortTextShape DEF Pieces, Delimiters
<1>2. /\ left \in Seq(Pieces) /\ Len(left) = n + 1 /\ left[1] = "["
      /\ \A i \in 1 .. n : left[i + 1] = h[i]
  BY <1>1
<1>3. SubSeq(left, 2, n + 1) = h
  <2>1. SubSeq(<<"[">> \o h, Len(<<"[">>) + 1, Len(<<"[">> \o h)) = h
    BY <1>1, CutConcat
  <2> QED
    BY <1>2, <2>1
<1> HIDE DEF left
<1>4. /\ b \in Seq(Pieces) /\ Len(b) = n + 2 /\ b[n + 2] = "]"
      /\ \A i \in 1 .. n + 1 : b[i] = left[i]
  BY <1>1, <1>2
<1> HIDE DEF b
<1>5. /\ s \in Seq(Pieces) /\ Len(s) = n + 2 + m /\ DOMAIN s = 1 .. n + 2 + m
      /\ \A i \in 1 .. n + 2 : s[i] = b[i]
      /\ \A i \in 1 .. m : s[n + 2 + i] = t[i]
  BY <1>1, <1>4, PortTextShape
<1>6. SubSeq(s, n + 3, Len(s)) = t
  <2>1. SubSeq(b \o t, Len(b) + 1, Len(b \o t)) = t
    BY <1>4, CutConcat, PortTextShape
  <2> QED
    BY <1>1, <1>4, <2>1
<1> HIDE DEF s
<1>7. SubSeq(s, 2, n + 1) = h
  <2>1. SubSeq(s, 2, n + 1) = SubSeq(left, 2, n + 1)
    BY <1>1, <1>2, <1>4, <1>5
  <2> QED
    BY <1>3, <2>1
<1>8. /\ s[1] = "[" /\ s[n + 2] = "]" /\ n + 2 \in DOMAIN s
      /\ \A i \in 1 .. n : s[i + 1] \notin {"]", "/"}
      /\ \A j \in 1 .. m : s[n + 2 + j] \notin {"]", "/"}
  <2>1. s[1] = "[" /\ s[n + 2] = "]" /\ n + 2 \in DOMAIN s
    BY <1>1, <1>2, <1>4, <1>5
  <2>2. \A i \in 1 .. n : s[i + 1] = h[i]
    <3> TAKE i \in 1 .. n
    <3>1. i + 1 \in 1 .. n + 1 /\ i + 1 \in 1 .. n + 2
      BY <1>1
    <3> QED
      BY <1>2, <1>4, <1>5, <3>1
  <2>3. \A i \in 1 .. n : h[i] \notin {"]", "/"}
    BY DEF Delimiters
  <2>4. \A j \in 1 .. m : s[n + 2 + j] \notin {"]", "/"}
    BY <1>5, PortTextShape
  <2> QED
    BY <2>1, <2>2, <2>3, <2>4
<1>9. \A i \in DOMAIN s : \/ i = 1 \/ i = n + 2
                          \/ \E j \in 1 .. n : i = j + 1
                          \/ \E j \in 1 .. m : i = n + 2 + j
  <2> TAKE i \in DOMAIN s
  <2>1. \/ i = 1 \/ i = n + 2
        \/ i - 1 \in 1 .. n /\ i = (i - 1) + 1
        \/ i - (n + 2) \in 1 .. m /\ i = n + 2 + (i - (n + 2))
    BY <1>1, <1>5
  <2> QED
    BY <2>1
<1>10. Positions(s, "]") = {n + 2} /\ Positions(s, "/") = {}
  <2>1. \A i \in DOMAIN s : s[i] = "]" <=> i = n + 2
    BY <1>8, <1>9
  <2>2. \A i \in DOMAIN s : s[i] # "/"
    BY <1>8, <1>9
  <2> QED
    BY <1>8, <2>1, <2>2 DEF Positions
<1>11. Min(Positions(s, "]")) = n + 2
  <2>1. n + 2 + m \in Nat /\ n + 2 \in 1 .. n + 2 + m
    BY <1>1
  <2> QED
    BY <1>10, <2>1, OnlyPosition
<1>12. After(s, n + 2) = t /\ SubSeq(s, 2, n + 2 - 1) = h
  BY <1>1, <1>6, <1>7 DEF After
<1>13. ParseBracketed(s, default) = WithPort(h, AfterColon(t), default)
  <2> DEFINE end == Min(Positions(s, "]"))
  <2>1. s[1] = "["
    BY <1>8
  <2>2. ParseBracketed(s, default) =
           WithPort(SubSeq(s, 2, end - 1), AfterColon(After(s, end)), default)
    BY <2>1, Zenon DEF ParseBracketed
  <2>3. end = n + 2
    BY <1>11
  <2> HIDE DEF end
  <2>4. SubSeq(s, 2, end - 1) = h /\ After(s, end) = t
    BY <1>12, <2>3
  <2> QED
    BY <2>2, <2>4
<1>14. WithPort(h, AfterColon(t), default) =
          HostAndPort(h, IF port # None THEN port ELSE default)
  BY PortTextParses
<1>15. ParseHostPort(s, default) = ParseBracketed(s, default)
  <2>1. s # <<>> /\ Positions(s, "]") # {}
    <3>1. Len(s) # 0 /\ Len(<<>>) = 0
      BY <1>1, <1>5
    <3>2. s # <<>>
      BY <3>1, Zenon
    <3>3. {n + 2} # {}
      OBVIOUS
    <3> QED
      BY <1>10, <3>2, <3>3, Zenon
  <2> QED
    BY <2>1 DEF ParseHostPort
<1> QED
  BY <1>10, <1>13, <1>14, <1>15 DEF s, b, left

\* A host without delimiters, in brackets or not, followed by a port text.
LEMMA AuthorityParses ==
    ASSUME NEW asked, asked.host \in Seq(DOMAIN Lower), asked.host # <<>>,
           Range(asked.host) \intersect Delimiters = {},
           NEW s \in Authorities(asked), NEW default
    PROVE  /\ ParseHostPort(s, default) =
                 HostAndPort(asked.host, IF asked.port # None THEN asked.port ELSE default)
           /\ Positions(s, "/") = {}
<1> DEFINE h == asked.host
           b == <<"[">> \o h \o <<"]">>
<1>1. h \in Seq(Pieces) /\ \A i \in 1 .. Len(h) : h[i] \notin Delimiters
  <2>1. \A i \in 1 .. Len(h) : h[i] \in Range(h)
    BY DEF Range
  <2>2. h \in Seq(Pieces)
    BY DEF Pieces
  <2> QED
    BY <2>1, <2>2
<1>2. PICK t \in PortTexts(asked.port) : s = h \o t \/ s = b \o t
  <2> DEFINE followed(host) == {host \o text : text \in PortTexts(asked.port)}
  <2>1. s \in followed(h) \/ s \in followed(b)
    BY Zenon DEF Authorities
  <2>2. \A host : s \in followed(host) => \E t \in PortTexts(asked.port) : s = host \o t
    OBVIOUS
  <2> HIDE DEF followed
  <2> QED
    BY <2>1, <2>2, Zenon
<1>3. CASE s = h \o t
  BY <1>1, <1>3, PlainParses
<1>4. CASE s = b \o t
  BY <1>1, <1>4, BracketedParses
<1> QED
  BY <1>2, <1>3, <1>4

\* A URL is cut where its authority ends.
LEMMA UrlIsCut ==
    ASSUME NEW S, NEW target \in Seq(S), NEW end \in 2 .. Len(target), NEW default,
           target[1] \in {"http://", "https://"},
           Positions(SubSeq(target, 2, end), "/") = {},
           end = Len(target) \/ target[end + 1] = "/"
    PROVE  ExtractHost(target, default) = ParseHostPort(SubSeq(target, 2, end), default)
<1> DEFINE a == SubSeq(target, 2, end)
           rest == Tail(target)
           slashes == Positions(rest, "/")
           n == Len(target)
<1> HIDE DEF a, rest, slashes
<1>0. /\ n \in Nat \ {0, 1} /\ end \in Nat /\ end >= 2 /\ end <= n
      /\ end - 1 \in 1 .. n - 1 /\ target # <<>>
  <2>1. n \in Nat /\ end \in Nat /\ end >= 2 /\ end <= n
    OBVIOUS
  <2>2. Len(<<>>) = 0
    OBVIOUS
  <2>3. target # <<>>
    BY <2>1, <2>2
  <2> HIDE DEF n
  <2> QED
    BY <2>1, <2>3
<1>1. /\ rest \in Seq(S) /\ Len(rest) = n - 1
      /\ \A i \in 1 .. n - 1 : rest[i] = target[i + 1]
  BY <1>0 DEF rest
<1>2. a \in Seq(S) /\ Len(a) = end - 1 /\ \A i \in 1 .. end - 1 : a[i] = rest[i]
  <2>1. /\ a \in Seq(S) /\ Len(a) = end - 1
        /\ \A i \in 1 .. end - 1 : a[i] = target[i + 1]
    BY <1>0 DEF a
  <2>2. \A i \in 1 .. end - 1 : i \in 1 .. n - 1
    BY <1>0
  <2> QED
    BY <1>1, <2>1, <2>2
<1>3. SubSeq(rest, 1, end - 1) = a
  <2> DEFINE cut == SubSeq(rest, 1, end - 1)
  <2>2. cut \in Seq(S) /\ Len(cut) = end - 1 /\ \A i \in 1 .. end - 1 : cut[i] = rest[i]
    BY <1>0, <1>1
  <2> HIDE DEF cut
  <2>3. cut = a
    BY <1>0, <1>2, <2>2
  <2> QED
    BY <2>3 DEF cut
<1>4. ExtractHost(target, default) =
         ParseHostPort(IF slashes = {} THEN rest ELSE Before(rest, Min(slashes)), default)
  BY <1>0, Zenon DEF ExtractHost, rest, slashes
<1>5. \A i \in 1 .. end - 1 : rest[i] # "/"
  <2>1. Positions(a, "/") = {}
    BY DEF a
  <2>2. DOMAIN a = 1 .. end - 1
    BY <1>2
  <2> QED
    BY <1>2, <2>1, <2>2 DEF Positions
<1>6. DOMAIN rest = 1 .. n - 1
  BY <1>1
<1>7. CASE end = n
  <2>1. slashes = {}
    BY <1>5, <1>6, <1>7 DEF Positions, slashes
  <2>2. rest = a
    BY <1>0, <1>1, <1>2, <1>7
  <2> QED
    BY <1>4, <2>1, <2>2 DEF a
<1>8. CASE end # n
  <2>1. end \in 1 .. n - 1 /\ rest[end] = "/"
    BY <1>0, <1>1, <1>8
  <2>2. slashes \subseteq 1 .. n - 1 /\ end \in slashes /\ \A i \in slashes : i >= end
    <3>1. \A i \in 1 .. n - 1 : rest[i] = "/" => i >= end
      BY <1>0, <1>5, <2>1
    <3> QED
      BY <1>6, <2>1, <3>1 DEF Positions, slashes
  <2>3. n - 1 \in Nat
    BY <1>0
  <2>4. Min(slashes) \in slashes /\ Min(slashes) <= end
    BY <2>2, <2>3, MinOfPositions
  <2>5. Min(slashes) = end
    <3>1. Min(slashes) >= end /\ Min(slashes) \in 1 .. n - 1
      BY <2>2, <2>4
    <3> QED
      BY <1>0, <2>4, <3>1
  <2>6. slashes # {}
    BY <2>2
  <2> QED
    BY <1>3, <1>4, <2>5, <2>6 DEF Before, a
<1> QED
  BY <1>7, <1>8

\* What a handler reads off a well-formed request is what it asks for.
LEMMA TargetIsAsked ==
    ASSUME NEW r \in Requests, r.asked # None
    PROVE  Target(r) = HostAndPort(r.asked.host, AskedPort(r))
<1>1. /\ r.form \in {"connect", "absolute", "socks"}
      /\ r.form # "socks" => r.target \in Seq(Range(r.target))
      /\ r.asked.host \in Seq(DOMAIN Lower) /\ r.asked.host # <<>>
      /\ r.form # "socks" => Range(r.asked.host) \intersect Delimiters = {}
      /\ Writes(r)
  BY RoutingAssumption DEF RequestShape
<1>2. CASE r.form = "connect"
  <2>1. r.target \in Authorities(r.asked)
    BY <1>1, <1>2 DEF Writes
  <2>2. Target(r) = ParseHostPort(r.target, 443)
    BY <1>2 DEF Target
  <2> QED
    BY <1>1, <1>2, <2>1, <2>2, AuthorityParses DEF AskedPort
<1>3. CASE r.form = "absolute"
  <2>1. PICK end \in Urls(r) : TRUE
    BY <1>1, <1>3 DEF Writes
  <2>2. /\ end \in 2 .. Len(r.target) /\ r.target[1] \in {"http://", "https://"}
        /\ SubSeq(r.target, 2, end) \in Authorities(r.asked)
        /\ end = Len(r.target) \/ r.target[end + 1] = "/"
    BY DEF Urls
  <2>3. Target(r) = ExtractHost(r.target, 80)
    BY <1>3 DEF Target
  <2>4. /\ ParseHostPort(SubSeq(r.target, 2, end), 80) = HostAndPort(r.asked.host, AskedPort(r))
        /\ Positions(SubSeq(r.target, 2, end), "/") = {}
    BY <1>1, <1>3, <2>2, AuthorityParses DEF AskedPort
  <2>5. r.target \in Seq(Range(r.target))
    BY <1>1, <1>3
  <2>6. ExtractHost(r.target, 80) = ParseHostPort(SubSeq(r.target, 2, end), 80)
    BY <2>2, <2>4, <2>5, UrlIsCut
  <2> QED
    BY <2>3, <2>4, <2>6
<1>4. CASE r.form = "socks"
  <2>1. r.asked = [host |-> r.host, port |-> r.port] /\ r.port \in Ports
    <3>1. r.asked = [host |-> r.host, port |-> r.port]
      BY <1>1, <1>4 DEF Writes
    <3>2. RequestShape(r)
      BY RoutingAssumption
    <3> QED
      BY <1>4, <3>1, <3>2 DEF RequestShape
  <2> QED
    BY <1>4, <2>1, RoutingAssumption DEF Target, AskedPort
<1> QED
  BY <1>1, <1>2, <1>3, <1>4

-----------------------------------------------------------------------------
(* A rule matches what its line says *)

\* The labels that folding can give.
Folded(fold, S) == {fold[x] : x \in S}

\* Folding changes the labels of a name, not their number.
LEMMA FoldProperties ==
    ASSUME NEW fold, NEW S, NEW name \in Seq(S)
    PROVE  /\ Fold(fold, name) \in Seq(Folded(fold, S))
           /\ Len(Fold(fold, name)) = Len(name)
  BY DEF Fold, Folded

\* The comparison of DomainRule, label by label.
LEMMA ExactMatches ==
    ASSUME NEW fold, NEW S, NEW a \in Seq(S), NEW b \in Seq(S)
    PROVE  Fold(fold, a) = Fold(fold, b) <=> SameName(fold, a, b)
<1> DEFINE T == Folded(fold, S)
           fa == Fold(fold, a)
           fb == Fold(fold, b)
<1>1. /\ fa \in Seq(T) /\ Len(fa) = Len(a) /\ Len(a) \in Nat
      /\ fb \in Seq(T) /\ Len(fb) = Len(b) /\ Len(b) \in Nat
      /\ \A i \in 1 .. Len(a) : fa[i] = fold[a[i]]
      /\ \A i \in 1 .. Len(b) : fb[i] = fold[b[i]]
      /\ DOMAIN a = 1 .. Len(a)
  <2>1. fa \in Seq(T) /\ Len(fa) = Len(a)
    BY FoldProperties, Zenon
  <2>2. fb \in Seq(T) /\ Len(fb) = Len(b)
    BY FoldProperties, Zenon
  <2>3. /\ \A i \in 1 .. Len(a) : fa[i] = fold[a[i]]
        /\ \A i \in 1 .. Len(b) : fb[i] = fold[b[i]]
    BY DEF Fold
  <2>4. Len(a) \in Nat /\ Len(b) \in Nat /\ DOMAIN a = 1 .. Len(a)
    OBVIOUS
  <2> QED
    BY <2>1, <2>2, <2>3, <2>4, Zenon
<1> HIDE DEF fa, fb, T
<1>2. fa = fb <=> Len(fa) = Len(fb) /\ \A i \in 1 .. Len(fa) : fa[i] = fb[i]
  BY <1>1
<1>3. fa = fb <=> SameName(fold, a, b)
  BY <1>1, <1>2 DEF SameName
<1> QED
  BY <1>3 DEF fa, fb

\* Reversing a list.
LEMMA ReverseProperties ==
    ASSUME NEW S, NEW s \in Seq(S)
    PROVE  /\ Reverse(s) \in Seq(S) /\ Len(Reverse(s)) = Len(s) /\ Len(s) \in Nat
           /\ \A i \in 1 .. Len(s) : Reverse(s)[i] = s[Len(s) - i + 1]
  BY DEF Reverse

\* The comparison of DomainSuffixRule, label by label from the end.
LEMMA SuffixMatches ==
    ASSUME NEW name \in Seq(DOMAIN Lower), NEW sub \in Seq(DOMAIN Lower)
    PROVE  IsSuffix(Fold(Lower, sub), Fold(Lower, name)) <=> Below(name, sub)
<1> DEFINE T == Folded(Lower, DOMAIN Lower)
           s == Fold(Lower, sub)
           t == Fold(Lower, name)
           m == Len(sub)
           n == Len(name)
<1>1. /\ s \in Seq(T) /\ Len(s) = m /\ m \in Nat
      /\ t \in Seq(T) /\ Len(t) = n /\ n \in Nat
      /\ \A i \in 1 .. m : s[i] = Lower[sub[i]]
      /\ \A i \in 1 .. n : t[i] = Lower[name[i]]
  <2>1. s \in Seq(T) /\ Len(s) = m
    BY FoldProperties, Zenon
  <2>2. t \in Seq(T) /\ Len(t) = n
    BY FoldProperties, Zenon
  <2>3. /\ \A i \in 1 .. m : s[i] = Lower[sub[i]]
        /\ \A i \in 1 .. n : t[i] = Lower[name[i]]
    BY DEF Fold
  <2>4. m \in Nat /\ n \in Nat
    OBVIOUS
  <2> QED
    BY <2>1, <2>2, <2>3, <2>4, Zenon
<1> HIDE DEF s, t, T, m, n
<1>2. IsSuffix(s, t) <=> m <= n /\ \A i \in 1 .. m : s[m - i + 1] = t[n - i + 1]
  <2> DEFINE rs == Reverse(s)
             rt == Reverse(t)
  <2>1. /\ rs \in Seq(T) /\ Len(rs) = m /\ rt \in Seq(T) /\ Len(rt) = n
        /\ \A i \in 1 .. m : rs[i] = s[m - i + 1]
        /\ \A i \in 1 .. n : rt[i] = t[n - i + 1]
    BY <1>1, ReverseProperties
  <2> HIDE DEF rs, rt
  <2>2. SubSeq(rs, 1, m) = rs
    BY <1>1, <2>1
  <2>3. ASSUME m <= n
        PROVE  SubSeq(rs, 1, m) = SubSeq(rt, 1, m) <=> \A i \in 1 .. m : rs[i] = rt[i]
    <3> DEFINE cut == SubSeq(rt, 1, m)
    <3>1. cut \in Seq(T) /\ Len(cut) = m /\ \A i \in 1 .. m : cut[i] = rt[i]
      BY <1>1, <2>1, <2>3
    <3> HIDE DEF cut
    <3>2. rs = cut <=> \A i \in 1 .. m : rs[i] = cut[i]
      BY <1>1, <2>1, <3>1
    <3> QED
      BY <2>2, <3>1, <3>2 DEF cut
  <2>4. \A i \in 1 .. m : m <= n => i \in 1 .. n
    BY <1>1
  <2>5. IsSuffix(s, t) <=> m <= n /\ SubSeq(rs, 1, m) = SubSeq(rt, 1, m)
    BY <2>1, Zenon DEF IsSuffix, IsPrefix, rs, rt
  <2> QED
    BY <2>1, <2>3, <2>4, <2>5
<1>3. Below(name, sub) <=> m <= n /\ \A i \in 1 .. m : s[i] = t[n - m + i]
  <2> DEFINE tail == SubSeq(name, n - m + 1, n)
  <2>1. ASSUME m <= n
        PROVE  SameName(Lower, tail, sub) <=> \A i \in 1 .. m : t[n - m + i] = s[i]
    <3>1. /\ tail \in Seq(DOMAIN Lower) /\ Len(tail) = m /\ DOMAIN tail = 1 .. m
          /\ \A i \in 1 .. m : tail[i] = name[n - m + i]
      BY <1>1, <2>1 DEF n
    <3>2. \A i \in 1 .. m : n - m + i \in 1 .. n
      BY <1>1, <2>1
    <3> HIDE DEF tail
    <3>3. \A i \in 1 .. m : t[n - m + i] = Lower[tail[i]] /\ s[i] = Lower[sub[i]]
      BY <1>1, <3>1, <3>2
    <3>4. Len(tail) = Len(sub)
      BY <3>1 DEF m
    <3>5. SameName(Lower, tail, sub) <=> \A i \in 1 .. m : Lower[tail[i]] = Lower[sub[i]]
      BY <3>1, <3>4, Zenon DEF SameName
    <3> QED
      BY <3>3, <3>5, Zenon
  <2>2. Below(name, sub) <=> m <= n /\ SameName(Lower, tail, sub)
    BY Zenon DEF Below, m, n
  <2> QED
    BY <2>1, <2>2
<1>4. ASSUME m <= n
      PROVE  (\A i \in 1 .. m : s[m - i + 1] = t[n - i + 1]) <=>
             (\A i \in 1 .. m : s[i] = t[n - m + i])
  <2>1. ASSUME \A i \in 1 .. m : s[m - i + 1] = t[n - i + 1], NEW i \in 1 .. m
        PROVE  s[i] = t[n - m + i]
    <3>1. /\ m - i + 1 \in 1 .. m /\ m - (m - i + 1) + 1 = i
          /\ n - (m - i + 1) + 1 = n - m + i
      BY <1>1
    <3> QED
      BY <2>1, <3>1
  <2>2. ASSUME \A i \in 1 .. m : s[i] = t[n - m + i], NEW i \in 1 .. m
        PROVE  s[m - i + 1] = t[n - i + 1]
    <3>1. m - i + 1 \in 1 .. m /\ n - m + (m - i + 1) = n - i + 1
      BY <1>1
    <3> QED
      BY <2>2, <3>1
  <2> QED
    BY <2>1, <2>2
<1>5. IsSuffix(s, t) <=> Below(name, sub)
  BY <1>2, <1>3, <1>4
<1> QED
  BY <1>5 DEF s, t

\* A line that the matchers hear when it speaks of r: a CIDR line is heard only
\* if r carries its address.
Heard(line, r) == Says(line, r) /\ (line.type \in ByAddress => CarriesAddress(r))

HeardLines(r) == {i \in DOMAIN Lines : Heard(Lines[i], r) /\ Lines[i].rest \in Proxies}

\* What the first of them says.
Obeyed(r) == IF HeardLines(r) = {} THEN <<"DIRECT">> ELSE Lines[Min(HeardLines(r))].rest

\* A line that is of use for r parses to a rule that is of use for its Metadata,
\* and the other way round.
LEMMA RuleMeansLine ==
    ASSUME NEW r \in Requests, r.asked # None,
           NEW line, LineShape(line), Fields(line) >= 2
    PROVE  LET rule == ParseRule(line)
           IN  /\ rule.ok => rule.adapter = line.rest
               /\ Heard(line, r) /\ line.rest \in Proxies <=>
                     rule.ok /\ Matches(rule, Metadata(r)) /\ rule.adapter \in Proxies
<1> DEFINE rule == ParseRule(line)
           meta0 == Metadata(r)
           name == r.asked.host
           Same == Heard(line, r) <=> Matches(rule, meta0)
<1>1. /\ meta0.host = name /\ meta0.dst_port = AskedPort(r)
      /\ meta0.src = r.src /\ meta0.dst_ip = DstIp(r)
      /\ name # None /\ name \in Seq(DOMAIN Lower)
  BY TargetIsAsked, RoutingAssumption DEF Metadata, HostAndPort, RequestShape
<1>2. line.rest \in Proxies => Len(line.rest) = 1
  BY DEF Proxies
<1>3. line.rest \in Seq(Range(line.rest)) /\ Len(line.rest) \in Nat
  BY DEF LineShape
<1>4. CASE line.type = "MATCH"
  <2>1. line.payload = None /\ line.rest # <<>>
    <3>1. line.payload = None
      BY <1>4 DEF LineShape
    <3>2. Len(line.rest) # 0 /\ Len(<<>>) = 0
      BY <1>3, <3>1 DEF Fields
    <3> QED
      BY <3>1, <3>2, Zenon
  <2>2. rule = Accepted("MATCH", None, line.rest)
    BY <1>4, <2>1 DEF ParseRule, ParsedTypes
  <2>3. rule.ok /\ rule.adapter = line.rest /\ Matches(rule, meta0) /\ Heard(line, r)
    BY <1>4, <2>2 DEF Accepted, Matches, Heard, ByAddress, Says
  <2> QED
    BY <2>3
<1>5. CASE line.type \in ParsedTypes /\ line.payload \notin {Bad, None}
  <2>1. rule = IF Len(line.rest) >= 1 THEN Accepted(line.type, line.payload, line.rest)
                                      ELSE Refused
    <3>1. Fields(line) >= 3 <=> Len(line.rest) >= 1
      <4>1. Fields(line) = 2 + Len(line.rest)
        <5>1. line.payload # None
          BY <1>5
        <5> QED
          BY <1>3, <5>1 DEF Fields
      <4> QED
        BY <1>3, <4>1
    <3>2. line.type # "MATCH"
      BY <1>5 DEF ParsedTypes
    <3> QED
      BY <1>5, <3>1, <3>2 DEF ParseRule
  <2>2. rule.ok => rule.type = line.type /\ rule.payload = line.payload /\ rule.adapter = line.rest
    BY <2>1 DEF Accepted, Refused
  <2>3. line.rest \in Proxies => rule.ok
    BY <1>2, <2>1 DEF Accepted
  <2>4. ASSUME rule.ok PROVE Same
    <3> HIDE DEF rule, meta0
    <3>1. CASE line.type = "DOMAIN"
      <4>1. line.payload \in Seq(DOMAIN Lower)
        BY <1>5, <3>1 DEF LineShape
      <4>2. Matches(rule, meta0) <=> Fold(AsciiLower, name) = Fold(AsciiLower, line.payload)
        BY <1>1, <2>2, <2>4, <3>1 DEF Matches, DomainMatches
      <4>3. Heard(line, r) <=> SameName(AsciiLower, name, line.payload)
        BY <1>5, <3>1 DEF Heard, ByAddress, Says
      <4> QED
        BY <1>1, <4>1, <4>2, <4>3, ExactMatches
    <3>2. CASE line.type = "DOMAIN-SUFFIX"
      <4>1. line.payload \in Seq(DOMAIN Lower)
        BY <1>5, <3>2 DEF LineShape
      <4>2. Matches(rule, meta0) <=> IsSuffix(Fold(Lower, line.payload), Fold(Lower, name))
        BY <1>1, <2>2, <2>4, <3>2 DEF Matches, DomainMatches
      <4>3. Heard(line, r) <=> Below(name, line.payload)
        BY <1>5, <3>2 DEF Heard, ByAddress, Says
      <4> QED
        BY <1>1, <4>1, <4>2, <4>3, SuffixMatches
    <3>3. CASE line.type = "DOMAIN-KEYWORD"
      <4>1. Matches(rule, meta0) <=> <<Fold(Lower, name), Lower[line.payload]>> \in Infixes
        BY <1>1, <2>2, <2>4, <3>3 DEF Matches, DomainMatches
      <4>2. Heard(line, r) <=> <<Fold(Lower, name), Lower[line.payload]>> \in Infixes
        BY <1>5, <3>3 DEF Heard, ByAddress, Says
      <4> QED
        BY <4>1, <4>2
    <3>4. CASE line.type = "DOMAIN-REGEX"
      BY <1>1, <1>5, <2>2, <2>4, <3>4 DEF Matches, DomainMatches, Heard, ByAddress, Says
    <3>5. CASE line.type \in {"IP-CIDR", "IP-CIDR6"}
      <4>1. DstIp(r) # None <=> CarriesAddress(r)
        BY RoutingAssumption DEF DstIp, CarriesAddress, RequestShape
      <4>2. CarriesAddress(r) => Addresses(name) = {DstIp(r)}
        <5> SUFFICES ASSUME CarriesAddress(r) PROVE Addresses(name) = {DstIp(r)}
          OBVIOUS
        <5>1. RequestShape(r)
          BY RoutingAssumption
        <5>2. r.form = "socks" /\ r.literal
          BY DEF CarriesAddress
        <5>3. r.asked = [host |-> r.host, port |-> r.port]
          BY <5>1, <5>2 DEF RequestShape, Writes
        <5>4. r.host \in DOMAIN Resolve /\ Resolve[r.host] = {r.host[1]}
          BY <5>1, <5>2 DEF RequestShape
        <5> QED
          BY <5>3, <5>4 DEF Addresses, DstIp
      <4>3. Matches(rule, meta0) <=> DstIp(r) # None /\ DstIp(r) \in line.payload
        BY <1>1, <2>2, <2>4, <3>5 DEF Matches, IpCidrMatches
      <4>4. Heard(line, r) <=> CarriesAddress(r) /\ Addresses(name) \intersect line.payload # {}
        BY <1>5, <3>5 DEF Heard, ByAddress, Says
      <4> QED
        BY <4>1, <4>2, <4>3, <4>4
    <3>6. CASE line.type = "SRC-IP-CIDR"
      BY <1>1, <1>5, <2>2, <2>4, <3>6 DEF Matches, IpCidrMatches, Heard, ByAddress, Says
    <3>7. CASE line.type \in {"SRC-PORT", "DST-PORT"}
      BY <1>1, <1>5, <2>2, <2>4, <3>7 DEF Matches, PortMatches, Heard, ByAddress, Says
    <3> QED
      BY <1>5, <3>1, <3>2, <3>3, <3>4, <3>5, <3>6, <3>7 DEF ParsedTypes
  <2> HIDE DEF rule, meta0
  <2>5. Heard(line, r) /\ line.rest \in Proxies <=>
           rule.ok /\ Matches(rule, meta0) /\ rule.adapter \in Proxies
    BY <2>2, <2>3, <2>4, Zenon
  <2> QED
    BY <2>2, <2>5 DEF rule, meta0
<1>6. CASE line.type # "MATCH" /\ (line.type \notin ParsedTypes \/ line.payload \in {Bad, None})
  <2>1. ~rule.ok
    <3>1. line.payload = None => ~(Fields(line) >= 3)
      BY <1>3, <1>6 DEF Fields, LineShape
    <3>2. ~(line.type \in ParsedTypes /\ Fields(line) >= 3 /\ line.payload # Bad)
      BY <1>6, <3>1, Zenon
    <3>3. rule = Refused
      BY <1>6, <3>2, Zenon DEF ParseRule
    <3> QED
      BY <3>3 DEF Refused
  <2>2. ~Heard(line, r)
    BY <1>6 DEF Heard, ByAddress, Says, ParsedTypes
  <2> QED
    BY <2>1, <2>2
<1>7. "MATCH" \notin ParsedTypes
  BY DEF ParsedTypes
<1> QED
  BY <1>4, <1>5, <1>6, Zenon

-----------------------------------------------------------------------------
(* From the file to the adapter and the address *)

\* The first usable rule stems from the first line that is heard.
LEMMA FirstIsHeard ==
    ASSUME Loading, ParsedInOrder, Started, NEW r \in Requests, r.asked # None
    PROVE  FirstUsable(Metadata(r)) = Obeyed(r)
<1> DEFINE lines == config.rules
           n == Len(lines)
           m == Len(rules)
           ofRule(k) == Matches(rules[k], Metadata(r)) /\ rules[k].adapter \in Proxies
           ofLine(i) == Heard(lines[i], r) /\ lines[i].rest \in Proxies
           inRules == {k \in DOMAIN rules : ofRule(k)}
           inLines == {i \in DOMAIN lines : ofLine(i)}
<1>1. /\ lines = Load(file).rules /\ n \in Nat /\ next = n + 1
      /\ DOMAIN lines = 1 .. n /\ m \in Nat /\ DOMAIN rules = 1 .. m
  <2>1. n \in Nat /\ next \in Nat /\ next # 0 /\ DOMAIN lines = 1 .. n
    BY LinesAreListed
  <2>2. next = n + 1
    BY <2>1 DEF Loading, Started
  <2>3. m \in Nat /\ DOMAIN rules = 1 .. m
    BY DEF ParsedInOrder
  <2> QED
    BY <2>1, <2>2, <2>3 DEF Loading
<1>2. PICK pos \in [1 .. m -> 1 .. n] : StemFrom(rules, lines, n, pos)
  <2>1. next - 1 = n
    BY <1>1
  <2> QED
    BY <2>1 DEF ParsedInOrder
<1>3. \A i \in 1 .. n : LET rule == ParseRule(lines[i])
                       IN  /\ rule.ok => rule.adapter = lines[i].rest
                           /\ ofLine(i) <=> rule.ok /\ Matches(rule, Metadata(r))
                                                    /\ rule.adapter \in Proxies
  <2> TAKE i \in 1 .. n
  <2>1. LineShape(lines[i])
    BY <1>1, LinesAreListed DEF ConfigShape
  <2>2. Fields(lines[i]) >= 2
    <3>1. RulesValid(config)
      BY LoadedIsUsable, DefaultIsUsable DEF Loading
    <3> QED
      BY <1>1, <3>1 DEF RulesValid
  <2> QED
    BY <2>1, <2>2, RuleMeansLine
<1> HIDE DEF ofLine, ofRule, lines, n, m
<1>4. \A k \in 1 .. m : /\ pos[k] \in 1 .. n /\ rules[k] = ParseRule(lines[pos[k]])
                        /\ rules[k].ok /\ rules[k].adapter = lines[pos[k]].rest
                        /\ (ofRule(k) <=> ofLine(pos[k]))
  <2> TAKE k \in 1 .. m
  <2>1. pos[k] \in 1 .. n
    BY <1>2
  <2>2. rules[k] = ParseRule(lines[pos[k]]) /\ rules[k].ok
    BY <1>2 DEF StemFrom, m
  <2> QED
    BY <1>3, <2>1, <2>2 DEF ofRule
<1>5. \A i \in 1 .. n : ofLine(i) => \E k \in 1 .. m : pos[k] = i
  BY <1>2, <1>3 DEF StemFrom, m
<1>6. inRules \subseteq 1 .. m /\ inLines \subseteq 1 .. n
  BY <1>1
<1>7. CASE inRules = {}
  <2>1. inLines = {}
    BY <1>1, <1>4, <1>5, <1>7
  <2> QED
    BY <1>1, <1>7, <2>1, Zenon DEF FirstUsable, Obeyed, HeardLines, Lines, ofRule, ofLine, lines
<1>8. CASE inRules # {}
  <2> DEFINE first == Min(inRules)
  <2>1. first \in inRules /\ \A k \in inRules : first <= k
    BY <1>1, <1>6, <1>8, MinOfPositions
  <2> HIDE DEF first
  <2>2. first \in 1 .. m /\ pos[first] \in inLines
    BY <1>1, <1>4, <2>1
  <2>3. \A i \in inLines : pos[first] <= i
    <3> TAKE i \in inLines
    <3>1. PICK k \in 1 .. m : pos[k] = i
      BY <1>1, <1>5
    <3>2. k \in inRules
      BY <1>1, <1>4, <3>1
    <3>3. first = k \/ first < k
      BY <2>1, <2>2, <3>1, <3>2
    <3>4. first < k => pos[first] < pos[k]
      BY <1>2, <2>2 DEF StemFrom, m
    <3>5. pos[first] \in 1 .. n /\ pos[k] \in 1 .. n
      BY <1>4, <2>2
    <3> QED
      BY <3>1, <3>3, <3>4, <3>5
  <2>4. Min(inLines) = pos[first]
    <3> HIDE DEF inLines
    <3>1. Min(inLines) \in inLines /\ Min(inLines) <= pos[first]
      BY <1>1, <1>6, <2>2, MinOfPositions
    <3>2. pos[first] <= Min(inLines) /\ Min(inLines) \in 1 .. n /\ pos[first] \in 1 .. n
      BY <1>6, <2>2, <2>3, <3>1
    <3> QED
      BY <3>1, <3>2
  <2>5. inLines # {}
    BY <2>2
  <2>6. rules[first].adapter = lines[pos[first]].rest
    BY <1>4, <2>2
  <2>7. FirstUsable(Metadata(r)) = rules[first].adapter
    BY <1>8, Zenon DEF FirstUsable, ofRule, first
  <2>8. Obeyed(r) = lines[Min(inLines)].rest
    BY <1>1, <2>5, Zenon DEF Obeyed, HeardLines, Lines, ofLine, lines
  <2> QED
    BY <2>4, <2>6, <2>7, <2>8
<1> QED
  BY <1>7, <1>8

\* If the first line that speaks is heard, it is the first that is heard.
LEMMA FirstSpeaks ==
    ASSUME Loading, Started, NEW r, ~(/\ ~CarriesAddress(r) /\ Speaking(r) # {}
                                      /\ Lines[Min(Speaking(r))].type \in ByAddress)
    PROVE  Obeyed(r) = Written(r)
<1> DEFINE speaking == Speaking(r)
           heard == HeardLines(r)
<1>1. /\ \A i : i \in heard => i \in speaking
      /\ \A i \in speaking : Heard(Lines[i], r) => i \in heard
  BY DEF HeardLines, Speaking, Heard
<1>2. speaking \subseteq 1 .. Len(Lines) /\ Len(Lines) \in Nat
  <2>1. Lines = config.rules
    BY LinesAreListed DEF Lines, Loading
  <2> QED
    BY <2>1, LinesAreListed DEF Speaking
<1>3. CASE speaking = {}
  BY <1>1, <1>3 DEF Obeyed, Written
<1>4. CASE speaking # {}
  <2> DEFINE i == Min(speaking)
  <2> HIDE DEF speaking, heard
  <2>1. i \in speaking /\ \A j \in speaking : i <= j
    BY <1>2, <1>4, MinOfPositions
  <2>2. Heard(Lines[i], r)
    BY <1>4, <2>1 DEF Heard, Speaking, speaking
  <2>3. i \in heard
    BY <1>1, <2>1, <2>2
  <2>4. heard \subseteq 1 .. Len(Lines) /\ heard # {}
    BY <1>1, <1>2, <2>3
  <2>5. Min(heard) \in heard /\ \A j \in heard : Min(heard) <= j
    BY <1>2, <2>4, MinOfPositions
  <2>6. Min(heard) = i
    <3>1. i \in 1 .. Len(Lines) /\ Min(heard) \in 1 .. Len(Lines)
      BY <1>2, <2>1, <2>4, <2>5
    <3>2. Min(heard) <= i /\ i <= Min(heard)
      BY <1>1, <2>1, <2>3, <2>5
    <3> HIDE DEF i
    <3> QED
      BY <1>2, <3>1, <3>2
  <2> QED
    BY <1>4, <2>4, <2>6 DEF Obeyed, Written, speaking, heard
<1> QED
  BY <1>3, <1>4

\* Every well-formed request is routed as the configuration on disk says, line
\* by line, for every file, every request and however the parser skips lines;
\* unless a CIDR line should decide for an address the request does not carry.
THEOREM FilesAreObeyed == Spec => []RoutedAsWritten
<1>1. RoutingInv => RoutedAsWritten
  <2> SUFFICES ASSUME RoutingInv, route # None, conn.asked # None,
                      ~(/\ ~CarriesAddress(conn) /\ Speaking(conn) # {}
                        /\ Lines[Min(Speaking(conn))].type \in ByAddress)
               PROVE  route = Written(conn)
    BY DEF RoutedAsWritten
  <2>1. /\ meta # None /\ conn # None /\ conn \in Requests
        /\ meta = Metadata(conn) /\ route = FirstUsable(meta)
    BY DEF RoutingInv, OneRequest
  <2>2. Started
    BY <2>1 DEF RoutingInv, OwnPorts
  <2> QED
    BY <2>1, <2>2, FirstIsHeard, FirstSpeaks DEF RoutingInv
<1> QED
  BY <1>1, RoutingIsInvariant, PTL

\* What is dialled for a well-formed request is an address of the host it asked
\* for, at the port it asked for, whatever its target looks like.
THEOREM DestinationIsKept == Spec => []DialledAsAsked
<1>1. RoutingInv => DialledAsAsked
  <2> SUFFICES ASSUME RoutingInv, dialled # None, conn.asked # None
               PROVE  /\ dialled.ip \in Resolve[conn.asked.host]
                      /\ dialled.port = AskedPort(conn)
    BY DEF DialledAsAsked
  <2>1. /\ conn \in Requests /\ meta = Metadata(conn) /\ dialled \in ResolveAddr
    BY DEF RoutingInv, OneRequest
  <2>2. /\ meta.host = conn.asked.host /\ meta.dst_port = AskedPort(conn)
        /\ meta.dst_ip = DstIp(conn)
    BY <2>1, TargetIsAsked DEF Metadata, HostAndPort
  <2>3. PICK ip \in IF meta.dst_ip # None THEN {meta.dst_ip} ELSE Addresses(meta.host) :
           dialled = [ip |-> ip, port |-> meta.dst_port]
    BY <2>1 DEF ResolveAddr
  <2>4. CASE meta.dst_ip # None
    <3>1. conn.form = "socks" /\ conn.literal /\ ip = conn.host[1]
      BY <2>2, <2>3, <2>4 DEF DstIp, CarriesAddress
    <3>2. RequestShape(conn)
      BY <2>1, RoutingAssumption
    <3>3. conn.asked = [host |-> conn.host, port |-> conn.port]
      BY <3>1, <3>2 DEF RequestShape, Writes
    <3> QED
      BY <2>2, <2>3, <3>1, <3>2, <3>3 DEF RequestShape
  <2>5. CASE meta.dst_ip = None
    BY <2>2, <2>3, <2>5 DEF Addresses
  <2> QED
    BY <2>4, <2>5
<1> QED
  BY <1>1, RoutingIsInvariant, PTL

-----------------------------------------------------------------------------
(* The trie *)

\* The labels that paths are made of, and the paths that lead to suffixes.
Texts == Folded(Lower, DOMAIN Lower)
Paths == {p \in Seq(Texts) : p # <<>> /\ Marker \notin Range(p)}

\* What is stored at a path, if there is a node.
At(trie, p) == IF p \in DOMAIN trie THEN trie[p] ELSE None

\* The first n insertions that store at path p.
Stored(ops, p, n) == {i \in 1 .. n : ~ops[i].exact /\ Path(Lower, ops[i].domain) = p}

\* What the trie of the first n insertions looks like: its nodes are closed
\* under prefixes, and at each path is what was stored there last.
TrieOf(ops, trie, n) ==
    /\ \A p \in DOMAIN trie : PathNodes(p) \subseteq DOMAIN trie
    /\ \A p \in Paths : At(trie, p) = IF Stored(ops, p, n) = {} THEN None
                                      ELSE ops[Max(Stored(ops, p, n))].data

\* A path is as long as its name.
LEMMA PathShape ==
    ASSUME NEW name \in Seq(DOMAIN Lower)
    PROVE  Path(Lower, name) \in Seq(Texts) /\ Len(Path(Lower, name)) = Len(name)
<1>1. Fold(Lower, name) \in Seq(Texts) /\ Len(Fold(Lower, name)) = Len(name)
  BY FoldProperties, Zenon DEF Texts
<1> QED
  BY <1>1, ReverseProperties, Zenon DEF Path

\* The nodes on the way to a path are its prefixes, and so are those on the way
\* to one of them.
LEMMA PrefixNodes ==
    ASSUME NEW S, NEW p \in Seq(S)
    PROVE  /\ p \in PathNodes(p) /\ <<>> \in PathNodes(p)
           /\ \A q \in PathNodes(p) : PathNodes(q) \subseteq PathNodes(p)
<1>1. p = SubSeq(p, 1, Len(p)) /\ Len(p) \in 0 .. Len(p)
  OBVIOUS
<1>2. <<>> = SubSeq(p, 1, 0) /\ 0 \in 0 .. Len(p)
  OBVIOUS
<1>3. ASSUME NEW q \in PathNodes(p), NEW x \in PathNodes(q) PROVE x \in PathNodes(p)
  <2>1. PICK i \in 0 .. Len(p) : q = SubSeq(p, 1, i)
    BY DEF PathNodes
  <2>2. q \in Seq(S) /\ Len(q) = i /\ \A k \in 1 .. i : q[k] = p[k]
    BY <2>1
  <2>3. PICK j \in 0 .. i : x = SubSeq(q, 1, j)
    BY <2>2 DEF PathNodes
  <2>4. x = SubSeq(p, 1, j)
    <3>1. /\ x \in Seq(S) /\ Len(x) = j /\ \A k \in 1 .. j : x[k] = q[k]
      BY <2>2, <2>3
    <3>2. /\ SubSeq(p, 1, j) \in Seq(S) /\ Len(SubSeq(p, 1, j)) = j
          /\ \A k \in 1 .. j : SubSeq(p, 1, j)[k] = p[k]
      BY <2>1, <2>3
    <3> QED
      BY <2>2, <3>1, <3>2
  <2> QED
    BY <2>3, <2>4 DEF PathNodes
<1> QED
  BY <1>1, <1>2, <1>3 DEF PathNodes

\* Storing at a path changes what is there and nothing else.
LEMMA StoreAt ==
    ASSUME NEW trie, NEW S, NEW q \in Seq(S), NEW data,
           \A p \in DOMAIN trie : PathNodes(p) \subseteq DOMAIN trie
    PROVE  /\ \A p \in DOMAIN Store(trie, q, data) :
                 PathNodes(p) \subseteq DOMAIN Store(trie, q, data)
           /\ \A p : At(Store(trie, q, data), p) = IF p = q THEN data ELSE At(trie, p)
<1> DEFINE new == Store(trie, q, data)
<1>1. /\ DOMAIN new = DOMAIN trie \union PathNodes(q)
      /\ \A p \in DOMAIN new :
            new[p] = IF p = q THEN data ELSE IF p \in DOMAIN trie THEN trie[p] ELSE None
  BY DEF Store
<1> HIDE DEF new
<1>2. \A p \in DOMAIN new : PathNodes(p) \subseteq DOMAIN new
  BY <1>1, PrefixNodes
<1>3. q \in DOMAIN new
  BY <1>1, PrefixNodes
<1>4. \A p : At(new, p) = IF p = q THEN data ELSE At(trie, p)
  BY <1>1, <1>3 DEF At
<1> QED
  BY <1>2, <1>4 DEF new

\* The tries one after the other.
LEMMA TriesStep ==
    ASSUME NEW ops, Len(ops) \in Nat
    PROVE  /\ Tries(ops)[0] = EmptyTrie
           /\ \A n \in 1 .. Len(ops) : Tries(ops)[n] = Insert(Tries(ops)[n - 1], ops[n])
<1> DEFINE Step(f, n) == IF n = 0 THEN EmptyTrie ELSE Insert(f[n - 1], ops[n])
           Lacking == {m \in 0 .. Len(ops) : ~ \E f : f = [n \in 0 .. m |-> Step(f, n)]}
<1>1. Lacking = {}
  <2>1. SUFFICES ASSUME Lacking # {} PROVE FALSE
    OBVIOUS
  <2>2. IsWellFoundedOn(OpToRel(<, Nat), Nat)
    BY NatLessThanWellFounded
  <2>3. Lacking \subseteq Nat
    OBVIOUS
  <2>4. PICK m \in Lacking : \A y \in Lacking : ~ (<<y, m>> \in OpToRel(<, Nat))
    BY <2>1, <2>2, <2>3, WFMin
  <2>5. m \in 0 .. Len(ops) /\ ~ \E f : f = [n \in 0 .. m |-> Step(f, n)]
    OBVIOUS
  <2>6. m # 0
    <3>1. ASSUME m = 0 PROVE FALSE
      <4> DEFINE g == [n \in 0 .. 0 |-> EmptyTrie]
      <4>1. g = [n \in 0 .. 0 |-> Step(g, n)]
        OBVIOUS
      <4> QED
        BY <2>5, <3>1, <4>1
    <3> QED
      BY <3>1
  <2>7. \A y \in Lacking : ~ (y < m)
    BY <2>3, <2>4 DEF OpToRel
  <2>8. PICK f : f = [n \in 0 .. m - 1 |-> Step(f, n)]
    <3>1. m - 1 \in 0 .. Len(ops) /\ m - 1 < m
      BY <2>5, <2>6
    <3> QED
      BY <2>7, <3>1
  <2> DEFINE g == [n \in 0 .. m |-> Step(f, n)]
  <2>9. g = [n \in 0 .. m |-> Step(g, n)]
    <3>1. ASSUME NEW n \in 0 .. m PROVE g[n] = Step(g, n)
      <4>1. CASE n = 0
        BY <4>1
      <4>2. CASE n # 0
        <5>1. n - 1 \in 0 .. m - 1 /\ n - 1 \in 0 .. m
          BY <2>5, <4>2
        <5>2. g[n - 1] = f[n - 1]
          BY <2>8, <5>1
        <5> QED
          BY <4>2, <5>2
      <4> QED
        BY <4>1, <4>2
    <3>2. g = [n \in 0 .. m |-> g[n]]
      OBVIOUS
    <3> HIDE DEF g
    <3> QED
      BY <3>1, <3>2
  <2> QED
    BY <2>5, <2>9
<1>2. \E f : f = [n \in 0 .. Len(ops) |-> Step(f, n)]
  BY <1>1
<1>3. Tries(ops) = [n \in 0 .. Len(ops) |-> Step(Tries(ops), n)]
  BY <1>2 DEF Tries
<1> QED
  BY <1>3

\* What an insertion is.
LEMMA InsertionShape ==
    ASSUME NEW Data, NEW ops \in Seq(Insertions(Data)), NEW i \in DOMAIN ops
    PROVE  /\ ops[i].domain \in Seq(DOMAIN Lower) /\ Len(ops[i].domain) \in Nat \ {0}
           /\ ops[i].exact \in BOOLEAN /\ ops[i].data \in Data
<1>1. ops[i] \in Insertions(Data)
  OBVIOUS
<1> DEFINE names == Seq(DOMAIN Lower) \ {<<>>}
           sub == ops[i].domain
<1>2. sub \in names /\ ops[i].exact \in BOOLEAN /\ ops[i].data \in Data
  <2> HIDE DEF names
  <2>1. Insertions(Data) = [domain : names, exact : BOOLEAN, data : Data]
    BY DEF Insertions, names
  <2> QED
    BY <1>1, <2>1
<1> HIDE DEF sub
<1>3. sub \in Seq(DOMAIN Lower) /\ Len(sub) \in Nat \ {0}
  BY <1>2
<1> QED
  BY <1>2, <1>3 DEF sub

\* What one insertion adds.
LEMMA InsertAdds ==
    ASSUME NEW Data, NEW ops \in Seq(Insertions(Data)), NEW n \in 1 .. Len(ops),
           NEW trie, TrieOf(ops, trie, n - 1)
    PROVE  TrieOf(ops, Insert(trie, ops[n]), n)
<1> DEFINE ins == ops[n]
           new == Insert(trie, ins)
<1>1. n \in Nat /\ ins.domain \in Seq(DOMAIN Lower)
  <2>1. n \in DOMAIN ops
    OBVIOUS
  <2> QED
    BY <2>1, InsertionShape
<1>2. \A p : /\ Stored(ops, p, n) \subseteq 1 .. n
             /\ n \in Stored(ops, p, n) => Max(Stored(ops, p, n)) = n
             /\ n \notin Stored(ops, p, n) => Stored(ops, p, n) = Stored(ops, p, n - 1)
  <2> TAKE p
  <2>1. Stored(ops, p, n) \subseteq 1 .. n
    BY DEF Stored
  <2>2. ASSUME n \in Stored(ops, p, n) PROVE Max(Stored(ops, p, n)) = n
    <3>1. /\ Max(Stored(ops, p, n)) \in Stored(ops, p, n)
          /\ \A y \in Stored(ops, p, n) : Max(Stored(ops, p, n)) >= y
      BY <1>1, <2>1, <2>2, MaxOfPositions
    <3> QED
      BY <1>1, <2>1, <2>2, <3>1
  <2>3. n \notin Stored(ops, p, n) => Stored(ops, p, n) = Stored(ops, p, n - 1)
    <3>1. \A i : i \in 1 .. n /\ i # n <=> i \in 1 .. n - 1
      BY <1>1
    <3> QED
      BY <3>1 DEF Stored
  <2> QED
    BY <2>1, <2>2, <2>3
<1>3. CASE ~ins.exact
  <2> DEFINE q == Path(Lower, ins.domain)
  <2>1. q \in Seq(Texts)
    BY <1>1, PathShape, Zenon
  <2>2. new = Store(trie, q, ins.data)
    BY <1>3 DEF Insert, InsertSuffix
  <2>3. /\ \A p \in DOMAIN new : PathNodes(p) \subseteq DOMAIN new
        /\ \A p : At(new, p) = IF p = q THEN ins.data ELSE At(trie, p)
    <3> HIDE DEF new, q, ins
    <3>1. \A p \in DOMAIN trie : PathNodes(p) \subseteq DOMAIN trie
      BY DEF TrieOf
    <3> QED
      BY <2>1, <2>2, <3>1, StoreAt
  <2>4. \A p : n \in Stored(ops, p, n) <=> p = q
    BY <1>1, <1>3 DEF Stored
  <2>5. ASSUME NEW p \in Paths
        PROVE  At(new, p) = IF Stored(ops, p, n) = {} THEN None ELSE ops[Max(Stored(ops, p, n))].data
    <3> HIDE DEF new, q
    <3>1. CASE p = q
      BY <1>2, <2>3, <2>4, <3>1
    <3>2. CASE p # q
      BY <1>2, <2>3, <2>4, <3>2 DEF TrieOf
    <3> QED
      BY <3>1, <3>2
  <2> HIDE DEF new
  <2>6. TrieOf(ops, new, n)
    BY <2>3, <2>5 DEF TrieOf
  <2> QED
    BY <2>6 DEF new
<1>4. ASSUME ins.exact PROVE \A p : Stored(ops, p, n) = Stored(ops, p, n - 1)
  BY <1>2, <1>4 DEF Stored
<1>5. CASE ins.exact
  <2> DEFINE q == Append(Path(Lower, ins.domain), Marker)
             S == Texts \union {Marker}
  <2>1. q \in Seq(S) /\ Marker \in Range(q)
    <3>1. /\ Path(Lower, ins.domain) \in Seq(Texts)
      BY <1>1, PathShape, Zenon
    <3>2. q \in Seq(S) /\ Len(q) \in DOMAIN q /\ q[Len(q)] = Marker
      BY <3>1
    <3> QED
      BY <3>2 DEF Range
  <2>2. new = Store(trie, q, ins.data)
    BY <1>5 DEF Insert, InsertExact
  <2>3. /\ \A p \in DOMAIN new : PathNodes(p) \subseteq DOMAIN new
        /\ \A p : At(new, p) = IF p = q THEN ins.data ELSE At(trie, p)
    <3> HIDE DEF new, q, ins
    <3>1. \A p \in DOMAIN trie : PathNodes(p) \subseteq DOMAIN trie
      BY DEF TrieOf
    <3> QED
      BY <2>1, <2>2, <3>1, StoreAt
  <2>4. \A p \in Paths : p # q
    BY <2>1 DEF Paths
  <2> HIDE DEF new, q
  <2>5. TrieOf(ops, new, n)
    BY <1>4, <1>5, <2>3, <2>4 DEF TrieOf
  <2> QED
    BY <2>5 DEF new
<1> QED
  BY <1>3, <1>5

\* Every trie on the way is the trie of the insertions so far.
LEMMA EveryTrie ==
    ASSUME NEW Data, NEW ops \in Seq(Insertions(Data))
    PROVE  TrieOf(ops, Tries(ops)[Len(ops)], Len(ops))
<1> DEFINE Wrong == {n \in 0 .. Len(ops) : ~ TrieOf(ops, Tries(ops)[n], n)}
<1>1. SUFFICES ASSUME Wrong # {} PROVE FALSE
  OBVIOUS
<1>2. Wrong \subseteq 1 .. Len(ops)
  <2>1. TrieOf(ops, EmptyTrie, 0)
    <3>1. /\ DOMAIN EmptyTrie = {<<>>} /\ EmptyTrie[<<>>] = None
          /\ PathNodes(<<>>) \subseteq DOMAIN EmptyTrie
      <4>1. Len(<<>>) = 0 /\ SubSeq(<<>>, 1, 0) = <<>>
        OBVIOUS
      <4>2. \A i \in 0 .. Len(<<>>) : SubSeq(<<>>, 1, i) = <<>>
        BY <4>1
      <4> QED
        BY <4>2 DEF EmptyTrie, PathNodes
    <3>2. \A p : At(EmptyTrie, p) = None
      BY <3>1 DEF At
    <3>3. \A p : Stored(ops, p, 0) = {}
      BY DEF Stored
    <3> QED
      BY <3>1, <3>2, <3>3 DEF TrieOf
  <2>2. TrieOf(ops, Tries(ops)[0], 0)
    BY <2>1, TriesStep
  <2> QED
    BY <2>2
<1>3. Min(Wrong) \in Wrong /\ \A y \in Wrong : Min(Wrong) <= y
  <2>1. Len(ops) \in Nat
    OBVIOUS
  <2> HIDE DEF Wrong
  <2> QED
    BY <1>1, <1>2, <2>1, MinOfPositions
<1> DEFINE n == Min(Wrong)
<1>4. n \in 1 .. Len(ops) /\ ~ TrieOf(ops, Tries(ops)[n], n)
  BY <1>2, <1>3
<1>5. TrieOf(ops, Tries(ops)[n - 1], n - 1)
  BY <1>2, <1>3, <1>4
<1> HIDE DEF n
<1> QED
  BY <1>4, <1>5, TriesStep, InsertAdds

\* A name is below another exactly if its path goes through the other's.
LEMMA BelowIsPrefix ==
    ASSUME NEW name \in Seq(DOMAIN Lower), NEW sub \in Seq(DOMAIN Lower)
    PROVE  Below(name, sub) <=>
             /\ Len(sub) <= Len(name)
             /\ Path(Lower, sub) = SubSeq(Path(Lower, name), 1, Len(sub))
<1>1. Below(name, sub) <=> IsPrefix(Path(Lower, sub), Path(Lower, name))
  BY SuffixMatches, Zenon DEF IsSuffix, Path
<1>2. /\ Path(Lower, sub) \in Seq(Texts) /\ Len(Path(Lower, sub)) = Len(sub)
      /\ Path(Lower, name) \in Seq(Texts) /\ Len(Path(Lower, name)) = Len(name)
  BY PathShape
<1>3. SubSeq(Path(Lower, sub), 1, Len(sub)) = Path(Lower, sub)
  BY <1>2
<1> QED
  BY <1>1, <1>2, <1>3 DEF IsPrefix

\* Which suffixes a name is below: those that store along its path.
LEMMA AboveIsStored ==
    ASSUME NEW Data, NEW ops \in Seq(Insertions(Data)), NEW name \in Seq(DOMAIN Lower),
           NEW i \in DOMAIN ops, ~ops[i].exact
    PROVE  /\ Len(ops[i].domain) \in Nat \ {0}
           /\ \A m \in 1 .. Len(name) :
                 i \in Stored(ops, SubSeq(Path(Lower, name), 1, m), Len(ops)) <=>
                     Below(name, ops[i].domain) /\ Len(ops[i].domain) = m
<1> DEFINE sub == ops[i].domain
           path == Path(Lower, name)
<1>1. sub \in Seq(DOMAIN Lower) /\ Len(sub) \in Nat \ {0}
  BY InsertionShape
<1>2. /\ Path(Lower, sub) \in Seq(Texts) /\ Len(Path(Lower, sub)) = Len(sub)
      /\ path \in Seq(Texts) /\ Len(path) = Len(name)
  BY <1>1, PathShape
<1>3. Below(name, sub) <=> Len(sub) <= Len(name) /\ Path(Lower, sub) = SubSeq(path, 1, Len(sub))
  BY <1>1, BelowIsPrefix
<1>4. \A m \in 1 .. Len(name) : Len(SubSeq(path, 1, m)) = m
  BY <1>2
<1>5. ASSUME NEW m \in 1 .. Len(name)
      PROVE  Path(Lower, sub) = SubSeq(path, 1, m) <=> Below(name, sub) /\ Len(sub) = m
  <2> HIDE DEF sub, path
  <2> QED
    BY <1>2, <1>3, <1>4
<1>6. \A m : i \in Stored(ops, SubSeq(path, 1, m), Len(ops)) <=> Path(Lower, sub) = SubSeq(path, 1, m)
  BY DEF Stored
<1> QED
  BY <1>1, <1>5, <1>6

\* lookup stops at the last node along the path that has data.
LEMMA LookupIsLast ==
    ASSUME NEW name \in Seq(DOMAIN Lower), Fold(Lower, name) = Fold(AsciiLower, name), NEW trie,
           \A p \in DOMAIN trie : PathNodes(p) \subseteq DOMAIN trie
    PROVE  LET node(m) == SubSeq(Path(Lower, name), 1, m)
               met == {m \in 1 .. Len(name) : At(trie, node(m)) # None}
           IN  Lookup(trie, name) = IF met = {} THEN None ELSE At(trie, node(Max(met)))
<1> DEFINE path == Path(Lower, name)
           node(m) == SubSeq(path, 1, m)
           met == {m \in 1 .. Len(name) : At(trie, node(m)) # None}
<1>1. path \in Seq(Texts) /\ Len(path) = Len(name) /\ Len(name) \in Nat
  BY PathShape
<1>2. Path(AsciiLower, name) = path
  BY DEF Path
<1> HIDE DEF path
<1>3. \A m \in 1 .. Len(name) :
         At(trie, node(m)) # None <=>
             PathNodes(node(m)) \subseteq DOMAIN trie /\ trie[node(m)] # None
  <2> TAKE m \in 1 .. Len(name)
  <2>1. node(m) \in Seq(Texts)
    BY <1>1
  <2> HIDE DEF node
  <2>2. node(m) \in PathNodes(node(m))
    BY <2>1, PrefixNodes
  <2> QED
    BY <2>2 DEF At
<1>4. met = {m \in 1 .. Len(path) :
               PathNodes(node(m)) \subseteq DOMAIN trie /\ trie[node(m)] # None}
  BY <1>1, <1>3
<1>5. Lookup(trie, name) = IF met = {} THEN None ELSE trie[node(Max(met))]
  BY <1>2, <1>4 DEF Lookup
<1>6. ASSUME met # {} PROVE trie[node(Max(met))] = At(trie, node(Max(met)))
  <2>1. Max(met) \in met
    <3>1. met \subseteq 1 .. Len(name)
      OBVIOUS
    <3> HIDE DEF met
    <3> QED
      BY <1>1, <1>6, <3>1, MaxOfPositions
  <2> QED
    BY <2>1 DEF At
<1> QED
  BY <1>5, <1>6 DEF path

\* For every sequence of insertions, in any order and with any repetitions, the
\* data that lookup finds for a plain name is that of the last insertion of the
\* longest suffix; exact entries change nothing.
THEOREM LongestSuffixDecides ==
    ASSUME NEW Data, None \notin Data, NEW ops \in Seq(Insertions(Data)),
           NEW name \in Seq(DOMAIN Lower), Plain(name)
    PROVE  LookupIsLongestSuffix(ops, name)
<1> DEFINE above == Above(ops, name)
           size(i) == Len(ops[i].domain)
           longest == Longest(ops, name)
           n == Len(ops)
           trie == Tries(ops)[n]
           node(m) == SubSeq(Path(Lower, name), 1, m)
           met == {m \in 1 .. Len(name) : At(trie, node(m)) # None}
<1>1. n \in Nat /\ DOMAIN ops = 1 .. n
  OBVIOUS
<1>2. /\ name \in Seq(DOMAIN Lower) /\ Len(name) \in Nat
      /\ Fold(Lower, name) = Fold(AsciiLower, name) /\ Marker \notin Range(Fold(Lower, name))
  BY DEF Plain
<1>3. TrieOf(ops, trie, n)
  BY EveryTrie
<1>4. \A m \in 1 .. Len(name) : node(m) \in Paths
  <2> TAKE m \in 1 .. Len(name)
  <2> DEFINE path == Path(Lower, name)
  <2>1. path \in Seq(Texts) /\ Len(path) = Len(name)
    BY <1>2, PathShape
  <2>2. \A k \in 1 .. Len(name) : path[k] # Marker
    <3> TAKE k \in 1 .. Len(name)
    <3>1. /\ Fold(Lower, name) \in Seq(Texts) /\ Len(Fold(Lower, name)) = Len(name)
      BY <1>2, FoldProperties, Zenon DEF Texts
    <3>2. Len(name) - k + 1 \in DOMAIN Fold(Lower, name)
      BY <1>2, <3>1
    <3>3. path[k] = Fold(Lower, name)[Len(name) - k + 1]
      BY <3>1 DEF Path, Reverse
    <3> QED
      BY <1>2, <3>2, <3>3, Zenon DEF Range
  <2> HIDE DEF path
  <2>3. /\ SubSeq(path, 1, m) \in Seq(Texts) /\ Len(SubSeq(path, 1, m)) = m
        /\ DOMAIN SubSeq(path, 1, m) = 1 .. m
        /\ \A k \in 1 .. m : SubSeq(path, 1, m)[k] = path[k]
    <3>1. m \in Nat /\ m <= Len(path)
      BY <1>2, <2>1
    <3>2. SubSeq(path, 1, m) \in Seq(Texts)
      BY <2>1, <3>1
    <3>3. Len(SubSeq(path, 1, m)) = m /\ DOMAIN SubSeq(path, 1, m) = 1 .. m
      BY <2>1, <3>1
    <3>4. \A k \in 1 .. m : SubSeq(path, 1, m)[k] = path[k]
      BY <2>1, <3>1
    <3> QED
      BY <3>2, <3>3, <3>4
  <2>4. SubSeq(path, 1, m) # <<>>
    <3>1. Len(SubSeq(path, 1, m)) # 0 /\ Len(<<>>) = 0
      BY <1>2, <2>3
    <3> QED
      BY <3>1, Zenon
  <2>5. Marker \notin Range(SubSeq(path, 1, m))
    <3>1. \A k \in 1 .. m : k \in 1 .. Len(name)
      BY <1>2
    <3>2. \A k \in DOMAIN SubSeq(path, 1, m) : SubSeq(path, 1, m)[k] # Marker
      BY <2>2, <2>3, <3>1
    <3> QED
      BY <3>2, Zenon DEF Range
  <2> QED
    BY <2>3, <2>4, <2>5 DEF Paths, path
<1>5. \A m \in 1 .. Len(name) : Stored(ops, node(m), n) = {i \in above : size(i) = m}
  <2>1. ASSUME NEW m \in 1 .. Len(name), NEW i \in 1 .. n
        PROVE  i \in Stored(ops, node(m), n) <=> i \in above /\ size(i) = m
    <3>1. CASE ~ops[i].exact
      BY <1>1, <1>2, <3>1, AboveIsStored DEF Above
    <3>2. CASE ops[i].exact
      BY <3>2 DEF Stored, Above
    <3> QED
      BY <3>1, <3>2
  <2>2. \A m : Stored(ops, node(m), n) \subseteq 1 .. n
    BY DEF Stored
  <2>3. above \subseteq 1 .. n
    BY <1>1 DEF Above
  <2> HIDE DEF above, size, node, n
  <2> QED
    BY <2>1, <2>2, <2>3
<1>6. \A i \in above : size(i) \in 1 .. Len(name)
  <2> TAKE i \in above
  <2>1. size(i) \in Nat \ {0}
    BY <1>1, <1>2, AboveIsStored DEF Above
  <2>2. size(i) <= Len(name)
    BY DEF Above, Below
  <2> QED
    BY <1>2, <2>1, <2>2
<1>7. \A m \in 1 .. Len(name) : Stored(ops, node(m), n) # {} =>
         At(trie, node(m)) = ops[Max(Stored(ops, node(m), n))].data /\ At(trie, node(m)) # None
  <2> TAKE m \in 1 .. Len(name)
  <2> HAVE Stored(ops, node(m), n) # {}
  <2>1. At(trie, node(m)) = ops[Max(Stored(ops, node(m), n))].data
    BY <1>3, <1>4 DEF TrieOf
  <2>2. Max(Stored(ops, node(m), n)) \in Stored(ops, node(m), n)
    <3> DEFINE S == Stored(ops, node(m), n)
    <3>1. S \subseteq 1 .. n /\ S # {}
      BY DEF Stored
    <3> HIDE DEF S, n
    <3>2. Max(S) \in S
      BY <1>1, <3>1, MaxOfPositions
    <3> QED
      BY <3>2 DEF S
  <2>3. ops[Max(Stored(ops, node(m), n))].data \in Data
    <3>1. Max(Stored(ops, node(m), n)) \in DOMAIN ops
      BY <1>1, <2>2 DEF Stored
    <3> QED
      BY <3>1, InsertionShape, Zenon
  <2> QED
    BY <2>1, <2>3
<1>8. \A m \in 1 .. Len(name) : Stored(ops, node(m), n) = {} => At(trie, node(m)) = None
  BY <1>3, <1>4 DEF TrieOf
<1>9. met = {m \in 1 .. Len(name) : \E i \in above : size(i) = m}
  <2> HIDE DEF above, size, node, n, trie
  <2> QED
    BY <1>5, <1>7, <1>8
<1>10. Lookup(trie, name) = IF met = {} THEN None ELSE At(trie, node(Max(met)))
  BY <1>2, <1>3, LookupIsLast DEF TrieOf
<1>11. CASE above = {}
  BY <1>9, <1>10, <1>11 DEF LookupIsLongestSuffix
<1>12. CASE above # {}
  <2>0. longest = {i \in above : \A j \in above : size(i) >= size(j)}
    BY DEF Longest
  <2> HIDE DEF above, size, node, n, trie, met, longest
  <2>1. met # {} /\ met \subseteq 1 .. Len(name)
    BY <1>6, <1>9, <1>12
  <2>2. Max(met) \in met /\ \A m \in met : Max(met) >= m
    BY <1>2, <2>1, MaxOfPositions
  <2>3. longest = {i \in above : size(i) = Max(met)}
    <3>1. \A i \in above : size(i) \in met
      BY <1>6, <1>9
    <3>2. PICK j \in above : size(j) = Max(met)
      BY <1>9, <2>2
    <3>3. \A m \in met : m \in Int
      BY <1>2, <2>1
    <3> QED
      BY <2>0, <2>2, <3>1, <3>2, <3>3
  <2>4. longest = Stored(ops, node(Max(met)), n) /\ longest # {}
    BY <1>5, <1>9, <2>1, <2>2, <2>3
  <2>5. Lookup(trie, name) = ops[Max(longest)].data
    BY <1>7, <1>10, <2>1, <2>2, <2>4
  <2> QED
    BY <1>12, <2>5 DEF above, longest, trie, n, LookupIsLongestSuffix
<1> QED
  BY <1>11, <1>12

\* Whatever is inserted with insert_exact, in any number and any order, lookup of
\* a plain name finds nothing: what trie.rs:49 and doc/06-rule-engine.md:302 say
\* of an exact entry, that its own name finds it, the code does not do.
THEOREM ExactEntriesAreLost ==
    ASSUME NEW Data, None \notin Data, NEW ops \in Seq(Insertions(Data)),
           \A i \in DOMAIN ops : ops[i].exact,
           NEW name \in Seq(DOMAIN Lower), Plain(name)
    PROVE  Lookup(Tries(ops)[Len(ops)], name) = None
<1>1. Above(ops, name) = {}
  BY DEF Above
<1>2. LookupIsLongestSuffix(ops, name)
  BY LongestSuffixDecides
<1> QED
  BY <1>1, <1>2 DEF LookupIsLongestSuffix
=============================================================================
