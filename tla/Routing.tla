------------------------------ MODULE Routing ------------------------------
(***************************************************************************)
(* redog from its configuration file to the address it dials: main loads   *)
(* the configuration, parses its rules and binds the listeners; a listener *)
(* turns a request into Metadata; the tunnel (in its initial Rule mode)    *)
(* picks an adapter; the adapter dials.  One request at a time: Tunnel has *)
(* concurrent ones, Dispatch the listeners' retries.                       *)
(***************************************************************************)
EXTENDS Config, HostPort

CONSTANTS Files,     \* what may be on disk
          Requests,  \* what clients ask for
          Resolve    \* name or address text to the addresses it stands for

VARIABLES file, config, rules,  \* read; in effect; parsed so far
          next,                 \* index of the next rule line, 0 before loading
          bound,                \* port of each listener that is bound
          failed,               \* listeners that found their port taken
          conn, meta,           \* the request being handled and its Metadata
          route, dialled        \* adapter chosen; address connected to

start == <<file, config, rules, next>>
vars == <<start, bound, failed, conn, meta, route, dialled>>

-----------------------------------------------------------------------------
(* What clients ask for, in the terms of RFC 3986 and RFC 1928             *)
(*                                                                         *)
(* r.asked is the destination a client means, None when its request is no  *)
(* well-formed one; asked.port is None when the request leaves it out.     *)

\* Pieces that are no part of a name or an address.
Delimiters == {"[", "]", ":", "/", "http://", "https://"}

\* The texts after a host that give a port or leave it out.
PortTexts(port) ==
    IF port = None THEN {<<>>, <<":">>}
                   ELSE {<<":", text>> : text \in {x \in DOMAIN PortOf : PortOf[x] = port}}

\* A host, in brackets if it is an address with colons, and a port text.
Authorities(asked) ==
    LET followed(host) == {host \o text : text \in PortTexts(asked.port)}
    IN  followed(asked.host) \union followed(<<"[">> \o asked.host \o <<"]">>)

\* An absolute URL: the authority and a path, if any.  (With no path a query
\* would follow the authority: redog takes it for a part of the host.)
Urls(r) ==
    {end \in 2 .. Len(r.target) :
        /\ r.target[1] \in {"http://", "https://"}
        /\ SubSeq(r.target, 2, end) \in Authorities(r.asked)
        /\ end = Len(r.target) \/ r.target[end + 1] = "/"}

Writes(r) ==
    CASE r.form = "connect" -> r.target \in Authorities(r.asked)
      [] r.form = "absolute" -> Urls(r) # {}
      [] r.form = "socks" -> r.asked = [host |-> r.host, port |-> r.port]

\* A port that is left out is the default of the request's method, which for an
\* absolute URL is 80, https or not (http/mod.rs:80).
AskedPort(r) ==
    IF r.asked.port # None THEN r.asked.port ELSE IF r.form = "connect" THEN 443 ELSE 80

\* The adapters main installs.
Proxies == {<<"DIRECT">>, <<"REJECT">>}

-----------------------------------------------------------------------------
(* What the constants may be *)

\* Type, payload and rest are a line cut at its commas: a MATCH has no payload,
\* and another line with one text after the type has no payload or no rest.
LineShape(line) ==
    /\ line.rest \in Seq(Range(line.rest)) /\ line.rest # None
    /\ IF line.type = "MATCH" THEN line.payload = None
                              ELSE line.payload = None => Len(line.rest) <= 1
    /\ line.type \in {"DOMAIN", "DOMAIN-SUFFIX"} /\ line.payload \notin {None, Bad} =>
           line.payload \in Seq(DOMAIN Lower) \ {<<>>}
    /\ line.type = "DOMAIN-KEYWORD" /\ line.payload \notin {None, Bad} =>
           line.payload \in DOMAIN Lower

ConfigShape(c) ==
    /\ DOMAIN c = ConfigFields
    /\ {c.port, c.socks, c.mixed, c.controller} \subseteq Ports \union {None}
    /\ c.rules \in Seq(Range(c.rules))
    /\ \A i \in DOMAIN c.rules : LineShape(c.rules[i])

\* A SOCKS5 address stands for itself and nothing else.
RequestShape(r) ==
    /\ r.form \in {"connect", "absolute", "socks"}
    /\ r.form = "socks" => /\ r.port \in Ports
                           /\ r.literal => /\ r.host \in DOMAIN Resolve /\ r.host[1] # None
                                           /\ Resolve[r.host] = {r.host[1]}
    /\ r.form # "socks" => r.target \in Seq(Range(r.target))
    /\ r.asked # None =>
           /\ r.asked.host \in Seq(DOMAIN Lower) \ {<<>>} /\ r.asked.host # None
           /\ r.form # "socks" => Range(r.asked.host) \intersect Delimiters = {}
           /\ Writes(r)

ASSUME RoutingAssumption ==
    /\ {80, 443, 7890, 9090} \subseteq Ports
    /\ None \notin Ports /\ None \notin Requests /\ None \notin Proxies
    /\ PortOf \in [DOMAIN PortOf -> Ports] /\ DOMAIN PortOf \intersect Delimiters = {}
    /\ DOMAIN Resolve \subseteq Seq(DOMAIN Lower)
    /\ \A f \in Files \ {Missing, Bad} : ConfigShape(f)
    /\ \A r \in Requests : RequestShape(r)

-----------------------------------------------------------------------------
(* The process *)

Listeners == {"mixed", "http", "socks", "api"}
Serves == [mixed |-> {"connect", "absolute", "socks"},
           http |-> {"connect", "absolute"}, socks |-> {"socks"}, api |-> {}]

Init == /\ file \in Files /\ config = DefaultConfig /\ rules = <<>> /\ next = 0
        /\ bound = [l \in Listeners |-> None] /\ failed = {}
        /\ conn = None /\ meta = None /\ route = None /\ dialled = None

-----------------------------------------------------------------------------
(* main *)

LoadConfig ==
    /\ next = 0
    /\ config' = Load(file) /\ next' = 1
    /\ UNCHANGED <<file, rules, bound, failed, conn, meta, route, dialled>>

\* Mutant: a line that does not parse ends the loop.
BuildRule_StopAtInvalid ==
    /\ next \in DOMAIN config.rules
    /\ LET rule == ParseRule(config.rules[next])
       IN  /\ rules' = IF rule.ok THEN Append(rules, rule) ELSE rules
           /\ next' = IF rule.ok THEN next + 1 ELSE Len(config.rules) + 1
    /\ UNCHANGED <<file, config, bound, failed, conn, meta, route, dialled>>

\* Mutant: a line that does not parse is kept.
BuildRule_KeepInvalid ==
    /\ next \in DOMAIN config.rules
    /\ rules' = Append(rules, ParseRule(config.rules[next]))
    /\ next' = next + 1
    /\ UNCHANGED <<file, config, bound, failed, conn, meta, route, dialled>>

\* One turn of the loop over the lines: a line that does not parse is skipped.
BuildRule ==
    /\ next \in DOMAIN config.rules
    /\ LET rule == ParseRule(config.rules[next])
       IN  rules' = IF rule.ok THEN Append(rules, rule) ELSE rules
    /\ next' = next + 1
    /\ UNCHANGED <<file, config, bound, failed, conn, meta, route, dialled>>

Started == next > Len(config.rules)

\* Where main starts a listener; the mixed one has a default.
PortFor == [mixed |-> IF config.mixed = None THEN 7890 ELSE config.mixed,
            http |-> config.port, socks |-> config.socks, api |-> config.controller]

Taken(port) == \E l \in Listeners : bound[l] = port

\* The listeners' tasks bind in any order; a port that is taken is an error.
Bind(l) ==
    /\ Started /\ PortFor[l] # None /\ bound[l] = None /\ l \notin failed
    /\ \/ /\ ~Taken(PortFor[l])
          /\ bound' = [bound EXCEPT ![l] = PortFor[l]]
          /\ UNCHANGED failed
       \/ /\ Taken(PortFor[l])
          /\ failed' = failed \union {l}
          /\ UNCHANGED bound
    /\ UNCHANGED <<start, conn, meta, route, dialled>>

-----------------------------------------------------------------------------
(* A request *)

\* What the handler reads off a request: CONNECT takes the target as it is, the
\* other methods take it as a URL too; SOCKS5 has an address or a name.
Target(r) ==
    CASE r.form = "connect" -> ParseHostPort(r.target, 443)
      [] r.form = "absolute" -> ExtractHost(r.target, 80)
      [] r.form = "socks" -> HostAndPort(r.host, r.port)

\* Address::ip(): only a SOCKS5 request can carry an address.
CarriesAddress(r) == r.form = "socks" /\ r.literal
DstIp(r) == IF CarriesAddress(r) THEN r.host[1] ELSE None

\* The fields of Metadata that something reads; Metadata::new leaves dst_ip out
\* and only the SOCKS5 handler sets it.
Metadata(r) == [src |-> r.src, host |-> Target(r).host,
                dst_ip |-> DstIp(r), dst_port |-> Target(r).port]

\* The listener accepts the connection and its handler parses the request.
Accept(l, r) ==
    /\ bound[l] # None /\ r.form \in Serves[l] /\ conn = None
    /\ conn' = r
    /\ meta' = IF Target(r).ok THEN Metadata(r) ELSE None
    /\ UNCHANGED <<start, bound, failed, route, dialled>>

\* rule_match: the first rule that matches and whose adapter is installed.
Route ==
    LET usable == {i \in DOMAIN rules : /\ Matches(rules[i], meta)
                                        /\ rules[i].adapter \in Proxies}
    IN  /\ conn # None /\ meta # None /\ route = None
        /\ route' = IF usable = {} THEN <<"DIRECT">> ELSE rules[Min(usable)].adapter
        /\ UNCHANGED <<start, bound, failed, conn, meta, dialled>>

\* The system resolver: a name it does not know has no address.
Addresses(host) == IF host \in DOMAIN Resolve THEN Resolve[host] ELSE {}

\* resolve_addr: the address of the metadata, or the first (any) that the host
\* stands for; a host that has none is an error.
ResolveAddr == {[ip |-> ip, port |-> meta.dst_port] :
                   ip \in IF meta.dst_ip # None THEN {meta.dst_ip} ELSE Addresses(meta.host)}

\* Direct::connect_stream; REJECT always fails.
Dial ==
    /\ route = <<"DIRECT">> /\ dialled = None
    /\ \E addr \in ResolveAddr : dialled' = addr
    /\ UNCHANGED <<start, bound, failed, conn, meta, route>>

\* The handshake was refused, the dial failed, or the relay is over.
Finish ==
    /\ conn # None /\ (meta = None \/ route # None)
    /\ conn' = None /\ meta' = None /\ route' = None /\ dialled' = None
    /\ UNCHANGED <<start, bound, failed>>

Next == \/ LoadConfig
        \/ BuildRule
        \/ \E l \in Listeners : Bind(l)
        \/ \E l \in Listeners, r \in Requests : Accept(l, r)
        \/ Route
        \/ Dial
        \/ Finish

Spec == Init /\ [][Next]_vars

-----------------------------------------------------------------------------
(* What the configuration says, in its own terms *)

ByAddress == {"IP-CIDR", "IP-CIDR6"}

\* Line says something of the request that r.asked describes.  A CIDR line
\* speaks of every destination with an address in the block, however the
\* request gives it (doc/06-rule-engine.md:169; ipcidr.rs:59 wants it resolved).
Says(line, r) ==
    LET name == r.asked.host
    IN  \/ line.type = "MATCH"
        \/ /\ line.payload \notin {Bad, None}
           /\ CASE line.type = "DOMAIN" -> SameName(AsciiLower, name, line.payload)
                [] line.type = "DOMAIN-SUFFIX" -> Below(name, line.payload)
                [] line.type = "DOMAIN-KEYWORD" ->
                     <<Fold(Lower, name), Lower[line.payload]>> \in Infixes
                [] line.type = "DOMAIN-REGEX" -> name \in line.payload
                [] line.type \in ByAddress -> Addresses(name) \intersect line.payload # {}
                [] line.type = "SRC-IP-CIDR" -> r.src.ip \in line.payload
                [] line.type = "SRC-PORT" -> r.src.port = line.payload
                [] line.type = "DST-PORT" -> AskedPort(r) = line.payload
                [] OTHER -> FALSE

\* The lines that say something of r and name an adapter main installs; a file
\* that cannot be used stands for the default.
Lines == Load(file).rules
Speaking(r) == {i \in DOMAIN Lines : Says(Lines[i], r) /\ Lines[i].rest \in Proxies}

\* The first one decides.
Written(r) == IF Speaking(r) = {} THEN <<"DIRECT">> ELSE Lines[Min(Speaking(r))].rest

-----------------------------------------------------------------------------
(* Properties *)

\* Shape of the state.
TypeOK ==
    /\ file \in Files /\ config \in Files \union {DefaultConfig}
    /\ DOMAIN config = ConfigFields
    /\ next \in 0 .. Len(config.rules) + 1
    /\ Len(rules) <= Len(config.rules)
    /\ \A i \in DOMAIN rules : rules[i].ok
    /\ bound \in [Listeners -> Ports \union {None}] /\ failed \subseteq Listeners
    /\ conn \in Requests \union {None} /\ route \in Proxies \union {None}
    /\ meta # None => meta.dst_port \in Ports
    /\ dialled # None => dialled.port \in Ports

\* A request that asks for a destination correctly is routed by the first usable
\* line of the file (main.rs:58, tunnel.rs:183): parsing, skipping what does not
\* parse, the handlers' targets and the matchers agree on what a line means.
\* It is not claimed if that line is a CIDR one and the request does not carry
\* its address as one: see RoutedByAddress.
RoutedAsWritten ==
    route # None /\ conn.asked # None =>
        \/ route = Written(conn)
        \/ /\ ~CarriesAddress(conn) /\ Speaking(conn) # {}
           /\ Lines[Min(Speaking(conn))].type \in ByAddress

\* doc/06-rule-engine.md:168, :169: an IP-CIDR rule matches every address in its
\* block.  So a request for an address goes where the first usable line says,
\* over HTTP as over SOCKS5.
RoutedByAddress ==
    /\ route # None /\ conn.asked # None
    /\ Len(conn.asked.host) = 1 /\ Addresses(conn.asked.host) = {conn.asked.host[1]}
    => route = Written(conn)

\* The address dialled is one that the destination asked for stands for, at the
\* port asked for; an https URL that leaves its port out is dialled at 80
\* (http/mod.rs:80 passes that default for every absolute URL).
DialledAsAsked ==
    dialled # None /\ conn.asked # None =>
        dialled.ip \in Resolve[conn.asked.host] /\ dialled.port = AskedPort(conn)

\* No listener loses its port to another one, except where validate does not look
\* (types.rs:121): the default of the mixed port and the controller's address.
ConflictsAreUnchecked ==
    \A l \in failed : \E o \in Listeners \ {l} :
        /\ bound[o] = PortFor[l]
        /\ "api" \in {l, o} \/ ("mixed" \in {l, o} /\ config.mixed = None)
=============================================================================
