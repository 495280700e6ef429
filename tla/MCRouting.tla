----------------------------- MODULE MCRouting -----------------------------
(***************************************************************************)
(* Routing for TLC: every pair of the lines below, lists of three domain   *)
(* rules, valid and invalid settings of the ports, groups and DNS, and     *)
(* requests for names and addresses through every inbound protocol.  The   *)
(* domain trie is compared with its definition for all short sequences of  *)
(* insertions.                                                             *)
(***************************************************************************)
EXTENDS Routing, DomainTrie

Labels == {"com", "COM", "ex", "UMLAUT", "umlaut", "v4", "v6", "[", "]", ":", "/", "443", "80",
           "8443", "DIRECT", "X.C", Marker}
MCLower == [x \in Labels |-> CASE x = "COM" -> "com" [] x = "UMLAUT" -> "umlaut"
                                [] x = "X.C" -> "x.c" [] OTHER -> x]
MCAsciiLower == [MCLower EXCEPT !["UMLAUT"] = "UMLAUT"]
MCInfixes == {<<<<"ex", "com">>, "x.c">>}
MCPorts == {0, 80, 443, 7890, 7891, 8443, 9090, 1111}
MCPortOf == [x \in {"80", "443", "8443"} |-> CASE x = "80" -> 80 [] x = "443" -> 443 [] OTHER -> 8443]

Line(type, payload, rest) == [type |-> type, payload |-> payload, rest |-> rest]
D == <<"DIRECT">>
R == <<"REJECT">>

MCLines == {Line("DOMAIN", <<"ex", "COM">>, R), Line("DOMAIN", <<"com">>, D),
          Line("DOMAIN-SUFFIX", <<"com">>, R), Line("DOMAIN-SUFFIX", <<"ex", "com">>, D),
          Line("DOMAIN-KEYWORD", "X.C", R), Line("DOMAIN-REGEX", {<<"ex", "com">>}, D),
          Line("IP-CIDR", {"v4"}, R), Line("IP-CIDR", {"v4"}, <<"DIRECT", "no-resolve">>),
          Line("SRC-PORT", 1111, R), Line("DST-PORT", 8443, R), Line("DST-PORT", 80, R),
          Line("DST-PORT", Bad, D), Line("GEOIP", <<"com">>, R), Line("DOMAIN", None, R),
          Line("MATCH", None, R), Line("MATCH", None, <<"Proxy">>)}

Base == [DefaultConfig EXCEPT !.controller = None]
Config2 == {[Base EXCEPT !.rules = <<a, b>>] : a, b \in MCLines}

SuffixLines == {Line("DOMAIN-SUFFIX", n, a) : n \in {<<"com">>, <<"ex", "com">>}, a \in {D, R}}
Config3 == {[Base EXCEPT !.rules = <<a, b, c>>] :
               a, c \in SuffixLines, b \in SuffixLines \union {Line("DOMAIN", <<"ex", "COM">>, R)}}

\* Port settings, with one rule.
PortConfigs ==
    {[DefaultConfig EXCEPT !.port = p, !.socks = s, !.mixed = m, !.redir = t, !.controller = a] :
        p \in {None, 0, 7890}, s \in {None, 7890, 7891}, m \in {None, 7890, 7891},
        t \in {None, 7890}, a \in {None, 7890, 9090}}

Group(members, providers) == [name |-> "g", members |-> members, providers |-> providers]
OtherConfigs ==
    {[Base EXCEPT !.groups = {Group({"g", "DIRECT"}, FALSE)}, !.dns = [enable |-> TRUE, nameservers |-> {"v4"}],
                  !.rules = <<>>],
     [Base EXCEPT !.groups = {Group({"p"}, FALSE)}], [Base EXCEPT !.groups = {Group({}, FALSE)}],
     [Base EXCEPT !.groups = {Group({}, TRUE)}, !.rules = <<Line("SRC-IP-CIDR", {"v4"}, R)>>],
     [Base EXCEPT !.dns = [enable |-> TRUE, nameservers |-> {}]],
     [Base EXCEPT !.rules = <<Line("MATCH", None, <<>>)>>]}

MCFiles == Config2 \union Config3 \union PortConfigs \union OtherConfigs \union {Missing, Bad}

Com == <<"ex", "com">>
Src == [ip |-> "v4", port |-> 1111]
Http(form, target, host, port) ==
    [form |-> form, target |-> target, literal |-> FALSE, src |-> [Src EXCEPT !.port = 443],
     asked |-> [host |-> host, port |-> port]]
Socks(host, port, literal) ==
    [form |-> "socks", host |-> host, port |-> port, literal |-> literal, src |-> Src,
     asked |-> [host |-> host, port |-> port]]

MCRequests ==
    {Http("connect", <<"ex", "COM", ":", "443">>, <<"ex", "COM">>, 443),
     Http("connect", <<"ex", "com", ":">>, Com, None),
     Http("connect", <<"[", "v6", "]", ":", "8443">>, <<"v6">>, 8443),
     Http("connect", <<"v4", ":", "80">>, <<"v4">>, 80),
     Http("absolute", <<"http://", "ex", "com", "/">>, Com, None),
     Http("absolute", <<"http://", "[", "v6", "]", "/", ":">>, <<"v6">>, None),
     Http("absolute", <<"https://", "UMLAUT", "com">>, <<"UMLAUT", "com">>, None),
     Http("absolute", <<"https://", "ex", "com", ":", "443", "/", ":", "80">>, Com, 443),
     [Http("connect", <<"[", "v6", ":", "80">>, Com, 80) EXCEPT !.asked = None],
     [Http("connect", <<"v6", "]">>, Com, 80) EXCEPT !.asked = None],
     [Http("absolute", <<":", "80">>, Com, 80) EXCEPT !.asked = None],
     Socks(Com, 8443, FALSE), Socks(<<"v4">>, 80, TRUE), Socks(<<"v6">>, 80, TRUE),
     Socks(<<"v4">>, 80, FALSE)}

Names == {Com, <<"ex", "COM">>, <<"UMLAUT", "com">>, <<"com">>, <<Marker, "ex", "com">>,
          <<"umlaut">>, <<"v4">>, <<"v6">>}
MCResolve == [h \in Names |-> IF h = <<"v6">> THEN {"v6"} ELSE IF h = <<"v4">> THEN {"v4"}
                              ELSE IF h = <<"umlaut">> THEN {} ELSE {"v4", "v6"}]

MCInsertions == [domain : {<<"com">>, <<"ex", "COM">>}, exact : BOOLEAN, data : {"a", "b"}]

ASSUME TrieAgrees ==
    \A ops \in SeqOf(MCInsertions, 3), name \in {n \in Names : Plain(n)} :
        LookupIsLongestSuffix(ops, name)
=============================================================================
