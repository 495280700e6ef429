------------------------------- MODULE Config -------------------------------
(***************************************************************************)
(* redog-config: what load_config makes of a file, and Config::validate.   *)
(* A file is Missing, Bad (no UTF-8, no YAML, a value out of range) or the *)
(* configuration serde reads from it, with the fields something reads.     *)
(***************************************************************************)
EXTENDS Rules, FiniteSets

CONSTANT Missing

\* The fields of Config that something reads; an external-controller is a port.
ConfigFields == {"port", "socks", "mixed", "redir", "tproxy", "controller", "proxies",
                 "groups", "dns", "rules"}

\* main.rs default_config.
DefaultConfig ==
    [port |-> None, socks |-> None, mixed |-> 7890, redir |-> None, tproxy |-> None,
     controller |-> 9090, proxies |-> {}, groups |-> {}, dns |-> None,
     rules |-> <<[type |-> "MATCH", payload |-> None, rest |-> <<"DIRECT">>]>>]

AllPorts(c) == <<c.port, c.socks, c.mixed, c.redir, c.tproxy>>

\* Mutant: the check compares a port with the one before it only.
PortsValid_Neighbours(c) ==
    \A i \in 1 .. 5 : AllPorts(c)[i] # None =>
        AllPorts(c)[i] # 0 /\ (i = 1 \/ AllPorts(c)[i - 1] # AllPorts(c)[i])

\* No configured port is 0, and no two are equal.
PortsValid(c) ==
    \A i \in 1 .. 5 : AllPorts(c)[i] # None =>
        AllPorts(c)[i] # 0 /\ \A j \in 1 .. 5 \ {i} : AllPorts(c)[j] # AllPorts(c)[i]

Known(c) == c.proxies \union {g.name : g \in c.groups} \union {"DIRECT", "REJECT", "GLOBAL"}

\* A group has members or providers, and its members are names of something.
GroupsValid(c) ==
    \A g \in c.groups : g.members \subseteq Known(c) /\ (g.members # {} \/ g.providers)

\* At least type and target: less than parse_rule asks of most types.
RulesValid(c) == \A i \in DOMAIN c.rules : Fields(c.rules[i]) >= 2

DnsValid(c) == c.dns = None \/ ~c.dns.enable \/ c.dns.nameservers # {}

Validate(c) == PortsValid(c) /\ GroupsValid(c) /\ RulesValid(c) /\ DnsValid(c)

\* load_config, and main's fallback when it fails.
Load(file) == IF file \in {Missing, Bad} \/ ~Validate(file) THEN DefaultConfig ELSE file
=============================================================================
