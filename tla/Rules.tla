------------------------------- MODULE Rules -------------------------------
(***************************************************************************)
(* redog-rules: the parser of rule lines and the matcher of every type of  *)
(* rule, over the Metadata of redog-core/src/metadata.rs.                  *)
(*                                                                         *)
(* A name is a sequence of labels.  Case matters to DOMAIN-REGEX only: the *)
(* others fold it, with str::to_lowercase (Lower) or for ASCII letters     *)
(* (AsciiLower).  A CIDR block is the set of its addresses, a regular      *)
(* expression the set of names it finds a match in; a keyword is a text,   *)
(* which may have dots, and Infixes says which names contain which.        *)
(***************************************************************************)
EXTENDS Naturals, Sequences, SequencesExt

CONSTANTS Lower, AsciiLower,  \* labels (and keywords) to labels (and keywords)
          Infixes,            \* pairs of a lower-case name and a text inside it
          Ports,              \* u16 values
          None, Bad           \* an absent value; a text that does not parse

Fold(fold, name) == [i \in DOMAIN name |-> fold[name[i]]]

\* A line of the configuration: its type, its second field and what follows.
\* MATCH has no payload; a line may have too few fields or too many.
Fields(line) == 1 + (IF line.payload = None THEN 0 ELSE 1) + Len(line.rest)

Accepted(type, payload, adapter) ==
    [ok |-> TRUE, type |-> type, payload |-> payload, adapter |-> adapter]
Refused == [ok |-> FALSE, type |-> "MATCH", payload |-> None, adapter |-> <<>>]

ParsedTypes == {"DOMAIN", "DOMAIN-SUFFIX", "DOMAIN-KEYWORD", "DOMAIN-REGEX",
                "IP-CIDR", "IP-CIDR6", "SRC-IP-CIDR", "SRC-PORT", "DST-PORT"}

\* parse_rule.  An adapter is the list of comma-separated texts of its field:
\* splitn(3) leaves "DIRECT,no-resolve" in one piece.
ParseRule(line) ==
    CASE line.type = "MATCH" ->
           Accepted("MATCH", None, IF line.rest = <<>> THEN <<"DIRECT">> ELSE line.rest)
      [] line.type \in ParsedTypes /\ Fields(line) >= 3 /\ line.payload # Bad ->
           Accepted(line.type, line.payload, line.rest)
      [] OTHER -> Refused

-----------------------------------------------------------------------------
(* The implementations of the trait Rule, and Rule::matches *)

DomainMatches(rule, host) ==
    LET lower == Fold(Lower, host)
    IN  CASE rule.type = "DOMAIN" -> Fold(AsciiLower, host) = Fold(AsciiLower, rule.payload)
          [] rule.type = "DOMAIN-SUFFIX" -> IsSuffix(Fold(Lower, rule.payload), lower)
          [] rule.type = "DOMAIN-KEYWORD" -> <<lower, Lower[rule.payload]>> \in Infixes
          [] rule.type = "DOMAIN-REGEX" -> host \in rule.payload

\* Only the destination address the metadata has is looked at: nothing resolves
\* a name, whatever should_resolve_ip returns.
IpCidrMatches(rule, meta) ==
    IF rule.type = "SRC-IP-CIDR" THEN meta.src.ip \in rule.payload
    ELSE meta.dst_ip # None /\ meta.dst_ip \in rule.payload

PortMatches(rule, meta) ==
    rule.payload = IF rule.type = "SRC-PORT" THEN meta.src.port ELSE meta.dst_port

Matches(rule, meta) ==
    CASE rule.type = "MATCH" -> TRUE
      [] rule.type \in {"DOMAIN", "DOMAIN-SUFFIX", "DOMAIN-KEYWORD", "DOMAIN-REGEX"} ->
           meta.host # None /\ DomainMatches(rule, meta.host)
      [] rule.type \in {"IP-CIDR", "IP-CIDR6", "SRC-IP-CIDR"} -> IpCidrMatches(rule, meta)
      [] rule.type \in {"SRC-PORT", "DST-PORT"} -> PortMatches(rule, meta)

-----------------------------------------------------------------------------
(* What the documentation says of names: DOMAIN is the same name, and      *)
(* DOMAIN-SUFFIX the name or one below it (doc/06-rule-engine.md:33, :52)  *)

SameName(fold, a, b) == Len(a) = Len(b) /\ \A i \in DOMAIN a : fold[a[i]] = fold[b[i]]

\* name is sub or below it.
Below(name, sub) ==
    Len(sub) <= Len(name) /\ SameName(Lower, SubSeq(name, Len(name) - Len(sub) + 1, Len(name)), sub)
=============================================================================
