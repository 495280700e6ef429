------------------------------ MODULE HostPort ------------------------------
(***************************************************************************)
(* redog-listener/src/http_parse.rs: the target of an HTTP proxy request.  *)
(* A target is a sequence of pieces: the delimiters the parser looks for,  *)
(* the two URL prefixes, and pieces of text between them (a text that is a *)
(* number is in the domain of PortOf).                                     *)
(***************************************************************************)
EXTENDS Naturals, Sequences, SequencesExt

CONSTANT PortOf  \* the u16 that str::parse reads from a piece of text

ParseError == [ok |-> FALSE, host |-> <<>>, port |-> 0]
HostAndPort(host, port) == [ok |-> TRUE, host |-> host, port |-> port]

Positions(s, piece) == {i \in DOMAIN s : s[i] = piece}
Before(s, i) == SubSeq(s, 1, i - 1)
After(s, i) == SubSeq(s, i + 1, Len(s))

\* Mutant: a port that is there gives way to the default.
WithPort_Default(host, text, default) == HostAndPort(host, default)

\* host with the port that text gives, the default when there is no text.
WithPort(host, text, default) ==
    CASE text = <<>> -> HostAndPort(host, default)
      [] Len(text) = 1 /\ text[1] \in DOMAIN PortOf -> HostAndPort(host, PortOf[text[1]])
      [] OTHER -> ParseError

\* What is left of a text that starts with a colon.
AfterColon(text) == IF text # <<>> /\ text[1] = ":" THEN Tail(text) ELSE <<>>

\* "[address]", "[address]:", "[address]:port"; anything else after the first
\* bracket stands for no port.
ParseBracketed(s, default) ==
    LET end == Min(Positions(s, "]"))
        rest == After(s, end)
    IN  IF s[1] = "[" THEN WithPort(SubSeq(s, 2, end - 1), AfterColon(rest), default)
                      ELSE ParseError

\* "host:port": the last colon divides.
ParsePlain(s, default) ==
    LET colon == Max(Positions(s, ":"))
    IN  IF colon = 1 THEN ParseError
        ELSE WithPort(Before(s, colon), After(s, colon), default)

ParseHostPort(s, default) ==
    CASE s = <<>> -> ParseError
      [] Positions(s, "]") # {} -> ParseBracketed(s, default)
      [] Positions(s, "]") = {} /\ Positions(s, ":") # {} -> ParsePlain(s, default)
      [] OTHER -> HostAndPort(s, default)

\* An absolute URL is cut at its first slash; other targets are taken whole.
ExtractHost(target, default) ==
    LET rest == IF target = <<>> THEN <<>> ELSE Tail(target)
        slashes == Positions(rest, "/")
    IN  IF target # <<>> /\ target[1] \in {"http://", "https://"}
        THEN ParseHostPort(IF slashes = {} THEN rest ELSE Before(rest, Min(slashes)), default)
        ELSE ParseHostPort(target, default)
=============================================================================
