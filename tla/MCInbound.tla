----------------------------- MODULE MCInbound -----------------------------
(***************************************************************************)
(* Inbound for TLC: complete, broken and truncated clients of both         *)
(* protocols, with up to two units of payload.                             *)
(***************************************************************************)
EXTENDS Inbound

Payloads == {<<>>, <<"payload">>, <<"payload", "payload">>}

Socks == {<<"ver5", "methods", r, a>> : r \in {"reqConnect", "reqOther"},
                                        a \in {"addr", "addrBad"}}
         \union {<<"ver5", "methods", "reqBad">>, <<"ver4">>}

Http == {<<l>> \o h \o <<"blank">> : l \in {"lineConnect", "linePlain", "lineBad"},
                                     h \in {<<>>, <<"header">>, <<"header", "header">>}}

Truncated == {<<"ver5">>, <<"ver5", "methods">>, <<"ver5", "methods", "reqConnect">>,
              <<"lineConnect">>, <<"linePlain", "header">>}

MCScripts == {r \o p : r \in Socks \union Http, p \in Payloads} \union Truncated
=============================================================================
