------------------------------ MODULE Inbound ------------------------------
(***************************************************************************)
(* One accepted connection until it is sent to the channel or dropped: the *)
(* handlers of redog-listener (mixed, HTTP, SOCKS5) and server_handshake of *)
(* redog-transport/src/socks5.rs, against a client that sends its units    *)
(* when it likes and may close at any time.                                *)
(*                                                                         *)
(* A unit is what one read of the code consumes.  script is everything the *)
(* client means to send; sent, read and parsed are positions in it: sent   *)
(* by the client, taken off the socket, used by the handler.  The HTTP     *)
(* handlers read through a BufReader, which takes all there is: the units  *)
(* from parsed + 1 to read are in its buffer, and into_inner() drops them. *)
(* After the hand-over the tunnel relays from unit read + 1 on.            *)
(***************************************************************************)
EXTENDS Naturals, Sequences

CONSTANT Scripts  \* the clients: sequences of units

\* SOCKS5: version byte, methods, request header, address.  HTTP: request
\* line, header line, blank line.  A bad line has fewer than three parts or a
\* target parse_host_port refuses; a bad address is of unknown type or not
\* UTF-8; a bad request has the wrong version or an unknown command.
SocksUnit == {"ver5", "ver4", "methods", "reqConnect", "reqOther", "reqBad",
              "addr", "addrBad"}
HttpUnit == {"lineConnect", "linePlain", "lineBad", "header", "blank"}
Unit == SocksUnit \union HttpUnit \union {"payload"}

\* The address, or the blank line, is the last unit before the payload.
ASSUME InboundAssumption ==
    /\ Scripts \subseteq Seq(Unit) /\ <<>> \notin Scripts
    /\ \A s \in Scripts : \A i, j \in DOMAIN s :
         i < j /\ s[i] \in {"addr", "blank"} => s[j] = "payload"

VARIABLES script, patient,  \* the client; a patient one awaits each reply
          sent, closed,     \* units sent; the client has shut down
          read, parsed,     \* units read from the socket; units used
          pc, kind, told    \* the handler, what it parsed, its last reply

client == <<script, patient>>
vars == <<script, patient, sent, closed, read, parsed, pc, kind, told>>

Ended == {"dispatched", "refused"}

\* The mixed listener peeks; the other two start with a protocol of their own
\* (clients of the other protocol are left to the mixed one).
Init == /\ script \in Scripts /\ patient \in BOOLEAN
        /\ sent = 0 /\ closed = FALSE /\ read = 0 /\ parsed = 0
        /\ \/ pc = "peek" /\ script[1] # "ver4"
           \/ pc = "ver" /\ script[1] \in SocksUnit
           \/ pc = "line" /\ script[1] \in HttpUnit
        /\ kind = "none" /\ told = "nothing"

-----------------------------------------------------------------------------
(* The client *)

\* The reply a patient client awaits before it sends unit u.
Awaits(u) == CASE u \in {"reqConnect", "reqOther", "reqBad"} -> {"method", "success"}
               [] u = "payload" /\ script[1] # "linePlain" -> {"success"}
               [] OTHER -> {"nothing", "method", "success"}

Send == /\ ~closed /\ sent < Len(script)
        /\ patient => told \in Awaits(script[sent + 1])
        /\ sent' = sent + 1
        /\ UNCHANGED <<client, closed, read, parsed, pc, kind, told>>

Close == /\ ~closed
         /\ closed' = TRUE
         /\ UNCHANGED <<client, sent, read, parsed, pc, kind, told>>

-----------------------------------------------------------------------------
(* The handler *)

\* peek returns the first byte, or nothing at the end of the stream.
Peek == /\ pc = "peek" /\ (sent > 0 \/ closed)
        /\ pc' = IF sent > 0 /\ script[1] = "ver5" THEN "ver" ELSE "line"
        /\ UNCHANGED <<client, sent, closed, read, parsed, kind, told>>

\* An I/O error (a reset, say) at any read or write.
IoFails == /\ pc \notin Ended
           /\ pc' = "refused"
           /\ UNCHANGED <<client, sent, closed, read, parsed, kind, told>>

\* The end of the stream where read_exact wants more.
SocksEof == /\ pc \in {"ver", "methods", "request", "address"}
            /\ closed /\ read = sent
            /\ pc' = "refused"
            /\ UNCHANGED <<client, sent, closed, read, parsed, kind, told>>

\* read_exact: unit u is taken off the socket and used, nothing else.
Exact(u) == /\ read < sent /\ script[read + 1] = u
            /\ read' = read + 1 /\ parsed' = read + 1
            /\ UNCHANGED <<client, sent, closed>>

Version == /\ pc = "ver"
           /\ \E u \in {"ver5", "ver4"} :
                 Exact(u) /\ pc' = IF u = "ver5" THEN "methods" ELSE "refused"
           /\ UNCHANGED <<kind, told>>

Methods == /\ pc = "methods" /\ Exact("methods")
           /\ told' = "method"
           /\ pc' = "request"
           /\ UNCHANGED kind

\* Mutant: success is reported as soon as the command is known.
Request_Early ==
    /\ pc = "request"
    /\ \E u \in {"reqConnect", "reqOther", "reqBad"} :
          /\ Exact(u)
          /\ kind' = IF u = "reqConnect" THEN "socks" ELSE "other"
          /\ pc' = IF u = "reqBad" THEN "refused" ELSE "address"
    /\ told' = "success"

\* The request header: version and command.
Request ==
    /\ pc = "request"
    /\ \E u \in {"reqConnect", "reqOther", "reqBad"} :
          /\ Exact(u)
          /\ kind' = IF u = "reqConnect" THEN "socks" ELSE "other"
          /\ pc' = IF u = "reqBad" THEN "refused" ELSE "address"
    /\ UNCHANGED told

\* read_address, the success reply, and only then the check of the command.
Address ==
    /\ pc = "address"
    /\ \/ /\ Exact("addr")
          /\ told' = "success"
          /\ pc' = IF kind = "socks" THEN "dispatched" ELSE "refused"
       \/ /\ Exact("addrBad")
          /\ pc' = "refused"
          /\ UNCHANGED told
    /\ UNCHANGED kind

\* BufReader with an empty buffer: one read takes what has arrived, or a part.
Fill == /\ pc \in {"line", "headers"}
        /\ parsed = read /\ read < sent
        /\ read' \in read + 1 .. sent
        /\ UNCHANGED <<client, sent, closed, parsed, pc, kind, told>>

\* Mutant: a line read advances by two.
Line_SkipsOne(u) == /\ parsed < read /\ script[parsed + 1] = u
                    /\ parsed' = parsed + 2
                    /\ UNCHANGED <<client, sent, closed, read>>

\* read_line out of the buffer.
Line(u) == /\ parsed < read /\ script[parsed + 1] = u
           /\ parsed' = parsed + 1
           /\ UNCHANGED <<client, sent, closed, read>>

\* read_line at the end of the stream: an empty line.
Eof == parsed = read /\ read = sent /\ closed /\ UNCHANGED <<client, sent, closed, read, parsed>>

RequestLine ==
    /\ pc = "line"
    /\ \/ Line("lineConnect") /\ kind' = "connect" /\ pc' = "headers"
       \/ Line("linePlain") /\ kind' = "plain" /\ pc' = "headers"
       \/ (Line("lineBad") \/ Eof) /\ pc' = "refused" /\ UNCHANGED kind
    /\ UNCHANGED told

HeaderLine == /\ pc = "headers" /\ Line("header")
              /\ UNCHANGED <<pc, kind, told>>

\* Mutant: only a blank line ends the headers, so that at the end of the stream
\* the loop reads empty lines for ever.
HeadersEnd_NoEof == /\ pc = "headers" /\ Line("blank")
                    /\ told' = IF kind = "connect" THEN "success" ELSE told
                    /\ pc' = "dispatched"
                    /\ UNCHANGED kind

\* Mutant: the first header line ends the loop.
HeadersEnd_First == /\ pc = "headers"
                    /\ Line("header") \/ Line("blank") \/ Eof
                    /\ told' = IF kind = "connect" THEN "success" ELSE told
                    /\ pc' = "dispatched"
                    /\ UNCHANGED kind

\* An empty line, also the one at the end of the stream, ends the headers.
\* CONNECT is answered with 200; a plain request is answered by its server.
HeadersEnd == /\ pc = "headers"
              /\ Line("blank") \/ Eof
              /\ told' = IF kind = "connect" THEN "success" ELSE told
              /\ pc' = "dispatched"
              /\ UNCHANGED kind

\* The connection has gone to the channel or is closed.
Done == pc \in Ended /\ UNCHANGED vars

Next == \/ Send \/ Close \/ Peek \/ IoFails \/ SocksEof
        \/ Version \/ Methods \/ Request \/ Address
        \/ Fill \/ RequestLine \/ HeaderLine \/ HeadersEnd \/ Done

Spec == Init /\ [][Next]_vars

\* The runtime polls the handler when something arrives.  The client goes on
\* sending as far as its patience allows, unless it closes.
Handle == \/ Peek \/ Version \/ Methods \/ Request \/ Address
          \/ Fill \/ RequestLine \/ HeaderLine \/ HeadersEnd
          \/ SocksEof

Fairness == WF_vars(Handle) /\ WF_vars(Send)

FairSpec == Spec /\ Fairness

-----------------------------------------------------------------------------
(* Properties *)

\* Shape of the state; nothing is used before it is read, or read before it is
\* sent.
TypeOK == /\ script \in Scripts /\ patient \in BOOLEAN
          /\ sent \in 0 .. Len(script) /\ closed \in BOOLEAN
          /\ read \in 0 .. sent /\ parsed \in 0 .. read
          /\ pc \in Ended \union {"peek", "ver", "methods", "request", "address",
                               "line", "headers"}
          /\ kind \in {"none", "socks", "other", "connect", "plain"}
          /\ told \in {"nothing", "method", "success"}

\* The tunnel takes over at the right place: it is never handed the rest of a
\* request, and a SOCKS5 client, or a CONNECT client that waits for its 200,
\* loses no byte of its payload to the handshake.
HandoverExact ==
    pc = "dispatched" =>
        /\ kind = "socks" \/ (kind = "connect" /\ patient)
               => \A i \in 1 .. read : script[i] # "payload"
        /\ ~closed => \A i \in read + 1 .. Len(script) : script[i] = "payload"

\* A client that was told of success is handed to the tunnel; the one exception
\* are SOCKS5 commands other than CONNECT, which handle_socks5 refuses after
\* server_handshake has confirmed them.
NoFalsePromise ==
    told = "success" => pc = "dispatched" \/ (pc = "refused" /\ kind = "other")

\* A handshake ends if the client closes or sends its whole request, whether or
\* not it waits for the replies in between: neither side waits for the other,
\* and no loop spins at the end of the stream.
HandshakeEnds ==
    (closed \/ \E i \in DOMAIN script : script[i] \in {"addr", "blank"})
        ~> pc \in Ended

\* redog-listener/src/http/mod.rs:93: the original request of a plain HTTP
\* client is forwarded, so the tunnel is handed the stream from its first unit.
PlainRequestForwarded == pc = "dispatched" /\ kind = "plain" => read = 0
=============================================================================
