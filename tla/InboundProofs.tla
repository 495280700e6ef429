--------------------------- MODULE InboundProofs ---------------------------
(***************************************************************************)
(* Proofs about Inbound for any set of clients.                            *)
(***************************************************************************)
EXTENDS Inbound, TLAPS

\* The inductive invariant: success is the last reply a handler sends, and the
\* command is known while the address is read.
PInv == /\ NoFalsePromise
        /\ pc = "address" => kind \in {"socks", "other"}

\* Every step of the client and of the handler keeps the promise.
LEMMA StepPromise == PInv /\ [Next]_vars => PInv'
<1> SUFFICES ASSUME PInv, [Next]_vars PROVE PInv'
  OBVIOUS
<1> USE DEF PInv, NoFalsePromise, Ended
<1>1. CASE Send \/ Close \/ Peek
  BY <1>1 DEF Send, Close, Peek
<1>2. CASE IoFails \/ SocksEof
  BY <1>2 DEF IoFails, SocksEof
<1>3. CASE Version \/ Methods
  BY <1>3 DEF Version, Methods
<1>4. CASE Request
  BY <1>4 DEF Request
<1>5. CASE Address
  BY <1>5 DEF Address
<1>6. CASE Fill \/ RequestLine \/ HeaderLine
  BY <1>6 DEF Fill, RequestLine, HeaderLine
<1>7. CASE HeadersEnd
  BY <1>7 DEF HeadersEnd
<1>8. CASE Done \/ UNCHANGED vars
  BY <1>8 DEF Done, vars
<1> QED
  BY <1>1, <1>2, <1>3, <1>4, <1>5, <1>6, <1>7, <1>8 DEF Next

\* Whatever a client sends, it is told of success only if it is handed to the
\* tunnel, or asked for a SOCKS5 command other than CONNECT.
THEOREM PromisesAreKept == Spec => []NoFalsePromise
<1>1. Init => PInv
  BY DEF Init, PInv, NoFalsePromise
<1>2. PInv => NoFalsePromise
  BY DEF PInv
<1> QED
  BY <1>1, <1>2, StepPromise, PTL DEF Spec

-----------------------------------------------------------------------------
(* The hand-over *)

NoPayload(n) == \A i \in 1 .. n : script[i] # "payload"

\* The inductive invariant: SOCKS5 handlers take exact units, HTTP handlers have
\* not answered before they hand over, so a client that waits has not sent on.
HInv ==
    /\ TypeOK
    /\ pc \in {"peek", "line"} => parsed = 0
    /\ pc = "peek" => read = 0
    /\ pc \notin Ended => told # "success"
    /\ pc \in {"ver", "methods", "request", "address"} => NoPayload(read)
    /\ kind = "connect" => script[1] = "lineConnect"
    /\ pc = "headers" => kind \in {"connect", "plain"}
    /\ pc = "address" => kind \in {"socks", "other"}
    /\ pc \in {"peek", "ver", "methods", "request", "line"} => kind = "none"
    /\ patient /\ told # "success" /\ script[1] # "linePlain" => NoPayload(sent)
    /\ HandoverExact

\* The client's units can be counted.
LEMMA ScriptListed ==
    ASSUME TypeOK
    PROVE  /\ Len(script) \in Nat \ {0} /\ DOMAIN script = 1 .. Len(script)
           /\ \A i \in 1 .. Len(script) : script[i] \in Unit
           /\ sent \in Nat /\ read \in Nat /\ parsed \in Nat
           /\ sent <= Len(script) /\ read <= sent /\ parsed <= read
<1>1. script \in Seq(Unit) /\ script # <<>>
  BY InboundAssumption DEF TypeOK
<1>2. Len(script) \in Nat \ {0} /\ DOMAIN script = 1 .. Len(script)
  BY <1>1
<1> QED
  BY <1>1, <1>2 DEF TypeOK

\* After the last unit of a request there is payload only.
LEMMA AfterRequest ==
    ASSUME TypeOK, NEW i \in 1 .. Len(script), script[i] \in {"addr", "blank"}
    PROVE  \A j \in i + 1 .. Len(script) : script[j] = "payload"
  BY ScriptListed, InboundAssumption DEF TypeOK

\* Every step keeps the shape and the place of the hand-over.
LEMMA StepHandover == HInv /\ [Next]_vars => HInv'
<1> SUFFICES ASSUME HInv, [Next]_vars PROVE HInv'
  OBVIOUS
<1>0. TypeOK
  BY DEF HInv
<1> USE ScriptListed, <1>0
<1> USE DEF HInv, TypeOK, NoPayload, HandoverExact, Ended
<1>1. CASE Send
  <2>1. TypeOK' /\ NoPayload(read)' = NoPayload(read)
    BY <1>1 DEF Send, client
  <2>2. (patient /\ told # "success" /\ script[1] # "linePlain" => NoPayload(sent))'
    BY <1>1 DEF Send, client, Awaits
  <2> QED
    BY <1>1, <2>1, <2>2 DEF Send, client
<1>2. CASE Close \/ Peek
  <2>1. CASE Close
    BY <2>1 DEF Close, client
  <2>2. CASE Peek
    <3>1. /\ pc = "peek" /\ pc' \in {"ver", "line"}
          /\ UNCHANGED <<client, sent, closed, read, parsed, kind, told>>
      BY <2>2 DEF Peek
    <3>2. TypeOK'
      BY <3>1 DEF client
    <3>3. NoPayload(read)'
      BY <3>1 DEF client
    <3> QED
      BY <3>1, <3>2, <3>3 DEF client
  <2> QED
    BY <1>2, <2>1, <2>2
<1>3. CASE IoFails \/ SocksEof
  BY <1>3 DEF IoFails, SocksEof, client
<1>4. CASE Version
  <2>1. PICK u \in {"ver5", "ver4"} :
          /\ pc = "ver" /\ Exact(u) /\ pc' = (IF u = "ver5" THEN "methods" ELSE "refused")
          /\ UNCHANGED <<kind, told>>
    BY <1>4 DEF Version
  <2>2. TypeOK' /\ NoPayload(read)'
    BY <2>1 DEF Exact, client
  <2>3. (patient /\ told # "success" /\ script[1] # "linePlain" => NoPayload(sent))'
    BY <2>1 DEF Exact, client
  <2> QED
    BY <2>1, <2>2, <2>3 DEF Exact, client
<1>5. CASE Methods
  <2>1. /\ pc = "methods" /\ Exact("methods") /\ pc' = "request" /\ told' = "method"
        /\ UNCHANGED <<script, patient, kind>>
    BY <1>5 DEF Methods, Exact, client
  <2>2. TypeOK' /\ NoPayload(read)'
    BY <2>1 DEF Exact
  <2>3. (patient /\ told # "success" /\ script[1] # "linePlain" => NoPayload(sent))'
    BY <2>1 DEF Exact
  <2> QED
    BY <2>1, <2>2, <2>3
<1>6. CASE Request
  BY <1>6 DEF Request, Exact, client
<1>7. CASE Address
  <2>1. CASE Exact("addr") /\ told' = "success" /\ kind' = kind
               /\ pc' = IF kind = "socks" THEN "dispatched" ELSE "refused"
    <3>1. \A j \in read + 2 .. Len(script) : script[j] = "payload"
      BY <2>1, AfterRequest DEF Exact
    <3> QED
      BY <1>7, <2>1, <3>1 DEF Exact, client, Address
  <2>2. CASE Exact("addrBad") /\ pc' = "refused" /\ UNCHANGED told /\ kind' = kind
    BY <1>7, <2>2 DEF Exact, client, Address
  <2> QED
    BY <1>7, <2>1, <2>2 DEF Address
<1>8. CASE Fill
  <2>1. /\ pc \in {"line", "headers"} /\ read' \in read + 1 .. sent /\ read < sent
        /\ UNCHANGED <<script, patient, sent, closed, parsed, pc, kind, told>>
    BY <1>8 DEF Fill, client
  <2>2. TypeOK'
    BY <2>1
  <2> QED
    BY <2>1, <2>2
<1>9. CASE RequestLine
  <2>1. CASE Line("lineConnect") /\ kind' = "connect" /\ pc' = "headers" /\ told' = told
    BY <1>9, <2>1 DEF RequestLine, Line, client
  <2>2. CASE Line("linePlain") /\ kind' = "plain" /\ pc' = "headers" /\ told' = told
    BY <1>9, <2>2 DEF RequestLine, Line, client
  <2>3. CASE (Line("lineBad") \/ Eof) /\ pc' = "refused" /\ UNCHANGED <<kind, told>>
    BY <1>9, <2>3 DEF RequestLine, Line, Eof, client
  <2> QED
    BY <1>9, <2>1, <2>2, <2>3 DEF RequestLine
<1>10. CASE HeaderLine
  BY <1>10 DEF HeaderLine, Line, client
<1>11. CASE HeadersEnd
  <2>1. CASE Line("blank")
    <3>1. \A j \in parsed + 2 .. Len(script) : script[j] = "payload"
      BY <2>1, AfterRequest DEF Line
    <3> QED
      BY <1>11, <2>1, <3>1 DEF HeadersEnd, Line, client
  <2>2. CASE Eof
    BY <1>11, <2>2 DEF HeadersEnd, Eof, client
  <2> QED
    BY <1>11, <2>1, <2>2 DEF HeadersEnd
<1>12. CASE Done \/ UNCHANGED vars
  BY <1>12 DEF Done, vars, client
<1> QED
  BY <1>1, <1>2, <1>3, <1>4, <1>5, <1>6, <1>7, <1>8, <1>9, <1>10, <1>11, <1>12 DEF Next

\* At first nothing is sent.
LEMMA InitHandover == Init => HInv
<1> SUFFICES ASSUME Init PROVE HInv
  OBVIOUS
<1>1. TypeOK
  <2>1. Len(script) \in Nat
    BY InboundAssumption DEF Init
  <2>2. sent \in 0 .. Len(script) /\ read \in 0 .. sent /\ parsed \in 0 .. read
    BY <2>1 DEF Init
  <2>3. pc \in {"peek", "ver", "line"} /\ kind = "none" /\ told = "nothing"
    BY DEF Init
  <2> QED
    BY <2>2, <2>3 DEF Init, TypeOK
<1> QED
  BY <1>1 DEF Init, HInv, NoPayload, HandoverExact

\* Whatever clients send and whenever they close, the tunnel is never handed
\* the rest of a request, and no payload is lost to a SOCKS5 handshake or to
\* that of a CONNECT client that waits for its 200.
THEOREM HandoverIsExact == Spec => []HandoverExact
<1>1. HInv => HandoverExact
  BY DEF HInv
<1> QED
  BY <1>1, InitHandover, StepHandover, PTL DEF Spec

\* The state keeps its shape: nothing is used before it is read, or read before
\* it is sent.
THEOREM ShapeIsKept == Spec => []TypeOK
<1>1. HInv => TypeOK
  BY DEF HInv
<1> QED
  BY <1>1, InitHandover, StepHandover, PTL DEF Spec
=============================================================================
