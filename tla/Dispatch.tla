------------------------------ MODULE Dispatch ------------------------------
(***************************************************************************)
(* The main loop of the redog process (redog/src/main.rs) with the         *)
(* listener supervisors (run_listener_with_restart), the per-connection    *)
(* handshake tasks the listeners spawn (redog-listener), the bounded mpsc  *)
(* channel between them and the semaphore that limits the handlers.        *)
(*                                                                         *)
(* A sender of the channel is held by every supervisor that has not given  *)
(* up and by every handshake task; main's own copy is dropped before the   *)
(* loop.  The loop ends when the channel is empty and no sender is left.   *)
(***************************************************************************)
EXTENDS Naturals, Sequences, FiniteSets

CONSTANTS Listeners,      \* mixed, and HTTP / SOCKS5 when configured
          Conns,          \* client connections
          Capacity,       \* of the mpsc channel (256 in main.rs)
          MaxConcurrent,  \* MAX_CONCURRENT_CONNECTIONS
          MaxRetries      \* MAX_LISTENER_RETRIES

ASSUME DispatchAssumption ==
    /\ IsFiniteSet(Conns)
    /\ Capacity \in Nat \ {0}
    /\ MaxConcurrent \in Nat \ {0}
    /\ MaxRetries \in Nat

VARIABLES lst,      \* state of each listener's supervisor task
          retries,  \* its failure counter
          conn,     \* where each connection is
          chan,     \* the channel's buffer
          main,     \* state of the main task
          permits   \* free permits of the semaphore

vars == <<lst, retries, conn, chan, main, permits>>

ListenerState == {"binding", "accepting", "backoff", "stopped"}

\* "new": not accepted; "handshake", "sending": owned by a handshake task;
\* "queued": in the buffer; "held": received, main waits for a permit;
\* "running": in tunnel.handle_tcp; "closed", "dropped", "aborted": over.
ConnState == {"new", "handshake", "sending", "queued", "held", "running",
              "closed", "dropped", "aborted"}

InState(s) == {c \in Conns : conn[c] = s}

\* Mutant: the handshake tasks do not keep the channel open.
Senders_ListenersOnly == {l \in Listeners : lst[l] # "stopped"}

\* Mutant: main keeps its own tx (drop(tx) forgotten).
Senders_MainToo == {l \in Listeners : lst[l] # "stopped"} \union {"main"}

\* The sender handles still alive.
Senders == {l \in Listeners : lst[l] # "stopped"}
              \union {c \in Conns : conn[c] \in {"handshake", "sending"}}

Init == /\ lst = [l \in Listeners |-> "binding"]
        /\ retries = [l \in Listeners |-> 0]
        /\ conn = [c \in Conns |-> "new"]
        /\ chan = <<>>
        /\ main = "recv"
        /\ permits = MaxConcurrent

-----------------------------------------------------------------------------
(* Listener supervisors *)

Bind(l) == /\ lst[l] = "binding"
           /\ lst' = [lst EXCEPT ![l] = "accepting"]
           /\ UNCHANGED <<retries, conn, chan, main, permits>>

\* Mutant: the budget is compared before the failure is counted.
ListenerFails_LateCheck(l) ==
    /\ lst[l] \in {"binding", "accepting"}
    /\ retries' = [retries EXCEPT ![l] = @ + 1]
    /\ lst' = [lst EXCEPT ![l] = IF retries[l] > MaxRetries THEN "stopped"
                                                            ELSE "backoff"]
    /\ UNCHANGED <<conn, chan, main, permits>>

\* bind or accept returned an error: count it, back off or give up.  The
\* counter is never reset, not even by a successful bind.
ListenerFails(l) ==
    /\ lst[l] \in {"binding", "accepting"}
    /\ retries' = [retries EXCEPT ![l] = @ + 1]
    /\ lst' = [lst EXCEPT ![l] = IF retries[l] + 1 > MaxRetries THEN "stopped"
                                                                ELSE "backoff"]
    /\ UNCHANGED <<conn, chan, main, permits>>

\* The exponential back-off sleep is over.
BackoffElapsed(l) == /\ lst[l] = "backoff"
                     /\ lst' = [lst EXCEPT ![l] = "binding"]
                     /\ UNCHANGED <<retries, conn, chan, main, permits>>

-----------------------------------------------------------------------------
(* Accepted connections: one task each, holding a clone of the sender *)

Accept(l, c) == /\ lst[l] = "accepting"
                /\ conn[c] = "new"
                /\ conn' = [conn EXCEPT ![c] = "handshake"]
                /\ UNCHANGED <<lst, retries, chan, main, permits>>

HandshakeOk(c) == /\ conn[c] = "handshake"
                  /\ conn' = [conn EXCEPT ![c] = "sending"]
                  /\ UNCHANGED <<lst, retries, chan, main, permits>>

HandshakeFails(c) == /\ conn[c] = "handshake"
                     /\ conn' = [conn EXCEPT ![c] = "dropped"]
                     /\ UNCHANGED <<lst, retries, chan, main, permits>>

\* Mutant: an unbounded channel.
Send_Unbounded(c) == /\ conn[c] = "sending"
                     /\ chan' = Append(chan, c)
                     /\ conn' = [conn EXCEPT ![c] = "queued"]
                     /\ UNCHANGED <<lst, retries, main, permits>>

\* sender.send(conn).await: waits for room in the buffer.
Send(c) == /\ conn[c] = "sending"
           /\ Len(chan) < Capacity
           /\ chan' = Append(chan, c)
           /\ conn' = [conn EXCEPT ![c] = "queued"]
           /\ UNCHANGED <<lst, retries, main, permits>>

-----------------------------------------------------------------------------
(* The main task and the handlers it spawns *)

\* Mutant: a connection received while no permit is free is dropped.
Recv_DropsWhenFull ==
    /\ main = "recv"
    /\ chan # <<>>
    /\ conn' = [conn EXCEPT ![Head(chan)] = IF permits = 0 THEN "dropped" ELSE "held"]
    /\ chan' = Tail(chan)
    /\ main' = IF permits = 0 THEN "recv" ELSE "acquire"
    /\ UNCHANGED <<lst, retries, permits>>

\* rx.recv() returned a connection.
Recv == /\ main = "recv"
        /\ chan # <<>>
        /\ conn' = [conn EXCEPT ![Head(chan)] = "held"]
        /\ chan' = Tail(chan)
        /\ main' = "acquire"
        /\ UNCHANGED <<lst, retries, permits>>

\* acquire_owned().await returned (the semaphore is never closed), and the
\* handler is spawned with the permit.
Acquire == /\ main = "acquire"
           /\ permits > 0
           /\ permits' = permits - 1
           /\ conn' = [c \in Conns |-> IF conn[c] = "held" THEN "running"
                                                           ELSE conn[c]]
           /\ main' = "recv"
           /\ UNCHANGED <<lst, retries, chan>>

\* Mutant: the permit is forgotten instead of dropped.
HandlerEnds_LeaksPermit(c) == /\ conn[c] = "running"
                              /\ conn' = [conn EXCEPT ![c] = "closed"]
                              /\ UNCHANGED <<lst, retries, chan, main, permits>>

\* handle_tcp returned (or unwound): the permit is dropped.
HandlerEnds(c) == /\ conn[c] = "running"
                  /\ conn' = [conn EXCEPT ![c] = "closed"]
                  /\ permits' = permits + 1
                  /\ UNCHANGED <<lst, retries, chan, main>>

\* rx.recv() returned None: main returns and the runtime goes down with it,
\* cutting off the handlers that still run (their permits go with them).
RecvClosed == /\ main = "recv"
              /\ chan = <<>>
              /\ Senders = {}
              /\ main' = "exited"
              /\ conn' = [c \in Conns |-> IF conn[c] = "running" THEN "aborted"
                                                                 ELSE conn[c]]
              /\ permits' = MaxConcurrent
              /\ UNCHANGED <<lst, retries, chan>>

\* The process is gone; everywhere else TLC looks for deadlocks.
Exited == main = "exited" /\ UNCHANGED vars

Next == \/ \E l \in Listeners : Bind(l)
        \/ \E l \in Listeners : ListenerFails(l)
        \/ \E l \in Listeners : BackoffElapsed(l)
        \/ \E l \in Listeners, c \in Conns : Accept(l, c)
        \/ \E c \in Conns : HandshakeOk(c)
        \/ \E c \in Conns : HandshakeFails(c)
        \/ \E c \in Conns : Send(c)
        \/ \E c \in Conns : HandlerEnds(c)
        \/ Recv
        \/ Acquire
        \/ RecvClosed
        \/ Exited

Spec == Init /\ [][Next]_vars

\* What the runtime guarantees: ready tasks and expired timers run, bind
\* returns, and send is served in FIFO order (hence strong fairness).  A relay
\* ends when its peers close.  Nothing makes a client finish its handshake:
\* the listeners put no timeout on it, so Handshake* has no fairness.
Fairness == /\ \A l \in Listeners : WF_vars(Bind(l) \/ BackoffElapsed(l))
            /\ \A c \in Conns : SF_vars(Send(c)) /\ WF_vars(HandlerEnds(c))
            /\ WF_vars(Recv \/ Acquire \/ RecvClosed)

FairSpec == Spec /\ Fairness

-----------------------------------------------------------------------------
(* Properties *)

\* Shape of the state.
TypeOK == /\ lst \in [Listeners -> ListenerState]
          /\ retries \in [Listeners -> 0 .. MaxRetries + 1]
          /\ conn \in [Conns -> ConnState]
          /\ chan \in Seq(Conns)
          /\ main \in {"recv", "acquire", "exited"}
          /\ permits \in 0 .. MaxConcurrent

\* Back-pressure (MAX_CONCURRENT_CONNECTIONS, code-review-fixes.md #2): a
\* permit is free or belongs to exactly one running handler, so permits are
\* neither leaked nor duplicated and at most MaxConcurrent handlers run.
PermitAccounting == permits + Cardinality(InState("running")) = MaxConcurrent

\* The buffer holds exactly the queued connections, each once, within its
\* capacity, and main holds one more exactly while it waits for a permit.
ChannelAccounting ==
    /\ Len(chan) <= Capacity
    /\ \A i, j \in 1 .. Len(chan) : chan[i] = chan[j] => i = j
    /\ \A c \in Conns : conn[c] = "queued" <=> \E i \in 1 .. Len(chan) : chan[i] = c
    /\ main = "acquire" <=> InState("held") # {}
    /\ \A c, d \in InState("held") : c = d

\* The process exits only after every listener used up its retry budget, and
\* never with a connection between accept and its handler: the listeners'
\* handshake tasks keep the channel open (drop(tx), main.rs:134).
ExitLosesNoParsedConnection ==
    main = "exited" =>
        /\ \A l \in Listeners : lst[l] = "stopped" /\ retries[l] = MaxRetries + 1
        /\ \A c \in Conns : conn[c] \in {"new", "closed", "dropped", "aborted"}

\* A supervisor gives up on failure number MaxRetries + 1, and only then.
RetryBudget ==
    \A l \in Listeners : lst[l] = "stopped" <=> retries[l] = MaxRetries + 1

\* Nothing is left behind when main has returned.
ExitIsClean == main = "exited" => Senders = {} /\ chan = <<>> /\ InState("running") = {}

\* The inductive invariant behind the theorems of DispatchProofs.
IInv == /\ TypeOK
        /\ PermitAccounting
        /\ ChannelAccounting
        /\ RetryBudget
        /\ ExitIsClean

\* The pipeline implements Admission: FIFO admission, bounded concurrency, no
\* loss between the handshake and the handler.
HeldThenQueued ==
    IF main = "acquire"
    THEN <<CHOOSE c \in Conns : conn[c] = "held">> \o chan
    ELSE chan

Adm == INSTANCE Admission WITH
           offered <- {c \in Conns : conn[c] \in {"queued", "held", "running",
                                                  "closed", "aborted"}},
           waiting <- HeldThenQueued,
           active  <- InState("running"),
           stopped <- main = "exited"

ImplementsAdmission == Adm!ASpec

\* A connection whose handshake succeeded reaches its handler, whatever the
\* listeners do meanwhile, provided that relays end.
ParsedIsHandled ==
    \A c \in Conns : conn[c] = "sending" ~> conn[c] \in {"running", "closed", "aborted"}

\* Once every listener has given up and no handshake is pending, the main
\* loop ends.
DrainedExits ==
    ((\A l \in Listeners : lst[l] = "stopped") /\ InState("handshake") = {})
        ~> main = "exited"
=============================================================================
