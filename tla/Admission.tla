----------------------------- MODULE Admission -----------------------------
(***************************************************************************)
(* What the front half of the redog process promises about parsed inbound  *)
(* connections, without listeners, channel capacity or main-loop states:   *)
(* they are offered one by one, admitted to a handler in the order they    *)
(* were offered, at most MaxConcurrent at a time, and the process stops    *)
(* only when none is waiting.                                              *)
(***************************************************************************)
EXTENDS Naturals, Sequences, FiniteSets

CONSTANTS Conns, MaxConcurrent

VARIABLES offered,  \* every connection ever offered
          waiting,  \* offered and not yet admitted, oldest first
          active,   \* connections being handled
          stopped   \* the process has shut down

avars == <<offered, waiting, active, stopped>>

AInit == /\ offered = {}
         /\ waiting = <<>>
         /\ active = {}
         /\ stopped = FALSE

Offer(c) == /\ ~stopped
            /\ c \notin offered
            /\ offered' = offered \union {c}
            /\ waiting' = Append(waiting, c)
            /\ UNCHANGED <<active, stopped>>

Admit == /\ ~stopped
         /\ waiting # <<>>
         /\ Cardinality(active) < MaxConcurrent
         /\ active' = active \union {Head(waiting)}
         /\ waiting' = Tail(waiting)
         /\ UNCHANGED <<offered, stopped>>

Finish(c) == /\ c \in active
             /\ active' = active \ {c}
             /\ UNCHANGED <<offered, waiting, stopped>>

\* Shutting down cuts off what is being handled, never what is waiting.
Shutdown == /\ ~stopped
            /\ waiting = <<>>
            /\ stopped' = TRUE
            /\ active' = {}
            /\ UNCHANGED <<offered, waiting>>

ANext == \/ Admit
         \/ Shutdown
         \/ \E c \in Conns : Offer(c) \/ Finish(c)

ASpec == AInit /\ [][ANext]_avars
=============================================================================
