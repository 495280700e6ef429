------------------------------ MODULE MCTunnel ------------------------------
(***************************************************************************)
(* Tunnel for TLC: a configuration that routes through the Selector, and   *)
(* one whose first rule names an adapter that is not there.                *)
(***************************************************************************)
EXTENDS Tunnel, TLC

MCConfigs ==
    {[rules   |-> <<[match |-> {"a"}, adapter |-> "SEL"],
                    [match |-> {"a"}, adapter |-> "REJECT"]>>,
      proxies |-> {"DIRECT", "REJECT", "SEL"}],
     [rules   |-> <<[match |-> {"a"}, adapter |-> "UNKNOWN"]>>,
      proxies |-> {"REJECT"}]}

MCMembers == <<"DIRECT", "REJECT">>

\* The requests that read the counters are interchangeable.
PollerSymmetry == Permutations(Pollers)

\* Bound: the counters are read only in behaviours that stay with the first
\* configuration's settings and clear nothing.
QuietWhilePolled ==
    \/ snap = [p \in Pollers |-> Idle] /\ last_upload = 0 /\ last_download = 0
    \/ /\ mode = "rule" /\ selected = 1
       /\ Len(reload.cfg.rules) = 2 /\ reload.todo = {}
       /\ clearing = {} /\ cleared = {}
=============================================================================
