------------------------------ MODULE SysProxy ------------------------------
(***************************************************************************)
(* The GUI's system-proxy switch, redog-gui/src-tauri/src/sysproxy.rs: the *)
(* flag, the commands that change the operating system's settings one by   *)
(* one, the second run of all of them with administrator rights, and what  *)
(* is left behind when one fails or the process goes away.  The commands   *)
(* run on the main thread, so one switch at a time.                        *)
(***************************************************************************)
EXTENDS Naturals, Sequences

CONSTANTS Platforms,  \* of macos, windows, other
          Services,   \* network services; Windows has one set of settings
          Kinds,      \* proxy settings of a service, in the order of the batch
          None        \* no operation

ASSUME SysProxyAssumption ==
    /\ Platforms \subseteq {"macos", "windows", "other"}
    /\ Services # {} /\ Kinds \in Seq(STRING) /\ Kinds # <<>>
    /\ None \notin [enable : BOOLEAN, svc : Services, i : Nat, admin : BOOLEAN]

VARIABLES platform,  \* what the program was built for
          flag,      \* SYS_PROXY_ENABLED
          os,        \* settings of each kind of each service: on, ours
          active,    \* the service active_network_service finds
          op,        \* set_system_proxy in progress, or None
          settled,   \* history: the last switch, if it succeeded
          troubled   \* history: a command failed, the service or process changed

sysvars == <<platform, flag, os, active, op, settled, troubled>>

KindSet == {Kinds[i] : i \in DOMAIN Kinds}

Set(what) == [i \in DOMAIN Kinds |-> [set |-> what, kind |-> Kinds[i]]]

\* Mutant: the settings are switched on before they are given the address.
NetworksetupBatch_OnFirst(on) == IF on THEN Set("on") \o Set("addr") ELSE Set("off")

\* The commands of enable_proxy and disable_proxy, in their order: networksetup
\* on macOS, reg on Windows (one set of settings, switched on before it has the
\* address).
NetworksetupBatch(on) == IF on THEN Set("addr") \o Set("on") ELSE Set("off")

RegCommands(on) ==
    LET reg(what) == [set |-> what, kind |-> Kinds[1]]
    IN  IF on THEN <<reg("on"), reg("addr")>> ELSE <<reg("off")>>

Commands(on) == IF platform = "macos" THEN NetworksetupBatch(on) ELSE RegCommands(on)

SysInit == /\ platform \in Platforms
           /\ flag = FALSE /\ active \in Services /\ op = None
           /\ os = [s \in Services |-> [k \in KindSet |-> [on |-> FALSE, ours |-> FALSE]]]
           /\ settled = None /\ troubled = FALSE

\* set_system_proxy begins; on macOS it looks for the service in use.
Begin(on) ==
    /\ op = None
    /\ op' = [enable |-> on, svc |-> active, i |-> 1, admin |-> FALSE]
    /\ settled' = None
    /\ UNCHANGED <<platform, flag, os, active, troubled>>

Command == Commands(op.enable)[op.i]
Unfinished == op # None /\ platform # "other" /\ op.i <= Len(Commands(op.enable))

\* One command does what it should: "networksetup -setwebproxy" and the like
\* give the address and may switch the setting on as well.
CommandOk ==
    /\ Unfinished
    /\ LET setting == os[op.svc][Command.kind]
       IN  \E on \in CASE Command.set = "addr" -> {setting.on, platform = "macos" \/ setting.on}
                       [] Command.set = "on" -> {TRUE}
                       [] Command.set = "off" -> {FALSE} :
             os' = [os EXCEPT ![op.svc][Command.kind] =
                       [on |-> on, ours |-> @.ours \/ Command.set = "addr"]]
    /\ op' = [op EXCEPT !.i = @ + 1]
    /\ UNCHANGED <<platform, flag, active, settled, troubled>>

\* networksetup wants administrator rights: all commands are run again, in one
\* script behind one password prompt.
NeedsAdmin ==
    /\ Unfinished /\ platform = "macos" /\ ~op.admin
    /\ op' = [op EXCEPT !.i = 1, !.admin = TRUE]
    /\ UNCHANGED <<platform, flag, os, active, settled, troubled>>

\* Mutant: in the script the commands are joined by ";".
CommandFails_GoesOn ==
    /\ Unfinished /\ troubled' = TRUE
    /\ op' = IF op.admin THEN [op EXCEPT !.i = @ + 1] ELSE None
    /\ UNCHANGED <<platform, flag, os, active, settled>>

\* A command fails or cannot be started, or the prompt is cancelled; "&&" ends
\* the script there too.  What was done before stays.
CommandFails ==
    /\ Unfinished
    /\ op' = None /\ troubled' = TRUE
    /\ UNCHANGED <<platform, flag, os, active, settled>>

\* Every command was done: the flag is stored.
Succeed ==
    /\ op # None /\ platform # "other" /\ ~Unfinished
    /\ flag' = op.enable /\ settled' = op /\ op' = None
    /\ UNCHANGED <<platform, os, active, troubled>>

Unsupported ==
    /\ op # None /\ platform = "other"
    /\ op' = None
    /\ UNCHANGED <<platform, flag, os, active, settled, troubled>>

\* active_network_service will answer something else: the user goes to another
\* network service, or to an interface that is no hardware port, for which it
\* answers Wi-Fi.
ServiceChanges ==
    /\ platform = "macos" /\ \E s \in Services \ {active} : active' = s
    /\ troubled' = TRUE
    /\ UNCHANGED <<platform, flag, os, op, settled>>

\* Quit from the tray, or a crash outside the elevated script, and a new start:
\* the flag starts again as false, the settings are as they were.
Restart ==
    /\ IF op = None THEN TRUE ELSE ~op.admin
    /\ flag' = FALSE /\ op' = None /\ settled' = None /\ troubled' = TRUE
    /\ UNCHANGED <<platform, os, active>>

Work == CommandOk \/ NeedsAdmin \/ Succeed
Fail == CommandFails \/ Unsupported

-----------------------------------------------------------------------------
(* Properties *)

SysTypeOK ==
    /\ platform \in Platforms /\ flag \in BOOLEAN /\ active \in Services
    /\ os \in [Services -> [KindSet -> [on : BOOLEAN, ours : BOOLEAN]]]
    /\ op = None \/ op \in [enable : BOOLEAN, svc : Services,
                            i : 1 .. 2 * Len(Kinds) + 1, admin : BOOLEAN]
    /\ settled = None \/ settled.svc \in Services
    /\ troubled \in BOOLEAN

\* On macOS nothing is ever switched on without redog's address, wherever a
\* batch stops (sysproxy.rs:79 sets the addresses first).  On Windows the two
\* come the other way round (sysproxy.rs:203).
MacOnIsAddressed ==
    platform = "macos" => \A s \in Services, k \in KindSet : os[s][k].on => os[s][k].ours

\* A switch that reports success is complete, whatever failed before it, in
\* either run of the batch; and as long as nothing failed, the service stayed
\* and the process lived, the settings of all services are as the flag says.
FlagTellsOs ==
    /\ settled # None =>
         /\ flag = settled.enable
         /\ \A i \in DOMAIN Commands(TRUE) :
              LET setting == os[settled.svc][Commands(TRUE)[i].kind]
              IN  setting.on = flag /\ (flag => setting.ours)
    /\ ~troubled /\ op = None =>
         \A s \in Services : (\E k \in KindSet : os[s][k].on) => flag /\ s = active
=============================================================================
