-------------------------------- MODULE Gui --------------------------------
(***************************************************************************)
(* The GUI around SysProxy: the window's checkbox (redog-gui/src/app.js),  *)
(* the tray, the main thread that serves their system-proxy events in      *)
(* order, and the mode clicks of both, each a request of its own to the    *)
(* proxy's REST API (redog-gui/src-tauri/src/api.rs, tray.rs).             *)
(***************************************************************************)
EXTENDS SysProxy, FiniteSets, SequencesExt

CONSTANTS Modes,     \* outbound modes
          MaxEvents  \* bound: clicks, refreshes, restarts and network changes

\* The names of requests and of who asked are told from modes and from None.
ASSUME GuiAssumption ==
    /\ "rule" \in Modes /\ "configs" \notin Modes
    /\ None \notin {"window", "tray"}
    /\ MaxEvents \in Nat

VARIABLES queue,     \* events the main thread has still to serve
          current,   \* who asked for the switch in progress
          replies,   \* answers on their way to the window
          checkbox,  \* sys-proxy-toggle
          mixed,     \* history: window requests overlapped since all was quiet
          stale,     \* history: the checkbox was not told of a change
          mode,      \* the proxy's mode
          flying,    \* requests to the proxy on their way
          tab,       \* the highlighted mode tab
          clicked,   \* history: modes clicked since no request was on its way
          untold,    \* history: the tab was not told of a change
          events     \* events so far

boxvars == <<queue, current, replies, checkbox, mixed, stale>>
modevars == <<mode, flying, tab, clicked, untold>>
vars == <<sysvars, boxvars, modevars, events>>

\* The window comes up with the checkbox off and the Rule tab highlighted
\* (index.html:60) and runs loadConfigs (app.js:871).
Init == /\ SysInit
        /\ queue = <<>> /\ current = None /\ replies = <<>> /\ checkbox = FALSE
        /\ mixed = FALSE /\ stale = FALSE
        /\ mode \in Modes /\ clicked = {mode} /\ events = 0
        /\ tab = "rule" /\ untold = TRUE /\ flying = {[ask |-> "configs", nr |-> 0]}

Event == events < MaxEvents /\ events' = events + 1

\* Requests to the proxy that change its mode; the others ask for it.
Patches == {r \in flying : r.ask # "configs"}
Fly(ask) == flying' = flying \union {[ask |-> ask, nr |-> events + 1]}

\* Nothing of the window's is on its way.
Quiet == queue = <<>> /\ op = None /\ replies = <<>>

Answer(what) == Append(replies, [what |-> what, mode |-> mode])

-----------------------------------------------------------------------------
(* The system proxy *)

Enqueue(from, ask) ==
    /\ queue' = Append(queue, [from |-> from, ask |-> ask])
    /\ mixed' = (mixed \/ ~Quiet)

\* The user clicks the checkbox: it changes at once, then the command is sent.
ClickCheckbox ==
    /\ Event
    /\ checkbox' = ~checkbox
    /\ Enqueue("window", IF checkbox THEN "off" ELSE "on")
    /\ UNCHANGED <<sysvars, current, replies, stale, modevars>>

ClickTrayToggle ==
    /\ Event
    /\ Enqueue("tray", "toggle")
    /\ UNCHANGED <<sysvars, current, replies, checkbox, stale, modevars>>

\* The main thread takes the next event: get_system_proxy answers, the others
\* begin a switch; toggle_system_proxy reads the flag now.
Serve ==
    /\ op = None /\ queue # <<>>
    /\ queue' = Tail(queue)
    /\ LET e == Head(queue)
       IN  \/ /\ e.ask = "get"
              /\ replies' = Answer(IF flag THEN "on" ELSE "off")
              /\ UNCHANGED <<sysvars, current>>
           \/ /\ e.ask # "get"
              /\ Begin(IF e.ask = "toggle" THEN ~flag ELSE e.ask = "on")
              /\ current' = e.from
              /\ UNCHANGED replies
    /\ UNCHANGED <<checkbox, mixed, stale, modevars, events>>

\* The batch goes on; when it ends, the window is answered.  The tray tells
\* nobody.
Switch ==
    /\ Work
    /\ IF op' = None
       THEN /\ replies' = IF current = "window" THEN Answer("ok") ELSE replies
            /\ stale' = (stale \/ current = "tray")
            /\ current' = None
       ELSE UNCHANGED <<replies, stale, current>>
    /\ UNCHANGED <<queue, checkbox, mixed, modevars, events>>

\* Mutant: who asked is not forgotten when a switch fails.
SwitchFails_KeepsCurrent ==
    /\ Fail
    /\ replies' = IF op' = None /\ current = "window" THEN Answer("error") ELSE replies
    /\ UNCHANGED <<queue, current, checkbox, mixed, stale, modevars, events>>

SwitchFails ==
    /\ Fail
    /\ replies' = IF op' = None /\ current = "window" THEN Answer("error") ELSE replies
    /\ current' = IF op' = None THEN None ELSE current
    /\ UNCHANGED <<queue, checkbox, mixed, stale, modevars, events>>

\* Mutant: the window does not take its click back when the switch failed.
CheckboxAfter_NoRollback(what) ==
    CASE what \in {"ok", "error"} -> checkbox [] what = "on" -> TRUE [] what = "off" -> FALSE

\* An error turns the checkbox round, a refresh sets it.
CheckboxAfter(what) ==
    CASE what = "ok" -> checkbox
      [] what = "error" -> ~checkbox
      [] what = "on" -> TRUE
      [] what = "off" -> FALSE

\* The window handles an answer to a system-proxy request; answers may overtake
\* each other.
Reply(i) ==
    /\ i \in DOMAIN replies /\ replies[i].what # "configs"
    /\ replies' = RemoveAt(replies, i)
    /\ checkbox' = CheckboxAfter(replies[i].what)
    /\ mixed' = (mixed /\ ~(Len(replies) = 1 /\ queue = <<>> /\ op = None))
    /\ stale' = CASE replies[i].what = "ok" -> stale
                  [] replies[i].what = "error" -> stale \/ mixed
                  [] OTHER -> mixed
    /\ UNCHANGED <<sysvars, queue, current, modevars, events>>

ChangeService == Event /\ ServiceChanges /\ UNCHANGED <<boxvars, modevars>>

\* The window starts again with the program.  Of the mode requests that were on
\* their way some have left for the proxy, and arrive or fail all the same; the
\* others are gone.
Relaunch ==
    /\ Event /\ Restart
    /\ queue' = <<>> /\ current' = None /\ replies' = <<>> /\ checkbox' = FALSE
    /\ mixed' = FALSE /\ stale' = FALSE
    /\ tab' = "rule" /\ untold' = TRUE
    /\ \E left \in SUBSET Patches :
          /\ flying' = left \union {[ask |-> "configs", nr |-> events + 1]}
          /\ clicked' = IF left = {} THEN {mode} ELSE {r.ask : r \in left}
    /\ UNCHANGED mode

-----------------------------------------------------------------------------
(* The outbound mode *)

Clicks(m) == clicked' = (IF Patches = {} THEN {m} ELSE clicked \union {m})

\* Mutant: the body carries the mode that is highlighted in the window.
TrayMode_SendsTab(m) == /\ Event /\ Fly(tab) /\ Clicks(m) /\ untold' = TRUE
                        /\ UNCHANGED <<sysvars, boxvars, mode, tab>>

\* set_mode_blocking: a thread with a runtime for every click.
TrayMode(m) == /\ Event /\ Fly(m) /\ Clicks(m) /\ untold' = TRUE
               /\ UNCHANGED <<sysvars, boxvars, mode, tab>>

\* The window highlights the tab first and does not take it back.
TabMode(m) == /\ Event /\ Fly(m) /\ Clicks(m)
              /\ tab' = m /\ untold' = (flying # {})
              /\ UNCHANGED <<sysvars, boxvars, mode>>

\* PATCH /configs reaches the proxy; requests may overtake each other.
Deliver(r) ==
    /\ r.ask # "configs"
    /\ mode' = r.ask /\ flying' = flying \ {r}
    /\ UNCHANGED <<sysvars, boxvars, tab, clicked, untold, events>>

\* The proxy is not there, or refuses.
RequestFails(r) ==
    /\ flying' = flying \ {r}
    /\ untold' = (untold \/ r.ask # "configs")
    /\ clicked' = clicked \union {mode}
    /\ UNCHANGED <<sysvars, boxvars, mode, tab, events>>

\* loadConfigs asks the proxy first, then shows what it said, then asks the main
\* thread; when the proxy does not answer, nothing is shown.
Refresh == /\ Event /\ Fly("configs")
           /\ UNCHANGED <<sysvars, boxvars, mode, tab, clicked, untold>>

ConfigsAnswered(r) ==
    /\ r.ask = "configs"
    /\ flying' = flying \ {r} /\ replies' = Answer("configs")
    /\ UNCHANGED <<sysvars, queue, current, checkbox, mixed, stale, mode, tab, clicked,
                   untold, events>>

ShowConfigs(i) ==
    /\ i \in DOMAIN replies /\ replies[i].what = "configs"
    /\ replies' = RemoveAt(replies, i)
    /\ tab' = replies[i].mode
    /\ untold' = (flying # {} \/ replies[i].mode # mode)
    /\ queue' = Append(queue, [from |-> "window", ask |-> "get"])
    /\ mixed' = (mixed \/ queue # <<>> \/ op # None \/ Len(replies) > 1)
    /\ UNCHANGED <<sysvars, current, checkbox, stale, mode, flying, clicked, events>>

Next == \/ ClickCheckbox \/ ClickTrayToggle \/ Serve \/ Switch \/ SwitchFails
        \/ \E i \in DOMAIN replies : Reply(i)
        \/ ChangeService \/ Relaunch
        \/ \E m \in Modes : TrayMode(m)
        \/ \E m \in Modes : TabMode(m)
        \/ \E r \in flying : Deliver(r)
        \/ \E r \in flying : RequestFails(r)
        \/ Refresh
        \/ \E r \in flying : ConfigsAnswered(r)
        \/ \E i \in DOMAIN replies : ShowConfigs(i)

Spec == Init /\ [][Next]_vars

-----------------------------------------------------------------------------
(* Properties *)

\* Shape of the state.
TypeOK ==
    /\ SysTypeOK
    /\ queue \in Seq([from : {"window", "tray"}, ask : {"on", "off", "toggle", "get"}])
    /\ current \in {"window", "tray", None} /\ (current = None <=> op = None)
    /\ replies \in Seq([what : {"ok", "error", "on", "off", "configs"}, mode : Modes])
    /\ checkbox \in BOOLEAN /\ mixed \in BOOLEAN /\ stale \in BOOLEAN
    /\ mode \in Modes /\ tab \in Modes /\ clicked \subseteq Modes /\ untold \in BOOLEAN
    /\ flying \subseteq [ask : Modes \union {"configs"}, nr : 0 .. MaxEvents]
    /\ events \in 0 .. MaxEvents

\* Once everything the window asked for is answered, the checkbox shows the flag
\* (app.js:804, :761): clicks that failed are taken back, and only a toggle from
\* the tray, or an error or a refresh while another request was on its way, can
\* leave it wrong until the next refresh.
CheckboxAgrees == Quiet /\ ~stale => checkbox = flag

\* When no change is on its way, the proxy runs the mode of one of the clicks
\* that were on their way together, or the one from before if a request failed:
\* the last click, if they came one at a time (api.rs:346).  The tab shows it,
\* unless the tray changed it, a request failed or two overlapped.
ModeFollowsClicks ==
    /\ Patches = {} => mode \in clicked
    /\ flying = {} /\ ~untold => tab = mode
=============================================================================
