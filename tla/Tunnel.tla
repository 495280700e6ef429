------------------------------- MODULE Tunnel -------------------------------
(***************************************************************************)
(* The routing engine, redog-tunnel/src/tunnel.rs: one handle_tcp call per *)
(* dispatched connection, over the independently swapped mode, rules and   *)
(* proxies, with the Selector group (redog-adapter), the ConnectionTracker *)
(* (statistics.rs), the counters (Traffic) and the API requests that write *)
(* or read them (redog-api/src/server.rs).  Each load, store, await and    *)
(* map operation is an action of its own.                                  *)
(***************************************************************************)
EXTENDS Traffic, FiniteSets, Sequences

CONSTANTS Handlers,  \* handle_tcp calls, one per inbound connection
          Dests,     \* destinations the rules tell apart
          Configs,   \* what may be installed: [rules, proxies]
          Members,   \* the Selector group's members, in order
          Shards     \* number of shards of the tracker's DashMap

\* The leaf adapters of the repository, and the name of a Selector group.
Builtin == {"DIRECT", "REJECT"}
Names == Builtin \union {"SEL"}
Mode == {"rule", "global", "direct"}

\* A rule matches a set of destinations; its adapter may name nothing.
Rule == [match : SUBSET Dests, adapter : Names \union {"UNKNOWN"}]

ASSUME TunnelAssumption ==
    /\ Configs # {}
    /\ \A c \in Configs : c.rules \in Seq(Rule) /\ c.proxies \subseteq Names
    /\ Members \in Seq(Builtin) /\ Members # <<>>
    /\ Shards \in Nat \ {0}

VARIABLES mode, rules, proxies,  \* the three ArcSwaps
          selected,              \* Selector::selected (1-based)
          reload,                \* the configuration being installed
          table,                 \* keys of ConnectionTracker::connections
          counter,               \* ConnectionTracker::counter
          clearing,              \* shards that close_all has still to clear
          cleared,               \* history: keys that close_all removed
          pc, dest, lmode, lrules, adapter, id  \* the handlers' locals

settings == <<mode, rules, proxies, selected, reload>>
tracker == <<table, counter, clearing, cleared>>
locals == <<dest, lmode, lrules, adapter, id>>
vars == <<settings, tracker, pc, locals, tvars>>

PC == {"idle", "mode", "rules", "proxies", "connect", "fetchId", "insert",
       "relay", "addUp", "addDown", "untrack", "done"}

\* From the insertion into the tracker to the removal from it.
TrackedPC == {"relay", "addUp", "addDown", "untrack"}

\* Tunnel::new: mode is always Rule at first, whatever the configuration says.
Init == /\ TInit
        /\ mode = "rule"
        /\ reload \in [cfg : Configs, todo : {{}}]
        /\ rules = reload.cfg.rules /\ proxies = reload.cfg.proxies
        /\ selected = 1
        /\ table = {} /\ counter = 0 /\ clearing = {} /\ cleared = {}
        /\ pc = [h \in Handlers |-> "idle"]
        /\ dest \in [Handlers -> Dests]
        /\ lmode = [h \in Handlers |-> "rule"]
        /\ lrules = [h \in Handlers |-> <<>>]
        /\ adapter = [h \in Handlers |-> "DIRECT"]
        /\ id = [h \in Handlers |-> 0]

Goto(h, from, to) == pc[h] = from /\ pc' = [pc EXCEPT ![h] = to]

-----------------------------------------------------------------------------
(* handle_tcp, step 1: match_adapter and rule_match *)

\* Mutant: the last usable rule wins.
RuleMatch_Last(rs, ps, d) ==
    LET usable == {i \in DOMAIN rs : d \in rs[i].match /\ rs[i].adapter \in ps}
    IN  IF usable = {} THEN "DIRECT"
        ELSE rs[CHOOSE i \in usable : \A j \in usable : i >= j].adapter

\* The adapter of the first rule that matches and whose adapter is in the map;
\* DIRECT when there is none (a Direct is made up if the map has none).
RuleMatch(rs, ps, d) ==
    LET usable == {i \in DOMAIN rs : d \in rs[i].match /\ rs[i].adapter \in ps}
    IN  IF usable = {} THEN "DIRECT"
        ELSE rs[CHOOSE i \in usable : \A j \in usable : i <= j].adapter

\* Global mode takes the first non-builtin value in HashMap order: any of them.
Choices(m, rs, ps, d) ==
    CASE m = "direct" -> {"DIRECT"}
      [] m = "global" -> IF ps \ Builtin = {} THEN {"DIRECT"} ELSE ps \ Builtin
      [] m = "rule"   -> {RuleMatch(rs, ps, d)}

Start(h) == /\ Goto(h, "idle", "mode")
            /\ UNCHANGED <<settings, tracker, locals, tvars>>

LoadMode(h) ==
    /\ Goto(h, "mode", IF mode = "rule" THEN "rules" ELSE "proxies")
    /\ lmode' = [lmode EXCEPT ![h] = mode]
    /\ UNCHANGED <<settings, tracker, dest, lrules, adapter, id, tvars>>

LoadRules(h) ==
    /\ Goto(h, "rules", "proxies")
    /\ lrules' = [lrules EXCEPT ![h] = rules]
    /\ UNCHANGED <<settings, tracker, dest, lmode, adapter, id, tvars>>

\* match_adapter returns: what it loaded is released.
LoadProxies(h) ==
    /\ Goto(h, "proxies", "connect")
    /\ \E a \in Choices(lmode[h], lrules[h], proxies, dest[h]) :
          adapter' = [adapter EXCEPT ![h] = a]
    /\ lmode' = [lmode EXCEPT ![h] = "rule"]
    /\ lrules' = [lrules EXCEPT ![h] = <<>>]
    /\ UNCHANGED <<settings, tracker, dest, id, tvars>>

-----------------------------------------------------------------------------
(* handle_tcp, steps 2 to 4: connect, track, relay, account, untrack *)

\* The adapter that connects: a Selector delegates to the member selected now.
Leaf(a) == IF a = "SEL" THEN Members[selected] ELSE a

ConnectOk(h) == /\ Leaf(adapter[h]) # "REJECT"
                /\ Goto(h, "connect", "fetchId")
                /\ UNCHANGED <<settings, tracker, locals, tvars>>

\* Any adapter may fail; REJECT always does.
ConnectFails(h) == /\ Goto(h, "connect", "done")
                   /\ UNCHANGED <<settings, tracker, locals, tvars>>

\* Mutant: the key is the current size of the map.
TrackFetchId_Len(h) ==
    /\ Goto(h, "fetchId", "insert")
    /\ id' = [id EXCEPT ![h] = Cardinality(table)]
    /\ counter' = counter + 1
    /\ UNCHANGED <<settings, table, clearing, cleared, dest, lmode, lrules,
                   adapter, tvars>>

\* ConnectionTracker::track: fetch_add, then insert.
TrackFetchId(h) ==
    /\ Goto(h, "fetchId", "insert")
    /\ id' = [id EXCEPT ![h] = counter]
    /\ counter' = counter + 1
    /\ UNCHANGED <<settings, table, clearing, cleared, dest, lmode, lrules,
                   adapter, tvars>>

TrackInsert(h) ==
    /\ Goto(h, "insert", "relay")
    /\ table' = table \union {id[h]}
    /\ UNCHANGED <<settings, counter, clearing, cleared, locals, tvars>>

\* copy_bidirectional returned Ok: both directions are accounted, one after the
\* other.
RelayOk(h) == /\ Goto(h, "relay", "addUp")
              /\ UNCHANGED <<settings, tracker, locals, tvars>>

AddUp(h) == /\ Goto(h, "addUp", "addDown")
            /\ \E tx \in Bytes : AddUpload(tx)
            /\ UNCHANGED <<settings, tracker, locals>>

AddDown(h) == /\ Goto(h, "addDown", "untrack")
              /\ \E rx \in Bytes : AddDownload(rx)
              /\ UNCHANGED <<settings, tracker, locals>>

\* Mutant: an early return on a relay error, before untrack.
RelayFails_Returns(h) == /\ Goto(h, "relay", "done")
                         /\ UNCHANGED <<settings, tracker, locals, tvars>>

\* copy_bidirectional returned Err: nothing is accounted.
RelayFails(h) == /\ Goto(h, "relay", "untrack")
                 /\ UNCHANGED <<settings, tracker, locals, tvars>>

Untrack(h) == /\ Goto(h, "untrack", "done")
              /\ table' = table \ {id[h]}
              /\ UNCHANGED <<settings, counter, clearing, cleared, locals, tvars>>

-----------------------------------------------------------------------------
(* Requests of the API and of a reloader *)

\* GET /traffic and GET /connections, one atomic operation of snapshot().
Poll(p) == /\ Snapshot(p)
           /\ UNCHANGED <<settings, tracker, pc, locals>>

\* PATCH /configs with a known mode.
PatchConfigs(m) == /\ mode' = m
                   /\ UNCHANGED <<rules, proxies, selected, reload, tracker, pc, locals, tvars>>

\* Mutant: positions counted from zero are used unchanged.
ChangeProxy_ZeroBased(name) ==
    /\ "SEL" \in proxies
    /\ \E i \in DOMAIN Members : Members[i] = name /\ selected' = i - 1
    /\ UNCHANGED <<mode, rules, proxies, reload, tracker, pc, locals, tvars>>

\* PUT /proxies/SEL: found in the map, a Selector, and name is a member
\* (Selector::select takes its first position); anything else is 404 or 400.
ChangeProxy(name) ==
    /\ "SEL" \in proxies
    /\ \E i \in DOMAIN Members : /\ Members[i] = name
                                 /\ \A j \in DOMAIN Members : Members[j] = name => i <= j
                                 /\ selected' = i
    /\ UNCHANGED <<mode, rules, proxies, reload, tracker, pc, locals, tvars>>

\* DELETE /connections: close_all counts the entries (for the log) and then
\* clears the map shard by shard.  No relay is told.
CloseAll == /\ clearing = {}
            /\ clearing' = 0 .. Shards - 1
            /\ UNCHANGED <<settings, table, counter, cleared, pc, locals, tvars>>

ClearShard(s) ==
    LET gone == {i \in table : i % Shards = s}
    IN  /\ s \in clearing /\ \A t \in clearing : s <= t
        /\ clearing' = clearing \ {s}
        /\ table' = table \ gone
        /\ cleared' = cleared \union gone
        /\ UNCHANGED <<settings, counter, pc, locals, tvars>>

\* A new configuration (the Selector is shared between the maps) is installed
\* with update_rules and update_proxies, two separate stores, in either order.
BeginReload(c) ==
    /\ reload.todo = {} /\ c # reload.cfg
    /\ reload' = [cfg |-> c, todo |-> {"rules", "proxies"}]
    /\ UNCHANGED <<mode, rules, proxies, selected, tracker, pc, locals, tvars>>

UpdateRules == /\ "rules" \in reload.todo
               /\ rules' = reload.cfg.rules
               /\ reload' = [reload EXCEPT !.todo = @ \ {"rules"}]
               /\ UNCHANGED <<mode, proxies, selected, tracker, pc, locals, tvars>>

UpdateProxies == /\ "proxies" \in reload.todo
                 /\ proxies' = reload.cfg.proxies
                 /\ reload' = [reload EXCEPT !.todo = @ \ {"proxies"}]
                 /\ UNCHANGED <<mode, rules, selected, tracker, pc, locals, tvars>>

-----------------------------------------------------------------------------
HandlerStep(h) == \/ Start(h) \/ LoadMode(h) \/ LoadRules(h) \/ LoadProxies(h)
                  \/ ConnectOk(h) \/ ConnectFails(h)
                  \/ TrackFetchId(h) \/ TrackInsert(h)
                  \/ RelayOk(h) \/ RelayFails(h) \/ AddUp(h) \/ AddDown(h)
                  \/ Untrack(h)

Next == \/ \E h \in Handlers : HandlerStep(h)
        \/ \E p \in Pollers : Poll(p)
        \/ \E m \in Mode : PatchConfigs(m)
        \/ \E name \in Builtin : ChangeProxy(name)
        \/ CloseAll
        \/ \E s \in 0 .. Shards - 1 : ClearShard(s)
        \/ \E c \in Configs : BeginReload(c)
        \/ UpdateRules
        \/ UpdateProxies

Spec == Init /\ [][Next]_vars

-----------------------------------------------------------------------------
(* Properties *)

\* Shape of the state.
TypeOK ==
    /\ TrafficTypeOK
    /\ mode \in Mode /\ rules \in Seq(Rule) /\ proxies \subseteq Names
    /\ selected \in DOMAIN Members
    /\ reload \in [cfg : Configs, todo : SUBSET {"rules", "proxies"}]
    /\ table \subseteq Nat /\ counter \in Nat
    /\ clearing \subseteq 0 .. Shards - 1 /\ cleared \subseteq Nat
    /\ pc \in [Handlers -> PC]
    /\ dest \in [Handlers -> Dests]
    /\ lmode \in [Handlers -> Mode]
    /\ lrules \in [Handlers -> Seq(Rule)]
    /\ adapter \in [Handlers -> Names]
    /\ id \in [Handlers -> Nat]

\* No two connections ever share a tracker key, and keys are below the counter.
UniqueIds ==
    \A h, k \in Handlers :
        pc[h] \in TrackedPC \union {"insert"} =>
            /\ id[h] < counter
            /\ h # k /\ pc[k] \in TrackedPC \union {"insert"} => id[h] # id[k]

\* The tracker leaks nothing: what it lists belongs to a connection that is
\* still being relayed or about to be removed, however close_all, failing
\* relays and other connections interleave.
ListedIsLive ==
    \A i \in table : \E h \in Handlers : pc[h] \in TrackedPC /\ id[h] = i

\* A relayed connection is listed until close_all takes it off the list, which
\* is for good: no other connection's track or untrack removes or re-lists it.
LiveIsListedOrCleared ==
    /\ \A h \in Handlers : pc[h] \in TrackedPC => id[h] \in table \union cleared
    /\ table \intersect cleared = {}

\* A connection routed by rules goes where its first matching rule says,
\* provided that this adapter is in the map loaded with it (rule_match;
\* doc/03-data-flow.md:132, the first rule hit takes effect).
FirstHitWins ==
    [][\A h \in Handlers : \A i \in DOMAIN lrules[h] :
          LET d == dest[h]  rs == lrules[h]
          IN  /\ LoadProxies(h) /\ lmode[h] = "rule"
              /\ d \in rs[i].match /\ rs[i].adapter \in proxies
              /\ \A j \in 1 .. i - 1 : d \notin rs[j].match
              => adapter'[h] = rs[i].adapter]_vars

\* doc/12-clash-api-reference.md:270 and :316: GET /connections returns all
\* active connections, DELETE /connections closes them all; so a connection
\* that is still relaying is listed.
RelayingIsListed ==
    \A h \in Handlers : pc[h] = "relay" => id[h] \in table
=============================================================================
