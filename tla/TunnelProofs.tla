---------------------------- MODULE TunnelProofs ----------------------------
(***************************************************************************)
(* Proofs about the ConnectionTracker and the rule matching in Tunnel for  *)
(* any number of connections and shards and any configurations, and about  *)
(* the counters of Traffic, which Tunnel feeds.                            *)
(***************************************************************************)
EXTENDS Tunnel, WellFoundedInduction, TLAPS

\* Holding a key: from fetch_add to the removal from the map.
HasKey == TrackedPC \union {"insert"}

\* The inductive invariant.  Beyond the three properties: close_all removed
\* only keys that were handed out, and none that is still to be inserted.
TrackInv ==
    /\ counter \in Nat
    /\ pc \in [Handlers -> PC]
    /\ id \in [Handlers -> Nat]
    /\ UniqueIds
    /\ ListedIsLive
    /\ LiveIsListedOrCleared
    /\ \A i \in cleared : i \in Nat /\ i < counter
    /\ \A h \in Handlers : pc[h] = "insert" => id[h] \notin cleared

\* A step that leaves the tracker and the keys alone and moves one handler
\* outside or within the tracked part of handle_tcp keeps the invariant.
LEMMA MoveKeeps ==
    ASSUME TrackInv, UNCHANGED <<tracker, id>>,
           NEW h \in Handlers, NEW to \in PC, pc' = [pc EXCEPT ![h] = to],
           \/ pc[h] \notin HasKey /\ to \notin HasKey
           \/ pc[h] \in TrackedPC /\ to \in TrackedPC
    PROVE  TrackInv'
<1> USE DEF TrackInv, tracker, HasKey, TrackedPC
<1>1. /\ counter' \in Nat /\ pc' \in [Handlers -> PC] /\ id' \in [Handlers -> Nat]
      /\ \A k \in Handlers : pc'[k] \in TrackedPC <=> pc[k] \in TrackedPC
      /\ \A k \in Handlers : pc'[k] = "insert" <=> pc[k] = "insert"
  OBVIOUS
<1>2. UniqueIds'
  BY <1>1 DEF UniqueIds
<1>3. ListedIsLive'
  BY <1>1 DEF ListedIsLive
<1>4. LiveIsListedOrCleared'
  BY <1>1 DEF LiveIsListedOrCleared
<1> QED
  BY <1>1, <1>2, <1>3, <1>4

\* A step that touches neither the tracker nor a handler.
LEMMA IdleKeeps ==
    ASSUME TrackInv, UNCHANGED <<tracker, id, pc>>
    PROVE  TrackInv'
  BY DEF TrackInv, tracker, UniqueIds, ListedIsLive, LiveIsListedOrCleared

\* Every step of a handler, of the API and of a reload keeps the invariant.
LEMMA StepTrack == TrackInv /\ [Next]_vars => TrackInv'
<1> SUFFICES ASSUME TrackInv, [Next]_vars PROVE TrackInv'
  OBVIOUS
<1>1. ASSUME NEW h \in Handlers, Start(h) \/ ConnectOk(h) \/ ConnectFails(h)
      PROVE  TrackInv'
  BY <1>1, MoveKeeps DEF Start, ConnectOk, ConnectFails, Goto, PC, HasKey, TrackedPC, locals
<1>2. ASSUME NEW h \in Handlers, LoadMode(h) \/ LoadRules(h) \/ LoadProxies(h)
      PROVE  TrackInv'
  BY <1>2, MoveKeeps DEF LoadMode, LoadRules, LoadProxies, Goto, PC, HasKey, TrackedPC
<1>3. ASSUME NEW h \in Handlers, RelayOk(h) \/ RelayFails(h) \/ AddUp(h) \/ AddDown(h)
      PROVE  TrackInv'
  BY <1>3, MoveKeeps DEF RelayOk, RelayFails, AddUp, AddDown, Goto, PC, HasKey, TrackedPC, locals
<1>4. ASSUME NEW h \in Handlers, TrackFetchId(h) PROVE TrackInv'
  <2> USE <1>4 DEF TrackFetchId, Goto, TrackInv
  <2>1. /\ counter' = counter + 1 /\ counter' \in Nat
        /\ pc' \in [Handlers -> PC] /\ id' \in [Handlers -> Nat]
        /\ pc[h] = "fetchId" /\ pc'[h] = "insert" /\ id'[h] = counter
        /\ \A k \in Handlers \ {h} : pc'[k] = pc[k] /\ id'[k] = id[k]
        /\ table' = table /\ cleared' = cleared
    BY DEF PC
  <2> HIDE <1>4 DEF TrackFetchId
  <2>2. UniqueIds'
    BY <2>1 DEF UniqueIds, TrackedPC
  <2>3. ListedIsLive'
    BY <2>1 DEF ListedIsLive, TrackedPC
  <2>4. LiveIsListedOrCleared'
    BY <2>1 DEF LiveIsListedOrCleared, TrackedPC
  <2>5. /\ \A i \in cleared' : i \in Nat /\ i < counter'
        /\ \A k \in Handlers : pc'[k] = "insert" => id'[k] \notin cleared'
    BY <2>1
  <2> QED
    BY <2>1, <2>2, <2>3, <2>4, <2>5
<1>5. ASSUME NEW h \in Handlers, TrackInsert(h) PROVE TrackInv'
  <2> USE <1>5 DEF TrackInsert, Goto, TrackInv, locals
  <2>1. /\ counter' = counter /\ id' = id /\ cleared' = cleared
        /\ pc' \in [Handlers -> PC]
        /\ pc[h] = "insert" /\ pc'[h] = "relay" /\ table' = table \union {id[h]}
        /\ \A k \in Handlers \ {h} : pc'[k] = pc[k]
    BY DEF PC
  <2> HIDE <1>5 DEF TrackInsert
  <2>2. UniqueIds'
    BY <2>1 DEF UniqueIds, TrackedPC
  <2>3. ListedIsLive'
    BY <2>1 DEF ListedIsLive, TrackedPC
  <2>4. LiveIsListedOrCleared'
    BY <2>1 DEF LiveIsListedOrCleared, TrackedPC
  <2> QED
    BY <2>1, <2>2, <2>3, <2>4
<1>6. ASSUME NEW h \in Handlers, Untrack(h) PROVE TrackInv'
  <2> USE <1>6 DEF Untrack, Goto, TrackInv, locals
  <2>1. /\ counter' = counter /\ id' = id /\ cleared' = cleared
        /\ pc' \in [Handlers -> PC]
        /\ pc[h] = "untrack" /\ pc'[h] = "done" /\ table' = table \ {id[h]}
        /\ \A k \in Handlers \ {h} : pc'[k] = pc[k]
    BY DEF PC
  <2> HIDE <1>6 DEF Untrack
  <2>2. UniqueIds'
    BY <2>1 DEF UniqueIds, TrackedPC
  <2>3. ListedIsLive'
    BY <2>1 DEF ListedIsLive, TrackedPC
  <2>4. LiveIsListedOrCleared'
    BY <2>1 DEF LiveIsListedOrCleared, UniqueIds, TrackedPC
  <2> QED
    BY <2>1, <2>2, <2>3, <2>4
<1>7. ASSUME NEW s \in 0 .. Shards - 1, ClearShard(s) PROVE TrackInv'
  <2> DEFINE gone == {i \in table : i % Shards = s}
  <2>1. /\ table' = table \ gone /\ cleared' = cleared \union gone
        /\ UNCHANGED <<counter, pc, id>>
    BY <1>7 DEF ClearShard, locals
  <2>2. gone \subseteq table
    OBVIOUS
  <2> HIDE DEF gone
  <2> USE DEF TrackInv
  <2>3. UniqueIds'
    BY <2>1 DEF UniqueIds
  <2>4. ListedIsLive'
    BY <2>1, <2>2 DEF ListedIsLive
  <2>5. LiveIsListedOrCleared'
    BY <2>1, <2>2 DEF LiveIsListedOrCleared
  <2>6. \A i \in cleared' : i \in Nat /\ i < counter'
    BY <2>1, <2>2 DEF ListedIsLive, UniqueIds, TrackedPC
  <2>7. \A k \in Handlers : pc'[k] = "insert" => id'[k] \notin cleared'
    BY <2>1, <2>2 DEF ListedIsLive, UniqueIds, TrackedPC
  <2> QED
    BY <2>1, <2>3, <2>4, <2>5, <2>6, <2>7
<1>8. ASSUME CloseAll PROVE TrackInv'
  BY <1>8 DEF CloseAll, TrackInv, UniqueIds, ListedIsLive, LiveIsListedOrCleared, locals
<1>9. ASSUME \/ \E p \in Pollers : Poll(p)
             \/ \E m \in Mode : PatchConfigs(m)
             \/ \E name \in Builtin : ChangeProxy(name)
             \/ \E c \in Configs : BeginReload(c)
             \/ UpdateRules \/ UpdateProxies
             \/ UNCHANGED vars
      PROVE  TrackInv'
  BY <1>9, IdleKeeps DEF Poll, PatchConfigs, ChangeProxy, BeginReload, UpdateRules, UpdateProxies,
                         vars, locals
<1> QED
  BY <1>1, <1>2, <1>3, <1>4, <1>5, <1>6, <1>7, <1>8, <1>9 DEF Next, HandlerStep

\* Nothing is tracked at the start.
LEMMA InitTrack == Init => TrackInv
  BY DEF Init, TrackInv, UniqueIds, ListedIsLive, LiveIsListedOrCleared, PC, TrackedPC

\* No two connections share a tracker key.
THEOREM KeysAreUnique == Spec => []UniqueIds
<1>1. TrackInv => UniqueIds
  BY DEF TrackInv
<1> QED
  BY <1>1, InitTrack, StepTrack, PTL DEF Spec

\* The tracker never lists a connection that is over.
THEOREM TrackerNeverLeaks == Spec => []ListedIsLive
<1>1. TrackInv => ListedIsLive
  BY DEF TrackInv
<1> QED
  BY <1>1, InitTrack, StepTrack, PTL DEF Spec

\* Only close_all takes a relayed connection off the list, and for good.
THEOREM TrackerNeverForgets == Spec => []LiveIsListedOrCleared
<1>1. TrackInv => LiveIsListedOrCleared
  BY DEF TrackInv
<1> QED
  BY <1>1, InitTrack, StepTrack, PTL DEF Spec
-----------------------------------------------------------------------------
(* Shape of the state, and the rule that decides *)

\* A non-empty set of naturals has a least element.
LEMMA LeastOf ==
    ASSUME NEW T, T \subseteq Nat, T # {}
    PROVE  \E x \in T : \A y \in T : x <= y
<1>1. IsWellFoundedOn(OpToRel(<, Nat), Nat)
  BY NatLessThanWellFounded
<1>2. PICK x \in T : \A y \in T : ~ (<<y, x>> \in OpToRel(<, Nat))
  BY <1>1, WFMin
<1>3. \A y \in T : ~ (y < x)
  BY <1>2 DEF OpToRel
<1> QED
  BY <1>3

\* The rules a connection can use.
Usable(rs, ps, d) == {i \in DOMAIN rs : d \in rs[i].match /\ rs[i].adapter \in ps}

\* rule_match answers DIRECT, or what the first usable rule names.
LEMMA RuleMatchFirst ==
    ASSUME NEW rs \in Seq(Rule), NEW ps, NEW d, Usable(rs, ps, d) # {}
    PROVE  \E i \in Usable(rs, ps, d) :
              /\ \A j \in Usable(rs, ps, d) : i <= j
              /\ RuleMatch(rs, ps, d) = rs[i].adapter
<1> DEFINE U == Usable(rs, ps, d)
<1> DEFINE i == CHOOSE k \in U : \A j \in U : k <= j
<1>1. U \subseteq Nat
  BY DEF Usable
<1>2. \E k \in U : \A j \in U : k <= j
  BY <1>1, LeastOf
<1>3. i \in U /\ \A j \in U : i <= j
  BY <1>2
<1>4. RuleMatch(rs, ps, d) = rs[i].adapter
  BY DEF RuleMatch, Usable
<1> QED
  BY <1>3, <1>4

\* rule_match answers only what is in the map, or DIRECT.
LEMMA RuleMatchKnown ==
    ASSUME NEW rs \in Seq(Rule), NEW ps \in SUBSET Names, NEW d
    PROVE  RuleMatch(rs, ps, d) \in Names
<1>1. CASE Usable(rs, ps, d) = {}
  BY <1>1 DEF RuleMatch, Usable, Names, Builtin
<1>2. CASE Usable(rs, ps, d) # {}
  <2>1. PICK i \in Usable(rs, ps, d) : RuleMatch(rs, ps, d) = rs[i].adapter
    BY <1>2, RuleMatchFirst
  <2> QED
    BY <2>1 DEF Usable
<1> QED
  BY <1>1, <1>2

\* The parts of TypeOK that the handlers, the reloader and the API write.
SettingsOK ==
    /\ mode \in Mode /\ rules \in Seq(Rule) /\ proxies \subseteq Names
    /\ selected \in DOMAIN Members
    /\ reload \in [cfg : Configs, todo : SUBSET {"rules", "proxies"}]

TrackerOK ==
    /\ table \subseteq Nat /\ counter \in Nat
    /\ clearing \subseteq 0 .. Shards - 1 /\ cleared \subseteq Nat

LocalsOK ==
    /\ pc \in [Handlers -> PC]
    /\ dest \in [Handlers -> Dests]
    /\ lmode \in [Handlers -> Mode]
    /\ lrules \in [Handlers -> Seq(Rule)]
    /\ adapter \in [Handlers -> Names]
    /\ id \in [Handlers -> Nat]

\* TypeOK is the conjunction of its parts.
LEMMA TypeParts == TypeOK <=> TrafficTypeOK /\ SettingsOK /\ TrackerOK /\ LocalsOK
  BY DEF TypeOK, SettingsOK, TrackerOK, LocalsOK

\* saturating_sub never under-reports a difference.
LEMMA SatSubBound ==
    ASSUME NEW a \in Nat, NEW b \in Nat
    PROVE  SatSub(a, b) \in Nat /\ a <= b + SatSub(a, b)
  BY DEF SatSub

\* An addition and every atomic operation of snapshot() keep the counters' shape.
LEMMA AdditionKeepsType ==
    ASSUME TrafficTypeOK, NEW n \in Bytes, AddUpload(n) \/ AddDownload(n)
    PROVE  TrafficTypeOK'
  BY TrafficAssumption DEF AddUpload, AddDownload, TrafficTypeOK

LEMMA SnapshotKeepsType ==
    ASSUME TrafficTypeOK, NEW p \in Pollers, Snapshot(p)
    PROVE  TrafficTypeOK'
<1>1. overlapped' \in BOOLEAN
  BY Zenon DEF Snapshot, LoadUpload, LoadDownload, SwapUpload, SwapDownload, TrafficTypeOK
<1>2. CASE LoadUpload(p)
  BY <1>1, <1>2 DEF LoadUpload, TrafficTypeOK, counters
<1>3. CASE LoadDownload(p)
  BY <1>1, <1>3 DEF LoadDownload, TrafficTypeOK, counters
<1>4. CASE SwapUpload(p)
  <2>1. snap[p].up \in Nat /\ SatSub(snap[p].up, last_upload) \in Nat
    BY SatSubBound DEF TrafficTypeOK
  <2> QED
    BY <1>4, <2>1 DEF SwapUpload, TrafficTypeOK
<1>5. CASE SwapDownload(p)
  <2>1. snap[p].down \in Nat /\ SatSub(snap[p].down, last_download) \in Nat
    BY SatSubBound DEF TrafficTypeOK
  <2> QED
    BY <1>5, <2>1 DEF SwapDownload, TrafficTypeOK, Idle
<1> QED
  BY <1>2, <1>3, <1>4, <1>5 DEF Snapshot

\* At the start every part has its shape.
LEMMA InitType == Init => TypeOK
<1> SUFFICES ASSUME Init PROVE TypeOK
  OBVIOUS
<1>1. TrafficTypeOK
  BY Zenon DEF Init, TInit, TrafficTypeOK, Idle
<1>2. SettingsOK
  <2>1. reload \in [cfg : Configs, todo : SUBSET {"rules", "proxies"}] /\ reload.cfg \in Configs
    BY DEF Init
  <2>2. selected \in DOMAIN Members
    BY TunnelAssumption DEF Init
  <2> QED
    BY <2>1, <2>2, TunnelAssumption DEF Init, SettingsOK, Mode
<1>3. TrackerOK /\ LocalsOK
  BY DEF Init, TrackerOK, LocalsOK, PC, Mode, Names, Builtin
<1> QED
  BY <1>1, <1>2, <1>3, TypeParts

\* A request of the API or a step of a reload leaves the handlers alone.
LEMMA RequestsKeepType ==
    ASSUME TypeOK,
           \/ \E m \in Mode : PatchConfigs(m)
           \/ \E name \in Builtin : ChangeProxy(name)
           \/ CloseAll
           \/ \E s \in 0 .. Shards - 1 : ClearShard(s)
           \/ \E c \in Configs : BeginReload(c)
           \/ UpdateRules \/ UpdateProxies
    PROVE  SettingsOK' /\ TrackerOK' /\ UNCHANGED <<pc, locals, tvars>>
<1> USE DEF TypeOK, SettingsOK, TrackerOK
<1>1. ASSUME NEW m \in Mode, PatchConfigs(m)
      PROVE  SettingsOK' /\ TrackerOK' /\ UNCHANGED <<pc, locals, tvars>>
  BY <1>1 DEF PatchConfigs, tracker
<1>2. ASSUME NEW name \in Builtin, ChangeProxy(name)
      PROVE  SettingsOK' /\ TrackerOK' /\ UNCHANGED <<pc, locals, tvars>>
  BY <1>2 DEF ChangeProxy, tracker
<1>3. ASSUME CloseAll
      PROVE  SettingsOK' /\ TrackerOK' /\ UNCHANGED <<pc, locals, tvars>>
  BY <1>3 DEF CloseAll, settings
<1>4. ASSUME NEW s \in 0 .. Shards - 1, ClearShard(s)
      PROVE  SettingsOK' /\ TrackerOK' /\ UNCHANGED <<pc, locals, tvars>>
  BY <1>4 DEF ClearShard, settings
<1>5. ASSUME NEW c \in Configs, BeginReload(c)
      PROVE  SettingsOK' /\ TrackerOK' /\ UNCHANGED <<pc, locals, tvars>>
  BY <1>5 DEF BeginReload, tracker
<1>6. ASSUME UpdateRules \/ UpdateProxies
      PROVE  SettingsOK' /\ TrackerOK' /\ UNCHANGED <<pc, locals, tvars>>
  <2>1. reload.cfg \in Configs /\ reload.cfg.rules \in Seq(Rule) /\ reload.cfg.proxies \subseteq Names
    BY TunnelAssumption
  <2> QED
    BY <1>6, <2>1 DEF UpdateRules, UpdateProxies, tracker
<1> QED
  BY <1>1, <1>2, <1>3, <1>4, <1>5, <1>6

\* A handler's step keeps every part; only match_adapter writes an adapter.
LEMMA HandlerKeepsType ==
    ASSUME TypeOK, NEW h \in Handlers, HandlerStep(h)
    PROVE  TypeOK'
<1>0. TrafficTypeOK /\ SettingsOK /\ TrackerOK /\ LocalsOK
  BY TypeParts
<1>1. SettingsOK'
  <2>1. UNCHANGED settings
    BY DEF HandlerStep, Start, LoadMode, LoadRules, LoadProxies, ConnectOk, ConnectFails,
           TrackFetchId, TrackInsert, RelayOk, RelayFails, AddUp, AddDown, Untrack
  <2> QED
    BY <2>1, <1>0 DEF settings, SettingsOK
<1>2. pc' \in [Handlers -> PC]
  <2>1. \E to \in PC : pc' = [pc EXCEPT ![h] = to]
    BY DEF HandlerStep, Start, LoadMode, LoadRules, LoadProxies, ConnectOk, ConnectFails,
           TrackFetchId, TrackInsert, RelayOk, RelayFails, AddUp, AddDown, Untrack, Goto, PC
  <2> QED
    BY <2>1, <1>0 DEF LocalsOK
<1> USE <1>0 DEF LocalsOK, TrackerOK
<1>3. TrackerOK' /\ dest' \in [Handlers -> Dests] /\ id' \in [Handlers -> Nat]
  <2>1. dest' = dest
    BY DEF HandlerStep, Start, LoadMode, LoadRules, LoadProxies, ConnectOk, ConnectFails,
           TrackFetchId, TrackInsert, RelayOk, RelayFails, AddUp, AddDown, Untrack, locals
  <2>2. UNCHANGED <<tracker, id>> \/ TrackFetchId(h) \/ TrackInsert(h) \/ Untrack(h)
    BY DEF HandlerStep, Start, LoadMode, LoadRules, LoadProxies, ConnectOk, ConnectFails,
           RelayOk, RelayFails, AddUp, AddDown, locals
  <2>3. CASE UNCHANGED <<tracker, id>>
    BY <2>1, <2>3 DEF tracker
  <2>4. CASE TrackFetchId(h)
    <3>1. UNCHANGED <<table, clearing, cleared>> /\ counter' \in Nat
      BY <2>4 DEF TrackFetchId
    <3>2. id' = [id EXCEPT ![h] = counter]
      BY <2>4 DEF TrackFetchId
    <3> QED
      BY <2>1, <3>1, <3>2
  <2>5. CASE TrackInsert(h)
    <3>1. UNCHANGED <<counter, clearing, cleared, id>> /\ table' = table \union {id[h]}
      BY <2>5 DEF TrackInsert, locals
    <3> QED
      BY <2>1, <3>1
  <2>6. CASE Untrack(h)
    <3>1. UNCHANGED <<counter, clearing, cleared, id>> /\ table' = table \ {id[h]}
      BY <2>6 DEF Untrack, locals
    <3> QED
      BY <2>1, <3>1
  <2> QED
    BY <2>2, <2>3, <2>4, <2>5, <2>6
<1>4. /\ lmode' \in [Handlers -> Mode]
      /\ lrules' \in [Handlers -> Seq(Rule)]
      /\ adapter' \in [Handlers -> Names]
  <2>1. CASE LoadProxies(h)
    <3>1. PICK a \in Choices(lmode[h], lrules[h], proxies, dest[h]) :
              adapter' = [adapter EXCEPT ![h] = a]
      BY <2>1 DEF LoadProxies
    <3>2. proxies \in SUBSET Names
      BY DEF SettingsOK
    <3>3. RuleMatch(lrules[h], proxies, dest[h]) \in Names
      BY <3>2, RuleMatchKnown
    <3>4. a \in Names
      BY <3>1, <3>2, <3>3 DEF Choices, Mode, Names, Builtin
    <3>5. <<>> \in Seq(Rule) /\ "rule" \in Mode
      BY DEF Mode
    <3>6. /\ lmode' = [lmode EXCEPT ![h] = "rule"]
          /\ lrules' = [lrules EXCEPT ![h] = <<>>]
      BY <2>1 DEF LoadProxies
    <3> QED
      BY <3>1, <3>4, <3>5, <3>6
  <2>2. CASE LoadMode(h)
    BY <2>2 DEF LoadMode, SettingsOK
  <2>3. CASE LoadRules(h)
    BY <2>3 DEF LoadRules, SettingsOK
  <2>4. CASE ~(LoadProxies(h) \/ LoadMode(h) \/ LoadRules(h))
    <3>1. UNCHANGED <<lmode, lrules, adapter>>
      BY <2>4 DEF HandlerStep, Start, ConnectOk, ConnectFails,
             TrackFetchId, TrackInsert, RelayOk, RelayFails, AddUp, AddDown, Untrack, locals
    <3> QED
      BY <3>1
  <2> QED
    BY <2>1, <2>2, <2>3, <2>4
<1>5. TrafficTypeOK'
  <2>1. CASE UNCHANGED tvars
    BY <2>1, Zenon DEF tvars, counters, TrafficTypeOK
  <2>2. CASE AddUp(h) \/ AddDown(h)
    BY <2>2, <1>0, AdditionKeepsType DEF AddUp, AddDown
  <2>3. UNCHANGED tvars \/ AddUp(h) \/ AddDown(h)
    BY DEF HandlerStep, Start, LoadMode, LoadRules, LoadProxies, ConnectOk, ConnectFails,
           TrackFetchId, TrackInsert, RelayOk, RelayFails, Untrack
  <2> QED
    BY <2>1, <2>2, <2>3
<1>6. LocalsOK'
  BY <1>2, <1>3, <1>4
<1> QED
  BY <1>1, <1>3, <1>5, <1>6 DEF TypeOK, SettingsOK

\* Every step keeps the shape.
LEMMA StepType == TypeOK /\ [Next]_vars => TypeOK'
<1> SUFFICES ASSUME TypeOK, [Next]_vars PROVE TypeOK'
  OBVIOUS
<1>1. CASE \E h \in Handlers : HandlerStep(h)
  BY <1>1, HandlerKeepsType
<1>2. CASE UNCHANGED vars
  <2>1. UNCHANGED <<tvars, settings, tracker, pc, locals>>
    BY <1>2 DEF vars
  <2>2. TrafficTypeOK'
    BY <2>1, Zenon DEF tvars, counters, TrafficTypeOK, TypeOK
  <2> QED
    BY <2>1, <2>2 DEF settings, tracker, locals, TypeOK
<1>3. CASE \E p \in Pollers : Poll(p)
  <2>1. UNCHANGED <<settings, tracker, pc, locals>>
    BY <1>3 DEF Poll
  <2>2. PICK p \in Pollers : Snapshot(p)
    BY <1>3 DEF Poll
  <2>3. TrafficTypeOK'
    BY <2>2, SnapshotKeepsType DEF TypeOK
  <2> QED
    BY <2>1, <2>3 DEF settings, tracker, locals, TypeOK
<1>4. CASE ~(\/ \E h \in Handlers : HandlerStep(h)
             \/ \E p \in Pollers : Poll(p)
             \/ UNCHANGED vars)
  <2>1. SettingsOK' /\ TrackerOK' /\ UNCHANGED <<pc, locals, tvars>>
    BY <1>4, RequestsKeepType DEF Next
  <2>2. TrafficTypeOK'
    BY <2>1, Zenon DEF tvars, counters, TrafficTypeOK, TypeOK
  <2>3. LocalsOK'
    BY <2>1 DEF locals, TypeOK, LocalsOK
  <2> QED
    BY <2>1, <2>2, <2>3 DEF TypeOK, SettingsOK, TrackerOK, LocalsOK
<1> QED
  BY <1>1, <1>2, <1>3, <1>4

\* Whatever configurations are installed and requests arrive while a connection
\* is routed, what the tunnel holds keeps its shape: the selected member exists
\* and a connection's adapter is one of the repository's.
THEOREM ShapeIsKept == Spec => []TypeOK
  BY InitType, StepType, PTL DEF Spec

\* What FirstHitWins says of one step.
HitWins ==
    \A h \in Handlers : \A i \in DOMAIN lrules[h] :
       LET d == dest[h]  rs == lrules[h]
       IN  /\ LoadProxies(h) /\ lmode[h] = "rule"
           /\ d \in rs[i].match /\ rs[i].adapter \in proxies
           /\ \A j \in 1 .. i - 1 : d \notin rs[j].match
           => adapter'[h] = rs[i].adapter

\* The first rule that matches is the least usable one.
LEMMA StepHitWins == TypeOK => HitWins
<1> SUFFICES ASSUME TypeOK, NEW h \in Handlers, NEW i \in DOMAIN lrules[h],
                    LoadProxies(h), lmode[h] = "rule",
                    dest[h] \in lrules[h][i].match, lrules[h][i].adapter \in proxies,
                    \A j \in 1 .. i - 1 : dest[h] \notin lrules[h][j].match
             PROVE  adapter'[h] = lrules[h][i].adapter
  BY Zenon DEF HitWins
<1> DEFINE rs == lrules[h]
<1> DEFINE U == Usable(rs, proxies, dest[h])
<1>1. rs \in Seq(Rule) /\ adapter \in [Handlers -> Names]
  BY DEF TypeOK
<1>2. i \in U /\ U \subseteq DOMAIN rs
  BY DEF Usable
<1>3. PICK k \in U : (\A j \in U : k <= j) /\ RuleMatch(rs, proxies, dest[h]) = rs[k].adapter
  BY <1>1, <1>2, RuleMatchFirst
<1>4. k = i
  <2>1. k <= i /\ k \in DOMAIN rs /\ dest[h] \in rs[k].match
    BY <1>2, <1>3 DEF Usable
  <2>2. k \in Nat /\ i \in Nat /\ k >= 1
    BY <1>1, <2>1
  <2> QED
    BY <2>1, <2>2
<1>5. adapter' = [adapter EXCEPT ![h] = RuleMatch(rs, proxies, dest[h])]
  <2>1. Choices(lmode[h], rs, proxies, dest[h]) = {RuleMatch(rs, proxies, dest[h])}
    BY DEF Choices
  <2> QED
    BY <2>1 DEF LoadProxies
<1> QED
  BY <1>1, <1>3, <1>4, <1>5

\* However reloads race with it, a connection routed by rules goes where the
\* first rule that matches says, whenever the map loaded with it has the adapter.
THEOREM FirstRuleDecides == Spec => FirstHitWins
<1>1. Spec => [][HitWins]_vars
  BY InitType, StepType, StepHitWins, PTL DEF Spec
<1> QED
  BY <1>1 DEF FirstHitWins, HitWins

-----------------------------------------------------------------------------
(* Traffic, for any number of concurrent pollers *)

\* The inductive invariant of the interleaved snapshots.
TInv == TrafficTypeOK /\ NoByteUnreported

\* Every atomic operation of every poller preserves the invariant.
LEMMA StepTInv == TInv /\ [TNext]_tvars => TInv'
<1> SUFFICES ASSUME TInv, [TNext]_tvars PROVE TInv'
  OBVIOUS
<1> USE TrafficAssumption DEF TInv
<1>1. ASSUME NEW n \in Bytes, AddUpload(n) \/ AddDownload(n) PROVE TInv'
  <2>1. TrafficTypeOK'
    BY <1>1, AdditionKeepsType
  <2>2. NoByteUnreported'
    BY <1>1 DEF AddUpload, AddDownload, TrafficTypeOK, NoByteUnreported
  <2> QED
    BY <2>1, <2>2
<1>2. ASSUME NEW p \in Pollers, LoadUpload(p) \/ LoadDownload(p) PROVE TInv'
  <2>1. TrafficTypeOK'
    BY <1>2, SnapshotKeepsType DEF Snapshot
  <2>2. NoByteUnreported'
    BY <1>2 DEF LoadUpload, LoadDownload, TrafficTypeOK, NoByteUnreported, counters
  <2> QED
    BY <2>1, <2>2
<1>3. ASSUME NEW p \in Pollers, SwapUpload(p) PROVE TInv'
  <2> USE <1>3 DEF SwapUpload
  <2>1. /\ snap[p].up \in Nat
        /\ SatSub(snap[p].up, last_upload) \in Nat
        /\ snap[p].up <= last_upload + SatSub(snap[p].up, last_upload)
    BY SatSubBound DEF TrafficTypeOK
  <2>2. TrafficTypeOK'
    BY SnapshotKeepsType DEF Snapshot
  <2>3. last_upload' <= repUp'
    BY <2>1 DEF TrafficTypeOK, NoByteUnreported
  <2>4. NoByteUnreported'
    BY <2>3 DEF TrafficTypeOK, NoByteUnreported
  <2> QED
    BY <2>2, <2>4
<1>4. ASSUME NEW p \in Pollers, SwapDownload(p) PROVE TInv'
  <2> USE <1>4 DEF SwapDownload
  <2>1. /\ snap[p].down \in Nat
        /\ SatSub(snap[p].down, last_download) \in Nat
        /\ snap[p].down <= last_download + SatSub(snap[p].down, last_download)
    BY SatSubBound DEF TrafficTypeOK
  <2>2. TrafficTypeOK'
    BY SnapshotKeepsType DEF Snapshot
  <2>3. last_download' <= repDown'
    BY <2>1 DEF TrafficTypeOK, NoByteUnreported
  <2>4. NoByteUnreported'
    BY <2>3 DEF TrafficTypeOK, NoByteUnreported, Idle
  <2> QED
    BY <2>2, <2>4
<1>5. CASE UNCHANGED tvars
  BY <1>5 DEF tvars, counters, TrafficTypeOK, NoByteUnreported
<1> QED
  BY <1>1, <1>2, <1>3, <1>4, <1>5 DEF TNext, Snapshot

\* The invariant holds at the start.
LEMMA InitTInv == TInit => TInv
<1> SUFFICES ASSUME TInit PROVE TrafficTypeOK /\ NoByteUnreported
  BY DEF TInv
<1>1. overlapped \in BOOLEAN
  BY Zenon DEF TInit
<1>2. snap \in [Pollers -> [pc : {"idle", "down", "swapUp", "swapDown"},
                            up : Nat, down : Nat]]
  BY DEF TInit, Idle
<1>3. TrafficTypeOK
  BY <1>1, <1>2 DEF TInit, TrafficTypeOK
<1> QED
  BY <1>3 DEF TInit, NoByteUnreported, Idle

\* To the counters, the tunnel is a number of relays that add when they like.
LEMMA TunnelIsTraffic == Spec => TSpec
<1>1. Init => TInit
  BY DEF Init
<1>2. [Next]_vars => [TNext]_tvars
  <2> SUFFICES ASSUME [Next]_vars, ~UNCHANGED tvars PROVE TNext
    OBVIOUS
  <2>1. CASE \E h \in Handlers : HandlerStep(h)
    <3>1. PICK h \in Handlers : AddUp(h) \/ AddDown(h)
      BY <2>1 DEF HandlerStep, Start, LoadMode, LoadRules, LoadProxies, ConnectOk,
         ConnectFails, TrackFetchId, TrackInsert, RelayOk, RelayFails, Untrack
    <3> QED
      BY <3>1 DEF AddUp, AddDown, TNext
  <2>2. CASE \E p \in Pollers : Poll(p)
    BY <2>2 DEF Poll, TNext
  <2> QED
    BY <2>1, <2>2 DEF Next, PatchConfigs, ChangeProxy, CloseAll, ClearShard, BeginReload,
       UpdateRules, UpdateProxies, vars
<1> QED
  BY <1>1, <1>2, PTL DEF Spec, TSpec

\* No interleaving of relays that add and any number of concurrent snapshot()
\* calls loses a byte from the reported speeds.
THEOREM EveryByteReported == Spec => []NoByteUnreported
<1>1. TInv => NoByteUnreported
  BY DEF TInv
<1> QED
  BY <1>1, InitTInv, StepTInv, TunnelIsTraffic, PTL DEF TSpec

\* Without overlap: all that was reported is what was swapped in, only one
\* snapshot is under way, and what it has loaded is not behind the last swap.
Exact == repUp = last_upload /\ repDown = last_download

Alone == \A p, q \in Pollers : snap[p].pc # "idle" /\ snap[q].pc # "idle" => p = q

Ahead == \A p \in Pollers :
            /\ snap[p].pc \in {"down", "swapUp"} => last_upload <= snap[p].up
            /\ snap[p].pc \in {"swapUp", "swapDown"} => last_download <= snap[p].down

SeqInv == TInv /\ (~overlapped => Exact /\ Alone /\ Ahead)

\* A step that leaves the snapshots free of overlap keeps them exact.
LEMMA StepExact ==
    ASSUME TInv, Exact, Alone, Ahead, TNext, ~overlapped'
    PROVE  Exact' /\ Alone' /\ Ahead'
<1> USE TrafficAssumption DEF TInv, TrafficTypeOK
<1>1. ASSUME NEW n \in Bytes, AddUpload(n) \/ AddDownload(n)
      PROVE  Exact' /\ Alone' /\ Ahead'
  BY <1>1 DEF AddUpload, AddDownload, Exact, Alone, Ahead
<1>2. ASSUME NEW p \in Pollers, LoadUpload(p) PROVE Exact' /\ Alone' /\ Ahead'
  <2>1. \A q \in Pollers \ {p} : snap[q].pc = "idle"
    BY <1>2, Zenon DEF LoadUpload
  <2>2. /\ snap' = [snap EXCEPT ![p] = [pc |-> "down", up |-> upload_total, down |-> 0]]
        /\ UNCHANGED <<counters, repUp, repDown>>
    BY <1>2 DEF LoadUpload
  <2> QED
    BY <2>1, <2>2 DEF counters, Exact, Alone, Ahead, NoByteUnreported
<1>3. ASSUME NEW p \in Pollers, LoadDownload(p) PROVE Exact' /\ Alone' /\ Ahead'
  BY <1>3 DEF LoadDownload, counters, Exact, Alone, Ahead, NoByteUnreported
<1>4. ASSUME NEW p \in Pollers, SwapUpload(p) PROVE Exact' /\ Alone' /\ Ahead'
  <2>1. last_upload <= snap[p].up /\ snap[p].up \in Nat
    BY <1>4 DEF SwapUpload, Ahead
  <2>2. Exact'
    BY <1>4, <2>1 DEF SwapUpload, SatSub, Exact
  <2>3. Alone'
    BY <1>4 DEF SwapUpload, Alone
  <2>4. Ahead'
    BY <1>4 DEF SwapUpload, Ahead, Alone
  <2> QED
    BY <2>2, <2>3, <2>4
<1>5. ASSUME NEW p \in Pollers, SwapDownload(p) PROVE Exact' /\ Alone' /\ Ahead'
  <2>1. last_download <= snap[p].down /\ snap[p].down \in Nat
    BY <1>5 DEF SwapDownload, Ahead
  <2>2. Exact'
    BY <1>5, <2>1 DEF SwapDownload, SatSub, Exact
  <2>3. Alone'
    BY <1>5 DEF SwapDownload, Alone, Idle
  <2>4. Ahead'
    BY <1>5 DEF SwapDownload, Ahead, Alone, Idle
  <2> QED
    BY <2>2, <2>3, <2>4
<1> QED
  BY <1>1, <1>2, <1>3, <1>4, <1>5 DEF TNext, Snapshot

\* As long as no two snapshots have overlapped, the speeds add up to the last
\* values swapped in: each byte is reported once.
THEOREM EachByteOnce == Spec => []SequentialIsExact
<1>1. TInit => SeqInv
  BY InitTInv DEF TInit, SeqInv, Exact, Alone, Ahead, Idle
<1>2. SeqInv /\ [TNext]_tvars => SeqInv'
  <2> SUFFICES ASSUME SeqInv, [TNext]_tvars PROVE SeqInv'
    OBVIOUS
  <2>1. TInv'
    BY StepTInv, Zenon DEF SeqInv
  <2>2. CASE UNCHANGED tvars
    <3>1. UNCHANGED <<counters, snap, repUp, repDown, overlapped>>
      BY <2>2, Zenon DEF tvars
    <3>2. (Exact' <=> Exact) /\ (Alone' <=> Alone) /\ (Ahead' <=> Ahead)
      BY <3>1 DEF counters, Exact, Alone, Ahead
    <3> QED
      BY <2>1, <3>1, <3>2, Zenon DEF SeqInv
  <2>3. CASE TNext
    <3>1. ASSUME ~overlapped' PROVE ~overlapped
      BY <2>3, <3>1, Zenon DEF TNext, Snapshot, AddUpload, AddDownload, LoadUpload,
         LoadDownload, SwapUpload, SwapDownload
    <3>2. ASSUME ~overlapped' PROVE Exact' /\ Alone' /\ Ahead'
      <4>1. TInv /\ Exact /\ Alone /\ Ahead
        BY <3>1, <3>2, Zenon DEF SeqInv
      <4> QED
        BY <2>3, <3>2, <4>1, StepExact, Zenon
    <3> QED
      BY <2>1, <3>2, Zenon DEF SeqInv
  <2> QED
    BY <2>2, <2>3
<1>3. SeqInv => SequentialIsExact
  BY Zenon DEF SeqInv, SequentialIsExact, Exact
<1> QED
  BY <1>1, <1>2, <1>3, TunnelIsTraffic, PTL DEF TSpec
=============================================================================
