# redog in TLA+

redog is a rule-based proxy: local HTTP and SOCKS5 listeners accept connections,
a tunnel decides for each of them which outbound adapter carries it, relays the
bytes, and a REST API (used by a desktop GUI) observes and steers it. This
directory models the parts of it that are concurrent or stateful, checks them
with TLC on small instances and proves the main invariants with TLAPS for every
instance. All paths below are relative to the repository.

## 1. Inventory

| Part | State | Operations | Interacts with |
|---|---|---|---|
| Process, `redog/src/main.rs` | mpsc channel (256), semaphore (4096 permits), a supervisor task per listener with a retry counter | bind, accept, back off, give up; receive, acquire, spawn, exit | listeners (channel), tunnel (spawned `handle_tcp`), API (spawned) |
| Listeners, `redog-listener` | none beyond the sockets; one task per client | protocol detection, handshake, send to the channel | process |
| SOCKS5, `redog-transport/src/socks5.rs` | none | server handshake, address encoding | listeners |
| Tunnel, `redog-tunnel/src/tunnel.rs` | `mode`, `rules`, `proxies`: three independent `ArcSwap`s | `handle_tcp`, `set_mode`, `update_rules`, `update_proxies` | adapters, tracker, counters |
| Tracker and counters, `redog-tunnel/src/statistics.rs` | `DashMap` of connections with a key counter; four atomics | track, untrack, list, close_all; add, snapshot | tunnel (writes), API (reads, clears) |
| Adapters, `redog-adapter` | `Selector::selected`; `URLTest::{fastest, delays}` and its token | connect; select; health check, stop, drop | tunnel, API |
| API, `redog-api/src/server.rs` | none of its own | PATCH /configs, PUT /proxies/{g}, DELETE /connections, GETs | tunnel |
| FakeIP and LRU, `redog-component/src/fakeip.rs`, `redog-common/src/cache.rs` | two LRU maps and an offset, each behind its own lock | lookup, reverse_lookup, contains | DNS resolver |
| NAT table, `redog-component/src/nat.rs` | `DashMap` of UDP sessions, token | get, insert, remove, cleanup, cleanup loop, drop | (no caller yet) |
| Domain trie, sniffer, `redog-component` | a tree; none | insert, lookup; parse | (no caller yet) |
| Rules and parser, `redog-rules`; `Metadata`, `redog-core` | none | match, parse | tunnel, process, listeners |
| Config, `redog-config` | none | load, validate | process |
| DNS, `redog-dns` | none | resolve, FakeIP queries | FakeIP |
| GUI switch, `redog-gui/src-tauri/src/sysproxy.rs` | `SYS_PROXY_ENABLED`; the settings of the operating system | set, toggle: one external command per setting, run again as administrator | main thread, operating system |
| GUI tray and API client, `tray.rs`, `api.rs`, `main.rs` | API address and secret | toggle, mode, reload, quit; a thread per request | switch, REST API |
| GUI window, `redog-gui/src/app.js` | checkbox, mode tab | clicks, `loadConfigs` | switch (commands), REST API |

The adapters of the repository are DIRECT, REJECT and the two groups. `main.rs`
installs DIRECT and REJECT only and ignores the configured mode, proxies and
groups; the groups, the FakeIP pool and `update_rules`/`update_proxies` are
library code with public entry points, and are modelled as such.

**What is hard here.** Everything runs on a multi-threaded runtime, so each
`await`, lock and atomic operation is a point where another task may run. The
places that matter: the channel that closes when the last sender goes; permits
that come back on every path; a snapshot made of four atomic operations; two
loads that read two halves of a configuration; a map cleared shard by shard
while others use it; a measuring loop and a critical section with a u16 sum in
it; background tasks that own the object whose `Drop` should end them; a
check-then-fill over four locks; a cleanup that counts, walks and counts again
while others insert; a batch of external commands that may stop anywhere and is
then run again from the start; two user interfaces that change the same state
without telling each other. Where nothing runs concurrently, on the way from the
configuration file to the dialled address, what is hard is that parsers and
matchers written separately must agree on what a line or a target means.
`PROJECT.json` lists them as hazards, at their lines.

**What makes each part correct.** Process: no permit or parsed connection is
lost, admission is FIFO and bounded, it ends exactly when nothing can arrive.
Tracker: lists what lives, no more, no less. Counters: every byte is reported.
Routing: the first rule hit wins, whatever is reloaded. URLTest: the chosen proxy is
within the tolerance, tasks end when told. FakeIP: addresses inside the pool,
answers map back. NAT table: a used session stays, an idle one goes.
Configuration to dial: a request goes where the file says, to the destination it
names. System proxy: what is reported as done is complete, and nothing is
switched on that points nowhere. Window and tray: what they show is what is,
once nothing is on its way.

## 2. Modules

| Module | Models | Composition |
|---|---|---|
| `Admission` | what the front half promises: FIFO admission, bounded concurrency, no loss | abstract specification |
| `Dispatch` | main loop, supervisors, handshake tasks, channel, semaphore | implements `Admission` (`INSTANCE ... WITH`) |
| `Inbound` | one handshake: protocol detection, SOCKS5, HTTP, against a client | details `HandshakeOk` and `HandshakeFails` of `Dispatch` |
| `Traffic` | `TrafficCounter` and its snapshots | |
| `Tunnel` | `handle_tcp`, the three ArcSwaps, Selector, tracker, API writes, reload | extends `Traffic`: relays add, `Poll` takes snapshots |
| `UrlTest` | the URLTest group | |
| `Lru` | `LruCache` as operators | |
| `FakeIp` | the FakeIP pool | extends `Lru` |
| `NatTable` | the UDP NAT table with its cleanup loops | |
| `HostPort` | `http_parse.rs` as operators over cut targets | |
| `Rules` | `parse_rule` and the matchers | |
| `DomainTrie` | the trie as operators | extends `Rules` |
| `Config` | `load_config`, `validate`, `default_config` | extends `Rules` |
| `Routing` | from the file to the dialled address: main's start, the listeners' targets, `rule_match`, DIRECT | extends `Config`, `HostPort` |
| `SysProxy` | the system-proxy flag, the commands one by one | |
| `Gui` | window, tray, main thread, requests of both to the API | extends `SysProxy` |
| `*Proofs` | theorems about the module of that name; `RoutingProofs` also about `DomainTrie` | |
| `MC*` | the instances TLC checks | |

### Dispatch

`lst` and `retries` are the supervisors, `conn` says where each client
connection is, `chan` is the buffer, `main` the main task and `permits` the
semaphore. `Senders` is the set of live `mpsc::Sender` clones: one per supervisor
that has not given up, one per handshake task. `recv()` returns `None` when the
buffer is empty and `Senders` is, which is `RecvClosed`; main then returns and
the runtime cuts off running handlers. A handshake is one step, successful or
not; the relay is the state `running`. `make_listener` never returns `Ok`, so
the "exited normally" branch has no action; the semaphore is never closed, so
neither has its error branch; and `send` cannot fail because main is alive
while a sender is.

The refinement maps the connection main holds while it waits for a permit, then
the buffer, to Admission's `waiting`; `Send` is `Offer`, `Acquire` is `Admit`,
`RecvClosed` is `Shutdown`, everything else stutters.

### Inbound

One accepted connection. `script` is all that the client means to send, in
units of what one read of the code consumes; `sent`, `read` and `parsed` are
positions in it. `server_handshake` reads exactly what it uses, so that `read`
and `parsed` move together; the HTTP handlers read through a `BufReader`, whose
buffer is the stretch from `parsed` to `read` and is lost when `into_inner`
gives the socket back. The tunnel relays from `read` on. A patient client waits
for the replies of the protocol, an eager one for nothing; either may close at
any time. The mixed listener starts at `peek`, the other two at `ver` or `line`
(clients that speak the wrong protocol to a dedicated listener are left out).
What a line or an address says is reduced to the verdict of its parser.

### Traffic and Tunnel

Every atomic operation of `snapshot()` is an action (`Poll` in `Tunnel`);
`repUp` and `repDown` sum the speeds answered so far, `overlapped` remembers
whether two snapshots ever overlapped. In `Tunnel` a handler's `pc` walks
through `handle_tcp`: the load of the mode, of the rules, of the proxies, the
connect, the key, the insertion, the relay, the two additions, the removal. A
rule is a set of destinations and the name of an adapter, which may be missing
from the map. Global mode takes any non-builtin adapter because the code takes
the first in `HashMap` order. `close_all` clears one shard per step; `cleared`
remembers the keys it took. One sweep runs at a time. The new Selector of a
reload is the old one, so that the selection survives it. The counters share no
state with the rest of `Tunnel` but the additions of its relays, so the instance
takes snapshots only where mode, selection, configuration and tracker are left
alone (`QuietWhilePolled`).

### UrlTest

A task measures its proxies one by one (`TestDelay`), then publishes in one
step, under both locks (`Update`). The sum wraps modulo `MaxU16 + 1` in a build
without overflow checks and panics in one with them; `checked`, chosen at the
start, says which build it is. A panic poisons both locks, and the next task
that needs them panics too (`UpdatePanics`). `handles` counts the Arcs outside
the tasks; a task holds one of its own, so `Drop` runs with the last of all.
Delays are those of any `ProxyAdapter`. (With the adapters of the repository a
test always fails, because `test_delay` builds metadata without a destination
and ignores the URL; then every delay is `u16::MAX` and the sum overflows for
every positive tolerance.)

### Lru and FakeIp

A cache is a set of entries with an age. `lookup` is one action per lock it
takes. Addresses are offsets from the network address. `allocs` counts the
allocations up to one more than `Limit`, the number after which the pool wraps
around or a cache evicts; `answered` collects the answers up to there and is
then emptied, which keeps the state finite and says exactly until when
`AnswersMapBack` is claimed.

### NatTable

`age` is the time since `last_active` in ticks of the clock, capped at `Timeout`,
because nothing distinguishes ages beyond it. `len()`, `retain()` and `len()`
again visit the shards one by one, each a step. `Callers` are threads that call
`cleanup()` themselves, `Loops` the background tasks; each loop owns an Arc,
which `handles` does not count. The subtraction panics in a build with overflow
checks (`checked`) and only spoils a log line in one without. `due`, `removed`,
`added` and `gone` are history: how long a session is still promised, and what
happened during each cleanup. `MaxChurn` bounds what callers add or take away
during one cleanup.

### Rules, Config, HostPort, DomainTrie and Routing

A name is a sequence of labels; `Lower` folds as Rust's `to_lowercase`,
`AsciiLower` as `eq_ignore_ascii_case`, and `Infixes` lists which lower-case
texts, dots and all, a lower-case name contains. An address is a value, a block
a set of them, a regular expression the set of names it matches, an unparsable
payload `Bad`. A target is cut at what the parser looks for: brackets, colons,
slashes and the scheme. `Routing` handles one request at a time, because the
concurrency is in `Tunnel` and the retries are in `Dispatch`; the listeners bind
in any order and a port that another one holds is an error (after its retries,
for good). Requests carry in `asked` what the client means, in the terms of the
configuration, or `None` if they are not well-formed; `Writes` says, in the
terms of the RFCs and without the parser, which targets ask for a destination
(with or without brackets, port, trailing colon, scheme and path). `asked.port`
is `None` when the request leaves the port out, and `AskedPort` is the default
the code has for it. `Says` and `Written` state what the file says of a request
without the parser of lines and the matchers; a CIDR line speaks of the
addresses that the name stands for. `RoutedAsWritten` compares the two, and
leaves open only where the deciding line is a CIDR line and the request carries
no address (`CarriesAddress`): there the code passes over the line, as the run
`routing_cidr` shows.

No other crate calls the trie, so `DomainTrie` has no state machine: a user is a
sequence of insertions (`Insert`, with either entry point) and then a lookup. The
assumption `TrieAgrees` compares the operators with their definition
(`LookupIsLongestSuffix`) for all sequences of up to three insertions.

### SysProxy and Gui

`os` holds, for each kind of proxy of each service, whether it is on and whether
redog's address was given to it. A switch (`op`) goes through the commands of
`Commands` in order; each may succeed, fail, or (networksetup, first run only)
want administrator rights, upon which all run again as one script. `troubled`
and `settled` are history. Commands run on the main thread, so one switch at a
time; requests to it queue up. On Windows there is one set of settings. `Gui`
adds the checkbox, which changes before its command is sent and is turned round
when that fails; the tray's toggle, which reads the flag when it is served; the
answers, which may overtake each other; and the mode clicks, each a request that
may overtake others or fail, and that may survive the program when it is
restarted. `mixed`, `stale`, `clicked` and `untold` are history
and say exactly when agreement is claimed. `MaxEvents` bounds clicks, refreshes,
restarts and network changes together.

## 3. Runs

| Run | Bounds | Shows |
|---|---|---|
| `dispatch` | 2 listeners, 3 clients, capacity 1, 1 permit, 1 retry | `PermitAccounting`, `ChannelAccounting`, `ExitLosesNoParsedConnection`, refinement of `Admission`, `ParsedIsHandled`, `DrainedExits`, no deadlock |
| `inbound` | 50 clients: both protocols, broken and truncated ones, up to 2 headers and 2 units of payload | `HandoverExact`, `NoFalsePromise`, `HandshakeEnds` |
| `tunnel` | 2 handlers, 1 destination, 2 configurations, 2 members, 2 shards, 2 pollers, additions of 1 byte | `ListedIsLive`, `LiveIsListedOrCleared`, `FirstHitWins`, `NoByteUnreported`, `SequentialIsExact` |
| `urltest` | 2 proxies, 2 tasks, 3-bit delays, tolerance 2, both builds | `WithinTolerance`, `SwitchIsJustified`, `CancelEndsTasks` |
| `fakeip` | 3 hosts, 2 threads, /29, capacity 3 | `AddressesInside`, `AnswersMapBack` |
| `nat` | 2 sessions in 2 shards, 1 loop, 1 caller, timeout 1, churn 1, both builds | `UsedSessionsStay`, `CountWithinChurn`, `IdleSessionsGo`, `CancelEndsLoops` |
| `routing` | every pair of 16 lines, 80 lists of three domain rules, 162 port settings, 6 other files, no file, a broken file; 15 requests | `RoutedAsWritten`, `DialledAsAsked`, `ConflictsAreUnchecked` |
| `gui` | 3 platforms, 2 services, 3 kinds, 2 modes, 3 events | `MacOnIsAddressed`, `FlagTellsOs`, `CheckboxAgrees`, `ModeFollowsClicks` |
| `tunnel_closeall` | as `tunnel`, no pollers | violated: a relaying connection is listed |
| `urltest_switch` | as `urltest` | violated: only a faster proxy is switched to |
| `routing_cidr` | as `routing` | violated: an IP-CIDR rule matches every request for an address in its block |
| `inbound_plain` | as `inbound` | violated: a plain HTTP request is forwarded |

Why the bounds are enough: with three clients, one slot and one permit, a client
can be running, one held, one buffered, and one waiting for room; both listeners
can fail, back off and give up at any moment. Two pollers, each of which starts
again and again, show every overlap of a pair, and two relays that add a byte
each way let a total grow before, between and after the loads. Two handlers and
two shards let an entry be added in front of and behind the sweep. Two tasks
publish in either order; 3-bit delays contain sums that fit, that overflow, and
ties. Three hosts with capacity 3 fill the caches (duplicated allocations of one
host make the fourth), and six usable addresses wrap around. The handshake has
no state that outlives a client, so one client at a time shows all; two units of
payload let one be buffered and one not. Two sessions in two shards let one be
inserted in front of the walk and one behind it, and a cleanup by a caller
overlaps one by the loop; with a timeout of one tick a session expires at each
tick that nobody uses it before. Pairs of lines show every line decide before
and after every other; for the trie three insertions put an entry before, after
and on the path of another. With three events two clicks overlap while a third
changes what they find, or a failed switch is followed by a restart and another
one. Deadlock is not checked in `urltest`, `nat`, `routing` and `gui`, which may
legitimately come to rest: all tasks ended with nobody left to start one,
nothing to bind or route, no events left. It is in all other passing runs, and
`Exited` is the only step of a process that is over.

The four violations are disagreements between the documents, comments or tests
of the repository and its code; `PROJECT.json` quotes the lines. They are also
the reason for the weaker properties that do hold: `LiveIsListedOrCleared`
instead of `RelayingIsListed`, `SwitchIsJustified` (while the sum fits) instead
of `SwitchOnlyIfFaster`, `HandoverExact` with its case for patient clients, and the
exception of `RoutedAsWritten`, which `RoutedByAddress` lacks.
Section 6 lists what else the code does that one would not expect.

### Fairness

`Dispatch`: the runtime polls ready tasks and fires timers (weak fairness of
bind, back-off and the main task); tokio's channel serves waiting senders in
FIFO order, so a sender that finds room again and again gets in (strong fairness
of `Send`); a handler ends (weak fairness of `HandlerEnds`), which assumes that
peers close their connections at last. Nothing is assumed of handshakes: the
listeners have no timeout, which is why `DrainedExits` asks for none pending.
`Inbound`: the handler is polled when something arrives; a client that has not
closed sends what it need not wait for. `HandshakeEnds` asks the client to close
or to have a whole request to send, since nothing else ends a handshake.
`UrlTest`: the runtime polls tasks; every test ends because of its 5 s timeout;
`select!` picks among ready branches at random, so the cancellation branch,
ready in every round, is taken at last (strong fairness of `CancelSeen`).
`NatTable`: a cleanup in progress goes on (weak fairness of its steps), the
ticker of a loop fires every 30 seconds (weak fairness of `BeginCleanup` of the
loops; nobody promises that callers call), and `select!` again (strong fairness
of `CancelSeen`). `IdleSessionsGo` excepts a loop that was lost to the panic of
the subtraction. Nothing is assumed of users, commands or requests in `Gui`.

## 4. Proofs

Every invariant and every safety action property that a passing run checks is a
theorem, for every value of the constants under the `ASSUME`s of the modules:

* finitely many connections, sessions and callers, positive capacity and limits,
  delays within u16, a non-empty pool, at least one kind of setting;
* scripts in which only payload follows the request;
* `GuiAssumption`: no mode is called `configs`, one of them is `rule`, with which
  the program starts;
* `RoutingAssumption`: what serde, `split(',')`, `split('.')` and the sockets
  give. A configuration has its fields, and lines that are texts cut at commas
  (`LineShape`); names have at least one label; a text that parses as a port
  gives a u16 and is no delimiter; a keyword is a text that can be folded; a
  request that carries an `asked` really writes it (`Writes`), and an address in
  a SOCKS5 request resolves to itself.

The arguments, module by module:

* `DispatchProofs`: `IInv` is inductive. `PermitAccounting` alone is not: that
  `Acquire` starts exactly one handler needs `ChannelAccounting` (one connection
  is held while main waits). Exit safety needs `RetryBudget` (a supervisor that
  stopped has failed `MaxRetries + 1` times) and that an exited process has no
  senders left. Theorems `TypeCorrect`, `PermitsNeverLeak`, `ChannelNeverLoses`,
  `ExitIsSafe`, and `DispatchImplementsAdmission`, step by step from `IInv`.
* `InboundProofs`: `PromisesAreKept`; success is the last reply of every path.
  `HandoverIsExact` and `ShapeIsKept` from `HInv`: SOCKS5 handlers take exact
  units, and HTTP handlers have not answered before they hand over, so a client
  that waits has not sent any payload by then.
* `TunnelProofs`: `KeysAreUnique`, `TrackerNeverLeaks`, `TrackerNeverForgets`.
  Keys below the counter and unique among the handlers from the fetch on are
  what makes an insertion fresh and a removal one's own. `ShapeIsKept`, and from
  it `FirstRuleDecides`: the first rule that matches is the least usable one, so
  `rule_match` answers with it, whatever was stored since the rules were loaded.
  `EveryByteReported` is about `Tunnel` as well, each step of which is one of
  `Traffic`'s or leaves the counters alone (`TunnelIsTraffic`). What is swapped
  out was reported, because a swap reports at least the distance from the value
  it finds to the value it leaves. `EachByteOnce` needs two more facts while
  nothing overlaps: one snapshot is under way at most, and what it loaded is not
  behind the last swap.
* `UrlTestProofs`: `ChosenIsWithinTolerance`. If the group does not switch, the
  reduced sum is at least the current delay, and reducing makes a sum no larger;
  if it switches, the new one is the minimum; if it panics, the sum exceeds every
  u16. `SwitchesAreJustified`, an action property: a sum that fits is compared
  unreduced. `ShapeIsKept`.
* `FakeIpProofs`: `ShapeIsKept` for pools of any size; the
  lemma `PutSound` says that `put` keeps keys and ages unique and without gaps,
  whether it replaces, adds or evicts. `AddressesStayInside` for pools of at
  least four addresses (section 6 says why). `AnswersAlwaysMapBack` from
  `MapInv`, which follows the allocations of every thread through both caches:
  the offset stands at the first address not given out (`NextIsFresh`), an
  address on its way into `ip_to_host` is in nobody else's hands and not there
  yet (`PendingFresh`), and what goes into `host_to_ip`, or is there, maps back
  (`PutsMapped`, `HostsMapped`). Two threads may allocate for one host; then both
  addresses map back. The lemma `PutExtends` says that `put` loses nothing until
  the cache is full, which is why the claim ends at `Limit`.
* `NatTableProofs`: `UsedSessionsAreKept`, because the promise of a session and its
  age add up to the timeout (`UsedInv`). `CountWithinChurn` alone is not
  inductive, since it speaks of the end of a walk only; `ChurnInv` balances, at
  every shard, what was counted so far and what is still to be counted against
  the changes noted, and gives `CountIsWithinChurn` and `ShapeIsKept`.
* `GuiProofs`: `MacSettingsAreAddressed` and `FlagIsTrue` from `SysInv`: the
  commands done so far in this run have had their effect (`Progress`), a switch
  that was reported is complete (`Complete`), and as long as nothing went wrong
  only the service in use has anything on (`Contained`). `GuiShapeIsKept`.
  `ModeIsClicked` from `ModeInv`: every mode request on its way was clicked, and
  as long as the tab was told of everything there is at most one and the tab
  shows it. For `CheckboxShowsFlag`, `CheckboxAgrees` speaks of quiet states
  only; `BoxInv` says what holds before. As long as the window's requests do not
  overlap there is one of them, in the queue, in progress or answered (`Alone`);
  the checkbox shows what the window asked for last, or the opposite of the flag
  while an error is on its way (`Follows`); and what the window asks for alone
  turns the switch round (`Turns`), so that turning the checkbox back after an
  error is right. Overlap with an error or a refresh leaves a doubt, and the
  answer that ends the doubt sets `stale`.
* `RoutingProofs`: `RoutingInv` says which line each rule stems from
  (`StemFrom`: in order, and only lines that do not parse are left out), that a
  bound listener has its own port and a failed one lost its port to another
  (`OwnPorts`), and that metadata, route and address belong to the request in
  hand (`OneRequest`). `RoutingShapeIsKept` and `OnlyUncheckedConflicts` follow.
  `DestinationIsKept` rests on lemmas about the parser: `AuthorityParses` (a
  host, in brackets or not, with any of its port texts, parses to that host and
  port: the last colon or the first bracket is where the text was joined),
  `UrlIsCut` (the first slash ends the authority) and `TargetIsAsked`.
  `FilesAreObeyed` adds `RuleMeansLine` (a line says something of a request
  exactly if its rule matches the metadata; `ExactMatches` and `SuffixMatches`
  compare names label by label) for all lines but the CIDR lines of a request
  that carries no address (`Heard`), `FirstIsHeard` (the least usable rule stems
  from the least usable line that is heard) and `FirstSpeaks` (which is the
  first that speaks, unless that one is a CIDR line). About the trie,
  `LongestSuffixDecides` goes by induction on the insertions (`EveryTrie`, as
  the least counterexample): the nodes are closed under prefixes and each path
  has what was stored there last (`TrieOf`), an exact entry lies off every path
  that a name without the marker can take, and the suffixes a name is below are
  exactly those stored along its path (`AboveIsStored`). `ExactEntriesAreLost`
  is its corollary: after exact insertions alone every lookup of such a name
  finds nothing.

Trying to prove `RoutedAsWritten` showed that an earlier form of it, in which
the client's port was part of what it asked for, was false for a `DST-PORT` line
and an `https://` URL without a port: the code compares and dials 80. TLC had
not found it because no such pair of line and request was in the instance; both
are now (`AskedPort` states what the code does). The proof about
the trie brought up names that contain the label `__exact__`, which `Plain`
leaves out.

Only model-checked: liveness (`ParsedIsHandled`, `DrainedExits`,
`CancelEndsTasks`, `HandshakeEnds`, `IdleSessionsGo`, `CancelEndsLoops`), since the
prover handles neither fairness nor `ENABLED`.

## 5. Plan

Done, in this order: `Dispatch` with `Admission`, `Traffic`, `Tunnel`,
`UrlTest`, `FakeIp` with `Lru`, `Inbound`; then `NatTable`, `Rules`, `Config`,
`HostPort`, `DomainTrie` and `Routing`, `SysProxy` and `Gui`, and the theorems of
section 4. What could follow:

1. The datagram path, when the listeners accept one: `NatTable` would then be
   composed with `Tunnel`.
2. The groups, when main installs those of the configuration: `Routing` would
   then have their names among its adapters.

## 6. Known deviations

What the models show the code to do, next to what a document, a comment or a
user would expect. Properties that hold state the code's side.

* CIDR rules match addresses in SOCKS5 requests only (run `routing_cidr`).
  `Metadata::new` leaves `dst_ip` out, so neither a name that would have to be
  resolved nor an address literal in an HTTP target is ever compared, although
  `should_resolve_ip` and `doc/03-data-flow.md:142` announce it.
* `GEOIP` (`README.md:13`) is refused by the parser, and a line that is refused is
  skipped. `validate` asks for two fields, the parser for three of most types: the
  lines between are accepted and then skipped.
* The adapter of a line is the rest of it: `DIRECT,no-resolve` names an adapter
  that does not exist, and the line is passed over.
* `insert_exact` stores where `lookup` never looks, so exact entries are never
  found (theorem `ExactEntriesAreLost`), except by names that contain the label
  `__exact__`; `trie.rs:49` and `doc/06-rule-engine.md:302` say they are.
  `lookup` folds ASCII, insertion folds everything.
* An `https://` URL without a port in a plain request gets port 80. A URL with a
  query and no path is not cut before the query, which then is part of the host.
* The default of the mixed port and the controller's port are not compared with
  the configured ones.
* A background loop owns an Arc of the group or table whose `Drop` should end
  it: `Drop` does not run while the loop lives (`doc/code-review-fixes.md:128`).
* A pool of two or fewer addresses has none between the network's and the
  broadcast address and answers network + 1 all the same (`fakeip.rs:87`), which
  is why the theorem about its addresses asks for four.
* Rules and proxies are two stores and two loads: a connection may be routed by
  the rules of one configuration and the adapters of another (`tunnel.rs:180`;
  `doc/09-config-and-hot-reload.md:324` describes one atomic replacement).
* On Windows the proxy is switched on before it has an address, and a failure
  between the two leaves it pointing at the old one. On macOS a proxy switched
  off after the service in use has changed stays on for the old service.
* The tray's reload sends PUT /configs, which the API does not route.

## 7. Not modelled

Payload bytes and sockets; TLS and HTTP sniffing (stateless, no caller); the DNS
resolver (stateless; the tunnel keeps it and never asks it); the encoding of
SOCKS5 addresses (no caller); formatting of answers and logs; authentication and
routing of API requests and its read-only answers; configuration fields that
nothing reads; the rendering and the pollers of the window. In the GUI: the
detection of the API's address and secret (fixed for a run; the window's own
setting of them names its arguments in a way the command does not take),
subscriptions (a download, a write to a file and a reload request that the API
does not route), and a crash of the program while the elevated script runs, which
then goes on by itself. UDP is declared by the adapters and used by nobody.
Memory orderings weaker than sequential consistency: the four counters are
relaxed atomics, each of them is coherent on its own, and no property relates a
read of one to a write of another. The wait for a lock or a shard is not a state
of its own anywhere.
