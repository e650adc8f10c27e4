# utlsproxy in TLA+

utlsproxy is a local TLS proxy. A daemon accepts TLS connections for names that
the hosts file points at 127.0.0.1, terminates them with a leaf certificate of a
local CA, finds the real IPv4 address through its own DNS resolver, connects with
a browser-like ClientHello and relays bytes. Around the daemon are commands that
install the CA into the system trust store, edit the hosts file and install the
daemon as a service. This directory holds TLA+ models of the parts whose
correctness depends on the order in which things happen, TLC runs over small
instances of them, and TLAPS proofs about all of them. Line numbers are those of
`src/`; `PROJECT.json` maps every definition to the lines it models.

## 1. Inventory

| Component | Source | State it keeps | Operations | What makes it correct |
|---|---|---|---|---|
| DNS resolver | `internal/dns/resolver.go` | configuration, discovery, generation, cache, shared queries, `refreshMu` | `Configure`, `Refresh`, `Run`, `Lookup` | no answer or cache entry of an old DNS setup; a reload takes effect; every lookup returns; a degraded resolver recovers |
| DNS query | `resolver.go`, `resolve` | names seen, hops, TTL | one A query with its CNAME chain | returns what the zone says; bounded; accepts nothing unrelated |
| DNS discovery | `internal/dns/discovery*.go`, `resolved_properties.go` | none | `Discover`, `usable`, `Select` | a name goes to exactly the servers the machine's setup names for it |
| Proxy server | `internal/proxy/server.go` | snapshot, connection table, counters, listeners, `errCh`, `wg` | `Run`, `accept`, `handle`, `Reload`, `Status` | limits, exact counters, ordered reloads, an exit that leaves nothing behind |
| Relay | `server.go`, `relay` | two copies, watchdog, error channel | copy, half-close, idle timeout | nothing truncated silently; half-close is kept; always ends |
| Upstream connection | `internal/proxy/upstream.go` | none | `DialUpstream`, `CheckDestination` | one bad address never hides a good one; no loop to itself; no socket left |
| Trust manager | `internal/trust` | receipt, recovery certificate, system anchor | `ca trust`, `ca untrust`, `ca trust-status` | an installed anchor can always be found again; a foreign one is never touched |
| Hosts manager | `internal/hosts`, `changeHosts` in `internal/cli` | the hosts file, backups, lock | `hosts apply`, `hosts remove` | no lost update; a backup of what is replaced; damaged markers left alone |
| Service installer | `internal/service` | executable, unit, manifest, backups, lock | `install-service`, `uninstall-service` | touches only its own files; every version it installed is named by the manifest; what an update replaces is recoverable |
| CA | `internal/ca` | key, certificate, leaf cache | `Init`, `Load`, `Certificate` | a certificate never without its key; leaves of the right CA that last |
| Control socket | `internal/control` | socket file, its lock | `Listen`, requests | a running daemon keeps its socket; a dead one's does not keep the next down |
| Log rotation | `internal/logging` | log files, size | `Open`, `Write` with rotation, `Close` | only the oldest lines go; bounded size |
| Configuration | `internal/config` | none | `Load`, `CheckJSON`, `Validate`, `RestartRequired` | what is in force is what the file says |
| File primitives | `internal/fsutil` | none | `Lock`, `Atomic`, `Exclusive` | atomic replacement, exclusive creation |
| TLS profiles | `internal/profiles` | none | `New`, `Compatible` | both legs of a connection negotiate one protocol |

How they interact. `Server.Run` owns the listeners, the control socket and the
resolver; every accepted connection is a goroutine that calls `Resolver.Lookup`,
`DialUpstream` and `relay`. `Reload`, called from the control socket and from
SIGHUP, stores a new snapshot and calls `Resolver.Configure`, whose refresh
competes for `refreshMu` with the ticker of `Resolver.Run` and with lookups that
failed. Lookups of one name in one generation share one query goroutine. The
commands (`ca trust`, `hosts apply`, `install-service`) are separate processes;
they meet only through files, `flock` with `LOCK_NB`, and the control socket.

The hard behaviours are the races of lookups, refreshes and reloads; the accept
loops against reload and shutdown; half-closes against timeouts and shutdown;
and, for the commands, a crash or failure between any two file operations.
`PROJECT.json` lists them as hazards, each at its line.

## 2. Modules

### Resolver (`Resolver.tla`, `MCResolver.tla`, `MCLookup.tla`, `ResolverProofs.tla`)

Actors are client goroutines in `Lookup`, the ticker goroutine of `Run` and a
goroutine that reloads. `cfg`, `applied`, `gen`, `disc`, `lastErr` and `age` are
the fields of `Resolver`; `cache` and `flights` the two maps, a flight being the
goroutine of a shared query with its waiters; `refreshMu` its holder. Each action
is one critical section of `r.mu`, or the wait between two: `RefreshBegin`
(take `refreshMu`, read the configuration, the early returns), `Discover`
(outside `r.mu`), `Publish` (the critical section that compares and stores);
`LookupHit`, `LookupMiss`, `Join`, `Receive`, `Abandon`, `LookupFailed`,
`Recheck`, `Return` for `Lookup` and `lookup`; `Query`, `Store`, `Land` for the
query goroutine; `Configure`, `TickDue`, `RunExit`. The environment is
`NetChange` (the machine's DNS setup moves to its next version), `ContextEnds`
(a client's deadline or cancellation), `Pass` and `Expire` (time).

Abstractions: the time since the last refresh is one of four ages, split at the
100 ms of coalescing, the 1 s pause after an error and the refresh interval; a cache entry is fresh or
expired; an answer is identified by the discovery and generation it came from,
which is what the properties tell apart; which entry is evicted is left open, as
the iteration order of a Go map is. `Select` is
the constant table `Route` here; module Routing has the function.

### Cname (`Cname.tla`, `MCLookup.tla`, proofs in `ResolverProofs.tla`)

`resolve` on one server: `Exchange` is the head of the loop over hops with the
exchange and its checks, `Scan` one turn of the loop over owners. The world is a
zone (an alias or addresses for each name, with a TTL) and a server: an honest
one answers with any prefix of the chain and may add addresses of unrelated
names; a lying one answers with any three records. The reference is `Target`, the
zone's chain read directly. `LedTo` is the least set of names that holds the host
and is closed under the aliases followed. The wire format and the TCP retry of a truncated
answer are one step; names compare after lower-casing, so they are model values. Resolver
does not depend on what a query returns, so `MCLookup` runs the two one after the
other: `resolve` with its zone, then (`Begins`) the resolver from any of its initial
states. No step of the resolver is enabled before `Begins` (`Made`, and `pc` idle), so its
fairness asks for nothing while `resolve` runs and `Terminates` is not vacuous.

### Server (`Server.tla`, `MCServer.tla`, `ServerProofs.tla`)

`Lock`, `Bind`, `Serve`, `Stop`, `CloseListeners`, `ForceClose`, `Exit` are the
stretches of `Run`; `Accept` and `Admit` are an accept loop before and inside
`s.mu` (the snapshot is loaded in between, which is the interesting race),
`AcceptFails` its end through `errCh`. A connection's goroutine goes through
`SetCancel`, `Hello`, `Dialed`, `Established`, `Return`, `Settle`, `Done`;
`Forward` moves bytes, and `Reported` is what `Status` adds up: the bytes of all
connections in the table are counted one by one, as the cardinality of a set of
pairs, which the prover can reason about and a fold it cannot. `ReloadLoad`, `ReloadStore`, `ReloadDone` are `Reload`
under `reloadMu`; `EditFile` changes the file on disk at any time. Relaying and
resolving are abstracted here and detailed in their own modules; DNS and dialling
are one step that succeeds, fails or is cancelled.

### Relay (`Relay.tla`, `RelayProofs.tla`)

Two `copyStream` goroutines (`CopyRead`, `CopyEOF`, `CopyWrite`, `CopyFails`,
`CopyFinish`, `CopyReport`), the goroutine that takes both results (`TakeFirst`,
`TakeSecond`), the watchdog in two steps, because it sets the deadlines of the
two ends one after the other. `CopyFinish` models `CloseWrite`, which sets and
clears the write deadline and so can meet the watchdog's. The peers write,
half-close, reset and stop reading as they like; `Shutdown` closes the client
socket. Bytes are chunks. `Pipe.tla` is the abstract specification: two pipes and
a report. `Pipes` instantiates it with what the peers wrote, what was delivered,
the `CloseWrite`s and relay's result, and `IsPipe` says that Relay implements it.

### Connect (`Connect.tla`, `MCConnect.tla`, `ConnectProofs.tla`) with Configuration, Routing, Authority

One connection after another, from the start of the daemon on. `Start` loads the
configuration (`Configuration.tla`), the CA (`Authority.tla`) and the DNS setup
(`Routing.tla`); `Correct` is the operator after a refused configuration. `Accept`
takes the snapshot, and with it the Authority that the connection keeps; `Hello`
is the TLS callback up to the leaf certificate; `Lookup`, `Dial` and `Handshake`
are `DialUpstream`. `Client` is the rest of the client's handshake: `NextProtos`
is what handle offers after the upstream's answer, and `Negotiated` (external)
what crypto/tls makes of it, which may be no ALPN for a client that sends none or
for an http/1.1 client of an h2 server. `Verify` compares the protocols of the
two legs. `Reload` may replace the Authority between any two of these.

- `Configuration` has `CheckJSON`, `exactFields`, the decoder of `encoding/json`
  (external: it ignores case and null, and the last member wins), `Validate` with
  its normalisation of domains, and the flags the command lays over the file. A
  document is a sequence of members, at two levels; the decoder takes the member in
  the last of the places that give a field a value. The reference (`Meaning`) is
  what a reader takes the document to say, under any spelling and in any place.
- `Routing` has both `Discover`s: links and manager of systemd-resolved,
  `resolv.conf`, the lines of `scutil --dns`; `usable`; `Select`. The reference
  reads the entries of the setup without any of these.
- `Authority` has `Load` and `Certificate` with the leaf cache, time in days.
- What a server at an address does is one of seven behaviours; `Picks` is its
  choice of a protocol (external). "barred" stands for every address that
  `CheckDestination` refuses, also because it could not list the machine's own.

### Serve (`Serve.tla`, `MCServe.tla`, `ServeProofs.tla`) with Syscalls, CaInit, Control, Rotator

The processes of `ca init` and `serve`, step by step over what they share on
disk. `CaInit` is `ca.Init` with the two calls of `fsutil.Exclusive`; `Control`
is `daemon.lock`, the lock beside the control socket, the test for a stale socket,
bind and listen (two steps of `net.Listen`), and the way back; `Rotator` is the
log file with its rotation, one step per rename. `Syscalls` has the program
counter of each process and the count of failures: any step that is a system call
may fail, the removals after a failure included, and `Dies` ends a process
anywhere. The kernel then frees its locks and sockets, and leaves the name of the
socket and the files. `left` is history: the files whose removal has failed.

One process, `Unit`, is the service, which only the service manager starts, as the
definition of `service.Generate` tells it to: `ManagerStarts` whenever it does not
run; with systemd (`manager`) at most `StartLimit` times before
`IntervalEnds`, after which `ManagerGivesUp` until the operator's
`OperatorStarts` (`service start`, which resets the failure first). launchd
never gives up. Only the launchd definition passes `--log-file`; with systemd
`MCServe` lets nothing be written to the log. An explicit
`service stop` is not modelled.

`AppendLog.tla` is the abstract specification of the log: it grows at its end, and
only oldest lines go while `Keep` bytes stay. `LogAppends` says that the files,
read from the oldest to the newest (`Joined`), implement it. `Bytes` counts the
bytes of a file's lines one by one, like `Reported`.

### Trust (`Trust.tla`, `TrustProofs.tla`)

`Execute` by any number of processes, for one certificate: the lock, the receipt
with its recovery certificate ("torn" is a file that exists but is not written
yet), and one of two stores. On Linux that is the anchor file and the bundle that
the distribution's tool rebuilds; on macOS the item in the system keychain and the
admin trust settings, which one call of `security` adds, in whole or in part, and
two calls remove. Every file operation and tool call may fail, before or after it
has done its work; `Crash` may come
between any two. `mine` is history: the anchor was written by this program. The
administrator installs or removes the same CA by other means (`other`), never
under the path or keychain this program uses; the code cannot tell such a file
from its own.

### Hosts (`Hosts.tla`, `MCHosts.tla`, `HostsProofs.tla`)

`Prepare` without the lock, then `Apply`: lock, compare, backup, temporary file,
copy of owner and mode, compare content and metadata again, rename. The file is
its unmanaged lines (counted by edits), the managed block, mode and inode. The
block is none, one that some configuration wants, or `Malformed`: incomplete,
doubled or of another version. The administrator edits in place or replaces the
file, and may damage or delete the block. `DirOf` is the directory whose lock a
writer takes: `hosts apply` that of its configuration, `hosts remove` the
platform's. `EditorRaces = FALSE` excludes an edit between the last comparison and
the rename: no check of the code can see it (see observations).

### Service (`Service.tla`, `ServiceProofs.tla`)

`Install`, its rollback and `Uninstall` on Linux, one action per file operation or
`systemctl` call; contents are versions, the manifest names the version of each
file. `plan`, `old`, `kept`, `lost` and `wrote` are the locals of a run: the versions
it installs, the manifest it read, the bytes it backed up, the files that it could
not read for that, and `wroteBin`/`wroteDef`. The code drops the errors of those
reads (`service.go:301-303`): a file that is missing or unreadable is backed up,
and restored, as an empty one, the manifest included (`Blank`), which no later run
can read.
systemd is external: an active unit is restarted when its process exits.
Someone may run the daemon in the foreground (`"fore"`), which then holds the
control socket. The administrator edits targets between runs only, since the code
does not compare again between its check and its replacement.

## 3. Runs

Distinct states are those of TLC; with two workers every run ends in less than
four minutes.

| Run | Instance | What it shows |
|---|---|---|
| `resolver_safety` | 2 clients, 1 host, ticker, 1 reload between an automatic and a manual configuration or 1 context that ends in the first generation, the DNS setup changes once; 3.9M states | cached answers belong to the generation and discovery in force (`CacheCurrent`); when `Configure` returns, its configuration is in force, whatever refresh it met (`ReloadSettles`); no lookup returns an answer older than its start (`AnswerNotOlder`); an older discovery never replaces a newer one (`DiscoveryForward`) |
| `resolver_live` | `resolve` with 4 names and limit 2; then 1 client over 2 hosts, an outage that ends, 1 reload that halves `cache_size` or 1 ended context; 497k states | `resolve` agrees with the reference (`Exact`, `TtlBounded`); against any server it accepts only what aliases lead to (`Linked`) and returns (`Terminates`); the cache keeps to the size in force (`CacheBounded`), every lookup returns (`LookupReturns`), the resolver ends with what network and configuration say (`Converges`) |
| `connect` | every DNS setup of up to 2 links or 2 `scutil` resolvers, every document of up to 2 members with every flag; then 2 hosts, a one-entry leaf cache, 2 CAs, 4 days, 5 offers in both modes, up to 2 addresses of 7 kinds; 3.4M states | servers asked (`RouteExact`) and configuration in force (`LoadExact`) are what the references say; a client gets a leaf of its snapshot's CA that lasts (`LeafGood`); its leg and the upstream's negotiate one protocol that it offered, so that nobody is turned away after both handshakes (`AlpnAgreed`); any address that would do is found (`ServedIfAny`), and no socket is left (`NoSocketLeft`) |
| `server` | 2 accept loops; 2 clients, a chunk each, and a reload that lowers the limit from 2 to 1; or 1 client and 2 concurrent reloads over 4 file contents (valid, lower limit, restart needed, invalid); 583k states | every byte reported exactly once at every moment (`BytesConserved`), the limit each connection was accepted under (`LimitKept`), a clean exit (`ExitClean`), a shutdown that reaches connections whose cancel function is not there yet (`ForcedReachesAll`), reloads in order (`ReloadsForward`), a stop that ends with no accept loop blocked on `errCh` (`StopsEventually`) |
| `relay` | 2 chunks up, 1 down; 552k states | a relay is a pair of pipes: nothing lost or repeated, `nil` only for two complete directions, nothing moves or is counted after the return (`IsPipe`); an EOF never cuts the other direction (`HalfCloseKept`); every relay ends (`RelayEnds`) |
| `relay_shutdown` | no data needed | violation: see the findings |
| `serve` | a launchd service with a log, or a systemd service with two starts per interval and none, and a foreground daemon, state directories of their own and one control socket, 2 key pairs, 4 lines, 2 failures or kills; 852k states | a whole certificate has its key, unless its removal failed (`CertHasKey`); the path of a running daemon names its own accepting socket (`Reachable`); the log is a bounded append-only log (`LogAppends`) with files of bounded size (`LogBounded`); once failures stop, and unless systemd gives up for good, a daemon runs again and again (`ServiceReturns`) |
| `trust` | 2 processes, 2 crashes, both stores; 5.3k states | an anchor of ours, or trust granted by it, always has its receipt (`AnchorHasReceipt`, `TrustHasReceipt`); a foreign anchor is never touched (`UnmanagedKept`) |
| `hosts` | 2 writers with one lock, 2 edits, 3 writes; 835k states | no edit or change of mode up to the last comparison is lost (`EditsKept`), a writer replaces exactly what it planned from, which is in a backup (`ReplacesWhatItRead`), and none touches damaged markers (`MalformedKept`) |
| `hosts_split` | a configured state directory that is not the platform's, no edits | violation: see the findings |
| `service` | 1 process at a time, 2 versions, one crash, edit or backup that cannot read, failures anywhere; 5.3M states | a target that holds an installed version holds the manifest's (`VersionsNamed`), foreign files stay (`UnownedKept`), a replaced version that could be read is in a backup (`ReplacedHasBackup`) |
| `service_rollback` | the same | violation: see the findings |

Every property of a passing run has a mutant in `PROJECT.json`: a definition and
the form a plausible mistake would give it, under which TLC finds the property
violated.

Bounds, and why they are enough.

- Resolver: two clients are what sharing, joining and racing take; further ones
  repeat a role. One reload and one network change give each generation a
  successor, and a query or refresh of the older one to race with it. Two hosts
  and sizes 2 and 1 are the smallest case in which eviction matters.
  `MaxDisturbances` bounds reloads and ended contexts together, `MaxContextEnds`
  the latter; the two together in one behaviour exceed what the liveness run can
  hold, and `EndsEarly` keeps the behaviours of `resolver_safety` with an ended
  context to the first generation: `resolver_live` has them all, with one client.
- Server: with limits 2 and 1, two clients reach and exceed the limit on two
  loops. Four file contents are one of each kind. The two instances of `MCServer`
  (clients against one reload, reloads against each other) keep the state space
  within liveness checking; in the first the control server does not fail by itself.
- Relay: two chunks one way allow one delivered and one lost; the other way needs
  one, the two directions being symmetric code.
- Connect: two addresses are one that fails and one behind it; two hosts and one
  entry make the leaf cache evict; four days with a life of 2 and a margin of 1
  (30 days and 24 hours in the code) reach leaves that are fresh, inside the margin
  and cut by the end of their CA; two loads are a CA and its successor. Two
  members per object are what duplicates and two spellings take. Setups and
  documents are checked in the initial states, one machine for all documents and
  one document for all setups, as neither reads the other.
- Serve: two daemons are one that holds and one that wants. Two failures allow one
  inside the recovery from another, or a file that stays because its removal failed.
  A start limit of 2 (5 in the code) lets one refused start pass and the next use it
  up. `Backups` is 2 (3 in the code) and `Limit` 2
  bytes: four lines of 1, 3, 2 and 1 bytes fill files exactly, exceed the limit
  alone and reach the oldest file. `Keep` is 3, the largest value for which
  `LogAppends` holds on this instance: the whole files that remain when the oldest
  is renamed over.
- Trust, Hosts, Service: `LOCK_NB` makes a second process fail at once, so two
  processes exercise the lock; in Service one is enough for what successive runs
  leave to each other. `MaxMishaps` bounds crashes, edits and
  backups that cannot read together.
- Cname: the code's limit of 8 is 2 here, with 4 names: one alias more than the
  limit, and cycles of every length up to 4.

`CHECK_DEADLOCK FALSE` is set where the system may stop: a daemon that has
exited, a relay that has returned, writers that have used up their bound.

### Fairness

Weak fairness for every goroutine that can run, since the Go scheduler starves
none, and for steps that end by a timeout in the code (DNS exchange, handshake,
idle relay, shutdown timer). Strong fairness only for taking `refreshMu`: a
`sync.Mutex` in starvation mode hands over to its longest waiter. Calls, reloads,
network changes, ended contexts, peers and the signal to stop are never forced.
In Serve a running process goes on (weak fairness), and the service manager, unless
it has given up, starts a service that does not run, or gives up: `KeepAlive` of the
launchd definition, which only throttles, and `Restart=always` of the systemd unit
within `StartLimitBurst` starts per `StartLimitIntervalSec` (`service.go:63-94`;
SPEC.md:390 says "subject to throttling"). That an interval ends before the limit is
used up is not assumed, nor that an operator starts a service that was given up, so
`ServiceReturns` has the hypothesis that the manager does not give up for good.
Stops, kills, failures, `ca init` and the foreground daemon are never forced.

## 4. Proofs

TLAPS proves the following for every value of the constants that satisfies the
modules' `ASSUME`s: any number of clients, hosts, processes, configurations,
chunks, crashes and reloads. Each is of the form `Init => IInv`,
`IInv /\ [Next]_vars => IInv'`, `IInv => Property`; TLC checked every `IInv` on the
instances of section 3 before it was proved. None of the properties is inductive
alone.

| Module | Theorems |
|---|---|
| `ResolverProofs` | `CacheAlwaysCurrent`, `CacheAlwaysBounded`, `ReloadAlwaysSettles`, `AnswerNeverOlder`, `WaiterAlwaysKnown`, `GenerationAlwaysNamesState`, `DiscoveryAlwaysForward`, `TypeCorrect`; of Cname `AlwaysExact`, `TtlAlwaysBounded`, `AlwaysLinked`, `ResolveTypeCorrect` |
| `ServerProofs` | `BytesAlwaysConserved`, `LimitAlwaysKept`, `ExitAlwaysClean`, `ForcedAlwaysReachesAll`, `ReloadsAlwaysForward`, `TypeCorrect` |
| `RelayProofs` | `RelayIsPipe` (a refinement), `HalfCloseAlwaysKept` |
| `ConnectProofs` | `NoSocketEverLeft`, `AlpnAlwaysAgreed`, `AlwaysServedIfAny`, `LeafAlwaysGood`, `AlwaysLoadExact` |
| `ServeProofs` | `AlwaysReachable`, `CertAlwaysHasKey`, `LogAlwaysBounded`, `LogAlwaysAppends` (a refinement) |
| `TrustProofs` | `AnchorAlwaysHasReceipt`, `TrustAlwaysHasReceipt`, `UnmanagedAlwaysKept`, `TypeCorrect` |
| `HostsProofs` | `EditsAlwaysKept`, `AlwaysReplacesWhatItRead`, `MalformedAlwaysKept`, and `TypeCorrect`, on which they rest |
| `ServiceProofs` | `VersionsAlwaysNamed`, `UnownedAlwaysKept`, `ReplacedAlwaysHasBackup`, `TypeCorrect` |

The arguments:

- Resolver. The invariant adds what each goroutine knows at its step: an actor
  between `RefreshBegin` and `Publish` holds `refreshMu` and its `based` and `found`
  are consistent with what may have been published (`Refreshed`); a flight's
  generation is at most the current one and, if equal, its discovery is the current
  one (`Flying`), which is what `CacheCurrent` needs when `Store` writes; a lookup's
  flight is not older than the lookup (`Looking`), which is what `AnswerNotOlder`
  needs when `Receive` reads; and what was published is not newer than the network.
  `GenerationAlwaysNamesState` (nothing changes within a generation) is proved and not
  run: where it fails, TLC finds `CacheCurrent` violated.
  For `CacheBounded` a second invariant, `Sized`, is carried on top: a query keeps
  the `cache_size` it was started under, so while the configuration in force is the
  installed one, every query of the current generation, and every lookup about to
  start one, has its size. A reload that changes the size changes the generation,
  after which older queries no longer store.
- Cname, which `ResolverProofs` extends next to Resolver; the two share no variable.
  `ChainInv`: what is asked for and what is scanned is led to by the
  aliases followed, and `ttl` is a lower bound of theirs; this gives `Linked` and
  `TtlBounded` against any server. For `Exact`, `ExactInv`: the names seen are the
  first k of the zone's chain and all different (`Asking`, `Scanning`), every record
  received is the zone's, and the name being scanned has all of its records. A name
  met again then means a chain that never ends, and more than `Limit` names seen one
  that is too long. `AlwaysExact` has the hypothesis that no server sends records of
  other types (`"others" \notin Worlds`): with them the code is not exact (see the
  second observation of section 5). That names are finitely many is
  `NamesAssumption`. `Hops` counts: every exchange, and every alias followed inside
  an answer, has added a name to `seen`, so the limit on names is met before the
  bound of the loop, and the error after the loop (`dns_cname_limit`) is never
  returned (`ResolveTypeCorrect`).
- Server. `Numbered` (every admission has an id left for it), `Counted` (the map is
  exactly the registered connections, `wg` the number of live goroutines, a
  connection past `SetCancel` has a cancel function), `Phases` (what each place of
  `Run` says of listeners and connections) and `Ordered` (a file is loaded and
  stored under `reloadMu`, and no older than the current one). `ExitClean` is then
  `wg = 0` read as "no live goroutine". `LimitKept` counts the ids up to the last
  admission, so `Admit`, which adds the largest id, is the only step that can raise
  the count of a connection. `BytesConserved` needs `BytesInv` besides: a new
  connection starts with no bytes, and one that leaves the table takes its own bytes,
  and nobody else's, out of `Active` and into `sent` (`OwnBytes`).
- Relay. `Flow` says where the chunks of a direction are at each step of its copy,
  `Collected` how the results of the copies, the channel and relay's locals hang
  together. Under them each step of Relay is a step of `Pipe` or leaves its
  variables alone.
- Connect. `AlpnInv`: from the upstream's handshake on, its protocol is one that
  `Compatible` accepts for what the client offered (`Agreed`); `Foreseen` shows that
  crypto/tls, offered just that protocol, then negotiates it, or no ALPN where the
  upstream had none. `Compatible` is therefore strict enough: were an h2 upstream
  accepted for an http/1.1 client, the fallback of crypto/tls would end in `Verify`.
  `TriedInv`: the loop has passed no address that would have served, unless
  the context ended. `LeafInv`: every cached leaf is its own Authority's and does
  not outlive it; the leaf of a connection lasted, when it was taken, longer than
  the margin or as long as its CA. Assumptions used: the margin is at least one day
  (`LeafAssumption`; 24 hours in the code), the unit of time in which a handshake
  ends, and "none" and "alert", the model's words for no protocol, are no ALPN
  protocols (`OffersAssumption`). `AlwaysLoadExact` needs of the state only that what
  is still to be read is a document; the rest is about documents. CheckJSON and
  exactFields together leave one member per name in each object (`OncePerName`), so
  what is said of a path and what the decoder finds there is the same single member
  or nothing (`PlainOnce`, `NestedOnce`), and normalising the domains twice is
  normalising them once (`NormalTwice`, from `SpellingAssumption`: `Domain` of a
  normalised name is that name).
- Serve. `Holding`: which locks a daemon holds at each step, that the path is its
  socket from bind to the removal of the name, and that it accepts from listen to
  close; only the holder of the socket's lock changes the name. `Making`: without
  any lock, `O_EXCL` and the difference of the generated pairs keep a process of
  `ca init` the owner of what it writes, and the key is whole before the
  certificate exists and goes after it, unless the certificate's own removal has
  failed (`left`). `LogInv`: `size` is that of the current file (`Sized`), a
  rotation at turn n has emptied the file it is about to fill, and every file that
  was rotated, or is being so, was short of the limit by less than a line
  (`Rotated`). With it each step is one of `AppendLog`: `Put` puts a line at the end
  of `Joined(text)` (`JoinedAppend`), a rename onto an empty file leaves
  `Joined(text)` alone, and only the first rename of a rotation gives up the oldest
  file (`JoinedRename`). What stays then depends on the lines: `Guaranteed` is the
  hypothesis on `Keep`. With one backup that is a file short of a line; with more,
  and so with the code's three, it is two of them, since renames that failed earlier
  may have left gaps between the others. The instance of the run has a line longer
  than `Limit`, for which `Guaranteed` only says that the log is append-only
  (`Keep = 0`); there TLC shows the larger `Keep`.
- Trust. Mutual exclusion (a process past `Begin` holds the lock), that while a
  receipt exists the anchor, if any, is this program's, and `Reached(p)`: what the
  disk and the store look like at each step of `Execute`, on Linux and on macOS. A
  crash drops the lock at any step, so `AnchorHasReceipt` has to hold in between as
  well: this works because the receipt is written before the anchor and removed
  after it.
- Hosts. `EditsKept` rests on the comparisons alone (`Checked`) and needs no lock,
  so it holds for writers in different state directories too; so does
  `MalformedKept`, as no plan is made of malformed content (`Intact`) and the
  comparison sees damage that is younger. `ReplacesWhatItRead`
  needs the lock (`Holding`, `Current`, `SavedFirst`) and therefore one directory
  for all writers: `OneDirectory` is a hypothesis of the theorem, true of
  configurations that keep the platform's `state_dir` and false in `hosts_split`.
  All three theorems assume `~EditorRaces`, as the runs do.
- Service. `Alone` (a run holds the lock) and, for the one run there can be,
  `Progress` (what it has written and which manifest is on the disk at each step),
  `Targets` (files not replaced yet are the old manifest's, replaced ones the
  plan's, and none is foreign once the check has accepted them), `Secured` (what is
  kept for the rollback is what was there, and is in a backup, unless reading it
  failed) and `Sound` (unless something was broken, what a run finds and what the
  rollback has put back: the version the manifest names, or no version).
  `AtRest` reads off that a run may end at any step but those of `HalfDone`.

Only model-checked:

- Liveness (`LookupReturns`, `Converges`, `StopsEventually`, `RelayEnds`,
  `ServiceReturns`, `Terminates`): fairness and ENABLED are outside the prover.
- `RouteExact`: `Select` and the parser of `scutil --dns` are folds of an operator
  over a sequence, `usable` and `linkGroup` select from sequences by one; the
  library's facts about both take an operator as a parameter, which the provers
  cannot instantiate.

Recursive functions without such a parameter (`Joined`, `ChainOf`) are within reach:
that one exists, and what it computes, is proved by the least counterexample
(`LeastNat`), from the well-foundedness of the natural numbers.

## 5. Findings and observations

The findings, each with a run whose counterexample shows it:

- `relay_shutdown`. After the client has half-closed, closing its socket at the
  shutdown timeout (`server.go:250`) wakes nobody: the copy from the upstream stays
  in its read until the idle timeout. (SPEC.md:80.)
- `hosts_split`. `hosts apply` locks the configured `state_dir`, `hosts remove` the
  platform's (`cli.go:639-642`). Where they differ, two writers pass both comparisons
  at once, and the second rename puts back what it planned before the first: a
  removed block returns, or an applied one is gone. (SPEC.md:336: "Serialize
  utlsproxy writers".)
- `service_rollback`. The errors of the reads for the backup are dropped
  (`service.go:301-303`). An executable or unit that is missing, or cannot be read, is
  kept as no bytes, and the update goes on; when it fails, the rollback writes an empty
  file in its place (`service.go:318-331`), reports it as restored, and no later
  install or uninstall accepts it. (SPEC.md:376-377.) If a file could not be read, no
  backup has the previous version either; for the manifest the rollback writes an
  empty one, and every later run stops at `readManifest`.

Observations made while modelling. They are not runs; the first two can be seen
by changing a constant, the others from the lines given.

- With `EditorRaces = TRUE`, `EditsKept` fails: an edit between the last
  comparison and the rename (`hosts.go:197-211`) is lost.
- With `Worlds = {"others"}` in `MCLookup.cfg`, `Exact` fails: if an answer holds
  an alias and only records of other types for its target, the target is asked for
  again while already in `seen`, and reported as a cycle (`resolver.go:279`).
- `Lookup` skips its refresh only after `context.Canceled` (`resolver.go:127`). A
  client whose handshake deadline has passed refreshes with the expired context,
  discovery fails with it, and DNS is marked unavailable for every connection
  although the network is fine (SPEC.md:184), until the next refresh.
- `ca init` that dies between key and certificate (`ca.go:84-87`), or inside a
  write, leaves files that make every later `ca init` refuse; `CertHasKey` still
  holds. The exception `~Loadable` of `ServiceReturns` is this state.
- `Exclusive` and `Init` drop the errors of their removals (`fsutil.go:44`,
  `ca.go:88`). If `ca.crt` was written but its sync or close failed, its removal
  fails and that of `ca.key` does not, a whole certificate stays without its key.
  `CertHasKey` excepts this; without `"crt" \notin left` TLC finds it in two faults.
- While a foreground daemon holds the control socket, the systemd service is
  refused and exits; with `RestartSec=3` five such starts fit into
  `StartLimitIntervalSec=60`, systemd gives up, and the service stays down after the
  foreground daemon has gone, until `service start`.
- An empty target is accepted by no run. A missing one is accepted by
  `install-service`, not by `uninstall-service` (`service.go:240-255`, `448-452`).
- After a rename or open that failed in a rotation the log file is closed and
  `r.size` unchanged: every later line of the process is lost (`rotate.go:40-55`).
  A process that is restarted continues the file.
- `serve` opens its log before it takes any lock (`cli.go:466`). A second process
  with the same `--log-file` that is about to be refused may create the file in the
  middle of the first one's rotation, whose `O_EXCL` then fails. The model gives
  one process a log.
- `hosts apply` checks that the daemon is ready before it plans
  (`hostsPreflight`, `cli.go:603`); nothing keeps the daemon so until the rename.
- A query under way goes on with the servers of a discovery that is gone
  (`resolver.go:163`); SPEC.md:184 says not to.
- A crash between recovery certificate and receipt (`trust.go:213-218`) leaves a
  `.crt` that makes every later `ca trust` of that certificate fail.
- A foreground daemon with the same configuration is taken for the installed
  service (`service.go:265`, `405`).

`VersionsNamed` allows for an update that died, or could not be rolled back, between
its files, where the code offers only the backups.

## 6. Not modelled

- Text: the syntax of single configuration values, of hosts lines and unit files,
  the DNS wire format, D-Bus signatures, messages and log lines.
- Cryptography: keys and signatures are who issued what; the ClientHello beyond
  ALPN and ALPS is built by uTLS.
- `install-service` through launchd: on macOS it runs the same steps with `launchctl`.
- `hostsPreflight`, `doctor`, `status`, `connections`, `config show`: they read
  and print. `test` (`temporary_test_command.go`) runs `Server.Run` in a directory
  of its own, makes two HTTP requests and removes the directory; it shares no state
  with anything but the port it asks the kernel for.
- Binding a DNS query to an interface (`bindInterface`), which keeps no state.
- Build scripts.

File permission and ownership checks appear as refusals of the operations they
guard.

## 7. Plan

All safety invariants and action properties of the runs but `RouteExact` are proved.
For that one, left: `Select` with its loops as recursive functions over the groups,
shown to take the groups of the longest match and lowest priority; the same for the
lines of `scutil --dns`; and a filter by a set in the place of `SelectSeq`.
