# Porta: a verification project

Porta is an authenticated IPv4 tunnel: clients on Linux, Windows and Android
reach a gateway over HTTP/3 (MASQUE CONNECT-IP) or over several HTTP/2 streams
("lanes"), and the gateway forwards their packets through one TUN interface. It
also serves an HTTPS forward proxy and an administrative portal. This directory
holds TLA+ models of the gateway and of the native clients, the TLC
configurations that check them, and proofs for TLAPS.

## Inventory

Paths are below `src/rust/porta-server/src` unless they say otherwise.

| component | state | operations | what is hard |
|---|---|---|---|
| address pool, `state/pool.rs` | identity -> address, generation, active; lane groups; lease file | acquire, release, register_lease, load | crashes around the file's replacement, late releases, shared lanes |
| client registry, `state/registry.rs` | accounts, devices, nonces, drains, registry file | authenticate (two paths), create, update, rotate, delete, retire, disconnect, close | an asynchronous lock held across writes and drains, a fast path beside it, a background writer |
| live sessions, `state/sessions.rs` | the sessions of each device | register, drop, cancel_and_drain | drains against registrations |
| tunnel session, `transport/session.rs`, `integration.rs` | what one tunnel holds | open, close | every failure in the middle of open, close raced by cancellation |
| packet router, `data/router.rs` | address -> lane group, flow -> lane | register, replace, dispatch | replacement by reconnects, pinned flows of a lost lane |
| packet queue, `data/queue.rs` | bounded queue of packets | enqueue, recv, close | bounds in packets and bytes, expiry, wake-ups |
| usage store, `state/usage.rs` | counters of sessions, devices, accounts | begin, add, finish, checkpoint, delete | deletion against late counters, debounced writes |
| shutdown, `ops/shutdown.rs`, `main.rs` | accepting, active requests | begin_request, stop, wait | lock-free counting, time-outs, order of the final flushes |
| admission, `ops/admission.rs` | counters of connections, per source, retry buckets | admit, mark_verified, drop | limits counted without a common lock |
| abuse guard, `ops/abuse.rs` | token buckets in shards, one shared counter | reserve, refund, prune | forgetting buckets must give nothing away |
| HTTP server, `server.rs`, `http_handler.rs` | the requests in progress of a connection | begin, touch, drop, idle watch, graceful end | two counters read one after the other |
| HTTP/3 transport, `transport/http3.rs` | tunnel slot, MTU responder, assignment, reliable writer | serve_tunnel, run_tunnel, send_downlink | lost and late datagrams, order of assignment and packets |
| HTTP/2 transport, `transport/http2.rs` | byte buffers, address assignment | run_tunnel, run_masque_tunnel | one loop reads and writes, messages cut anywhere |
| forward proxy, `proxy/*` | permits, answer cache, dials, relay buffer | prepare, establish, dial, relay | staggered races, revocation at every point, idle timer |
| portal, `web/*` | browser sessions and their indexes, links, tickets | sign in, check, download, sign out, administration | accounts change between two locks of a request |
| MTU, `porta-wire/src/mtu.rs` | limit, feedback per flow | fit, fragment, feedback | the path changes between the look and the send |
| wire format, `porta-wire/src/masque.rs`, `frame.rs` | none | varints, capsules, frames | incomplete input |
| native client tunnel, `porta-client/src/tunnel/*` | lanes, queues, flow table, lease | connect, redial, route, monitor, merge | lanes that come and go, one lease for all |
| Linux networking, `porta-client/src/linux` | recovery journal, guard | prepare, up, down, recover | crash between two system calls |
| Windows networking, `porta-client/src/windows` | recovery journal, filters, a PowerShell helper | prepare, configure, disconnect, recover | a helper that outlives its parent |
| desktop application, `porta-windows/src/desktop.rs` | DesktopState, profiles, activity log, tasks | select, save, delete, connect, disconnect, toggle, restore, quit, clear the log | tasks that outlive the command that began them, quitting against connecting |

The components meet in `integration.rs`: a tunnel authenticates with the
registry, takes a lease from the pool, registers a route under the pool's lock,
begins a usage session, and gives all of it back when it ends; an administrative
change cancels the sessions it invalidates and waits until they have done so.
The registry's calls run in tasks of their own, so a request that goes away does
not cut them in half. `server.rs` and `http3.rs` let connections in under the
limits of `admission.rs`, track their requests for the shutdown, and hand them to
the transports, the proxy and the portal.

The properties wanted of each are listed with the hazards in `PROJECT.json`.

## Modules

### Gateway: state

* `AddressBook` - what the pool promises: an identity is entered once, under an
  address nobody else has, for ever.
* `LeasePool` - `state/pool.rs`. `by_client`, `by_address`, `groups` and
  `next_generation` are the fields of `PoolInner`; `disk` is the file, `durable`
  the versions of it that a power failure may bring back, `held` the lease values
  the callers have, `granted` the history of what was handed out. One mutex is
  held across the write, so acquire (`JoinGroup`, `Renew`, `Allocate`,
  `Exhausted`) and `Release` are single steps; a write ends "ok", "io" (nothing
  replaced) or "durability" (replaced, directory not synced). `Crash` and
  `load_state` are the restart.
* `Registry` - `state/registry.rs` and `state/sessions.rs`. Each section under
  the synchronous state lock is a step; `mutations` is the asynchronous lock and
  stays held over the steps "writing", "written", "drain", "cancel", "waiting".
  `attempt` holds the authentications and the sessions they become, `admin` the
  administrative requests, `worker` the metadata workers, `closer` the call of
  close(). `drained` is history: the epoch at which the last drain of a device
  ended.
* `UsageCounters` - SessionCounters of `state/usage.rs`: the lock-free counters of
  one session. Every atomic access is a step; `closed` and `writers` are the two
  parts of `lifecycle`. `LoadsMaySink` is the memory model of the build.
* `UsageStore` - the rest of `state/usage.rs`: `devices` and `sessions` are
  StoreData, `handle` the Session values with their counters, `persist` the persist
  lock, `flush` the progress of flush_inner in each task that runs it, `run` and
  `deadline` the background task, `permit` its Notify, `file` usage.json. `total`,
  `opened`, `epoch`, `acked` and `at_cancel` are history.

### Gateway: packets

* `Tunnel` - extends `LeasePool` by `transport/session.rs`, the adapters of
  `integration.rs` and the registration part of `data/router.rs`. `tunnel` is the
  progress of each connection, `guards` the registry guards that are alive,
  `cancelled` and `shut` the registry's token and the router session's, `routes`
  the router's map, `watched` the watch_session tasks. open() is
  `Authenticate`, `AcquireLease` (the blocking task, which runs on when the
  connection goes away: `Abandon`, `PendingLeaseDrop`), `Register` or `Conflict`;
  close_with_reason is `CloseRoute`, `CloseLease`, `CloseGuard` in that order. The
  registry is abstracted to: no authentication succeeds during a drain of the
  client, which is what `authentication` checks and `RegistryProofs` proves. The lease
  file may fail here as in `addresses`; crashes are left to that run.
* `PacketQueue` - `data/queue.rs`. `items`, `bytes`, `closed` are QueueState,
  `queued_bytes` the published load, `gauge` the sum of what the metrics were
  told, `permit` and `receiver.ready` the state of tokio's Notify. A packet is its
  shape (protocol, ports, size); `classify` is classify_ipv4 on shapes.
* `FlowPins` - what the flow table promises: the lanes of the flows seen last.
* `FlowTable` - select_lane, select_data_lane and FlowTable of `data/router.rs`,
  with the map, the entries, the free list and the chain as they are in the code.
  Queue loads are arbitrary at every choice.

### Gateway: connections

* `Shutdown` - `ops/shutdown.rs`, every atomic access a step, and the order in which
  `main.rs` takes the server down: stop accepting, cancel, wait for the requests and
  for the tracked tasks, close the registry, the router and the usage store.
* `FrontDoor` - `ops/admission.rs` and the accept loops of `server.rs` and `http3.rs`.
  `active_conns`, `unverified`, `sources` are the counters of AdmissionController,
  `busy` the connection each accept loop is admitting, `retry` the buckets of RetryController, `conns` the position of every connection with its
  permit, tunnel slot and tasks. Every access to a counter and every hold of a
  shard's lock is a step.
* `AbuseGuard` - `ops/abuse.rs`: `shards` with their entries, overflow bucket and
  pruning time, `entries` the shared counter, `callers` the attempts between their
  reservation and its outcome. `spared` is history: what an address could spend if
  no bucket were ever forgotten.
* `HttpConnection` - serve_connection, ConnectionActivity, RequestLifetime and
  TrackedBody of `server.rs`. `in_progress` (the code's `active`), `generation` and `permit` are the
  two atomics and the Notify, `watch` is wait_until_idle_for, `stream` every request
  with the holders of its lifetime.
* `ProxyConnect` - a CONNECT request from its line to its relay: `prepare` and
  `establish` of `proxy/service.rs`, the authorizer of `integration.rs`, the address
  cache and the staggered dials of `proxy/dial.rs`, start_proxy of `http_handler.rs`.
* `ProxyRelay` - relay_tunnel with its two copiers, the buffer of the download, the
  metering and the idle timer. A stream is how many of its bytes have come how far.
* `Portal` - `web/portal.rs`, `session.rs`, `admin.rs`, `downloads.rs` and the
  WebRegistryAdapter. `registry` is what the portal sees of the accounts, `store` the
  SessionState with its indexes, `links` and `ticket` what was sealed, `requests` the
  position of each request between the locks it takes: signing in is `SignIn` or
  `Redeem`, `Authenticate`, `StartSession`; any other request is `Ask`, `Session`,
  `Check`, and then a page, a download or a change. `seen` and `out` of a request, and
  `gone`, are history: the tokens that were active since it began, and the sessions
  signed out of. `handle` and `parse_single_range` are what a download sends.

### Both ends of a tunnel

* `ConnectIp` - one CONNECT-IP tunnel over HTTP/3: connect_address, run_reader and
  run_writer of the client, serve_tunnel and run_tunnel of the gateway. `stream` is
  the request stream, a FIFO each way; `datagrams` a set from which datagrams are
  lost or arrive in any order. The MTU probes, their echoes, the proposal, the
  address request and its answer, the reliable writer with its two queues and every
  way in which either end gives up are actions.
* `PacketSizing` - what send_downlink and PacketWriter do with one packet while QUIC
  changes `capacity` in its own task: fragments, feedback to the sender, capsules.
* `H2Lanes` - the lanes of an HTTP/2 tunnel: a task for each that dials and redials,
  the lease all must agree on, the dispatcher with its flow table, the upload queues
  and the monitor of the capacity; `conn` and `stale` are the gateway's sessions.
* `LaneStreams` - lanes that stay up: upload queue and batches, the gateway's one
  loop, download and merge, with bounded channels between all of them.
* `StreamFraming` - capsules and frames as bytes. `script` is what the peer sends,
  `received` and `consumed` how far the transport and the decoder have come;
  run_masque_tunnel is the loop around it.

### Clients

* `ClientNetwork` - `porta-client/src/linux/network.rs` and the loop of
  `linux/client.rs` that drives it. `os` is what the kernel and systemd-resolved
  hold (the TUN device, the physical link, host routes, nftables tables), `saved`
  the recovery journal, `mem` NetworkManager.state, `c` the position of the process
  in run(), run_loop() and the call under way. `persist` and `invoke` are the two
  kinds of step: a write of the journal that succeeds, fails, or is renamed into
  place and not synced; a command that succeeds, fails, or is carried out and
  reported as failed. prepare() is `initialize_state`, `admit`, `protect`,
  `ensure_escape`, `add_escape`; up() goes through `Order`; cleanup_matching is
  `undo` and `forget` until `cleaned`; down() ends with `delete_table` and
  `remove_file`. `Die` is a crash and every error elsewhere, which leave the same.
  validate_state is what open() asks of a journal, its limits on actions and endpoints
  included.
* `WindowsNetwork` - `windows/network.rs`, `network.ps1` and `windows/client.rs` in
  the same form; the helper is a process of its own that changes the system and
  writes the journal, and may outlive the client. `guard_filters` is the list of
  filters of the Windows Filtering Platform and `Admits` how the platform reads it.
* `Desktop` - `porta-windows/src/desktop.rs`. `desktop` is DesktopState, `ui` what a
  command still has to do after it has let go of the lock, `task` the tasks of
  connections (`RunStart` to `RunDone`) and restorations (`RestoreDown`,
  `RestoreDone`) with the decision to exit each carries out after its last turn with
  the lock (`Tail`), `captured` what `WindowsNetwork` makes of the network: whether
  there is something to restore. `overtaken` is history.

### For TLC and TLAPS

* `UsageStoreProofs` - theorems about `UsageStore`; `RegistryProofs` - about `Registry` and
  `ClientNetwork`, the two that keep a file through crashes and share no name;
  `TunnelProofs` - about `LeasePool`, `Tunnel`, `PacketQueue` and `FlowTable`;
  `PortalProofs` - about `UsageCounters` and `Portal`; `FrontDoorProofs` - about
  `Shutdown`, `FrontDoor`, `AbuseGuard`, `HttpConnection`, `ProxyConnect` and `ProxyRelay`;
  `TransportProofs` - about `ConnectIp` and `H2Lanes`; `WindowsProofs` - about
  `WindowsNetwork` and `Desktop`. `FiniteSums` - what the sum over a finite set is and what its
  k-th place is, for the proofs about counts and about sequences with places left out.
* `MCAddresses`, `MCAuthentication`, `MCRegistry`, `MCRecovery`, `MCPortal`, `MCTunnel`,
  `MCUsageStore`, `MCClientNetwork`, `MCFrontDoor`, `MCH3`, `MCH2` - model values, small
  inputs and symmetry. Most put several modules side by side that share no state: `subject`
  says which of them a behaviour is of, and the others rest in an initial state, so
  that one run explores the sum of their states and not the product. An MC module
  extends the modules that have theorems (`MCAddresses` LeasePool and FlowTable,
  `MCAuthentication` Registry and AbuseGuard, `MCRecovery` Registry, WindowsNetwork and
  Desktop, `MCClientNetwork` ClientNetwork, `MCPortal` UsageCounters and Portal, `MCTunnel` PacketQueue and Tunnel,
  `MCFrontDoor` Shutdown, FrontDoor, HttpConnection, ProxyConnect and ProxyRelay, `MCH3` ConnectIp,
  `MCH2` H2Lanes), so that the run and the theorem are about the same
  definition, and instantiates the others where names would clash; a property of an
  instantiated module is repeated there under its own name. Where the same model
  values stand for the clients of one module and the flows of another, one
  permutation serves both as symmetry.

Operators whose comment calls them mutants are wrong versions of a
definition that follows: with them the property named in `PROJECT.json` fails,
which shows that the property depends on that piece of code.

## Runs

| run | what it shows | bounds |
|---|---|---|
| `addresses` | the pool: an address handed out stays with its identity in memory and in every file a crash may leave (`GrantsAreKept`), generations are fresh, a lease is active exactly while it is held, the address book is implemented. The flow table: map, slots and chain agree and packets find a living lane (`LanesAreChosen`), the table is the list of the flows seen last (`ImplementsPinning`) | 4 identities on 2 addresses: the pool fills up; 5 generations: an identity can renew after every other has; crashes unbounded. 4 flows, 3 places, 3 lanes: eviction, and a middle entry to touch |
| `authentication` | no session outlives the drain that revoked it and live sessions are authorised (`RevokedSessionsEnd`); the device limit holds (`RegistryIsSound`). The limit on failed attempts: forgetting buckets gives nothing away (`ForgettingGivesNothing`) | 2 attempts against 2 changes of 2 accounts, one tunnel device and the proxy; 4 epochs: two complete drains. 2 callers, 3 addresses over 2 shards in every distribution, 2 entries: one address overflows |
| `recovery` | the registry's file: dirty metadata is never lost or stranded, close() is durable, the lock is given back (`FileIsKept`). The Windows client: whatever stops, what was changed can be undone, and until then a guard stands that confines (`WindowsIsSafe`). Its desktop application: one task at a time has the network, the window shows what is so, and the application is quit only when the network is given back (`DesktopIsSound`) | one request and one change that come back, 2 workers, failures and crashes of every kind, 3 units of time: the record changes again during a write. 2 adapters, 2 physical paths, 2 indexes, an IPv4 and an IPv6 endpoint, 2 leases; 3 events among starts, redials, reboots and changes by the administrator; crashes and failures unbounded. One profile and 2 tasks, so that a new one meets the tail of an old one; a list and a log of 2 lines, so that both are full; commands, kills and restarts unbounded |
| `portal` | what was revoked opens nothing to a later request, the store's indexes agree, a download is the range asked for (`PortalIsSound`); a snapshot of the counters is a recent cut and after a stop final | 2 requests beside every change of one account, 2 tokens, 2 sessions of which one fits, which expire after one tick; files of 0 and 2 bytes and ranges that begin or end in, at the end of and beyond them; 2 relays, a reader and a stopper, 2 updates in each direction: a reader is overtaken twice |
| `tunnel` | an open tunnel is routed and a finished drain leaves nothing that works (`TunnelsAreSound`), an older lease never takes the route back, leases come back and drains return (`TunnelsReturn`). The queue keeps its bounds, its order and its counts (`QueueIsOrdered`), loses no wake-up, prefers TCP and control, and nothing waits for a later packet | 2 connections of one client (the pool keeps clients apart, see `GrantsAreKept`), with or without a lane group, lane counts 2 and 3 so that they clash, 3 generations; 5 packets into 3 or 2 places with sizes 1 and 2: several must go for one; 3 ticks against ages 1, 2, 3 |
| `usage_store` | nothing is counted twice or lost and deletions last (`UsageIsExact`), no published change is stranded and a shutdown after the handlers saves everything (`UsageIsSaved`), the file never goes back | 2 lanes of one or two sessions, one deletion or shutdown, one failure, one crash, each at any moment |
| `client_network` | the journal on file restores the kernel at every moment, the guard comes first and goes last (`NetworkIsSafe`), the client dials and reports only when all is in place (`ReadyWhenReached`) | 2 endpoints, 2 leases that differ in address and DNS server, 3 interface indexes, so that a link can come back under another or under one that is journalled; 3 events among starts, redials, reboots, changes of the link and of host routes; crashes and failures unbounded |
| `front_door` | a drain that reports success left no request, idle is never missed (`DrainIsExact`); the limits of admission hold and no counter leaks (`AdmissionIsExact`); a connection is closed as idle only when it was (`IdleMeansIdle`); the proxy dials fresh public addresses only and gives everything back on every path (`ProxyIsConfined`); the relay loses, repeats and keeps back no byte (`RelayIsExact`); the shutdown and the QUIC listener return, a connection is closed once its requests are over, a CONNECT request whose session was revoked ends, and a relay nothing moves through ends (`NothingHangs`) | 3 requests and 2 connections of the shutdown: one enters while another leaves and a third is refused; 3 connections of one source for limits of 2, 1 and 1; 2 streams with an idle timeout of 2 ticks; 2 CONNECT requests for 2 hosts, one permit, one cache entry, 6 ticks against a time to live of 2 and a dial of 3; 3 bytes up and 5 down through a buffer and windows of 2 |
| `h3` | both ends agree on MTU, address and existence of the tunnel over a network that loses and delays (`TunnelIsAgreed`); every wait ends (`TunnelsEnd`); what is sent of a packet can be put together, a capsule takes a DF packet only after its sender was told (`PacketsAreSized`) | one tunnel, an MTU that leaves several probe sizes, one packet each way, queues of one; capacities below, at and above the smallest IPv4 MTU and the packets' sizes, packets with and without DF, a fragment, an ICMP error, a multicast; one retry, 4 ticks against a grace of 3 |
| `h2` | the lanes that may be chosen run on one lease and a flow is never under way on two live lanes (`LanesAreSound`); a tunnel without its lanes gets them back or is given up, and its sessions close (`TunnelMovesOn`); queues keep their limits, bursts end, everything gets through (`StreamsAreSound`); however the stream is cut, what is taken from it is what was sent (`FramingIsSound`) | a tunnel of 2 lanes from its first dial with 4 connections, a change of lease and a cancellation; an established one of 3 lanes with a redial, 2 packets and a flow table for one; 3 loads of at most 4 packets through channels of 1 and 2; 7 scripts of messages, every cut of them, lengths of 1 and 2 bytes, types of 1 and 4 |
| `registry_nonce` | a violation, see below | two nonces, one device and the proxy |
| `usage_shutdown_race` | a violation, see below | 2 devices, one shutdown |

A counterexample of the kind that matters in `client_network` and for the Windows
client takes two processes: one leaves something half done, the next continues or
restores. Three events allow a start, a crash, a reboot and a start, or a start, a
redial with another lease or endpoint, a crash and a start, each of which a
cancellation may end.

Deadlock is checked in `addresses` and, for the registry and the desktop, in `recovery`
(the Windows client may stay off and stutters then). The others stop when their epochs, packets,
requests or updates are used up, or after close(). The types of `Registry`, `Tunnel`,
`PacketQueue`, `FlowTable`, `UsageStore`, `ClientNetwork`, `FrontDoor` and
`ProxyRelay` are checked as part of their first property; those of `LeasePool`,
`FlowTable`, `Registry`, `Tunnel`, `PacketQueue`, `UsageStore`, `UsageCounters`,
`Portal`, `Shutdown`, `FrontDoor`, `AbuseGuard`, `HttpConnection`, `ProxyRelay`,
`ConnectIp`, `H2Lanes`, `WindowsNetwork`, `Desktop` and `ClientNetwork` are part of a
proved inductive invariant.

Epochs, tokens, generations, packets and time are bounded by constants (`MaxEpoch`,
`MaxToken`, `MaxGeneration`, `MaxPackets`, `MaxTime`); a change of the registry is not
begun when its epochs would not suffice (`EpochsLeft`), so no change is cut short by
a bound.

### What `registry_nonce` shows

`docs/endpoints.md` says that the gateway "rejects a nonce reused for the same
account/device while the process remains running". On the slow path the nonce is
checked (registry.rs:726), the file is written, and only then is the nonce
remembered (registry.rs:812). An authentication of the same device that read the
clock before `last_seen` was 60 s old takes the fast path during that write, and
with the same nonce is registered as well.

### What `usage_shutdown_race` shows

`docs/architecture.md` says that "shutdown performs a final crash-safe flush before
returning". finish_session folds the session into its device under the data lock
and increments `change_version` after it (usage.rs:713). When run() is cancelled in
between, no session is active and no version is new, so the last pass writes
nothing and the request that follows reaches nobody. main() cancels run() only
after it has waited for the handlers, but these waits time out; `QuietShutdownSaves`,
a part of `UsageIsSaved`, holds when they do not.

### Observations

* `docs/architecture.md` says that flows "remain pinned until idle expiry". The
  table knows no time: when it is full (4096 flows per group) the flow that was not
  seen for longest makes way, idle or not, and until then an idle flow stays.
* With `LoadsMaySink` (AArch64) TLC finds snapshots whose bytes and packets do not
  belong together: the counters are read with relaxed loads, and the acquiring
  loads that validate them (usage.rs:620) do not keep earlier loads from being
  late. The run and the theorems are about builds that do not move these loads.
* A connection may still be accepted after the wait for connections has returned:
  the listener and the tracker are cancelled in one go and select! is unordered.
* `RetryController::should_retry` (admission.rs:285) takes from the per-source
  bucket and never refills it.
* `set_nodelay(true)?` in the accept loop of `server.rs` would end the loop with the
  error of one connection; `FrontDoor` does not take that step.
* A request whose task has done only the first of its two atomic steps (the
  increment of `active`) when the idle watch verifies is cut off with its connection.
  `IdleMeansIdle` counts it as begun from its second step on.
* `PacketQueue::enqueue` drops replaceable packets one by one until the new one
  fits. When they do not suffice the new packet is dropped too, and the others are
  gone for nothing. `PreferredStay` allows it: they were replaceable.
* The packet queue would lose no wake-up without `enable()` or without the
  forwarding of a dropped notification: the look after arming and the stored
  permit each suffice.
* After a restart the daemon does not know that the directory sync of its
  predecessor failed; close() of a process that never wrote the file does not
  retry it. `CloseIsDurable`, a part of `FileIsKept`, says so with its `persisted`
  condition.
* The relay of the proxy records activity when the full buffer has been written, not
  while a slow client takes it: a download to a client that needs longer than the
  idle timeout for one buffer is ended as idle.
* When the gateway grants another lease, the lanes of an HTTP/2 tunnel notice at
  different times. A lane that reconnects under the new lease while a dead one still
  counts as active ends the tunnel with an error that is permanent, and the client is
  not restarted by itself.
* Download tickets of the portal that were given out before a revocation open their
  file until they expire (10 minutes). `docs/clients.md` promises revocation for
  invitations and browser sessions, and `RevokedIsOut` is about these and tokens.
* A journalled escape route over a physical link without hardware address is only
  undone when index and name both still fit (network.rs:782). After a reboot that
  gives the index to another interface, the TUN device itself for instance, the
  clean-up refuses, and the guard stays until the link is named as it was or the
  index is free. `JournalRestores` excepts this case.
* ensure_escape looks up index and hardware address of the physical link and adds
  the route by the link's name after the journal is written. If the link is replaced
  by one of the same name in between, the route is on a link the journal does not
  identify and stays after a clean-up. The documentation asks for "a stable physical
  connection"; the model keeps `Replace` out of this window.
* ensure_escape notes the physical link's address as the system reports it
  (network.rs:687), and open() accepts only addresses of 6, 8 or 20 octets
  (network.rs:1178). A physical path over a tunnel interface whose link address is an
  IPv4 address would leave a journal that the next run refuses. `Hardware` has
  addresses that open() accepts.
* On Windows, a change of the name server or MTU of an adapter Porta did not make,
  interrupted before it was confirmed and then overtaken by the next run's, loses the
  original value (`docs/threat-model.md` names the case); `lost` marks it.
* The desktop application decides to exit under its lock and exits after it. A connect
  that comes in between is accepted, and cut off by the exit with what it has done to
  the network; the next start offers the restoration. `QuitsClean` excepts this case
  (`overtaken`).
* A disconnect or quit while the gateway's name is looked up makes client::run return an
  error, so that the window shows a connection error; after a quit the application
  stays on, and has to be quit again. In the same way the tail of an earlier connection
  may take a later quit back.

### Assumptions of the models

* `H2Lanes`: no redial completes between the dispatcher's choice of a lane and the
  enqueue that follows at once.
* `AbuseGuard`: an authentication takes less time than `idle_expiry` (15 min), and a
  bucket is full again within it (`GuardAssumption`; the slowest of the daemon's policies
  takes 160 s).
* `Desktop`: commands run one after the other, on the thread of the window, and meet the
  tasks at the lock only; a journal that is restored is as `WindowsNetwork` says.
* `FlowTable`: a lane group has at least two lanes (one lane does not use the table).
* `WindowsNetwork`: a helper whose parent died ends before the client is started again.
* `Portal`: sealed links and tickets open only under what they were sealed with.
* `Tunnel`: no authentication of a client succeeds while it is drained, which
  `authentication` checks of the registry and `RevocationEndsSessions` proves.

### Fairness

Four runs check liveness. In each the runtime polls every task that can run (WF on
the steps of each task) and timers fire; nothing is assumed about when clients
authenticate, when sessions that were not cancelled end, or when administrators act.

* `tunnel`: the blocking acquisition and the watchers run to their end, a transport
  whose token is cancelled closes its session, since every transport loop selects on
  it; the receiver of a queue calls recv again after every packet.
* `front_door`: run() goes on and its waits are bounded by their time-outs; the
  listener, whose select! is polled again and again after the cancellation, returns
  (SF on `ListenerReturns`). Handlers, bodies, tunnels, resolvers, destinations and
  the ends of a relay need not do anything; where a property needs a time-out, the
  clock goes on (WF on the tick).
* `h3`: every task of the two programs is scheduled and every bounded wait may time
  out; the network need deliver nothing.
* `h2`: every task of the client is scheduled, the application goes on receiving, and
  the gateway notices that a stream was reset. In `LaneStreams`, whose property is
  that a bounded load gets through, a lane that was lost is dialed again.

Registry liveness is stated by the invariants `LockIsReleased` (whoever holds the
lock can go on) and `DirtyHasWriter`, parts of `FileIsKept`, that of the usage
store by `ChangesArePending`, a part of `UsageIsSaved` (a change that is not in the
file has a permit, a deadline or a pass to bring it there). They need no fairness
and are checked with crashes and failures of every kind.

## Proofs

`TunnelProofs` proves of the pool, for any set of identities, groups and holders, any
pool size and any number of generations what `addresses` checks of the pool on its
instance, from `PoolAssumption` alone (finitely many holders, a pool of at least
/30, distinct null values): `GrantsStay`, `GenerationsNeverRepeat`,
`LeasesAreCounted` and `PoolIsAnAddressBook`. None of the properties is inductive by
itself. The inductive invariant `SafetyInv` joins the types; that while the daemon
runs the memory is the file and `by_address` the inverse of `by_client`; that every
version of the file a crash may leave reserves what was granted, with no
generation above the counter; that what is held was granted; and that the
groups count their holders. Each action has one step in its proof. The
refinement theorem follows: a step that grants a lease to an identity without a
record takes an address that no granted lease has, hence is `Assign`, and every
other step leaves the book alone. `RestartsSucceed` (every file a crash leaves is
accepted) is proved and not checked in a run of its own.

Of the tunnels it proves `TunnelsStaySound` and `RoutesNeverMoveBack` for any clients,
handles, lanes and pool, from `PoolAssumption` and `TunnelAssumption` (lane 0 exists, a
null value). Every step of a tunnel is a step of the pool or leaves it alone, so that
the invariant `HoldInv` of the pool comes along. `LeaseInv` says that a tunnel
holds a lease exactly between its acquisition and its release, `GuardInv` which tunnels
have a guard and are watched, `RouteInv` that whoever is in the router's map is watched
and stands under its own address, lane and group. That a route only moves forward rests
on `CurrentIsLatest`: a registration is accepted only under the pool's lock and only for
the lease of the identity that is current, whose generation no granted lease exceeds.

Of the packet queue it proves `NoLostWakeup`, `QueueIsOrdered` and `PreferredStay` for every
configuration and every mixture of packets, from `QueueAssumption` (types of packets and
configurations). `NoLostWakeup` is not inductive: that
the receiver waits on an empty queue follows from its having looked after it
registered, and that close() has not finished from its having asked in time.
`WakeupInv` adds these two earlier moments, and that a closed queue is empty.
`QueueInv` adds that nothing in the queue is newer than the last arrival and what close()
still has to take back between its lock and its stores. Both of the other theorems rest
on what dropping leaves: `Without` numbers the places that stay (`PlacesAreNumbered`, by
a pigeonhole argument), so that the result has the same packets in the same order
(`WithoutThins`), hence no more packets and no more bytes (`ThinnedIsSmaller`), and every
packet that was not a victim (`EnqueueSpares`, `DequeueSpares`).

Of the flow table it proves `LanesAreAlwaysChosen` and the refinement
`TableIsAListOfPins`, for any flows, hash, loads and lanes and a table of any capacity,
from `FlowTableAssumption` (at least two lanes, at least one place). `FlowInv` says that
there is a sequence `o` of slots that the links of the entries follow from the oldest to
the newest and back, with every slot used once or on the free list once (`Sound`), and
that a flow whose packet is under way is still pinned to the lane chosen for it
(`ChoiceIsPinned`). unlink takes one place out of `o` and link_newest adds one at the
end; what insert, touch, a new pin of a lost lane and a vacated slot do is put together
from these two. The bound on the table is a count: `o` and the free list are a bijection
onto the slots. The chain is unique, by a smallest place where two of them differ, hence
`Chain`, which chooses one, is `o`, and what the table remembers is a step of `FlowPins`
for each choice.

`RegistryProofs` proves what `authentication` and `recovery` check of the registry, for
any number of accounts, devices, attempts, administrators and workers, and whatever
write, sync, process or machine fails: `RegistryStaysSound`, `RevocationEndsSessions`
and `FileStaysKept`. It assumes `RegistryAssumption` (the proxy is one of finitely many
devices, a name for all devices is none of them, finitely many administrators) and
`HolderAssumption` (the tasks that may hold the lock are told apart). The inductive
invariant `IInv` has one part per reason:

* `LockInv`: who is between taking and giving back `mutations` is the one it names.
* `CountInv`, `OpInv`: the counters of drains are the number of requests inside one,
  and a request inside one is a request that drains.
* `StampInv`: a clock never shows the value that stands for "not enrolled", and a
  device shows a nonce.
* `CandidateInv`: what a holder of the lock is about to write or has written is the
  memory of the moment with its one change, up to the times at which devices were
  last seen, which the fast path changes without the lock (`Follows`); memory, the
  candidate and every version of the file that a machine crash may bring back can be
  opened.
* `FileInv`: the file is the memory unless a change was written and not yet published or
  metadata is dirty, and dirty metadata has a writer; a flush that clears the mark has
  written the version it names.
* `EpochInv`, `StaleIsRefused`, `DrainInv`: an attempt that began before a drain ended
  has an epoch that is still refused, whatever prune_disconnects has forgotten; a drain
  waits for every live session it covers, all of them cancelled, and none comes in while
  it does.
* `AccessInv`, `SessionsAreAuthorized`: an enrolment under way has a valid token, an
  account is created once, and a live session is authorised or about to be cancelled by
  the change that took this away.

The proof has one lemma per action; `Returning`, `DrainBegins` and `DrainEnds` say once
what the administrative operations have in common.

Of the Linux client it proves `NetworkIsAlwaysSafe` and `AlwaysReadyWhenReached`: what
`client_network` checks, for any endpoints, leases, links and tables and any number of
runs, crashes, failures, reboots and changes, from `NetworkAssumption` (what names
different things is different, finitely many endpoints, at least one of them allowed).
`NetworkInv` has

* `Keeps`, of the journal on file and of the one in memory: the journal is one that
  open() takes, its actions are in an order in which they can be undone (`InOrder`: none
  twice, the alias before all else that is done to its link, the link found down), and
  every change in the kernel has its action (`UndoneBy`). It does not mention the
  process, so that a crash or a failed step keeps it at once.
* `PlaceOK`: what the place of the process says of kernel and journal, such as the guard
  from the escape route on, or the alias once it is set. `add` needs to know that the
  action of its route is in the journal, `table` that the journal is empty.
* `HalfUndone`: between undo and forget the change has gone and its action is still there.

That the journal gives the kernel back is a fold over its actions from the last to the
first. The library defines folds by a recursive function on sets of places, and `FiniteSums`
shows how to prove what such a function is without induction over data: by a smallest set
on which the claim fails (`UndoerUndoes`). `JournalUndoes` then follows the set of actions
that are left: undoing one leaves `UndoneBy` true of the others (`UndoFrees`), which is
where the order is needed, since the other actions know the link by its alias. With no
action left nothing is changed.

`ReadyInv` carries the second theorem: at each place of up() what the steps before it
have done is there (`ReadyOK`), through commands that fail and steps that are repeated.
The last cleanup takes nothing of this lease (`FinalUndo`), and when it has nothing
left to take, `UndoneBy` bounds what is there from the other side: every address,
route and escape has an action, and the actions left are of this lease and this endpoint
(`OnlyThisLease`).

`UsageStoreProofs` proves `UsageStaysExact`, `UsageStaysSaved` and `FileNeverRollsBack`
for any devices, labels, members and administrators and any number of deletions,
failures and crashes, from `StoreAssumption` (finitely many members, run() is no
administrator). The inductive invariant `StoreInv` has the two invariants that are
inductive with its help (`CountedOnce`, `ChangesArePending`) and

* `MemberInv`: a session has an id exactly while it has members, and a handle that may
  still count is a member. `CountedOnce` needs it when a key is used again after a
  deletion while old lanes are still closing.
* `LockInv`, `GrowthInv`: one pass reads and writes at a time, and its image has no less
  than the file it will replace; `NoRollback` follows.
* `EpochInv`, `DeletionInv`: neither file nor image is older than an acknowledged
  deletion, and a deletion acknowledges an image read after it.
* `VersionInv`, `SkipIsSafe`: an image of the current version has every session that was
  folded and published, so that a pass of that version makes skipping safe.
* `CancelOK`, `QuietInv`: what was counted at a quiet cancellation is completed, hence in
  every image of the current version, hence in the file when the last pass returns.

The usage of a device is a sum over its sessions of sums over their members, which the
library defines by a recursive function on sets. What this function computes is proved
in `FiniteSums` by a smallest counterexample: a finite set has a minimal subset on which
a claim fails, which needs no induction rule, only that strict inclusion is well founded.
`UsageSplits` and `UsageChanges` then say what the step of one session does to the usage
of its device.

`PortalProofs` proves of the counters, for any number of writers, readers and updates and
builds without `LoadsMaySink`, that snapshots are cuts (`SnapshotsAreCuts`, from
`SnapshotsAreConsistent` and `SnapshotsAreRecent`) and that what a stop returns is
final. The inductive invariant relates `writers` to the writers between their two
updates, and the generation a reader has noted to the counters it has read: as long
as the generation has not moved, no update ended in between, and with no writer none
was under way.

Of the portal it proves `PortalIsAlwaysSound`: `PortalIsSound` for any clients, requests,
limits, life times and files, from `PortalAssumption` (limits of at least one, as
SessionStore::new makes them; times and sizes are natural numbers; the administrator is
no client). `PortalInv` adds where a request can have got its session: past the check of
the account its token is one the request has seen active since it began, and past the
session store its session was not signed out of before (`RequestOK`); the store holds
sessions of their tokens' owners, whose ids were started and are not gone (`StoreInv`).
That the store keeps both bounds is counted over the index by expiry and the index by
scope, which evict by different orders; that a download is the range asked for is
arithmetic on the cases of `parse_single_range`.

`FrontDoorProofs` proves six properties of modules that share nothing.

* `DrainsAreExact` (from `DrainIsSound` and `NoIdleIsLost`): `DrainIsExact` for any number
  of requests. The invariant says that `active` counts the requests between their two
  updates of it, and that run() waits, and may have seen the drain end, only after stop().
* `AdmissionStaysExact`: `AdmissionIsExact` for any number of connections and sources and
  any limits, from `DoorAssumption` (finitely many connections; limits are natural
  numbers). `DoorInv` adds to the property what the position of a connection says of its
  permit and its requests (`ConnOK`: a QUIC connection holds no place of its source and is
  unverified until mark_verified has counted both, tasks run only on a verified one), and
  that the limit in all holds from the comparison on and not only after admission. Every
  step moves one connection, and `MoveKeeps` says once what such a step must show: each
  counter changes by what that connection stands for, and whoever comes under a limit
  found the counter below it. That the counter is compared and increased in one step, and
  the increase undone in a later one, is why a refused connection still counts.
* `ForgettingStaysFree`: `ForgettingGivesNothing` for any addresses, shards, callers and
  policy, from `GuardAssumption` (finite sets; a bucket is full again within the expiry;
  `default_with_metrics` sees to it). `GuardInv` says that each address has one shard and
  its bucket is there, that whoever is about to make a bucket has its shard's lock, that a
  bucket is refilled for exactly as long as it was not seen and is worth no more than what
  its address is spared, and that an address without a bucket is spared everything. The
  counter that no lock guards is a sum over the shards and over the callers that have
  dropped buckets and not yet said so, by the lemmas of `FiniteSums`.
* `IdleAlwaysMeansIdle`: `IdleMeansIdle` for any number of requests and any time-outs,
  from `HttpAssumption` (finitely many requests; time-outs are natural numbers). The
  property is about one step; `WatchInv` carries the reason through the steps before it:
  while the generation the watch noted is the current one, no request has come to be in
  progress since it looked, and what is left of its sleep and the silence so far make up
  the timeout. That the look found none needs `in_progress` to count the requests from
  begin to drop, which is the other part of `HttpInv`. The order in the code matters
  here: the generation is read before the count and compared after the sleep.
* `ProxyStaysConfined`: `ProxyIsConfined` for any requests, hosts, answers, cache, limits
  and timers, from `ProxyAssumption` (finitely many requests and hosts, natural numbers,
  answers that are sequences, and an `Absent` that is neither a host nor an address nor an
  answer). `ConnectOK` says what a request is at any time: it has its permit from its plan
  to its end, what it dials or has dialed stands in its list, a dial is within its time,
  and that time began before the answer it uses had expired, from where the age of an
  address is bounded by the cache's time and the dial's. `CacheOK` says that every entry
  is an answer for its own host with a time that was set when it came, and that there are
  at most so many; `PutKeeps` counts them over the eviction of the oldest. Every step
  moves one request, and `RequestMoves` says once what becomes of permits and sessions.
  `InterleavedIsPublic` shows that interleaving the families keeps to the addresses and
  always leaves a first one, so that a dial never begins with nothing under way.
* `RelayStaysExact`: `RelayIsExact` for streams, reads, buffers and windows of any size,
  from `RelayAssumption` (sizes and intervals are natural numbers, the buffer is not of
  size 0). `RelayInv` adds where a copier must have come from to be where it is: it reads
  only when all it has read is written or buffered, it carries something over only with a
  full buffer, it is done only at the end of its stream. `AbsorbPlaces` says what the
  buffer does with a read of any size; a flush uses it again for what did not fit.

`TransportProofs` proves what `h3` and `h2` check of the tunnel's two ends.

* `TunnelIsAlwaysAgreed`: `TunnelIsAgreed` for any MTUs, sizes of queues, packets and
  number of probes, from `ConnectIpAssumption` (these are natural numbers), over a
  network that loses, delays and reorders datagrams. That the two ends agree is a
  statement about what is still under way between them: `EndsAgree` says what the
  position of one end says of the other and of the request stream, `SearchAgrees` that
  every size the client may still propose was echoed by the gateway, or the gateway has
  ended, `ChoiceAgrees` that a proposal on its way is one the gateway accepts and an
  answer on its way is what it committed to, `AddressAgrees` that a packet anywhere is
  behind the assignment of its address.
* `LanesAreAlwaysSound`: `LanesAreSound` for any number of lanes, connections, leases,
  flows and packets and queues and flow tables of any size, from `LanesAssumption` (at
  least one lane, a flow table of at least one place, control flows are no data flows).
  `LaneOK` says of each lane that the lease of a live one is the group's, that no packet
  waits for a connection yet to come, and that the queue of a live one is open unless the
  tunnel could not be established; `RouteOK` that the lane a packet is being routed to
  has not been dialed again, and that its flow is pinned to it, or to none when the packet
  was refused or goes by the control lane; `PinsOK` that a live lane that carries a flow
  has its pin, and a flow has one pin. Two live lanes with the same flow would be two
  pins.

`WindowsProofs` proves what `recovery` checks of the Windows client.

* `WindowsIsAlwaysSafe`: `WindowsIsSafe` for any endpoints, adapters, paths, indexes and
  leases and any number of starts, crashes, failures and changes, from
  `WindowsAssumption` (what names different things is different). `WindowsInv` has two
  halves. `Consistent` ties the system to the journal and does not mention the process:
  it holds whoever stops where, so that a step that fails, or a crash, keeps it at once.
  `Shape`, `Noted`, `Covered`, `Bound` and `Undone` say what has been done when the
  process and its helper are at a place: the manager's copy is the journal, the guard
  that stands is the one for this call, the adapter in the journal is the one that is
  there, what disconnect has undone is undone. The guard that goes last goes when
  `Undone` leaves nothing for it to cover. `GuardsConfine` proves of every guard, not only
  of those a run meets, that its filters admit what is meant and nothing else. The
  attempt to prove `Bound` showed that in an earlier version of the model a helper whose
  parent had died could find an adapter that was gone; `Present` is now as in
  `network.ps1`.
* `DesktopIsAlwaysSound`: `DesktopIsSound` for any number of profiles and tasks and any
  length of the log, from `DesktopAssumption` (limits of at least one). Its parts are
  inductive together with `ExitsClean`: what a decision to exit has found is still so
  when it is carried out, unless a connect has overtaken it.

Only model-checked, and why:

* Liveness (`TunnelsReturn`, `WaitingEnds`, `NothingHangs`, `TunnelsEnd`,
  `TunnelMovesOn`): the prover has no rules for fairness.
* `FramingIsSound`: the decoders of `StreamFraming` are recursive in their data.
* `PacketsAreSized`: what fragment_ipv4 makes of a packet is a recursive function of its
  length, so its parts are known by induction over data only; and its last part is
  liveness. `CapsulesFollowFeedback` of it could be proved and has not been.
* `StreamsAreSound`: mostly liveness; `LaneStreams` declares recursive operators, which
  keeps its queue's bounds from the prover.

## Plan

What is modelled covers the daemon's and the native clients' own logic. What is left
is a theorem: of `PacketSizing` the feedback before a capsule (`CapsulesFollowFeedback`),
which needs no induction over data.

## Not modelled

* TUN devices (`data/tun.rs`, `linux/tun.rs`, `windows/tun.rs`): descriptors, ioctls
  and rings of the kernel. What the clients' networking needs of them is in
  `ClientNetwork` and `WindowsNetwork`.
* Readiness and metrics: they observe, and nothing depends on them but the gauge of
  `PacketQueue`, which is in the model.
* Certificates (`ops/acme.rs`, `ops/tls.rs`): the protocol is a library's; what is
  left is file I/O and a timer that swaps one shared configuration.
* `config.rs`, pages and JSON: conversions without state, covered by
  tables of tests in the code.
* `porta-wire/src/ip.rs` and `device_auth.rs`: checks of header bytes and signatures,
  pure functions.
* Profiles, paths and identity on Windows, the Android application: dialogs, files and
  platform calls around the native tunnel. Of the desktop application: the rates of
  traffic, details and tone of the status, the visibility of the window and the
  export of the log.
* `porta-keygen` and `porta-loadgen`: tools outside the running system.
* In modelled components: the pumps between a TUN device and a tunnel, manual
  networking, log sampling and diagnostic counters, TLS and QUIC parameters; which
  addresses are public, a constant of `ProxyConnect`; the dispatch of requests by
  host and path.
