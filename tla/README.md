# TLA+ models of Kubo

This directory holds TLA+ specifications of the parts of Kubo (`src/kubo`, an
IPFS node in Go) that carry its own logic, above all where several actors share
state, the configurations with which TLC checks them on small instances, and
TLAPS proofs of the safety properties the runs check, for every value of the
constants. `PROJECT.json` lists components,
runs, mutants, findings, hazards and theorems, and maps each definition to the
source lines it was translated from. Paths below are relative to `src/kubo`.

    tlc -workers 2 -config Storage.cfg MCStorage.tla
    tlapm GarbageCollectionProofs.tla

## 1. The system

### 1.1 Components

A Kubo process is either the daemon or a single command. Both open the
repository (`repo/fsrepo`), build an `IpfsNode` out of libraries (libp2p,
bitswap, go-mfs, the pinner, datastores) and serve commands through the core
API (`core/coreapi`). What the libraries do is outside the repository; what
Kubo adds is the way they are composed, locked, configured, started and stopped.

| component | state it keeps | operations | modelled in |
|---|---|---|---|
| Peering service, `peering/` | registered peers, a handler with a timer and a context for each, tags in the connection manager | Start, Stop, AddPeer, RemovePeer; notifications of connections; reconnect timers | `Peering` |
| Garbage collector, `gc/`, `core/corerepo/gc.go` | marked set, keys to delete, errors | GC, ColoredSet, best-effort roots | `GarbageCollection` |
| Block removal, `blocks/blockstoreutil` | the list that passed the pin check | RmBlocks | `GarbageCollection` |
| Pin API and pinning puts, `core/coreapi/{pin,block,object,dag}.go`, `core/commands/dag/import.go` | recursive and direct pins (in the pinner) | pin add, rm, update; put and pin; import | `GarbageCollection` |
| Adder, `core/coreunix/add.go` | its MFS root, its temporary pin, its lock | AddAllAndPin, maybePauseForGC, PinRoot | `GarbageCollection` |
| Stream mounting, `p2p/` | two listener registries, the stream registry, counts per peer | ForwardLocal, ForwardRemote, Close, stream close; two copiers per stream | `P2PStreams` |
| Repository on disk, `repo/fsrepo`, `repo/onlyone.go` | config, spec and version files, `repo.lock`, datastore, reference-counted entry of a process | Init, Open, Close | `FSRepo` |
| Configuration, `repo/fsrepo`, `config/serialize`, `core/commands/{config,bootstrap}.go`, `core/commands/pin/remotepin.go` | the config file, the shared `config.Config` object | Config, SetConfig, SetConfigKey; bootstrap, remote service, config, profile and replace commands | `RepoConfig` |
| Pin commands, `core/commands/pin/pin.go` | what a listing or a verification has seen so far | pin add, rm, update, ls, verify | `PinCommands` |
| Remote pins, `core/commands/pin/remotepin.go` | requests at a pinning service | pin remote add, ls, rm, service ls --stat | `RemotePins` |
| Repository commands, `core/commands/repo.go`, `core/corerepo` | result channels, workers, the limits | repo gc, verify, stat, periodic collection | `RepoCommands` |
| FUSE mounts, `fuse/mount`, `fuse/node` | two mounts of a node | mount, unmount, the node's close | `Mounts` |
| Keys and identity, `core/coreapi/{key,name}.go`, `core/commands/keystore.go` | keystore, Identity of the config | generate, import, export, rename, remove, rotate, list, publish's key search | `Keys` |
| Reading commands, `core/commands/{refs,cat,files}.go` | what was seen and counted | refs, cat, files read, files stat | `Reading` |
| Plugin loader, `plugin/loader` | loader state, started plugins | Load, Initialize, Inject, Start, Close | `PluginLoader` |
| Daemon life cycle, `cmd/ipfs/daemon.go`, `core/builder.go`, `core/corehttp/corehttp.go` | node, servers, collector, what is to be released | start, migrate, serve, shut down, signals | `Daemon` |
| Bootstrap supervisor, `core/bootstrap` | a periodic worker, `doneWithRound` | round, dial, close | `Bootstrap` |
| Remote pinning of the MFS root, `cmd/ipfs/pinmfs.go` | last pin per service | poll loop, one goroutine per service | `RemoteMFSPin` |
| Migrations, `repo/fsrepo/migrations`, `cmd/ipfs/add_migrations.go` | version file, downloads, a temporary node | find, fetch, run, keep | `Migrations` |
| Command-line front end, `cmd/ipfs/{main,init}.go`, `commands/context.go` | api file, identity, lock | choice of executor, client, fallback, init | `CommandLine` |
| MFS, `core/commands/files.go`, `core/node/core.go` | the tree in memory, its root, the root on disk | cp, mv, write, mkdir, flush, chcid, rm | `MutableFiles` |
| HTTP gateway, `core/corehttp/gateway_handler*.go` | none; the client's cache | GET, formats, ETags, `_redirects`, writable requests | `Gateway` |
| Host names, `core/corehttp/hostname.go` | none; the browser's place | known gateways, subdomains, DNSLink, redirects | `Hostname` |
| Routing, `routing/delegated.go`, `core/commands/{routing,dht}.go` | routers made so far; events of a query | Parse; the routing commands | `Routing` |
| Swarm, `core/commands/swarm.go`, `core/node/libp2p/rcmgr*.go` | filters and limits in use, in memory, on disk | filters add, rm; limits; connect, disconnect | `Swarm` |
| `ipfs add`, `core/commands/add.go`, `core/coreapi/unixfs.go`, `core/coreunix/add.go` | a bounded channel of events, the adder's lock, totals of the progress bar | AddCmd Run and PostRun, the adder's goroutine, `--to-files` | `AddCommand`, `AddProgress`, `AddEvents` |
| Peer log plugin, `plugin/plugins/peerlog` | a bounded queue, a count of losses | emit, collectEvents | `PeerLog` |
| HTTP API server, other commands, core API, node construction, datastore adapters, FUSE file systems, tar, observability, build, tests | none of their own, or a library's | parsing, one call, formatting | not, or in passing: see 5 |

### 1.2 How they interact

* The GC locker (an RWMutex of the block store) joins the collector and
  RmBlocks (write side) with the pin API, the pinning puts, import and the
  adder (read side). MFS commands, bitswap and unpinned puts take no lock.
* The daemon and its node both close the same repository. `OnlyOne` gives the
  callers of one process one `FSRepo` and counts references; `repo.lock` keeps
  other processes away, but not from `Init`.
* Every command of a process gets the same `config.Config` pointer from
  `Config()`. Some change it in place before `SetConfig` writes it.
* libp2p calls the peering service back on goroutines of its own and never
  waits for it. The stream registry is called by two copiers per stream and by
  commands.
* The daemon starts and ends everything else: its deferred calls, the stop
  hooks of the node, the HTTP servers and the collector wait for one another.
* The remote pinning loop and the swarm commands read and change the shared
  `config.Config` object too; migrations run before the repository is opened
  again and without its lock.
* Processes find each other by the api file and exclude each other by
  `repo.lock`; `ipfs init` uses neither.

* `ipfs add` runs its adder beside itself: the adder reports on a channel of
  eight places while it holds the lock a collection waits for.

### 1.3 What is hard, and what makes it correct

* Peering: callbacks, timers and dials run late and out of order, on handlers
  that may have been removed. Correct: never two live handlers for a peer,
  tags match the registry, no disconnect is forgotten, peers are reconnected.
* Garbage collection: pins, adds and fetches between mark and sweep, CIDs with
  different codecs for one block, an adder that gives its lock away in the
  middle. Correct: no step deletes a pinned block, verified pins stay
  complete, MFS content survives, nobody starves.
* Streams: the same teardown runs up to three times, concurrently. Correct:
  counts and tags are right, an unlisted stream forwards nothing, an ended
  stream disappears, no bound address gets lost.
* Repository: failures and crashes at each step, several processes, surplus
  closes. Correct: a datastore is open only under the lock, a holder is not
  closed by somebody else, the lock is released.
* Configuration: in-place changes, failing or torn writes, overlapping
  commands, restarts. Correct: the private key and unknown keys survive, the
  memory agrees with the file, a command has its own effect only.

* Pins, remote pins and repository commands: several calls, channels or
  goroutines behind one answer, cancellation and lost answers. Correct: the
  answer is about what there was while the command ran.
* Keys, MFS, migrations, init: a crash or another request between two writes.
  Correct: nothing that was acknowledged is lost, nothing runs out of order.
* Daemon, plugins, bootstrap, remote pinning, mounts: everyone waits for
  everyone, and anything may fail half way. Correct: a signal ends the daemon,
  nothing is left behind, the loops go on for ever.
* Gateway and host names: a path is resolved more than once while names change.
  Correct: what may be cached is what would be sent; one redirect, to the same
  content.
* Routing and swarm: shared variables between a goroutine and its command, and
  settings kept in three places. Correct: no event, error or address is lost,
  and a restart changes nothing.

`PROJECT.json` lists the hazards at their lines with the properties that cover them.

## 2. The modules

Each component has a module `X`. Proofs are in a module of their own: that of a
core component in `XProofs`, those of the components an `MC` module puts together in
`NodeProofs`, `RepositoryProofs`, `StorageProofs`, `ServicesProofs` and
`CommandsProofs`.
The `MC` modules give definitions for constants. Five of them (`MCNode`,
`MCStorage`, `MCRepository`, `MCServices`, `MCCommands`) check several components in one
run: a variable, chosen at first and never changed, says which component acts,
so that the states of the components add up and do not multiply, and each
component is seen exactly as it would be alone. Their operations carry a prefix
(`Pn`, `Rr`, `Rc`, `Mn`, `Ky`, `Rf`, `Ct`, `Wk`, `Pl`, `Dm`, `Bs`, `Rp`, `Mg`,
`Cl`, `Mf`, `Gw`, `Hn`, `Rt`, `Qc`, `Sw`, `Ar`, `Ac`, `Pb`, `Lg`) where names would clash. An action stands for
one critical section, or for what a goroutine does between two accesses to
something another actor can see. `X_Y` operators placed before a definition
`X` are mutated forms of it, used to see that each property can fail; they are
not part of the specification. A component's invariant (`RrSound`, `GwSound`, ...)
is a conjunction of its type invariant and named parts, each of which has a
mutant of its own.

### 2.1 Peering

| state | code |
|---|---|
| `state`, `peers` | `PeeringService.state`, `.peers` (under `ps.mu`) |
| `notifying`, `stopping` | registration with the network's notifier; Stop between StopNotify and the lock |
| `protected` | peers tagged through `connmgr.Protect` |
| `owner`, `addrs`, `cancelled`, `timer` | `peerHandler.peer`, `.addrs`, `.ctx`, `.reconnectTimer` |
| `dials`, `starts`, `stops` | goroutines that were started and have not finished, per handler and kind |
| `connected`, `pendConn`, `pendDisc`, `flaps` | the libp2p network: connectedness, notifications under way, environment changes so far |

`Start`, `StopNotify`/`StopHandlers` (Stop is two steps, as it releases the
notifier before it takes the lock), `AddPeer`, `UpdatePeer` (AddPeer of a known
peer), `RemovePeer`; `ConnectedEvent`, `DisconnectedEvent` (netNotifee);
`startIfDisconnected`, `stopIfConnected`, `reconnect` with the two results of
the dial. Handlers are identities of their own because a removed one stays
reachable from its timer and goroutines. The back-off's length is left out.

### 2.2 GarbageCollection

| state | code |
|---|---|
| `blocks` | the block store, by multihash |
| `rpins`, `dpins`, `unverified` | the pinner's indexes; recursive pins nobody vouched for (put and import pin what may be incomplete) |
| `mfs` | the root of the MFS |
| `readers`, `rwait`, `wwait`, `announced`, `writer` | the GC locker's RWMutex: read side, waiting readers and writers, the writer that announced itself and blocks new readers, the writer |
| `pc`, `bestEffort`, `marked`, `errors`, `keys`, `added` | local variables of a collection, a removal and an adder |

A collection reads its best-effort roots, asks for the lock, colours the
recursive pins, the best-effort roots and the direct pins (the pinner has no
internal pins), then deletes keys one at a time, in any order; a deletion may
fail and the sweep goes on, while an error of a walk stops it before the sweep,
and the context may be cancelled at any point. `RmBlocks` filters the
pinned CIDs once and deletes one at a time. Clients do one operation of the pin
API or a put per lock. An adder writes a file's blocks and updates the root
(`AddBlock`, `AddFile`), gives the lock away when GC is requested (pin the
root, unlock, lock) and ends with `AddFinish` or `AddFail`. `Fetch` and
`MfsUpdate` are what happens without a lock.

### 2.3 P2PStreams

`remotes`, `listed`, `closing`, `bound`, `lstage`: the two listener registries,
the sockets and where each call of ForwardLocal is. `streams`, `conns`,
`tagged`: the stream registry. `stage`, `local`, `remote`, `closer`: how far a
stream's set-up is, its two ends, and the three that may end it (two copiers
and `p2p stream close`). `Handle`/`handleStreamOk`/`handleStreamFail` is the incoming
direction, `Accept`/`setupStream` the outgoing one. `CopyEnd`,
`CloseEnds`, `Deregister` are the three steps of an end.

### 2.4 FSRepo

`config`, `spec`, `version`, `fslock`: the files; `ds`: open datastores;
`active`, `refs`: OnlyOne's entry of a process and `ref.refs`, modulo `RefMod`;
`op`, `subject`, `client`, `conf`: what a process is doing under its mutexes;
`handle`, `closes`: what each caller got and still owes. Init writes
three files, where the check for the config file and for the spec file is apart
from the write; open takes the lock, checks version and spec, opens the datastore, then the
keystore; the last RefClose closes the datastore, then the lock. Each step may fail
as the code lets it, and a process may crash at any step, which frees its lock
and closes its datastores.

### 2.5 RepoConfig

`file` (possibly `Torn`), `lastWrite`; `cfg` and `mem`: the `config.Config`
objects, and which one `FSRepo.config` points to; `cmd`, `pc`, `ref`, `local`:
a command, its progress, and the pointer and list it holds. A configuration has
one field for each way a key is merged (the private key, a list, a map, an
omitempty key, a key the struct does not know). SetConfig is one step:
read the file, merge, write, publish the new object. `bootstrap` and
`pin remote service` change the shared object before that; `config`, `config
replace` and `profile apply` work on a copy or on the file. `base` is a ghost: the
file when a command began, as long as it ran alone.

### 2.6 RepoGuard, an abstract specification

`holder` and `serving`: one process at a time may work on the repository; it
may publish it to its callers, must withdraw it before it leaves, and may die.
`FSRepo` implements it: `holder` is the owner of `repo.lock` and `serving` the
processes with an entry in OnlyOne (`GuardedAccess == Guard!GuardSpec`), checked
in the run `fsrepo` and proved in `FSRepoProofs.Guarded`.

### 2.7 Local and remote pins, repository commands, mounts

`PinCommands` has the commands argument by argument. `pinLsAll` reads the
recursive and the direct pins one after the other and then walks; `pinVerify`
goes block by block with a memo. Beside each command a ghost records which pins
and blocks were there all the time and which at some time; the answers are
compared with that. `RemotePins` is the same against a pinning service that
works on its own and whose calls may fail after they took effect.
`RepoCommands` has the channel between a collection and its command (with
`CollectResult`'s select), the workers of verify, the count of stat, and the
watermark arithmetic modulo `Word`. `Mounts` has the two goroutines of
`doMount`, mounts that become ready after their time-out, unmounts by others and the
closing node.

### 2.8 Keys and reading

`Keys` has each call of the keystore as a step, a process that may die between
any two, and a daemon with concurrent requests or single commands without one.
`Reading` has the stack of `writeRefsRecursive`, the readers `cat` makes, the range
`files read` cuts, and the stack of `walkBlock` over blocks that come and go.

### 2.9 The services of a daemon

`Daemon` is `daemonFunc` from the command line to its last deferred call, with
the servers, the collector, the node's stop function and signals as actors of
their own; it extends `PluginLoader`, whose Start and Close it calls.
`Bootstrap` has both workers and the channel between them, rounds that plan
first and dial later. `RemoteMFSPin` has the three readings of the map of services in one
round, jobs that outlive it, answers that get lost, and the commands that
change the map.

### 2.10 Requests

`Migrations`: which binaries are needed, concurrent downloads over several
sources, the temporary node, running, crashes, keeping. `CommandLine`: the api
file, client and fallback, init, deaths. `MutableFiles`: the tree thrice (in
memory, in the root, on disk), flushes, the republisher, crashes. `Gateway`:
a GET step by step with a name that is published meanwhile and a client that
caches. `Hostname`: HostnameOption as a function of host, path and lookups, and
a browser that follows it. `Routing`: `parse` with its stack, and a query's
goroutine, buffered events and error variable. `Swarm`: filters and limits in
three places, and the goroutines of `resolveAddresses`.

### 2.11 `ipfs add` and the log of peers

`AddCommand` has the loop of `AddCmd.Run` over its arguments, the goroutine of
each with the steps of the adder that report or touch the lock, the channel
between them, a client that goes away and a collector. `AddProgress` has the
three goroutines of the command line: one takes events from the response, one
prints them and moves the bar, one finds out the size. `AddEvents` has the events
of both, and what a sequence of them amounts to: the names of what was added, and the
bytes read, which are the last count of every file. A response is any stream
in which the count of a file does not go down and files that follow each other differ
in name (`ProgressAssumption`), which is what the node sends: `progressReader` counts up
and every argument and file is added once. An argument that is no directory has one file
(`AddAssumption`). `PeerLog` has emitters
that never wait, the two steps in which they count a loss, and the loop that
logs, sleeps, drains and reports.

## 3. What is checked

| run | instance | distinct states | shows |
|---|---|---|---|
| `node` | 1 peer, 2 handlers, a good and a bad address list, 2 flaps; an add of a file and a directory with a channel of 2; a queue of 8 and 11 events | 72,042 | one live handler, tags match, no disconnect forgotten, and a registered, reachable peer is reconnected again and again; an add reports everything and gives up its lock, the command line comes back, no event is unaccounted for |
| `gc_concurrent` | 1 collector, 1 remover, 1 client and 1 adder of two files that pauses for GC, MFS changing | 67,200 | adder's pins are complete, MFS respected while undisturbed, no starvation, no deadlock |
| `storage` | the collector with writes without a lock and two codecs for one block; 2 pin clients; 2 remote pin clients; 3 blocks and 2 workers; limits of 1, 2 and 6; 2 mount clients | 731,910 | no pinned block is deleted, verified pins are complete, reports are true, both mounts or none |
| `fsrepo` | 2 processes, 3 callers (one closes twice, two share a process), 3 openings, 2 specs, every fault | 126,817 | lock, datastore and reference counts stay consistent, the lock comes free, RepoGuard is implemented |
| `repository` | 2 goroutines and 4 configuration commands with every write fault; 2 key clients, 2 names, 3 keys; 5-node DAG; files of up to 3 bytes | 1,114,205 | private key, unknown keys and stored keys kept, memory agrees with the file, own effect only, reads are right |
| `services` | 2 streams; a daemon with 2 plugins; 3 bootstrap peers, threshold 2; 2 pinning services, 2 roots | 253,627 | streams end, a signal ends the daemon and nothing is left, bootstrapping goes on, the last root gets pinned |
| `commands` | 2 streams and 2 listeners; 2 migrations and a crash; 3 processes; 2 MFS clients; 2 sites, 2 publications and 3 formats; 4 gateways; 3 routers; 2 swarm clients | 940,184 | see the invariants `P2PSound` to `SwarmSound` |
| `peering_stranded`, `gc_mfs_lost`, `gc_rm_alias`, `fsrepo_close_twice`, `fsrepo_init_crash` | small | violated | see 3.2 |

Each run's properties, by component:

* `PeeringSound`, `LiveHandlerIsRegistered`, `DisconnectNotLost`, `Maintains`;
  `AddAndLogSound`, `AddAndLogEnd` (add, peer log).
* `PinnedKept`, `PinsComplete`, `MfsRespected`, `NoStarvation` (collector),
  `PinsSound` (pins stay complete; `pin add`, `rm`, `ls`, `verify` report what
  was so), `RrSound` (remote pins), `RepoAndMountsSound`, `RcReports` (repo
  commands, mounts).
* `LockDiscipline`, `UsableWhileHeld`, `LockReleased`, `LockComesFree`,
  `GuardedAccess` (fsrepo).
* `ConfigSound`, `MemoryIsFile`, `UserKeysKept`, `OwnEffectOnly`
  (configuration), `KySound`, `KyKept` (keys), `ReadsRight` (reading).
* `ServicesSound` (plugins, daemon, bootstrap, remote pinning), `DmSignalEnds`,
  `BsReconnects`, `RpPinned` (remote pinning), `TornDown` (streams).
* `P2PSound`, `MgSound`, `ClSound`, `ClIdentityKept`, `MfSound`, `GwSound`,
  `HnSound`, `RoutingSound`, `SwarmSound`.

Where the code breaks a promise only under a condition, the property names the
condition (`rpGrew`, `kyOverlap`, `swMixed`, `clTwoInits`, ...): the condition is
a ghost that records that it happened, so that the property says exactly how far the
code's order of steps carries.

### 3.1 Bounds, and why they are enough

* Peering: handlers of different peers share nothing but `ps.mu`, so one peer
  shows the races within a handler and two handlers those of a removal followed
  by an addition. `MaxDials` and `MaxStops` bound goroutines that the code does
  not bound; the safety theorems have no such bound.
* Garbage collection: the DAG has a shared leaf, a three-level chain and an alias
  (`rawFile` names the block of `file` with the raw codec). One process of each
  kind gives every pair; writers exclude each other by the lock.
* Streams: two streams of one peer are what the per-peer count needs (it goes
  1, 2, 1, 0); two local listeners contend for one address. A stream has all its three
  enders.
* FSRepo: two callers of a process overlap, close in either order and reopen;
  the second process contends for the lock. `RefMod` is 8 in place of 2^32: what
  matters is that it exceeds the number of closes owed, so that a counter that
  wrapped around below zero does not reach zero again (`FSRepoAssumption`).
* RepoConfig: two goroutines are enough for a stale read or a lost update;
  objects that nobody refers to are reused, so three suffice; four commands
  allow a fault, its aftermath and a command that runs alone.

* Pins, remote pins, repository commands: a reader against a writer gives
  every change between two of its steps; three blocks with one pinned let two
  workers share the keys. `Word` is 512 so that the product of the watermark
  overflows for the largest `StorageMaxes`.
* Mounts: two commands and two mount objects; both file systems each time.
* Keys: two names and three keys allow an overwrite and a rotation; two clients
  overlap.
* Reading: a chain with a shortcut reaches a node at two depths; every offset
  and length around the ends of up to three files.
* Services: a failure of each kind, three bootstrap peers for a threshold of two,
  two services of which one may be added and removed.
* Add: more events than places in the channel, so that the adder waits; a file
  of several reads and a directory with a link. Peer log: an eighth of a queue of 8 is
  one event, and 11 events overflow it by three.
* Gateway: a name that is published twice while one request is served is another
  one than at each of three resolutions, so that every mixture of old and new happens;
  the formats are one that is rendered, one that is encoded and one that is streamed.
* Commands: two migrations so that a crash can fall between them; three
  processes so that one meets the remains of another while a third comes; a DNSLink
  name and CIDs that fit a DNS label in one, several or no encodings; two roots
  that share a key, more events than the channel buffers.

Deadlock is checked in `storage` (where only the collector and its clients
must never come to rest) and `gc_concurrent`. The other systems may come to
rest when the bounds are used up or no operation is started, so
`CHECK_DEADLOCK FALSE`.

Assumptions about the environment, each a constant:

* `EarlyDrop = FALSE` (`node`): a connection does not close before the
  goroutines its opening started have run. Without it `Maintains` fails
  (`peering_stranded`); safety is proved for either value.
* `UnlockedDuringGC = FALSE` (`gc_concurrent`): neither MFS commands nor
  blocks without a lock come in the middle of a collection, without which
  `MfsRespected` fails (`gc_mfs_lost`). Pins are checked with `TRUE`. A client of
  this run never unpins the intermediate root of an adder.
* `RmUnambiguous` (a hypothesis of the GC theorems): what is given to `block rm` has
  no alias under another codec, without which `PinnedKept` fails (`gc_rm_alias`).
* `Twice` (`FSRepo`): callers that close twice. In `fsrepo` the one that does
  has a process for itself; sharing it breaks `UsableWhileHeld`
  (`fsrepo_close_twice`).

### 3.2 Disagreements between code and documentation

1. `peering_stranded`: "reconnecting on disconnect" (`peering/peering.go:165`).
   After a dial that succeeded, `reconnectTimer` is still the expired timer
   until stopIfConnected runs. If the connection drops before that,
   startIfDisconnected finds a timer and arms none, and stopIfConnected finds no
   connection and clears none: the peer is not dialled again.
2. `gc_mfs_lost`: "All files and folders within MFS are respected"
   (`core/commands/files.go:46`). The MFS root is read before the GC lock is
   taken, and MFS commands take no lock.
3. `gc_rm_alias`: RmBlocks "will skip any pinned blocks"
   (`blocks/blockstoreutil/remove.go:35`). The pin check compares CIDs, the
   block store is keyed by multihash.
4. `fsrepo_close_twice`: "It can't hurt to close it twice"
   (`cmd/ipfs/daemon.go:357`). The second close uses up the reference of
   another caller in the process.
5. `fsrepo_init_crash`: "IsInitialized returns true if the repo is initialized"
   (`repo/fsrepo/fsrepo.go:718`). A crash after the first file is written
   leaves a repository that counts as initialized and cannot be opened.

Met while modelling, without a run of their own:

* `files stat` does not make a write durable, though the help of `files write`
  names it; `--flush=false` is undone by `files flush` only (`MutableFiles`).
* A command that must run on the daemon runs locally when the api file is stale
  (`CommandLine`, the client's fallback).
* `RunMigration` migrates the default directory when it is not told one; `repo
  migrate` does not pass `--repo-dir` on and leaves the repository it opened unclosed.
* `_redirects` rules answer when a path could not be resolved for a while;
  a CAR or TAR stream that breaks off has been sent with headers that let it be kept for ever;
  a directory that has an index.html is listed, under the ETag of its listing, when
  the name moved to a version without one while it was served, and a later request is told
  that this is not modified (found by the proof of `GwSound`)
  (`Gateway`, the exceptions in `GwNotModified` and `GwImmutable`).
* A Host taken from `X-Forwarded-Host` can be redirected round in a loop (`Hostname`,
  the exception in `HnOneRedirect`).
* `dht query` without a DHT fails on a typed nil; `swarm limit all` asks the
  system scope for the transient one; a limit of 0 means unset after a restart.
* `refs --unique` marks a CID before it got it: after a failure it is missing
  under the next root too (comment at `refs.go:219`).
* `pin ls` can miss a direct pin that becomes recursive between its two readings;
  the command leaves the API's goroutine behind when it ends early (comment
  at `coreapi/pin.go:260`); a cancelled `repo stat` returns a partial count.
* A client of `ipfs add` that goes away can leave the adder behind, waiting on its
  full channel with the pin lock held: no collection and, behind a waiting one, no
  further add or pin goes on (`AddCommand`, `AcStuck`, the exception in `AcCollects`).
* `ipfs add --silent` still reports directories; `--only-hash` with `--to-files`
  looks for the node on the network (`AddCommand`).
* The peer log may keep a loss to itself until the next event, when it is counted
  after the queue was emptied (`PeerLog`, hence the queue in `LgReports`).
* `Unmount` "just in case" in `NewMount` does nothing: the mount is not active yet.
* Overlapping requests can lose a key (`key rename`), filters (`swarm filters`) and
  bootstrap peers; a service removed from the configuration returns with a restart.

### 3.3 Fairness

* Go's scheduler runs every goroutine that can run, and timers fire: weak
  fairness for goroutines, timers and steps of an operation that has begun.
* Go's RWMutex and Mutex are handed to a waiter that starves: strong fairness for
  announcing a writer (`GCAnnounced`) and for getting at OnlyOne's mutex
  (`RefClose`).
* Of infinitely many dials to an address that works one succeeds: strong
  fairness of `ConnectOk` for reachable addresses.
* A read from a closed end returns: weak fairness of `CopyEnd` with its source
  closed. A stream whose ends stay open may run for ever.
* A caller closes what it opened (`defer`).
* A select takes each of its ready cases some time: strong fairness of
  `CollectEnds` (`PeerLog`). A response of the node goes on or ends (`PbFairness`);
  fetching a node that `--only-hash` did not store need not (`AcFairness`).
* The daemon's goroutines, its stop hooks and the servers run when they can
  (`DmFairness`); a collection ends once its context is cancelled, which is what
  the signal does. Tickers tick, and the time of a dial or a call is limited, so
  rounds and jobs end (`BsFairness`, `RpFairness`). Of the environment only
  the passing of `RepinInterval` is fair.
* Nothing forces a user to start an operation, the network to connect, a write
  to fail or a context to be cancelled.

## 4. What is proved

Every safety property that a passing run checks is proved, for all values of the
constants under each module's named assumption. Every proof has an inductive
invariant that implies the properties, one lemma or step per action, and a last temporal
step. The proofs about an `MC` module are about what it puts together: its
specification implies that of each component, since a part that does not act
stutters, so each component's theorem, stated of its own initial states and
steps, carries over (`NodeHolds`, `PinsHold`, `RequestsHold`, ...).

| module | theorems | why the invariant is stronger than the property |
|---|---|---|
| `NodeProofs`: peering | `Sound` (types, protection), `OneLiveHandler`, `NoDisconnectLost`, `NodeKeepsPeering` | a goroutine of a handler must look at the peer it is registered under (`OwnerAgrees`), and a running service must hear of a disconnect (`RunningIsNotified`) |
| peer log | `NothingUncounted` | the collector has nothing left to report when it reads the counter again (`LogInv`) |
| add | `AddTellsAll` | what was sent and what the channel holds is what belongs to the arguments before, and to the present one up to the adder's place (`AcTold`); where the adder, the command, the lock and the client can be together (`AcShape`); what `--to-files` has put (`AcPutThere`) |
| add, command line | `ShownIsAdded`; both in `NodeHolds` | what was taken from the response and what is left is one stream; the bar knows the last count, the sum before it, and so the total (`PbCounted`) |
| `GarbageCollectionProofs` | `TypeCorrect` (with the exclusion of the locker), `PinnedSafe` | what the deletions rely on was computed in earlier steps: the marked set covers the pins and the keys avoid them (`MarkInv`), which holds because the write side excludes the pinning operations (`LockInv`) |
| | `PinsStayComplete` | an adder's blocks stay by its lock, and by the root it pinned while it has given that away (`PinInv`) |
| | `MfsStays` | a collection has read the root MFS still has, and what it leads to is marked before the sweep (`MfsInv`) |
| `P2PStreamsProofs` | `Sound`, from `CountsRight`, `UnlistedIsClosed`, `AddressesKept` | the peer of a registered stream is fixed (`StageInv`), who deregisters has closed both ends (`EndsInv`), a listed listener has its socket alone (`SocketInv`); three lemmas on cardinalities carry the counts |
| `FSRepoProofs` | `Invariance`, `Disciplined`, `NoLockLeft`, `HeldIsUsable`, `Guarded` (the refinement of RepoGuard) | the count of a live entry is bounded by the closes still owed, as a finite set of pairs (`ActiveInv`), and one that was forgotten cannot come down to zero again (`CountInv`) |
| `RepositoryProofs`: configuration | `Sound` (types, private key), `QuietAgrees`, `UserKeys`, `OwnEffect`, `RepositoryConfigHolds` | memory may differ from the file only while somebody holding the object in use is still to write (`Synced`); every object has the key (`KeyEverywhere`); the object of a command that runs alone differs from the file it began with by what the command has done so far (`Alone`) |
| keys | `KeysSound`, `KeysAreKept`, `RepositoryKeysHold` | what a request has read or written is still there while no other overlaps it (`KeysInv`) |
| refs | `RefsWriteWhatIsBelow` | whatever is wanted is written or lies below a link that is left (`RfComplete`); with `--unique`, each link of a node that was seen at a depth has been followed as near to the root, or is left that near (`RfPruned`), which is what makes it safe to prune by depth |
| cat | `CatCutsWhatIsAsked` | up to the next file, offset and length add up to the bytes the files before it have (`CtReading`) |
| files stat | `StatCountsWhatIsLocal`; all three in `RepositoryReadsHold` | each frame of the walk has counted the links it is through with, the one that waits all but the link it follows (`WkFrameOK`) |
| `StorageProofs`: mounts | `MountsSound`, `RepoAndMountsHold` | a closed mount is stuck or unmounted, and each object has its file system to itself (`MountsInv`) |
| repository commands | `RepoCommandsSound`, `RepoCommandsReport`, `RepoReportsHold` | each key is with the feeder, a worker, the results or the count, once (`GcInv`, `VerifyInv`, `StatInv`), as sets counted by cardinality |
| remote pins | `RemotePinCommandsSound`, `RemotePinsHold` | what a listing has passed, and what a request in doubt may have done (`RemotePinsInv`) |
| pins | `PinCommandsSound`, `PinsHold` | a frame of the verification's stack is right about the links it is through with, as is a memoized status, for a DAG that changes below them (`PinsInv`) |
| `ServicesProofs` | `DaemonLeavesNothing`, `BootstrapAfterRound`, `RemotePinningSound`, `ServicesAreSound` | what is to be released is released by exactly one of the deferred calls and hooks still to run (`EarlyInv`, `LateInv`); the room in the map of services and its three readings (`RemotePinInv`) |
| `CommandsProofs`: swarm | `SwarmHolds`, `SwarmRequestsHold` | memory, configuration and file differ by what the one command that changes them has not done yet (`FiltersOK`, `LimitsOK`); what has become of each address (`ArInv`) |
| command line | `CommandLineSound`, `IdentityKept` | no two inits write unless two overlapped, and each made its identity itself (`ClInv`) |
| MFS, migrations | `FilesSound`, `MigrationsSound` | what was flushed and not changed since is in the root (`Kept`); a migration that is needed has its binary or a download under way (`MgFetching`) |
| gateway, host names | `GatewaySound`, `HostnameSound` | the tag and the content of a response are of one node (`GwInv`); what a redirect leads to is canonical (`HnInv`) |
| routing | `RoutersSound`, `QueriesSound`, `RoutingHolds` | the stack of `parse` is a path of routers that wait for one another, and what is visited and not made is on it (`RtInv`); events published, buffered and shown, in this order (`QcInv`) |
| | `RequestsHold` | all of these, and the streams of `P2PStreams`, in one front |

Hypotheses beyond the constants' assumptions: `RmUnambiguous` for `PinnedSafe`;
`RmUnambiguous` and `RootsStay` (nobody unpins the root an adder has pinned for its pause)
for `PinsStayComplete` and `PinsHold`; `UnlockedDuringGC = FALSE` for `MfsStays`; `Twice = {}`
for `HeldIsUsable`. Every instance but the ones that show the findings satisfies
them, and the findings show that they are needed.

The constants' assumptions say what the code makes of its inputs: `AddAssumption` and
`ProgressAssumption` (2.11); a name for nothing that nothing has ("none" is no process and
no file); finite sets of keys, blocks, peers and workers; at least one worker, site,
format and destination; two requests or more where one follows another; disjoint kinds of host names;
the methods of a composed router are routers, and no other router has any; a finite DAG
some height of whose nodes falls along each link, since a CID is a hash of what it links to
(`ReadingAssumption`).

No module declares a RECURSIVE operator. Walks of a DAG, and what a router
depends on, are intersections of closed sets, about which facts are proved without induction.
What is summed up along a sequence (the names of events, the bytes read, what is
told of the arguments) or down a DAG (what lies within a depth, `RfBelow`, and the size below a
node, `WkSum`) is a recursive function. `NodeProofs` and `RepositoryProofs` prove that its
equations have a solution (`Recursion`, `SumExists`) and, where it matters, one only (`UpTo`),
by a least counterexample, and from there what one event, one link or one level more does to it
(`NamesOfOneMore`, `BytesOfOneMore`, `NeededSplit`, `PartIs`). The height of the nodes bounds
the stacks of `refs` and `walkBlock`, so that a walk without a depth is one of a depth that
is as large as the DAG.

Only model-checked is liveness (`Maintains`, `NoStarvation`, `TornDown`, `LockComesFree`,
`AddAndLogEnd`, `DmSignalEnds`, `BsReconnects`, `RpPinned`): fairness and ENABLED are out of
this prover's reach.

## 5. What is left out, and why

* Commands that parse arguments, make one call of the core API and format its
  answer (`block`, `get`, `ls`, `dag`, `object`, `name`, `pubsub`, `resolve`, `stat`, the listing
  `swarm`, `p2p`, `config` and `bootstrap` commands), and the HTTP API's encoding: they keep no
  state, and what the calls below them change is modelled where it belongs.
* The wiring of constructors by fx, the options a configuration selects, and the
  routers, datastores, pinner, go-mfs and bitswap behind it: libraries.
* The callbacks of the mounted FUSE file systems: they translate kernel requests to
  go-mfs and the core API one to one. (`Rename` in the IPNS file system unlinks before it
  adds and can lose a file; it is not modelled.)
* Chunking and layout of files, the output of add, tar import, metadata,
  listings' HTML, header texts, byte ranges of HTTP, profiles, traces, metrics.
* A spec file or a version file written in part (the config file can be torn in
  `RepoConfig`). Order and duplicates in the bootstrap list.
* Lengths of time: timers and back-offs fire in any order.

## 6. Plan

1. A second refinement: `GarbageCollection` implements a store of which nothing
   protected is removed.
2. The node's own list of routers (`core/node/libp2p/routing.go`) and the FUSE
   IPNS file system, if a property about them is found that their libraries do
   not decide.
