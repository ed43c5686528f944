# A TLA+ model of village-net

village-net is a set of CNI plugins: a `village` plugin that gives a container a
veth on a bridge and a macvlan, IPAM plugins that give out its addresses
(`host-local`, `dhcp`, `static`, `village-ipam`), chained plugins (`portmap`,
`firewall`, `tuning`, `bandwidth`, `sbr`, `vrf`), and a controller that will
route between nodes. A plugin is a process that the container runtime starts for
one command (ADD, DEL, CHECK) of one attachment, an interface of a container on
a network, and that it may kill at any time. What the processes share is a
directory of files, a daemon, or the kernel's tables. That is where the hard
behaviour is, and what the modules here describe.

## Inventory

| Component | State | Operations | Interacts with | Hard behaviour | Correct when |
|---|---|---|---|---|---|
| `plugins/ipam/host-local` | one file per reserved address; `last_reserved_ip.<n>` per range set; a flock | ADD: `Get` per range set with rollback; DEL: `ReleaseByID` | run by `village`; other processes through the directory | kills between file operations, a flock whose error is ignored, partial failure, the search's end | a reported address stays reserved until DEL; DEL leaves nothing; the search ends and finds a free address if there is one; round robin |
| `plugins/ipam/dhcp` | the daemon's map of leases; one goroutine per lease | RPC `Allocate`, `Release`; `maintain`: renew, rebind, expire, stop | plugin processes by RPC; a DHCP server | handlers that outlive their callers, timers, lost messages, retries | DEL ends maintenance; a lease is backed by the server; expiry is noticed; calls return |
| `plugins/main/village` with `pkg/bridge/ctrl.go`, `pkg/macvlan`, `pkg/ip`, `pkg/ipam` | interfaces of the namespace, nat chains and jumps, the IPAM plugin's addresses | ADD with two deferred undos; DEL | runs the IPAM plugin; netlink; iptables | failure at any step, undo of a half made attachment, repeated DEL, vanished namespaces | what ADD reported is complete; DEL cleans everything; failed ADDs give addresses back |
| `pkg/bridge/bridge.go` | the bridge, its ports, addresses, hardware address, VLAN interfaces | `ensureBridge`, `setupVeth`, `ensureVlanInterface`, `ensureAddr` | all ADDs of a node | list-then-change races, stale attributes, kills | gateways stay; overlapping addresses come from simultaneous ADDs only; the hardware address settles |
| `pkg/controller`, `pkg/node`, `pkg/metadb` | node records in etcd, routes of each node | `InitNodeInfo`: Get, Update, Put; `SyncRoute`: list, `SyncNodeRoute`, watch | etcd, the API server, other nodes | a watch that sees nothing, stale routes, restarts, refused updates | what a node listed is routed or an error is logged; two nodes do not both miss each other |
| `plugins/ipam/village-ipam`, `pkg/controller/ippool.go` | a ConfigMap of addresses; an RPC stub | `AssignIp`, `DeleteIp` | the API server | conflicting updates, late writes, exhaustion | an address has one container; `DeleteIp` forgets |
| `plugins/ipam/static` | none | returns its configuration | – | – | – |
| `plugins/meta/portmap` | chains and rules of the nat tables, `route_localnet`, conntrack | ADD, DEL, CHECK | all attachments through the shared chains; the kernel | check-then-insert, rules one by one, DEL without a result, conntrack entries of before | a port leads to its attachment, in time, and to nobody after |
| `plugins/meta/firewall` | a chain of the filter tables, or zones of firewalld | ADD, DEL, CHECK | the same | the shared chain, failing ADDs, two backends | traffic of the ready is let through; the administrator comes first |
| `plugins/meta/bandwidth` | qdiscs, an ifb device | ADD, DEL, CHECK | netlink | half made devices, removal by name | rates hold; no device is left |
| `plugins/meta/tuning` | a backup file, sysctls, attributes of the interface | ADD, DEL, CHECK | the file, netlink | a file that is cut off, dropped errors | the attributes are restored |
| `plugins/meta/vrf` | VRF devices, masters, routing tables | ADD, DEL, CHECK | interfaces of one container | list-then-create, list-then-delete, lost IPv6 addresses | members stay members; tables are apart; the last one cleans up |
| `plugins/meta/sbr` | rules and routes of a namespace, a lock on its file | ADD, DEL | interfaces of one container | table choice, moving of routes, DEL by addresses | each address is routed by its own table; no rule is left |
| `cmd`, `plugins/sample` | none | stubs | – | – | – |

`PROJECT.json` lists every component with its status, and every hazard with the
line where it bites.

## Modules

| Module | What it is |
|---|---|
| `AddressPool` | the abstract specification of an IPAM plugin: whole results appear and disappear at once, and no address has two holders |
| `HostLocal` | the host-local plugin, one action per file operation, lock or decision |
| `HostLocalProofs` | theorems about `HostLocal` |
| `DHCPDaemon` | the DHCP daemon, its handlers and goroutines, the plugins that call it and a server |
| `DHCPDaemonProofs` | theorems about `DHCPDaemon` |
| `Village` | ADD and DEL of the village plugin over an abstract IPAM plugin (it instantiates `AddressPool`) and the kernel's tables |
| `VillageProofs` | theorems about `Village` |
| `BridgeGateway` | the bridge that concurrent ADDs share |
| `BridgeGatewayProofs` | theorems about `BridgeGateway` |
| `NodeRoutes` | the controllers of all nodes, etcd and the API server |
| `NodeRoutesProofs` | theorems about `NodeRoutes` |
| `VillageIpam` | the ConfigMap client of village-ipam; it implements `AddressPool` |
| `VillageIpamProofs` | theorems about `VillageIpam` |
| `PluginChain` | how the runtime runs the chained plugins of a network: order, results, kills, failing calls |
| `Iptables` | the tables of iptables, one action per command of `pkg/utils/iptables.go` and go-iptables |
| `Portmap`, `Firewall`, `Bandwidth` | plugins that change the host, on top of `PluginChain` (the first two through `Iptables`) |
| `HostChain` | composes these three with the runtime and with traffic |
| `HostChainProofs` | theorems about `HostChain`, and so about `Portmap`, `Firewall` and `Bandwidth` |
| `Tuning`, `Vrf`, `Sbr` | plugins that change the namespace, on top of `PluginChain` |
| `NetnsChain` | composes these three with the runtime |
| `NetnsChainProofs` | theorems about `NetnsChain`, and so about `Tuning`, `Vrf` and `Sbr` |
| `MC*` | values of the constants for TLC |

Definitions named "Variant" in a comment are plausible mistakes in the code. No
specification uses them; each shows, put in the place of the definition that
follows it, that some property can fail.

### HostLocal

An attachment names its plugin process, because the runtime runs at most one
command per attachment at a time. `files[ip]` is the content of the file of an
address: nobody's (`NoFile`), created and not yet written (`EmptyFile`), an
attachment's (container id and interface name), or a container's (written by a
previous version, which knew no interface names). `last` is the content of
`last_reserved_ip.<n>`, `lock` the holders of the flock. `pc`, `n`, `req`,
`want`, `iter`, `got` and `walk` are the local variables of the process. `held`
and `added` are what the runtime knows: the addresses reported to it until it
issues the DEL, and whether an ADD was issued with no successful DEL since.

`BeginAdd` … `WriteLast` follow `cmdAdd` → `Get` → `GetIter`/`Next` → `Reserve`;
every system call that another process or a kill can separate from the next is
an action: creating the file, writing it, truncating `last_reserved_ip`,
writing it. `EnterRelease`, `WalkRemove`, `WalkEnd` follow `Release` →
`ReleaseByID` → `ReleaseByKey`, for a DEL and for the rollback of an ADD.
Addresses are numbers, so that `NextIP` is `+ 1`; ranges and gateways are as
`Canonicalize` leaves them, and the checks of `LoadIPAMConfig` are assumptions
on the constant `Ranges`. The constants `MayCrash`, `LockMayFail`, `IOMayFail`
and `StrictRuntime` say what may go wrong.

### DHCPDaemon

`lease` holds the `DHCPLease` objects with the state of their goroutine; `at`
tells the top of `maintain`'s loop from its `select`. Time is abstracted to
`age`, which of a lease's times has passed; it may skip one, so renewal and
rebinding time can be in either order, as `commit` allows. `call` holds the RPC
handlers; `Kill` makes the calling plugin disappear (`live` becomes false) and
leaves the handler running. An exchange with the server, with all its retries,
is one step that succeeds or fails, and when it fails the server may have bound
an address. The server offers a client its existing binding, and ends a binding
when the leases on it have expired or it is released. `Lease` and `Call` bound
how many objects and handlers there are at a time; an object is used again when
nothing refers to it.

### Village

`cmd[c]` is the plugin process of a container, at the step it takes next.
`ifName` is `args.IfName`: since every controller shares `args`, the assignment
of `"mv0"` in `cmdAdd` also changes what the deferred `bridge.Del` deletes, and
the model does the same. `link` holds the addresses of each interface of a
container, `jumps` the source addresses that POSTROUTING sends to a chain,
`chain` whether the chain of a family is absent, there without its rules, or
masquerading. `unnamed` are the macvlans that `createMacvlan` has made under a
temporary name (`macvlan.go:192`) and not renamed yet (`macvlan.go:205`); the
steps `rename` and `unmake` are that rename and the `LinkDel` after a failed one.
A masquerading chain that is missing makes `iptables -D` fail with status 2, for
which `isNotExist` is false, so `TeardownIPMasq` returns the error
(`ipmasq_linux.go:93-96`). Each step has an action for its success and one for
its failure that stands for failing at any call it makes. `status` is what the
runtime was told. The bridge itself is a step that succeeds or fails here.

### BridgeGateway

Hardware addresses are numbers. The kernel gives a bridge the lowest address of
its ports (`Recalculated`) until somebody sets it. `seenMac` is what the process
read when it fetched the bridge, `seen` what `AddrList` returned to it; both may
be stale when they are used. VLAN interfaces carry addresses of their own and
are ports of the bridge as well. Every attachment is of a network with
`isGateway` and has one address. ADDs of a node run together, and `CrashAt` are
the steps before which one may be killed. `met` is a history variable, no part of
the program: the pairs of ADDs with gateways that exclude each other which were
once both between `AddrList` and `AddrAdd`.

### NodeRoutes

`pc[n]` is where the controller of node `n` is: `get`, `update` and `put` are
the three calls of `InitNodeInfo`, `list` and `sync` the two halves of
`SyncRoute`, `watch` its loop, `idle` a `Service` that waits although its
`SyncRoute` has returned. `fresh` is the version of the Node object: the kubelet
or the controller manager may write it between Get and Update, which is then
refused. `kvs` holds the listed records that are not dealt with yet, and `failed`
the log. The watch names the key `/village/nodes`, under which nothing is stored,
and has no prefix; no event arrives, so a controller that watches has no further
step of its own, and `missed` records whose writes it did not hear of. Processes
end with any failing call or by a kill; a machine restarts without routes and
with any address.

### VillageIpam

The API server's version check is modelled by what it refuses: when the ConfigMap
changes, every write prepared from an older one becomes `Refused`. A killed
caller may leave a write on its way (`late`), which arrives, or not, at any time.
`Byte` is the number of values of an address's last byte, so that `getMin` can
skip a zero one. `Interfaces` are the ranges of the ConfigMap.

### PluginChain, Iptables and the chained plugins

A plugin process is the sequence of system calls it still has to make, `todo`.
The start of a command computes that sequence from the configuration and from
what it reads first; each call is an action of the plugin's module, which may
append further ones. Between any two calls other processes run, the process may
be killed (`CrashIn`), or the call may fail (`MayFail`); `MaxFaults` bounds both
together. DEL runs the list backwards, passes a result on only after a
successful ADD (`cache`), and may be repeated; then the main plugin removes the
interface and with it what is attached to it. `told` is what the runtime knows.
`Alone` names plugins of which the runtime runs one at a time: the CNI
specification forbids parallel commands for one container, and `Vrf` is about
interfaces of one container.

`Iptables` has one action per iptables command: a chain is ensured, a rule is
looked for and inserted or appended in two steps, and so on, as
`EnsureChain`, `InsertUnique`, `DeleteRule`, `DeleteChain` and `ClearChain` do.
`Portmap` follows `forwardPorts`, `unforwardPorts` and `checkPorts`; a port's
destination is computed as the kernel does by walking the rules: `Hits` is the set
of places where a rule matches, `Earlier` the order of the walk, and the first
translation counts; conntrack remembers where it sent a UDP flow (`flows`). `Firewall` has both backends, of
which `firewalld` selects one for the whole behaviour. In `Bandwidth` rates are
in bits as configured and bytes as installed. `Tuning` writes its backup in two
steps, so that it may be torn. `Vrf` and `Sbr` have one action per netlink call;
`Sbr` takes the lock of the namespace, `Vrf` has none.

## Runs

| Run | Bounds | Shows |
|---|---|---|
| `hl_crash` | 2 attachments, two range sets of 3 and 2 addresses, requests for a free, a gateway's and a foreign address, kills | `TypeOK`, `HeldReserved`, `DelForgets`, refinement of `AddressPool`; every command returns, also when a set is full |
| `hl_faults` | 2 interfaces of one container that also owns old files, failing files and locks, kills | the refinement of `AddressPool` does not rest on the lock |
| `hl_search` | 3 attachments, one set of two ranges with gateways inside, 3 allocatable addresses, kills | `FullIsFull`: "no IP addresses available" is never said too early; `RoundRobin`: the first free address after the last one |
| `dhcp_strict` | 2 clients, 3 leases, 2 calls, 2 addresses, ACKs without options | `DelStops`, `LeaseBacked`, `DownOnlyExpired`, refinement of `AddressPool` |
| `dhcp_live` | 1 client, 2 leases, 2 calls, CHECKs, killed plugins | calls return, expiry is noticed |
| `vl_pair` | two interfaces of one container and one of another on three networks, a macvlan in each container, results for both kinds of interface, failing steps of ADD and DEL, kills anywhere but at `rename`, `unmake` and `delMasq` | `ReadyComplete`, `MasqHolds`, `DelCleans`, `FailedAddUndone`, `UsedOnce` |
| `vl_faults` | three attachments, two in one container; one of these has results of one or both families and a macvlan, the others no IPAM; every fault, kills anywhere, vanishing namespaces | `ReadyComplete` |
| `br_mac` | 2 attachments on the bridge itself, 2 gateways, one network with forceAddress, concurrent ADDs, killed anywhere but before `LinkSetHardwareAddr` | `MacSettles` |
| `br_concurrent` | 3 attachments on one VLAN, 2 gateways that exclude each other, two attachments with forceAddress, concurrent ADDs, killed anywhere | `GatewayServed`, `OverlapsRaced` |
| `host_chain` | 2 attachments, lists `portmap` and `firewall, bandwidth`, IPv4 and IPv6 filter tables, one kill or failing call anywhere, repeated DELs, `MultiportMax = 1`, `MaxUint32 = 255`, usable nat family 4 | `Forwarded`, `NoStrayForward`, `NoStaleFlow` of portmap; `ReadyAccepted`, `AdminFirst` of firewall; `Shaped`; `CheckAgrees` |
| `netns_chain` | 2 interfaces of a container, lists `tuning`, `tuning, vrf` and `sbr`, three VRF configurations, one interface with a gateway and one without, a link-local IPv6 route next to an IPv4 address, two kills or failing calls, 3 tables | `Restored`; `VrfHeld`, `VrfGone`; `SbrRouted`, `SbrClean` |
| `cluster` | 2 nodes with 2 addresses; 3 containers, ranges with 2 and 1 addresses, `Byte = 4` | `RoutedOrLogged`, `OneWay`; `HeldBound`, `DeleteForgets`, refinement of `AddressPool` |

Why the bounds are enough to be interesting: two attachments are the least that
can compete, and three with two free addresses exhaust a pool; two range sets
are needed for a rollback, and two ranges in a set for every case of `Next()`;
two leases of one client show an old goroutine next to a new one; two families
and two networks show every sharing of chains. In `host_chain` a limit of one
port per multiport rule splits the two ports of an attachment into two entry
rules, as fifteen split sixteen; one fault followed by DELs that work is what a
clean-up has to cope with, and a second one would only stop another attempt. In
`netns_chain` two faults stop an ADD and then its first DEL. Three tables are
more than two VRFs or two interfaces need, so that a wrong choice shows. In
`cluster` three containers compete for two addresses, and of two nodes each may
be the earlier one; the theorems are for any number. Commands are not counted: ADDs
and DELs repeat for ever, so the state spaces hold sequences of any length.

`br_concurrent` identifies states that differ only in hardware addresses
(`VIEW WithoutMacs`): nothing it checks, and no guard, depends on their values.

`host_chain` treats the addresses as interchangeable (`SYMMETRY`): no definition
tells one from another. `cluster` puts two parts in one run that have no state in
common; a behaviour is about one of them, and the other rests.

Every run checks for deadlock: the runtime can always issue another command.

`TypeOK` of `DHCPDaemon`, `Village` and `BridgeGateway` and `NodeTypeOK` state the
types of their variables; all but that of `BridgeGateway` are proved, and each
can be added to any configuration of its module. The inductive invariants of the
proofs were checked with the constants of the run of their module before they
were proved: a module that extends the MC module and the proofs module makes them
invariants of that run.

### Departures

The code departs from what one would expect of it in ways that the runs above
exclude by their constants, or that their properties say nothing of. Where a
constant is named, TLC shows the departure when it is changed.

Address management:

- `Ranges <- RangesSplitTwo` and no requests in `HostLocalCrash.cfg`, with three
  attachments and no kills, refutes `CommandsReturn`. `GetIter` sets `startRange` to the range
  of the last reserved address, but when that address ends its range the first
  `Next()` moves on and sets `startIP` in the following one, so that the test
  under "IF we've looped back to where we started, give up"
  (`allocator.go:218-219`) never holds: if the set is full, `Get` loops for ever
  with the store locked.
- `MayCheck = TRUE` in `DHCPStrict.cfg` refutes `LeaseBacked` and `DelStops`: CHECK calls
  `Allocate` again (`dhcp/main.go:100`), the second lease replaces the first in
  the map, and no DEL stops the goroutine of the first. The comment says
  "Release stops maintenance of the lease acquired in Allocate()"
  (`daemon.go:93-94`).
- A failed `os.Remove` is swallowed ("This function eats errors to be tolerant",
  `disk/backend.go:160`): DEL succeeds and the reservation stays.
- A range that starts at the broadcast address and has no end of its own gets one
  before its start (`allocator/range.go:84`); `HostLocal` assumes `start <= end`.
- `leaseTime * 85` overflows for leases of more than 3.4 years
  (`dhcp/lease.go:171`); times are abstract in `DHCPDaemon`.
- A restarted DHCP daemon has an empty map: nothing renews or releases its old
  leases (`dhcp/daemon.go:186`).
- village-ipam: an exhausted range stores the key `<nil>`, and `AssignIp`
  succeeds (`client.go:97`); a conflict fails the ADD and is not tried again;
  `DeleteIp` and `Check` fail before the first `AssignIp`; the late write of a
  killed `AssignIp` after a `DeleteIp` that found nothing binds an address for
  ever. `AssignIp` has no caller yet.
- `StrictRuntime = FALSE` in `HostLocalCrash.cfg` refutes `HeldReserved`: the
  duplicate check of `Get` is not made for a requested address, so a second ADD
  goes on, and when it fails in a later range set its rollback by id frees the
  addresses of the first (`host-local/main.go:109`).
- A plugin killed between creating a reservation and writing it leaves a file
  that names nobody and that no DEL removes (`disk/backend.go:69`). `FullIsFull`
  is stated with this in mind: such an address is taken.
- `MayKill = TRUE` in `DHCPStrict.cfg` refutes `DelStops`: an `Allocate` whose
  plugin was killed stores its lease after the DEL (`dhcp/daemon.go:81`).
- `BadAcks = TRUE` in `DHCPLive.cfg` refutes `ExpiryNoticed`: an ACK that
  `commit` rejects counts as a renewal (`dhcp/lease.go:276`).
- After an expiry `acquire` takes whatever address is offered, and nobody tells
  the container (`dhcp/lease.go:219`). `PoolSpec` is about the lease, therefore,
  and not about the address that the ADD reported.

The village plugin and the bridge:

- Two interfaces of one container on one network (`AttTwo`, `PairOwner`,
  `PairName` and `SameChain` of `MCVillage`, results `OneEach`, in `VillagePair.cfg`)
  refute `MasqHolds`: the chain is named after the network and the container only, and
  the DEL of one interface clears it for both (`ip/ipmasq_linux.go:104`). The
  comment promises rules "to masquerade traffic coming from ip of ipn"
  (`ipmasq_linux.go:24-25`).
- The DEL of any interface of a container removes `mv0`, whoever made it
  (`village.go:135`, marked FIXME). `ReadyComplete` therefore promises `mv0` only
  to an attachment that is alone in its container (`OnlyOne`), and every
  attachment its own interface.
- `"delMasq"` in `CrashAt` of `VillagePair.cfg` refutes `DelCleans`: a DEL that
  stops after it removed the interface leaves rules that its retry does not look
  for, as `bridge/ctrl.go:206` says.
- `Results <- DualStack` in `VillagePair.cfg` refutes `DelCleans` with no fault in
  any DEL: if the ADD stopped before both families were masqueraded,
  `TeardownIPMasq` fails for the family whose chain is missing
  (`ipmasq_linux.go:93-96`), DEL returns that error when the interface is gone
  already, and the retry does not look for the rules of the other family.
- Two IPv4 addresses of one interface refute it without any fault: the chain of
  the first is still in use when it is deleted (`ip/ipmasq_linux.go:110`).
- `"rename"` or `"unmake"` in `CrashAt` of `VillagePair.cfg` refutes
  `FailedAddUndone` and `DelCleans`: `createMacvlan` makes the link under a
  temporary name (`macvlan.go:192`), renames it (`macvlan.go:205`) and deletes it
  if that fails. When the process stops in between, or the deletion fails, a
  macvlan is left that no undo and no DEL knows. `MaxUnnamed` bounds how many.
- DEL with the path of a vanished namespace fails, and so does every retry with
  that path (`bridge/ctrl.go:211`).
- An ADD with a macvlan prints two results (`bridge/ctrl.go:196`,
  `macvlan/ctrl.go:105`); the status `garbled` records it, and the properties
  count it as a success.
- The first ADDs of a node, when they run together, set the bridge's hardware
  address over each other's (`bridge/bridge.go:173`: what is written was read
  before other ports came), so what one reported may change, and a CHECK then
  fails. `MacSettles` says when that ends. `"pin"` in `CrashAt` of
  `BridgeMac.cfg` refutes it: the address is on the bridge, the next ADD returns
  early (`bridge/bridge.go:148`), and nobody ever sets the hardware address. A
  network with a VLAN never does (`bridge/ctrl.go:150`).
- Gateways that exclude each other come to be on one interface when two ADDs meet
  between `AddrList` and `AddrAdd` (`bridge/bridge.go:138`), with forceAddress on
  both networks too. `OverlapsRaced` says that this is the only way.

The node controller:

- The watch has no prefix and delivers nothing (`controller.go:97`): of two nodes
  only the later one is sure to have a route. `OneWay` is what is left.
- A route that is there already makes `AddRoute` fail with EEXIST, so the route
  to a node that came back with another address stays wrong; only the log says
  so (`net.go:68`).
- A conflict of the Update ends `Service`, and nobody tries again. A failed list
  ends `SyncRoute` and leaves `Service` waiting. A closed watch channel makes the
  loop spin. A Node without annotations panics, and an empty pod CIDR is
  recorded for ever.
- `Service` and `SyncRoute` both receive from `stopCh`: one send stops one of
  them (`controller.go:113`). Nothing sends.

The chained plugins:

- portmap: `Usable = {4, 6}` refutes `NoStrayForward`: `maybeGetIptables` takes a
  table that cannot be listed just now for one that does not exist, and DEL
  leaves the rules of that family and succeeds (`portmap.go:407`). "First,
  idempotently tear down this chain" (`portmap.go:109`) is followed by no
  teardown. The CHECK of a dual-stack attachment always fails, because the rules
  of one family are looked for in both, and `checkPorts` says nothing of a chain
  that is missing. The chain's name has no interface in it. A failing `RouteGet`
  silently skips `route_localnet`, and a failing purge is only logged. Two
  attachments that share a host port while one goes would leave a stale UDP flow
  (the assumption `PortsApart`).
- firewall: DEL without a result removes nothing, so what a failed ADD added and
  did not take back stays, in the chain or in a zone, where it makes a later ADD
  with another zone fail. The backend is chosen anew by each command
  (`firewall.go:105`). firewalld's answer to CHECK is not looked at. A repeated
  DEL, after the main plugin released the address and then failed, would remove
  the rules of the address's next owner; in the model the main plugin's DEL is
  one step.
- bandwidth: CHECK without a configuration dereferences nil, and stops at the
  first qdisc that is no token bucket. Rates below eight bits divide by zero in
  `buffer()`. The ifb device's name has no interface in it.
- tuning: every error of the restoration is dropped (`tuning.go:360`), so that
  DEL succeeds and the next ADD saves the changed attributes as the ones to
  restore: with `<<"tuning", "del">>` in `MayFail`, TLC refutes `Restored`. A torn
  backup stays. Sysctls are never restored, and of two interfaces the last writer
  wins. Arguments without a `sysctl` map panic (`tuning.go:113`).
- vrf: `Alone = {}` in `NetnsChain.cfg` refutes `VrfHeld`: two ADDs choose one
  table, and a VRF is deleted under a new member (`vrf.go:137`, `main.go:111`).
  DEL fails when the interface is gone and the VRF is not. CHECK's error is
  dropped (`main.go:143-163`). A stop between `vrf.go:58` and `:62` leaves a VRF
  that was never set up; the next ADD finds it (`main.go:57`) and does not set it
  up either. Whether a device is up is not in the model, so no property speaks of
  it.
- sbr: "no existing routes in it" (`main.go:192-194`) is not what is looked at:
  `RouteList` lists the main table only. An ADD killed between deleting a route
  and adding it to the other table loses it (`main.go:292`). DEL fails without
  the interface. Without a gateway no default route says that a table is taken,
  so an ADD may choose the table of an interface whose rules a DEL has just
  deleted, and its routes stay in there until the interface goes; with a gateway
  the second default route would be refused (EEXIST). `SbrRouted` allows the
  routes of such an interface, and of no other. An attachment none of whose
  addresses is its interface's own has its routes moved to a table that no rule
  leads to (the hypothesis `Routable`). DEL looks for rules by the addresses of the
  interface: a rule for an address of the result that is on another interface
  stays, and the model, where an interface has its own addresses, does not show
  it.

### Fairness

`HostLocal`: a running process keeps running (`WF` of its steps) and the kernel
does not pass over the same waiter of a flock for ever (`SF` of the steps that
take it). `DHCPDaemon`: goroutines are scheduled and `backoffRetry` gives up
after a bounded number of tries (`WF`); Go's `select` chooses at random among
ready cases, so a closed stop channel is not passed over for ever (`SF` of
`StopLease`). Neither the runtime nor the server is obliged to do anything. The
other modules state no fairness: a plugin of the chain is a finite sequence of
calls that never waits (but for the lock of sbr), so what there is to say of it
is safety, and of the controller nothing becomes true in the end, because its
watch does not wake it.

## What is proved

Every safety invariant that a run checks is proved as well, for every value of
the constants; so are the temporal property `MacSettles` and the refinements of
`AddressPool`. A hypothesis of a theorem is a formula about constants. The configurations of the runs satisfy
it, and Departures tells what happens without it.

### host-local

For every set of attachments, finite or not, all ranges that pass the checks of
`LoadIPAMConfig` and every combination of faults:

- `TypeCorrect`: `Spec => []TypeOK`. The types are not inductive by themselves:
  a step is type correct only if the iterator stands in a range of the set in
  turn when `Next()` moves it. `CtlInv` adds `Control`, which says of every
  label what the local variables hold there: the set in turn, whether an address
  is requested, and that the cursor and the starting point are addresses of the
  set. The lemmas `AdvancePlaced` and `GetIterPlaced` carry it through the
  iterator.
- `HeldStayReserved`: if the runtime issues no second ADD before a DEL,
  `Spec => []HeldReserved`. `OwnInv` strengthens it: every address that is
  reported, collected for the result, or being written carries the attachment's
  name (or is empty, while it is written), and no two processes are writing the
  same file (`WritersDiffer`). This is where `O_EXCL` is used, and the lock is
  not: the theorem holds when every lock fails. The one hypothesis is needed.
- `DelLeavesNothing`: if file operations work, `Spec => []DelForgets`. `DelInv`
  adds that a process past the walk for its own name has left no such file and
  that only a running ADD of the attachment creates one.
- `ImplementsPool`: under the hypothesis of `HeldStayReserved`, `Spec` implements
  `AddressPool`. Only the last step of an ADD and the start of a DEL change
  what is held; the rest stutters. `PickInv` adds that what an ADD has collected
  is one address of each range set it is past, so that the result it reports is
  a whole one, and `OwnInv` makes it disjoint from all others.
- `FullMeansFull`: if the lock works, `Spec => []FullIsFull`, and
  `SearchGoesRound`: if the lock works, `Spec => []RoundRobin`. Both are about
  the loop of `Get` over `Next()`, for any number of ranges in a set, any
  gateways in them and any old content of `last_reserved_ip`. `SearchInv` says
  that a search holds the lock (`LockInv`), knows where it began, and has found
  reserved every allocatable address between there and its cursor. The lemmas
  order a range set (`Before`) and show that `Advance` goes to the successor of
  the cursor or wraps from the last address to the first; so when it is back at
  the beginning it has passed the whole set. Kills and failing writes are
  allowed: they only leave addresses reserved. The lock is needed, or another
  process frees an address behind the cursor.

### DHCP daemon

For every set of clients, lease objects, calls and addresses, with lost messages,
rejected ACKs and expiries. But for the first, if no CHECK is made and no plugin
is killed while it waits; each of these two is needed.

- `TypeCorrect`: `Spec => []TypeOK`. `TypeInv` adds that a handler that acquires
  has a lease object and a goroutine that runs has a client.
- `DelStopsMaintenance`: `Spec => []DelStops`. `OwnInv` says who owns a lease
  object: one Allocate that has not stored it yet, the entry of one client, or
  nobody, and then its goroutine has ended (`LeaseOK`). Two handlers are never
  about one client or one lease (`Apart`).
- `LeasesAreBacked`: `Spec => []LeaseBacked`. It needs `OwnInv` and that the server
  binds one address per client (`OneBinding`), so that a renewal, a rebinding and
  a new acquisition of the same client find the same one.
- `DownMeansExpired`: `Spec => []DownOnlyExpired`. `DownInv` adds the
  leases that an Allocate has acquired and not reported yet: the interface may be
  down because of one of them before anybody is told of it.
- `ImplementsPool`: `Spec` implements `AddressPool`: a client holds the address of
  its lease in the map while that lease is maintained and has not expired.

### village

For every set of containers, attachments and networks, any results of the IPAM
plugin, failing calls, kills and vanishing namespaces, but for what the
hypothesis excludes:

- `TypeCorrect`: `Spec => []TypeOK`. `CtlInv` adds which attachment, interface name and
  namespace a command works on at each label.
- `ReadyIsComplete`: `Spec => []ReadyComplete`, under every fault, kill and removal
  of the namespace. `LinkOK` says at each label which addresses the attachment's
  own interface has so far, and `AloneOK` the same of `mv0` for an attachment that is
  alone in its container.
- `MasqueradingHolds`: if attachments have chains of their own (`DistinctChains`),
  `Spec => []MasqHolds`. `MasqOK`: the addresses not in `todo` any more are
  masqueraded, and stay so when other attachments come and go.
- `FailedAddIsUndone`: if a container has one macvlan at most (`OneMacVlan`), the undo
  steps do not fail, and `createMacvlan` is not killed half way and can delete its
  link (`MacvlansNamed`), `Spec => []FailedAddUndone`. `MvOK` says when `mv0` may be
  there, whose name the deferred undo uses after `cmdAdd` has changed it; `TmpOK`
  that a link with a temporary name is the one a running `createMacvlan` works on.
- `AddressesUsedOnce`: if a container has one macvlan at most and its removal does
  not fail, `Spec => []UsedOnce`.
- `DelLeavesNothing`: if a container has one macvlan at most, chains are distinct,
  results have one address for the bridge (`OneBridged`) and `DelsFinish`,
  `Spec => []DelCleans`. `DelsFinish` excludes what Departures describes: the
  namespace does not vanish, no command stops in `createMacvlan` or between the
  removal of the interface and that of its rules, and the steps that remove
  rules, `mv0` and temporary links do not fail. ADDs may be killed elsewhere, and
  DELs before they have removed the interface. `CleanOK` says which rules there may
  be, and that the DEL, which reads the addresses off the interface, will find
  each of them, with its chain.

These proofs do not go through all actions for every invariant. One lemma per action
says what it changes; `Sees` is a table of the steps as the attachment they belong to
sees them and `Beside` as any other one does, `Views` shows that there is no third
kind, and each invariant is preserved by each line of the table.

### village-ipam

For every set of containers and any ranges, with refused and late writes and
kills: `HeldIsBound` (`IpamSpec => []HeldBound`), `DeleteIsForgetful`
(`IpamSpec => []DeleteForgets`) and `ImplementsPool` (`IpamSpec` implements
`AddressPool`). `IpamInv` says of every prepared write, of a process or on its
way, that it was computed from the present ConfigMap or will be refused: what
arrives is then an assignment of free addresses or the removal of one container.
That `AssignIp`'s choice is free is proved of the recursive function that
describes its loop over the ranges, by the least counterexample (`LeastNat`).

### The bridge

For every set of attachments, VLANs and gateways, any number of ADDs at once,
failing and killed:

- `GatewayStays`: `Spec => []GatewayServed`. The property says nothing of an ADD
  under way, which decides from an old list; `GwInv` adds that a list that shows
  the gateway is still right about it (or the gateway is contested), and that
  nobody gets past `ensureAddr` without it. The lemma `Removal` is about the one
  step that takes an address away, from a list that may be old.
- `MacIsFinal`: if no ADD is killed between `AddrAdd` and `LinkSetHardwareAddr`,
  `Spec => MacSettles`. `MacInv` says that the hardware address has been set, or that
  an ADD is about to set it (`Pinning`), whenever there is an address on the
  bridge or in a list read there, and whenever an ADD is past `ensureAddr`. So it
  is set once an attachment is in use and none of those ADDs runs, and every ADD
  that starts later has fetched the bridge with its final hardware address and can
  only set the same (`Settled`).
- `OverlapsAreRaces`: `Spec => []OverlapsRaced`. `MetInv`: two ADDs that are both
  between `AddrList` and `AddrAdd` have met (`MetPairs`); an address that is in the
  way of an ADD and not in its list was put there by one it has met
  (`MetUnseen`); and meeting is mutual (`MetBothWays`).

### The node controller

For every set of nodes and of addresses, with crashes, restarts, failing calls
and refused updates:

- `RoutesFollowTheList`: `NodeSpec => []RoutedOrLogged`, and `OneHasDealt`:
  `NodeSpec => []OneWay`. Neither is inductive: both speak of controllers that
  have reached their watch. `RouteInv` adds what holds on the way there: a
  controller that lists has published (`PublishedFirst`), has missed nothing yet
  (`NothingMissedBefore`), and from the list on every record that it did not miss
  is either still in its list, routed, or logged (`ListedDealt`); two controllers
  that have both listed have not both missed each other (`NotBothMissed`), since
  the later of two lists contains what was published before the earlier one. The
  lemma `EndedKeeps` serves every step in which a process ends, `PublishKeeps`
  both ways in which a record is written. The one assumption is that the values
  for "no address" and "no record" are none.
- `NodeTypesHold`: `NodeSpec => []NodeTypeOK`.

### tuning, vrf and sbr

`NetnsChainProofs` is about their composition: any lists of the three plugins, any
attachments, configurations, kills and failing calls, in any number. But for the
types, each theorem supposes that a list names a plugin once at most
(`OnePerChain`). The invariants say, for the command that runs, what its sequence
of calls (`todo`) is at this point and what it has brought about so far, and, for
the runtime between commands, what is left to undo.

- `TypeCorrect`: `Spec => []TypeInv`. `TypeInv` contains which calls a process of
  each plugin may still have to make.
- `AttributesAreRestored`: if the calls of a DEL of tuning work,
  `Spec => []Restored`. `TuningInv`: an ADD saves before it changes (`SavesFirst`),
  so that at the first change the file is complete; as long as an attribute may
  be changed the file has the original (`Recoverable`), and a DEL restores every
  one of them before it removes the file (`Restoring`). The lemmas are about
  concatenations, because the configuration decides which calls there are. The
  hypothesis is needed: DEL drops errors.
- `MembersAreHeld`: `Spec => []VrfHeld`, and `NoVrfIsLeft`: `Spec => []VrfGone`, if
  commands of vrf do not run in parallel, its interfaces do not outlive their
  attachments, and `OneChooser` holds: where a VRF gets its table both from a
  configuration and from the plugin, it is the only one whose table the plugin
  chooses. `VrfInv` follows the IPv6 addresses, which the kernel drops when an
  interface becomes a member, from the list that was read before to their
  restoration; says that tables which the plugin chose are apart (`TablesApart`);
  and that each VRF has an attachment whose DEL is still to come, or to get to
  its deletion (`Kept`).
- `NoRuleIsLeft`: `Spec => []SbrClean`. `CleanInv`: every rule names an address of an
  attachment that has not finished its DEL, and a DEL that goes on has deleted
  the rules of its address.
- `PacketsAreRouted`: if interfaces are new with every ADD (`FreshEachTime`), and an
  attachment has an address of its own and its routes in the main table
  (`Routable`), `Spec => []SbrRouted`. Attachments may have gateways or not, and
  routes of families in which they have no address. `RouteInv` says that each route
  of the interface is, at every step, in the main table, in the new one, or in the
  hands of the process that moves it (`RouteOK`); that the rules of an interface
  lead to all its routes outside the main table (`Leads`); and that the rules for a
  table are one attachment's (`RulesSplit`). An ADD chooses a table without a rule,
  and the lock of the namespace (`OneLock`) keeps another one from choosing it
  before the rule is there. A killed ADD leaves a table with a rule and half its
  routes, which nobody chooses until a DEL has deleted the rule.

`StringAssumption` of `NetnsChain` states that three literals are strings, which
the provers do not know.

### portmap, firewall and bandwidth

`HostChainProofs` is about their composition: any lists of the three plugins, any
attachments, mappings, zones and limits, both families, any lengths of the port
lists, kills and failing calls, in any number. Each theorem supposes that a list
names a plugin once at most (`OnePerChain`).

- `TrafficIsShaped`: if no two attachments share an ifb device (`IfbsApart`: its
  name is a hash of the network's and of the container's, so that the same
  container attached twice to one network would share it),
  `Spec => []Shaped`. `BwInv`: what of the shaping is not in place yet is among the
  calls still to be made, the device before what needs it, and a DEL that goes
  on has removed the device or is about to.
- `ReadyIsAccepted`: `Spec => []ReadyAccepted`. `FwInv` says the same of the rules
  that an ADD of firewall wants and of the zone of each address. That nobody else
  takes a rule away rests on `FwTypes` and `PmCalls`: which calls the processes of the
  two plugins may have in `todo`, on which chains, and what follows on an error;
  a command of another attachment only deletes rules of its own address, and no
  two attachments have one (`ChainInv`).
- `AdminComesFirst`: `Spec => []AdminFirst`. The order of the chain, `AdminsFirst`, holds in
  every state, whoever is ready: the jumps are inserted in front and the accepting
  rules appended, whatever happened between a check and its insertion.
- `NothingGoesAstray`: `Spec => []NoStrayForward`, if `ListsWork`: where DELs may fail, at
  most one family works. With two, a family that cannot be listed for a moment is
  passed over, DEL succeeds, and its rules stay (see Departures). `NatInv` says that the
  chain of an attachment has rules of its mappings and of its present address only,
  that it is empty when the attachment is gone, and that in a DEL that goes on it
  is empty or its clearing is still to come, also when a call before fails
  (`Pend`: the calls to be made on an error of the IPv4 part contain the IPv6 part).
  With a shared chain of entries of which anything may be left (`EntriesOK`), the
  theorem follows: an entry of an attachment that is gone leads nowhere.
- `ForwardsPorts`: `Spec => []Forwarded`, if further no attachment maps one port of one
  address to two ports of its own (`OneMeaning`, or the first rule wins), and the
  marking chain is the plugin's or there is no marking (`OwnMark`: what a chain of the
  administrator does is not modelled). `PmInv` says which rules an ADD has placed
  and which calls will place the others (`PmComes`), that in the chain of the
  attachment each translation comes after its marks (`MarksFirst`), in the rules and
  in the calls (`PmMarks`), and that purges come after all rules (`PmPurgesLast`). The
  walk is then that of one attachment: by `PortsApart` no other one's entry matches the
  packet, whatever is left of it, and the lemmas `Reaches` and `ComesBack` find the
  first translation and the mark before it.
- `NoFlowIsStale`: `Spec => []NoStaleFlow`, if `OneMeaning` and `ListsWork`. `PmFlows`, a
  part of `PmInv`: the flow of a port leads to the attachment when all rules are
  in place, or there is a purge of it to come.
- `ChecksAgree`: `Spec => []CheckAgrees`, if `ListsWork`, `OneMeaning`, `IfbsApart`, and:
  - `ChecksWork`: CHECKs are not killed, and nothing but what they look at makes
    them fail;
  - `OneFamily`: an attachment with port mappings has addresses of one usable family,
    because `checkPorts` looks for the rules of both in either table (see Departures);
  - `Shapeable`: where bandwidth is listed, every attachment has an entry and a
    peer in the host. CHECK dereferences the one and looks for the other, also
    where ADD needed neither.

  That what a CHECK looks for is there follows from the invariants above.
  That portmap passes over the family without rules needs `CnInv`: the chain of
  an attachment does not exist in the table of a family in which it has no
  address. ADD makes no such chain; a DEL, which works on both families, flushes
  and so makes it first, and removes it again, at once or on an error (`Ending`, `Ended`).
  `LooksInv` says which calls a CHECK of firewall may have, and that without
  firewalld no zone has a source.

TLC found `PmInv`, the longest of these invariants, true of the run `host_chain`
before it was proved. The assumptions on the constants that the provers need are `IptAssumption`,
`PortmapAssumption`, `FirewallAssumption` and `BandwidthAssumption` in the modules of
the constants: the two tables exist, mappings and limits are numbers, and the
model's words for "none" and "any" are no values of the real thing, a zone of
firewalld among them. `ChainNamesAreNew` of `Portmap` states that no table begins
with the chain of an attachment, whose name is a hash.

### Only model checked

- `CommandsReturn` of `HostLocal` and the liveness properties of `DHCPDaemon`:
  liveness under fairness is out of the prover's reach.

## Not modelled

CHECK of host-local and of village reads and compares, and changes nothing; the
CHECKs of DHCP and of the chained plugins are modelled. DHCP options and packets,
routes and sysctls that the village plugin gives an interface, ARP, configuration
parsing, and comments of rules are abstracted. A restart of the DHCP daemon is
not modelled: it keeps nothing across one.

Left out altogether are the static IPAM plugin, which returns its configuration;
the stubs of the controller's IP pool, of the daemon command and of the sample
plugin; and the decoding of DHCP options. The kernel, iptables, firewalld, etcd,
the API server and the runtime are modelled from how the code uses them, and
their definitions are marked external.

## Plan

Done: `AddressPool`, `HostLocal`, `DHCPDaemon`, `Village`, `VillageIpam`,
`BridgeGateway`, `NodeRoutes`, `Tuning`, `Vrf`, `Sbr`, `Portmap`, `Firewall` and
`Bandwidth` with their compositions and their proofs.

1. `RangeConfig`: `Range.Canonicalize`, `Overlaps` and the checks of
   `LoadIPAMConfig` as operators, against a reference definition over a space of
   a few addresses; that what they accept is what `HostLocal` assumes.
2. `Village` and the chained plugins in one composition: a main plugin whose DEL
   may fail half way.
