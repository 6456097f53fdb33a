# A formal model of dhcpmanager

dhcpmanager obtains IP addresses from a DHCP server on behalf of services in a
cluster, renews their leases until they are returned, and keeps the hardware
addresses (MACs) of the virtual interfaces on which the leases are held. This
directory holds TLA+ modules that model it from its Go source, TLC
configurations that check them on small instances, and TLAPS proofs of what
holds for every size. Paths such as `controller.go:142` are in `src/`
(`cmd/controller/controller.go`, `dhcp.go`, `model.go`,
`cmd/apiserver/handler.go`, ...).

## 1. The system

| Component | State | Operations | Talks to |
|---|---|---|---|
| Controller (`cmd/controller`) | the allocation it is working on, `watchStopFunc` | `Start` (converge, then watch), `Stop`, handlers for new, stopped and deleted allocations, renew callbacks | state manager (requests, watch), DHCP clients (calls, callbacks) |
| DHCP clients (`dhcp.go`) | `clients`: address -> client; one goroutine per client; virtual interfaces in the kernel | `BindAllocationToInterface`, `Stop`, `CreateDevice`, `RemoveDevice` | dhclient, netlink, the DHCP server (external) |
| State manager (`model.go`) | etcd keys `allocations/<id>`, `macs/<mac>`, `lookup/<ip>`; one goroutine per watcher | `Put`, `Remove`, `Allocations`, `Get`, `GetByIP`, `PutMAC`, `PopMAC`, `RemoveMAC`, `Watch*`, `MaintainIndices` | etcd |
| API server (`cmd/apiserver`) | one request handler and one watcher goroutine per open request | `obtainIP`, `returnIP`, `registerMACs`, `removeMACs`, `returnStatus` | state manager |
| UI backend (`cmd/ui/backend`) | two push loops per browser | `addAllocation`, `addMAC`, push of allocations and of the pool | state manager |
| In-memory state manager (`cmd/ui/backend/debug.go`) | maps and watchers | the StateManager interface | the UI backend, when it is run without etcd; no caller in production (the call is commented out, `ui/backend/main.go:84`) |
| UI frontend, deployment | lists shown; manifests | | UI backend; Kubernetes |

The components share no memory: everything goes through etcd. An allocation is
born `Unbound` in the API server or the UI. The controller's watch delivers its
creation; the controller takes a MAC from the pool, creates an interface, starts
a DHCP client on it and waits up to `client-timeout` for a lease; then it stores
the allocation as `Bound`. Each renewal stores it again with the new lease. The
record hangs on an etcd lease as long as the DHCP lease, so it disappears when
nobody renews it. When it is deleted, by a client or by expiry, the watch makes
the controller stop the client, put the MAC back and remove the interface. A
graceful stop stores the bound allocations as `Stopped`, and the next controller
binds those again on the same MAC.

What makes each component correct:

* controller: every bound allocation has a running client, no removed one has,
  every request is decided, a MAC serves one allocation and always comes back;
* DHCP clients: each running client can be found by its address, none is lost
  or doubled, and stopping an address stops the right one;
* state manager: the pool and the allocations are disjoint, records other
  processes read are complete, the lookup index agrees with the allocations;
* API server and UI: a request is answered and its watcher ends.

What is hard in it: one thread handles all allocations while API and UI clients,
etcd's expiry, the clients' goroutines and the DHCP server act at any moment;
`PutMAC`, `PopMAC` and `Put` are several etcd requests or follow a wait; a lease
may arrive before or after the only moment somebody receives it; nearly every
error is logged and ignored; the process may be stopped or crash anywhere.
`PROJECT.json` lists these hazards at their lines, with the properties that
watch them.

## 2. The modules

```
StateManager            etcd: alloc, pool, watching, events     (model.go)
  DHCPController        clients, client, devices                (dhcp.go)
    Controller          the process, its thread, environment    (cmd/controller)
      MCController      model values and symmetry for TLC
      Controller_proofs           types, and the clients' invariant
        ControllerStore_proofs    what is stored; the refinement
        ControllerOwners_proofs   who has an IP or hardware address, who is served, who stops
Allocations             the abstract life of an allocation; Controller implements it
Addresses               whose a hardware address is; MACTable implements it
Codec                   a record as JSON, and read back         (model.go)
  MACTable              all users of the pool at once           (model.go, cmd/*)
    MCMACTable          two controllers, one request
    MACTable_proofs     round trip, types, exclusive addresses; the refinement
ObtainIP                one request: handler and watcher    (handler.go, model.go)
  ObtainIP_proofs       its answer is not missed
Index                   lookup/<ip>: indexer, GetByIP, Remove    (model.go)
  Index_proofs          its entries are not stale
UIPush                  push loop and watchers of a browser (ui/backend)
  UIPush_proofs         it misses no change
InMemoryState           the UI without etcd                 (ui/backend/debug.go)
  MCInMemoryState       two threads, two browsers
  InMemoryState_proofs  it misses no change
```

**StateManager.** `alloc` maps an ID to its record or `Absent`, and `pool` is the
set of keys under `macs`. Each operator is one etcd request. A record is reduced
to state, address and MAC. The watch is the sequence `events`: creations and
deletions in etcd's order, deletions with the old record (`WithPrevKV`); an
overwrite adds nothing, because the controller has no `OnModify`. Before
`StartWatch` nothing is queued: etcd's watch starts at the present.

**DHCPController.** `clients` is the map of the Go struct. `client[id]` is the
client goroutine started for allocation `id`, with the allocation struct `al` it
shares with the handler, the lease `ip`, the interface's MAC, and `cb`, the
record that a renew callback has encoded and not yet written. `client.Stop`
waits for the goroutine, so it needs `cb = Absent`. `Leasable` is the DHCP
server: an address is leased to one MAC at a time.

**Controller.** `phase` follows `main`: register the configured MACs, converge,
watch, stop. `pc` is where the thread is between two requests:

| `pc` | code |
|---|---|
| `popmac.get`, `popmac.delete` | the two requests of `PopMAC` (`model.go:575`, `585`) |
| `device` | `CreateDevice` or `Interface` (`controller.go:112`, `130`, `181`, `193`) |
| `bind`, `bindstop` | the select and the `client.Stop` after the timeout (`dhcp.go:54`, `68`) |
| `removemac`, `put`, `remove` | `controller.go:217`, `151`/`219`, `144` |
| `putmac.check`, `putmac.write` | `PutMAC` (`model.go:536`, `552`), from `main` or after a device failed |
| `recover.check`, `recover.write`, `rmdevice` | `PutMAC` and `RemoveDevice` in `deleteAllocation` |
| `stop.put` | `Put(Stopped)` in `Stop` (`controller.go:57`) |

`cur`, `rec`, `hand` are the handler's locals: the allocation, its record and the
MAC. `todo` is the snapshot that `converge` or `Stop` walks, in any order. The
watch callback and the body of the handler up to its first request are one step,
since nobody can see in between. The environment creates, removes and expires
records, registers MACs (`PutMAC` of another process, check and write apart),
and stops or crashes the process; `Failures` are requests and kernel calls that
return an error, each followed by exactly what the code does with that error; a
`RemoveDevice` that fails leaves the device, and nobody looks at the error.

**Allocations.** What the other processes may rely on: a record is written as
`Unbound`, `Bound` or `Stopped` with what belongs to that state, an allocation is
requested once, a stored allocation keeps its interface, and one that was stored
as bound or stopped does not become unbound again. Its steps are `Request`,
`Offer` (a lease that nobody waited for), `Bind`, `Suspend` and `Release`. The
refinement mapping of `ImplementsAllocations` takes `alloc` for `record` and
`issued` for `asked`; every other variable of `Controller` is hidden, and most of
its steps are stutters.

**Codec.** `Encode` and `Decode` are the custom `MarshalJSON` and `UnmarshalJSON`
of `Allocation` and of its interface: encoding/json would write the address of the
interface as base64, which `ParseMAC` does not read, and of two fields of one name
the outer one hides the embedded one. A text is the address and its form.

**MACTable.** The users of the hardware addresses composed: several controllers
(`replicas: 1` does not exclude two during a rolling update, and each handles every
event), and the requests that register or remove lists of addresses, from the API
(`register`, `remove`; errors are collected) and the UI (`add`; ends at the first
error). `PutMAC` (`putmac.check`, `putmac.write`) and `PopMAC` (`OnCreate` reads,
`popmac.delete` deletes) are two steps for everybody. Records are stored encoded,
and `PutMAC` reads them all; if one cannot be decoded it gives up. A controller's
handler is reduced to what moves an address: `device`, `bind`, `remove`. The
variable `contended` is a history: the addresses that two actors have had at the
same time, that is in hand without a record, or as the interface of a client.

**Addresses.** What `MACTable` amounts to for an uncontended address: it is out, free,
or one allocation's; `Put` and `Pop` are single steps; and from one allocation to
another it gets through the pool. In the refinement mapping of `ImplementsAddresses` an
address that `PopMAC` has read and not yet deleted is still free, and its owners are the
allocations whose record has it, whose client has it (and may store it again), or for
which a device with it is being made. The first request of `PutMAC` and of `PopMAC` is
then a stutter, and the second one the step.

**ObtainIP.** One request of `obtainIP`, with its own ID, channels and watcher;
requests do not interact, so one is enough. `handler` is the statement the HTTP
goroutine has reached (`start`, `ready`: `handler.go:34`, `35`; `select`: 37;
`remove`: 48; `stop`: 59). `watcher` is the goroutine of `watchChannel`: at its
select, or handling `batch`, the events that one response of etcd contained, or
ended. `queue` holds the events still to come, now with modifications, which the
controller does not look at. Both channels are unbuffered, so a send and its
receive are one step: `Receive` for `allocCh`, `StopWatch` for `stopChan`. The
controller is reduced to what it does to the record, which it may do after the
record was removed; `Release` stands for `returnIP` and for the expiry.

**Index.** `lookup` is the table, `queue` the events that the watcher of
`MaintainIndices` has still to handle; it runs in the controller's process, ends
with it, and is started after `Start` (`controller/main.go:111-114`). `req[r]` is
one `returnIP`, with what it has read so far, at the second request of `GetByIP`
(`get`), or at the first or second of `Remove` (`remove`, `unlink`); or it
is the `Remove` of a controller that gives up an allocation to which a late callback has
given a lease (`GiveUp`). Records are
reduced to their leases; `client` holds the leases of the running clients, which
write their record at any moment, also after it was removed.

**UIPush.** The handler of one browser and its watchers. `first` says which of the
two handlers it is: `pushMACPoolChange` watches from the pool on, that is both lists,
`pushAllocationChange` the allocations only. A list is reduced to its version.
`loop` is where the handler is: starting watchers, reading the lists for a push,
at its select, running the deferred stop functions (`next` says for which list
or watcher). `watch`, `batch` and `queue` are as in `ObtainIP`; `watchersig` is the
channel with room for one trigger. The signal is delivered to the channel that
the handler registered; what it does to the rest of the process is not modelled.
A read that fails is two actions, since the handlers differ: `pushAllocationChange`
sends an error and waits again (`ReadFails`); the error branches of
`pushMACPoolChange` (`main.go:215-221`, `229-234`) evaluate `err.Error()` on the `err`
that `Upgrade` returned, which is nil, so that the handler panics and its deferred
functions run without any signal (`ReadPanics`).

**InMemoryState.** A call of `Put`, `Remove`, `PutMAC`, `RemoveMAC` or `PopMAC` by
a thread is: look the key up (`Call`), write the map (`write`), range over the
watchers' channels (`range`, with `todo` still to visit), send to each (`send`).
`chan[w]` has one channel per kind of change with room for one; the goroutine
of a watcher receives in any order, and its callback sends a trigger to its push
loop (`watchersig`). `Watched` tells `Watch`, `WatchAllocation` and `WatchMACPool`
apart; each watcher has a push loop of its own, reduced to what decides when it
reads (`UIPush` has the rest). `chanStop` has room for one, so that stopping does
not wait, and a thread may be sending to a watcher that is gone. The maps are
shared without a lock: Go leaves it to the runtime to notice (`KeyRace`,
`ChannelRace`), and then the process ends (`Fatal`). When it does not notice, the
accesses are taken to have an order; torn maps are not modelled.

The operators marked as mutants (`GiveUpWithoutStop`, `RecoverDevice`, ...) are
variants of the definition that follows them, with a plausible bug. They are not
part of the specification; each property is known to fail on one of them.

### Assumptions

* A lease is not renewed within `client-timeout` (5 s by default): while a bind
  waits, `OnBound` can only be the first lease.
* The DHCP server leases an address to one MAC at a time, and a stored
  allocation's lease still counts, since etcd deletes the record no later than
  the lease ends.
* A random MAC (dynamic interfaces) is nobody else's.
* In `Controller` one controller runs at a time (`replicas: 1` in
  `deployments/k8s.yaml`). Two at once, as in a rolling update, are in `MACTable`
  only, that is, for what they do to the hardware addresses.
* A signal before `main` listens for signals ends the process like a crash; one
  in the instant between `go c.watch()` and the assignment of `watchStopFunc` is
  not modelled.
* The controller never reads the lookup index, so it is a module of its own.

## 3. The runs

All runs of the controller use `MCController`. `CHECK_DEADLOCK FALSE`: the
environment may rest, and after `MaxBoots` processes the system is at its end.
Bounds: two or three
allocations, as many addresses and MACs as make both sharing and running out
possible (two allocations for one configured MAC; one address for all
allocations of the unmanaged mode), `MaxBoots` processes, `MaxFaults` failing
requests, and an environment that waits while `MaxEvents` events are queued. The
switches `Renewals`, `LateLeases`, `EarlyRequests`, `IPChange` say what the
environment may do; a run that switches one off asks what holds without it.
Allocations and addresses are interchangeable, so the runs without liveness use
symmetry.

| Run | Environment | Checks |
|---|---|---|
| `any` | everything: late leases, changing addresses, early requests, a crash, a fault | `TypeOK`, `NoLostClient`, `MapIsExact`, `NoSecondClient`, `StoredIsComplete`, `NeverUnbinds`, `ImplementsAllocations`, `MACIsLostOnlyInHand` |
| `unmanaged` | interfaces not managed, three requests | `IPIsExclusive`, `BoundIsServed`, `StopsOwnClient`: the second and third client get the same address and are turned away |
| `steady` | three requests, random MACs, API clients that register and remove a MAC | `BoundIsServed`, `RemovedIsStopped` |
| `renewals` | renewals at any moment, no dynamic interfaces (the default), one configured address and one that API clients register and remove, `FairSpec` | `RemovedIsStopped`, `RequestIsDecided`, `RemovedIsReleased`, `MACComesBack` |
| `restart` | three processes, each stopped or crashed anywhere, requests at any time, late leases, a failing request | `MACIsExclusive`, `IPIsExclusive` |
| `request` | `ObtainIP`: two addresses, three stored leases, failing requests, removal and expiry at any moment, `FairSpec` | `TypeOK`, `NoMissedAnswer`, `AnsweredEnds` |
| `lookup` | `Index`: two allocations, two addresses, one removal in two requests at a time, a fault or crash, a change of address, `FairSpec` | `TypeOK`, `NoStaleEntry`, `FoundAgain` |
| `push` | `UIPush`: either handler, two lists that change twice at any moment, a failing request, a signal, `FairSpec` | `TypeOK`, `NoChangeIsMissed`, `IsShown`, `HandlerReturns` |
| `table` | `MACTable`: two controllers that overlap and crash, one request, two allocations, two addresses and a malformed entry, lost answers | `TypeOK`, `UncontendedIsExclusive`, `ImplementsAddresses` |
| `memory` | `InMemoryState`: two threads and two calls, the browsers of one allocation and of all, signals, the runtime's fatal error, `FairSpec` | `TypeOK`, `NoChangeIsMissed`, `CallEnds`, `IsShown` |

Where a property is checked only in some environments, it is because it fails in
others. These runs show failures that contradict what the repository says:

| Run | What happens | Against |
|---|---|---|
| `deadlock` | a lease is stored after the timeout, or a second one after the answer: the watcher waits in `allocCh <-`, the handler in `stopChan <-` | `handler.go:47` |
| `omitted` | `removeMACs` removes an address from the pool, or finds it in no pool, while an allocation has it, and the answer does not list it | `Readme.md:71-72` |

Further failures bound what can be asked. When a bind fails after `PopMAC` and
`CreateDevice`, `Remove` deletes a record without an interface, so nothing gives the
MAC back or removes the device. And a request that fails with the address in hand
loses it: `PopMAC` whose delete took effect, a `Put`, or the `PutMAC` that should give
it back. `MACIsLostOnlyInHand` says that, while the watch is on, a MAC is lost in
these two ways only, and `MACComesBack` asks for the others. Before the watch there
is a third: a removal leaves no event, so that nobody recovers the MAC of the record.
A request that is removed between the answer of
the DHCP server and `Put` is stored again by that `Put`, as it is by a late renewal;
`Allocations` allows it (`Bind` over a record that is gone). And `PutMAC` of an API
client can check an address, the controller pop and bind it, and `PutMAC` write it:
then it is free and in use. `MACIsExclusive` is therefore checked without API
clients (`AdminMAC = {}`), and `UncontendedIsExclusive` with them, for the addresses
that were in nobody else's hand. Nor does it hold with renewals: if a client was
rebound to another address and that `Put` failed, the deletion of the old record does
not find the client, its MAC goes back to the pool, and the next renewal stores the
record with that MAC again.

There are more such limits. A first lease that no goroutine
receives (before the select, or after the timeout) takes the renewal branch of
`OnBound` and stores an unbound record with a lease. If the request was removed
meanwhile, that is a creation of an unbound allocation, and the controller starts
over with it; hence `NoSecondClient` is worth proving. And `clients` keeps
the address of the first lease: if a renewal yields another one, a deletion does
not find the client. `any` allows both; `RemovedIsStopped` is checked without the
second. After a crash, `converge` ignores what is stored as `Bound`, so nobody
renews those leases until their records expire, although `Readme.md:6` lists
"Renew leases until the IP is returned" without a restriction; `BoundIsServed` is
checked without crashes. Nor with renewals: one that is under way when its allocation is
removed stores it again, and its client is stopped afterwards. For the same reason
`StopsOwnClient` and, without managed interfaces, `IPIsExclusive` are checked without
renewals, even such as keep the address: an allocation that a renewal has stored again
is removed a second time, and by then its address may be another's, whose client the
second deletion stops. And a deletion after `converge` bound an allocation and before
the watch is on is never seen; `RemovedIsStopped` is checked with requests that
come later.

`RequestIsDecided` is checked in the default configuration (`dynamic-interfaces` is
false) and with an environment that can empty the pool. There a request need not be
decided: when `PopMAC` finds no address, or the kernel has an interface with the
address (a failed `RemoveDevice` or bind has left it), the controller returns and the record
stays unbound, as the comments at `controller.go:116-118` and `133-135` intend.
`LeftToCreator` names these two returns, and the run reaches both. Once a request
fails, nothing is promised: the run has no failing request. Nor does it have requests
before the watch, which no event reports: `converge` takes them if they come before
its snapshot, and otherwise nobody does, so that no property could ask for them.

The index is not complete when its events are handled: what `converge` bound
before `MaintainIndices` is missing, and if an address goes to another allocation
between the two deletes of a `Remove`, the second delete takes the new entry away.
`FoundAgain` says that this lasts no longer than to the next renewal. Two
allocations and two addresses are enough for it: one allocation that had the
address, and one that gets it.

The handler of a browser can be stuck like a request: its stop function waits
for a watcher that waits for room in `watchersig`. `HandlerReturns` says that this
is the only way not to return, after a signal and after the panic of
`pushMACPoolChange`. Two changes of each list fill the channel and leave a watcher
waiting.

Why two addresses and three writes are enough in `request`: the handler looks at
one lease and the watcher can be stuck on a second; the third shows that nothing
more happens afterwards.

In `table`, one address is configured and registered by requests, the other only
registered; two of each (controllers, allocations, addresses) let two actors meet at
an address while the other one stays uncontended, and the request's list has an
entry before and after the malformed one, which is what collecting errors and
ending at the first tell apart. What a third could add is left to the proof.

In `memory`, two calls and two watchers are enough for two sends to one channel,
for a send to a watcher that leaves, and for both races. A callback that waits for
room in `watchersig` while its handler is gone takes four calls. An instance with
one watcher and `MaxCalls = 4` was checked as well; it is not among the runs because
the two together are too large. Nobody watches the pool in this run, so calls for
`m1` have an empty range. Nor does anybody change an allocation that only one of the
browsers looks at: that `WatchAllocation` passes over other allocations (`Receive`)
was checked with two allocations and no address, 0.57 million states without an error,
which takes too long to be among the runs; `NothingIsMissed` is proved for every
`Watched`.

Fairness (`FairSpec`): the process's own steps are taken (weak for start-up,
strong for the handlers) and a renew callback's request is answered. Strong
fairness is for `client.Stop` alone. It waits for a callback in progress; in the
code it first tells the goroutine to end, so at most one callback delays it,
while in the model another one could begin each time. Nothing is assumed of
requests, leases, renewals, signals, expiries or failures. The three liveness
properties allow the controller to be stopped instead.

In `ObtainIP` both goroutines are weakly fair: Go runs what can run, and the
timer of `time.After` fires. Nothing is assumed of the controller. In `Index` the
indexer is weakly fair, and a client's renewal is strongly fair because the bound
on the queue may disable it in between; in the code nothing does. In `UIPush` all
goroutines are weakly fair, and receiving the signal is strongly fair: Go's
select chooses at random among what is ready. `InMemoryState` assumes less than
fairness of each goroutine: that some goroutine takes a step as long as one can.
Calls are bounded and every other step uses up what a call or a new watcher brought,
so all of them come to their end.

## 4. The proofs

For every value of the constants under the named assumptions
(`NullsAreNotValues`, `AbsentIsNotAClient`, `IPChangeIsBoolean`,
`ConfigurationAssumption`):

* `TypeCorrect`: `Spec => []TypeOK`. `TypeOK` is not inductive: that the pool
  receives only MACs depends on where the thread is when it writes. `TypeInv`
  adds, for each `pc`, which locals are set, and that with managed interfaces no
  record names the parent interface.
* `NoClientIsLost`, `TheMapIsExact`, `NoClientIsDoubled`: `Spec => []NoLostClient`,
  `[]MapIsExact`, `[]NoSecondClient`. They hold in every environment of the
  model, with crashes, faults and late leases, and rest on one inductive
  invariant, `ClientInv`. Its heart is that an allocation is *asked for* at most
  once: by one creation event of an unbound record (`RequestInv`), or by the
  snapshot of `converge` (`TodoInv`), or by the handler that has not started its
  client (`ThreadInv`), or by a callback that will store it as unbound
  (`RenewInv`); and that none of these exists while a client runs, but for the
  client that is being bound and has missed the wait. `FreshInv` says that an
  unused ID is nowhere, and `PhaseInv` that there are no clients before converge
  and no events outside the watch.

  The proof sorts the actions: those that touch neither clients nor requests
  satisfy `Harmless`, which preserves `ClientInv` once and for all; those that
  stop clients satisfy `Ending`, which leaves only the map to look at; the rest
  (start, bind, renew, write back, request) have a lemma each.

* `StoredRecordsAreComplete`, `BoundIsNotUnbound`, `ControllerImplementsAllocations`:
  `Spec` implies `[]StoredIsComplete`, `NeverUnbinds` and `ImplementsAllocations`, in
  every environment of the model. A record is written long after it was read, so
  `StoreInv` speaks of all that may still be written (the store, the snapshot, the
  events, the clients' structs and callbacks, the record in hand): each is complete
  (`CompleteInv`), all that name an interface for one allocation name the same one
  (`ClaimInv`), and none says unbound where something else is stored (`UnsetInv`).
  The proof sorts the actions again: those that only take copies away (`Shrinks`,
  `Calms`), those that put one record (`PutKeepsStore`), and a lemma for each of the
  rest. Every step is then a step of `Allocations` or a stutter.

* `BoundAllocationsAreServed`, `AddressesAreExclusive`, `DeletionStopsItsOwnClient`:
  under `FirstProcess` (no renewals and no late leases while the process lasts, and no
  second process), `Spec` implies `[]BoundIsServed`, `[]IPIsExclusive` and
  `StopsOwnClient`. `BoundIsServed` needs `FirstProcess`, see section 3; requests
  may fail, come early, and be removed at any moment. An allocation *owns* an address
  while its record names it, or the record about to be stored does, or its deletion in
  the queue (`Owns`). `OwnerInv` says that the owner is unique, has the address in
  `clients` until a stop begins, and owns it in one way only (`Apart`), so that a
  deletion ends its ownership. Most steps make nobody an owner (`Keeps`); a bind makes
  one of an address that nobody owned.

* `RemovedAllocationsAreStopped`: under `Undisturbed` (one process, no failing request,
  no request before the watch, renewals that keep the address), `Spec =>
  []RemovedIsStopped`, with late leases and renewals that store a removed allocation
  again. `ReleaseInv` says of each running client that is not being bound that its lease
  is the key of `clients` and what its struct says (`Findable`), and that something names
  the lease by which it will be stopped: its record, the record about to be stored, the
  callback's, or a deletion in the queue (`Backed`). Steps that keep this for an
  allocation `Retain` it; the deletion that takes the last support away stops the client.
  Each assumption is needed: with a failing request a `Put` may be lost after the bind,
  before the watch a removal, with a changed address the client is not found, and a
  second process has no clients.

* `HardwareAddressesAreExclusive`: under `NoRivals` (no renewals, no API clients that
  register or remove MACs), `Spec => []MACIsExclusive`, for any number of restarts, with
  crashes, failing requests, late leases and early requests. `HardInv` follows a MAC
  through the hands it passes: an allocation *uses* it (record, snapshot, or the thread
  on the way to a record), a deletion in the queue will *give* it back, or the thread
  *recovers* it. It is involved with one allocation at most (`InvolvedInv`), is used
  only out of the pool and of every hand that moves it (`UsedInv`), and is given back
  once, by something that no longer uses it (`GivenInv`). `CheckInv` is why `PutMAC`
  may check and write in two requests: what its check cannot see, an address on the
  way to a record, is not the one in hand. `AloneInv` confines callbacks to the bind.

* `AddressesStayExclusive`: under `NoRivals` and with managed interfaces, `Spec =>
  []IPIsExclusive`, across restarts. An allocation *bears* an address while its record
  has it, or while something could store it with it without a new lease: the record in
  hand, a late callback, or the snapshot that a stop walks (`Bears`). `BearerInv` says
  that an address has one bearer. Only a lease makes a bearer, and the DHCP server leases
  to one MAC at a time; by `HardInv` the MAC in hand is no other allocation's, so that
  nobody else bears the address (`LeasedIsFree`). The snapshot of `converge` is no bearer:
  what is stopped there is leased anew.

* `AddressesAreLostInHandOnly`: with managed interfaces, `Spec => MACIsLostOnlyInHand`,
  in every environment: any number of processes, crashes, failing requests, renewals,
  late leases, early requests, API clients that register other addresses. The proof
  looks at where a configured MAC can be recovered from (`Recoverable`: pool, hand,
  record, deletion in the queue). Most steps *spare* all these places (`Spared`), a
  removal turns a record into a deletion (`RemoveTells`), and a step that changes the
  hand has *settled* it elsewhere (`Settles`). What is left are the two exceptions of
  the property. `HandInv` supplies what the thread's place says of its hand, and that
  the watch is on, so that a deletion is told.

* `AnswerIsNotMissed` (module `ObtainIP`, under `RequestAssumption`):
  `Spec => []NoMissedAnswer`. `NoMissedAnswer` is not inductive: a lease that the
  controller stores over a record that is gone is a creation, which the watcher
  ignores. `OfferInv` therefore asks for an offer already when the record is
  absent while the controller still works on it and the handler waits; this
  holds since before the first lease only the controller itself removes the
  record, and then it is idle. The offers are existential over two sequences;
  lemmas say what `Append`, `Tail` and `SubSeq` do to them.

* `EntriesAreCurrent` (module `Index`, under `IndexAssumption`):
  `Spec => []NoStaleEntry`. The invariant says of each entry, and of each event
  in the queue that will write one, that it is true of the records now or that a
  deletion later in the queue undoes it (`EntryInv`, `PutInv`). A removal
  establishes the second part as it ends the first; a write keeps it because an
  allocation's address does not change (`LeaseInv`).

* `NothingIsMissed` (module `UIPush`, under `PushAssumption`):
  `Spec => []NoChangeIsMissed`. The invariant follows a list through a push: once
  it has been read, what was read is current, or a change is announced by an
  event or by a trigger in the channel (`ReadInv`, and `ShownInv` after the push);
  this needs that every list the handler looks at is watched by then (`PlaceInv`). It
  holds on both pages; once a request has failed it claims nothing.

* `RoundTrip`, `TypeCorrect`, `UncontendedAddressesAreExclusive` (module `MACTable`,
  under `TableAssumption`, `AbsentIsNotStored` and `NoMACIsNotParsable`): what is
  encoded is read back, if its address is empty or one that `ParseMAC` accepts;
  hence all stored records can be decoded. `UncontendedIsExclusive` is made
  inductive by `FreeInv`, which says of each uncontended address where it can be: an
  address of a record is in no pool and no hand, and with no client but that
  allocation's; a client's address is in no pool, and neither is one for which a
  device is being made; and no two actors have it (`Overlap`). Then the check of
  `PutMAC` is still true at its write: for a record to get the address meanwhile,
  another process must have had it in hand or as its client's.

* `TableImplementsAddresses` (module `MACTable`): `Spec => ImplementsAddresses`. By
  `FreeInv` an uncontended address has one owner at most and none while it is free
  (`OwnedOnce`), so that a step that gives it to nobody (`Sheds`) keeps it or loses it
  altogether. Only the delete of `PopMAC` and the write of `PutMAC` do more, and each
  finds the address without an owner.

* `NothingIsMissed` (module `InMemoryState`, under `MemoryAssumption`):
  `Spec => []NoChangeIsMissed`. `CallInv` says of a thread what its place implies
  for its locals; `LoopInv` that a push loop that runs is registered, so that a
  write's range visits it, and its goroutine receives. The argument follows the news
  from the call to the channel, to the callback and to the trigger: each step that
  takes it from one place puts it in the next.

`TypeCorrect` (`Spec => []TypeOK`) is proved in `ObtainIP`, `Index`, `UIPush` and
`InMemoryState` as well, each from the invariant of its other theorem. `TypeInv`,
`ClientInv`, `StoreInv`, `OwnerInv`, `ReleaseInv`, `HardInv`, `BearerInv` and `HandInv`
were checked by TLC before they were proved.

Every invariant and every action property that a passing run checks is thus stated by a
theorem whose assumptions the constants of that run satisfy. Only model-checked are
the liveness properties, which are out of the prover's reach: `RequestIsDecided`,
`RemovedIsReleased`, `MACComesBack`, `AnsweredEnds`, `FoundAgain`, `IsShown`,
`HandlerReturns` and `CallEnds`.

## 5. Not modelled, and what could come next

Left out for good: the frontend and `returnStatus` (views without decisions),
configuration files and manifests (constants of the model), and
`associateLeasewithDevice` (kernel configuration that nothing reads back). Left out
because the code is only exposed to it in an instant: a stop between
`go c.watch()` and the assignment of `watchStopFunc` (`controller.go:44`), and
the concurrent appends to `stopChan` of watchers, which is not read.

What could come next: two controllers with `converge` and the graceful stop, which
`MACTable` leaves out; `MACIsExclusive` with renewals that keep the address, which holds
on small instances but not by the argument of `HardInv`, since an allocation that was
removed twice gives its address back twice; and a composition of `Controller` and
`ObtainIP` in place of the environment that `ObtainIP` assumes.
