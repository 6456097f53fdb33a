----------------------------- MODULE Controller -----------------------------
(***************************************************************************)
(* The controller process (cmd/controller) with its DHCP clients, and the  *)
(* environment it lives in: API and UI clients that create and remove      *)
(* allocations and register hardware addresses, leases that run out,       *)
(* requests to etcd that fail, crashes and restarts.                       *)
(*                                                                         *)
(* One thread handles allocations: main during converge and Stop, the      *)
(* watch goroutine in between.  pc is where that thread is inside a        *)
(* handler; a step ends at the next etcd request, kernel call or wait,     *)
(* since the API, etcd and the DHCP clients can act there.                 *)
(***************************************************************************)
EXTENDS DHCPController, Naturals

CONSTANTS
  ConfigMAC,         \* Configuration.Macs
  ManageInterfaces,  \* Configuration.ManageInterfaces
  DynamicInterfaces, \* Configuration.DynamicInterfaces
  AdminMAC,          \* addresses that API and UI clients register and remove
  Renewals,          \* TRUE: leases are short enough to be renewed in a run
  LateLeases,        \* TRUE: a first lease may miss the wait of its handler
  EarlyRequests,     \* TRUE: API requests also arrive before the watch is on
  MaxBoots,          \* bound on the number of controller processes
  MaxFaults,         \* bound on the number of failing requests
  MaxEvents          \* the environment adds no event to a longer queue

ASSUME ConfigurationAssumption ==
  /\ ConfigMAC \subseteq MAC
  /\ AdminMAC \subseteq MAC
  /\ {ManageInterfaces, DynamicInterfaces, Renewals, LateLeases,
      EarlyRequests} \subseteq BOOLEAN
  /\ {MaxBoots, MaxFaults, MaxEvents} \subseteq Nat

VARIABLES
  phase,    \* what the process is doing
  pc,       \* where the allocation thread is; "ready" between two handlers
  cur,      \* the allocation in hand, or Absent
  rec,      \* its record: as decoded, after a bind as encoded for Put
  hand,     \* the hardware address in hand, or NoMAC
  todo,     \* rest of the Allocations() snapshot that converge or Stop walks
  unreg,    \* Configuration.Macs that main has still to register
  boots,    \* controller processes started so far
  faults,   \* requests to etcd and the kernel that failed so far
  issued,   \* IDs that NewAllocation has drawn
  adminMac  \* an address that passed the API server's check in PutMAC

thread == <<pc, cur, rec, hand>>
process == <<phase, todo, unreg, boots>>
api == <<issued, adminMac>>
vars == <<store, dhcp, thread, process, faults, api>>

PC == {"ready", "popmac.get", "popmac.delete", "device", "bind", "bindstop",
       "removemac", "put", "remove", "putmac.check", "putmac.write",
       "recover.check", "recover.write", "rmdevice", "stop.put"}

TypeOK ==
  /\ StoreTypeOK
  /\ DHCPTypeOK
  /\ phase \in {"down", "register", "converge", "watch", "stop"}
  /\ pc \in PC
  /\ cur \in Id \cup {Absent}
  /\ rec \in Allocation \cup {Absent}
  /\ hand \in MAC \cup {HostMAC, NoMAC}
  /\ todo \in [Id -> Allocation \cup {Absent}]
  /\ unreg \in SUBSET MAC
  /\ boots \in 0..MaxBoots
  /\ faults \in 0..MaxFaults
  /\ issued \in SUBSET Id
  /\ adminMac \in MAC \cup {NoMAC}

NoRecords == [id \in Id |-> Absent]

Init ==
  /\ StoreInit
  /\ DHCPInit
  /\ phase = "down" /\ todo = NoRecords /\ unreg = {} /\ boots = 0
  /\ pc = "ready" /\ cur = Absent /\ rec = Absent /\ hand = NoMAC
  /\ faults = 0
  /\ issued = {} /\ adminMac = NoMAC

-----------------------------------------------------------------------------
(* Moving the allocation thread. *)

Idle == pc = "ready"

\* The handler returns.
Return == pc' = "ready" /\ cur' = Absent /\ rec' = Absent /\ hand' = NoMAC

GoTo(next) == pc' = next /\ UNCHANGED <<cur, rec, hand>>

\* A request to etcd or to the kernel fails.
Fault == faults < MaxFaults /\ faults' = faults + 1

\* The allocation thread is inside BindAllocationToInterface for id.
Binding(id) == cur = id /\ pc \in {"bind", "bindstop"}

-----------------------------------------------------------------------------
(* Start of the process: main registers the configured addresses, converges *)
(* the stored allocations and only then starts the watch.                   *)

Boot ==
  /\ phase = "down"
  /\ boots < MaxBoots
  /\ phase' = "register"
  /\ boots' = boots + 1
  /\ unreg' = ConfigMAC
  /\ UNCHANGED <<store, dhcp, thread, todo, faults, api>>

RegisterMAC(m) ==
  /\ phase = "register" /\ Idle
  /\ m \in unreg
  /\ unreg' = unreg \ {m}
  /\ pc' = "putmac.check" /\ hand' = m
  /\ UNCHANGED <<store, dhcp, cur, rec, phase, todo, boots, faults, api>>

\* converge reads all allocations once.
Converge ==
  /\ phase = "register" /\ Idle
  /\ unreg = {}
  /\ phase' = "converge"
  /\ todo' = alloc
  /\ UNCHANGED <<store, dhcp, thread, unreg, boots, faults, api>>

\* The watch delivers what changes from now on.
StartWatch ==
  /\ phase = "converge" /\ Idle
  /\ todo = NoRecords
  /\ phase' = "watch"
  /\ watching' = TRUE
  /\ UNCHANGED <<alloc, pool, events, dhcp, thread, todo, unreg, boots,
                 faults, api>>

-----------------------------------------------------------------------------
(* processUnboundAllocation and processStoppedAllocation. *)

BeginUnbound(id, a) ==
  /\ pc' = IF ManageInterfaces THEN "popmac.get" ELSE "device"
  /\ cur' = id /\ rec' = a /\ hand' = NoMAC

BeginStopped(id, a) ==
  /\ pc' = "device"
  /\ cur' = id /\ rec' = a
  /\ hand' = IF ManageInterfaces THEN a.mac ELSE NoMAC

\* PopMAC: take some address out of the pool, by a read and then a delete.
PopMACGet ==
  /\ pc = "popmac.get"
  /\ \E m \in pool : hand' = m
  /\ pc' = "popmac.delete"
  /\ UNCHANGED <<store, dhcp, cur, rec, process, faults, api>>

\* Mutant: the address stays in the pool.
PopMACKeepsKey == pc = "popmac.delete" /\ GoTo("device")
                  /\ UNCHANGED <<store, dhcp, process, faults, api>>

PopMACDelete ==
  /\ pc = "popmac.delete"
  /\ SetPool(pool \ {hand})
  /\ GoTo("device")
  /\ UNCHANGED <<dhcp, process, faults, api>>

\* PopMAC returns an error: go on with a random address or give up.
WithoutMAC ==
  IF DynamicInterfaces
  THEN pc' = "device" /\ hand' = NoMAC /\ UNCHANGED <<cur, rec>>
  ELSE Return

PopMACEmpty ==
  /\ pc = "popmac.get"
  /\ pool = {}
  /\ WithoutMAC
  /\ UNCHANGED <<store, dhcp, process, faults, api>>

\* The kernel draws an address for a device created without one.  It is nobody's:
\* that 48 random bits hit an address in use is left out.
Random(m) ==
  /\ m \in MAC \ (pool \cup ConfigMAC \cup AdminMAC)
  /\ ~MACInUse(m)
  /\ \A id \in Id :
       /\ <<id, m>> \notin devices
       /\ Running(id) => client[id].mac # m
       /\ todo[id] # Absent => todo[id].mac # m
  /\ \A i \in DOMAIN events : events[i].val.mac # m

\* The interface is there: CreateDevice succeeds, or Interface() does when
\* interfaces are not managed.  BindAllocationToInterface starts the client.
DeviceReady(m) ==
  /\ pc = "device"
  /\ \/ /\ ManageInterfaces
        /\ IF hand = NoMAC THEN Random(m) ELSE m = hand
        /\ <<cur, m>> \notin devices
        /\ devices' = devices \cup {<<cur, m>>}
     \/ /\ ~ManageInterfaces
        /\ m = HostMAC
        /\ UNCHANGED devices
  /\ StartClient(cur, rec, m)
  /\ pc' = "bind" /\ hand' = m
  /\ UNCHANGED <<store, clients, cur, rec, process, faults, api>>

\* BindAllocationToInterface returned an error: an unbound allocation is removed,
\* a stopped one stays.  (Mutant: an unbound one stays, too.)
BindFailsSilently == Return

BindFails == IF rec.state = "Unbound" THEN GoTo("remove") ELSE Return

\* BindAllocationToInterface stops the client that it started and returns an error.
\* (Mutant: it only returns the error.)
GiveUpWithoutStop == UNCHANGED client /\ BindFails

GiveUp == StopClient(cur) /\ BindFails

\* Another client is registered under ip.  (Mutant: nobody looks.)
NeverManaged(ip) == FALSE

AlreadyManaged(ip) == clients[ip] # Absent

\* (Mutant: the client is not entered in the map.)
RegisterNobody(ip) == UNCHANGED clients

Register(ip) == clients' = [clients EXCEPT ![ip] = cur]

\* Lease, interface and state are set in the allocation.  (Mutant: no interface.)
WithoutInterface(ip) == [state |-> "Bound", ip |-> ip, mac |-> rec.mac]

WithLease(ip) == [state |-> "Bound", ip |-> ip, mac |-> hand]

\* The handler and the renew callback share the allocation that changes.  (Mutant: the
\* callback has a copy from before.)
BecomeInHandler(a) ==
  /\ rec' = a
  /\ client' = [client EXCEPT ![cur].ip = a.ip]

Become(a) ==
  /\ rec' = a
  /\ client' = [client EXCEPT ![cur] =
                  [al |-> a, ip |-> a.ip, mac |-> hand, cb |-> Absent]]

\* The client delivers a lease through boundCh.  The first allocation that gets
\* an address manages it; a second one is turned away.
Bound(ip) ==
  /\ pc = "bind"
  /\ client[cur].cb = Absent /\ client[cur].ip = NoIP
  /\ Leasable(cur, ip)
  /\ \/ AlreadyManaged(ip) /\ GiveUp /\ UNCHANGED clients
     \/ /\ ~AlreadyManaged(ip)
        /\ Register(ip)
        /\ Become(WithLease(ip))
        /\ pc' = IF rec.state = "Stopped" THEN "removemac" ELSE "put"
        /\ UNCHANGED <<cur, hand>>
  /\ UNCHANGED <<store, devices, process, faults, api>>

\* client-timeout runs out; nobody receives from boundCh any more.
BindTimeout ==
  /\ pc = "bind"
  /\ GoTo("bindstop")
  /\ UNCHANGED <<store, dhcp, process, faults, api>>

BindStop ==
  /\ pc = "bindstop"
  /\ GiveUp
  /\ UNCHANGED <<store, clients, devices, process, faults, api>>

\* The record is encoded when Put begins, with a renewal that came in between.
EncodeAndPut == pc' = "put" /\ rec' = client[cur].al /\ UNCHANGED <<cur, hand>>

\* A resurrected allocation makes sure that its address is not in the pool.
RemoveMAC ==
  /\ pc = "removemac"
  /\ SetPool(pool \ {hand})
  /\ EncodeAndPut
  /\ UNCHANGED <<dhcp, process, faults, api>>

PutBound ==
  /\ pc = "put"
  /\ PutAllocation(cur, rec)
  /\ Return
  /\ UNCHANGED <<dhcp, process, faults, api>>

RemoveUnbound ==
  /\ pc = "remove"
  /\ RemoveAllocation(cur)
  /\ Return
  /\ UNCHANGED <<dhcp, process, faults, api>>

-----------------------------------------------------------------------------
(* PutMAC reads the allocations and then writes the pool.  It is called to   *)
(* register or give back an address ("putmac") and by deleteAllocation       *)
(* ("recover"), which removes the device afterwards.                         *)

PutMACSites ==
  {[check |-> "putmac.check",  write |-> "putmac.write",  done |-> "ready"],
   [check |-> "recover.check", write |-> "recover.write", done |-> "rmdevice"]}

PutMACReturns(next) == IF next = "ready" THEN Return ELSE GoTo(next)

\* Mutant: whether an allocation has the address is not checked.
PutMACUnchecked ==
  /\ \E s \in PutMACSites : pc = s.check /\ GoTo(s.write)
  /\ UNCHANGED <<store, dhcp, process, faults, api>>

PutMACCheck ==
  /\ \E s \in PutMACSites :
       /\ pc = s.check
       /\ IF MACInUse(hand) THEN PutMACReturns(s.done) ELSE GoTo(s.write)
  /\ UNCHANGED <<store, dhcp, process, faults, api>>

PutMACWrite ==
  /\ \E s \in PutMACSites :
       /\ pc = s.write
       /\ PutMACReturns(s.done)
  /\ SetPool(pool \cup {hand})
  /\ UNCHANGED <<dhcp, process, faults, api>>

RemoveDevice ==
  /\ pc = "rmdevice"
  /\ devices' = devices \ {<<cur, hand>>}
  /\ Return
  /\ UNCHANGED <<store, clients, client, process, faults, api>>

\* Mutants: an allocation without an interface is not told apart; the address is not
\* given back.
RecoverAlways(id, a) ==
  pc' = "recover.check" /\ cur' = id /\ rec' = a /\ hand' = a.mac

RecoverDevice(id, a) ==
  IF ManageInterfaces /\ a.mac # NoMAC
  THEN pc' = "rmdevice" /\ cur' = id /\ rec' = a /\ hand' = a.mac
  ELSE Return

\* The record's hardware address goes back to the pool, and its device is removed.
Recover(id, a) ==
  IF ManageInterfaces /\ a.mac # NoMAC
  THEN pc' = "recover.check" /\ cur' = id /\ rec' = a /\ hand' = a.mac
  ELSE Return

\* Mutant: the client is not stopped.
deleteWithoutStop(id, a) == UNCHANGED <<clients, client>> /\ Recover(id, a)

\* The client registered under the record's address is stopped, whoever started it.
deleteAllocation(id, a) == Stop(a.ip) /\ Recover(id, a)

-----------------------------------------------------------------------------
(* What hands the thread an allocation: the snapshot in converge, ...        *)

ConvergeOn(id, states) ==
  /\ phase = "converge" /\ Idle
  /\ todo[id] # Absent
  /\ todo[id].state \in states
  /\ todo' = [todo EXCEPT ![id] = Absent]
  /\ UNCHANGED <<phase, unreg, boots, faults, api>>

ConvergeUnbound(id) ==
  /\ ConvergeOn(id, {"Unbound"})
  /\ BeginUnbound(id, todo[id])
  /\ UNCHANGED <<store, dhcp>>

ConvergeStopped(id) ==
  /\ ConvergeOn(id, {"Stopped"})
  /\ BeginStopped(id, todo[id])
  /\ UNCHANGED <<store, dhcp>>

\* A stale allocation, or a stopped one whose lease has expired.
ConvergeDelete(id) ==
  /\ ConvergeOn(id, {"Stale", "Stopped"})
  /\ deleteAllocation(id, todo[id])
  /\ UNCHANGED <<store, devices>>

\* Nothing is done for an allocation that is stored as bound.
ConvergeBound(id) ==
  /\ ConvergeOn(id, {"Bound"})
  /\ UNCHANGED <<store, dhcp, thread>>

(* ... and the oldest event of the watch.                                    *)

NextEvent(kind) ==
  /\ phase = "watch" /\ Idle
  /\ events # << >>
  /\ Head(events).kind = kind
  /\ events' = Tail(events)
  /\ UNCHANGED <<alloc, pool, watching, process, faults, api>>

OnCreate ==
  /\ NextEvent("create")
  /\ IF Head(events).val.state = "Unbound"
     THEN BeginUnbound(Head(events).id, Head(events).val)
     ELSE UNCHANGED thread
  /\ UNCHANGED dhcp

OnDelete ==
  /\ NextEvent("delete")
  /\ deleteAllocation(Head(events).id, Head(events).val)
  /\ UNCHANGED devices

-----------------------------------------------------------------------------
(* End of the process: SIGTERM stops it gracefully, a crash or a signal      *)
(* before main listens for signals does not.                                 *)

\* The watch ends between two handlers; Stop reads the allocations.
BeginStop ==
  /\ phase = "watch" /\ Idle
  /\ phase' = "stop"
  /\ watching' = FALSE /\ events' = << >>
  /\ todo' = [id \in Id |-> IF alloc[id] # Absent /\ alloc[id].state = "Bound"
                            THEN alloc[id] ELSE Absent]
  /\ UNCHANGED <<alloc, pool, dhcp, thread, unreg, boots, faults, api>>

\* Whether the device could be removed makes no difference to what follows.
StopAllocation(id) ==
  /\ phase = "stop" /\ Idle
  /\ todo[id] # Absent
  /\ Stop(todo[id].ip)
  /\ \/ ManageInterfaces /\ devices' = devices \ {<<id, todo[id].mac>>} /\ UNCHANGED faults
     \/ ManageInterfaces /\ UNCHANGED devices /\ Fault
     \/ ~ManageInterfaces /\ UNCHANGED <<devices, faults>>
  /\ pc' = "stop.put" /\ cur' = id
  /\ rec' = [todo[id] EXCEPT !.state = "Stopped"]
  /\ todo' = [todo EXCEPT ![id] = Absent]
  /\ UNCHANGED <<store, hand, phase, unreg, boots, api>>

PutStopped ==
  /\ pc = "stop.put"
  /\ PutAllocation(cur, rec)
  /\ Return
  /\ UNCHANGED <<dhcp, process, faults, api>>

\* The memory of the process is gone; the store and the devices are not.
Halt ==
  /\ phase' = "down" /\ todo' = NoRecords /\ unreg' = {}
  /\ Return
  /\ watching' = FALSE /\ events' = << >>
  /\ clients' = [ip \in IP |-> Absent]
  /\ client' = [id \in Id |-> Absent]
  /\ UNCHANGED <<alloc, pool, devices, boots, faults, api>>

Exit ==
  /\ phase = "stop" /\ Idle
  /\ todo = NoRecords
  /\ Halt

Crash ==
  /\ phase # "down"
  /\ boots < MaxBoots
  /\ Halt

-----------------------------------------------------------------------------
(* Failures.  The code logs the error or ignores it and goes on; where it    *)
(* ignores the result, a lost response is the step that succeeds.            *)

\* The delete of PopMAC may have been done although its answer is lost.
PopMACFails ==
  /\ Fault
  /\ pc \in {"popmac.get", "popmac.delete"}
  /\ \E macs \in {pool, pool \ {hand}} : SetPool(macs)
  /\ WithoutMAC
  /\ UNCHANGED <<dhcp, process, api>>

\* The interface is not there.  An address that is not the record's own goes
\* back to the pool.  The kernel may refuse an address that is in use.
DeviceFails ==
  /\ pc = "device"
  /\ IF \E id \in Id : <<id, hand>> \in devices THEN UNCHANGED faults ELSE Fault
  /\ IF hand # rec.mac /\ hand # NoMAC THEN GoTo("putmac.check") ELSE Return
  /\ UNCHANGED <<store, dhcp, process, api>>

RequestFails ==
  /\ Fault
  /\ \/ pc = "removemac" /\ EncodeAndPut
     \/ pc \in {"recover.check", "recover.write"} /\ GoTo("rmdevice")
     \/ pc \in {"put", "remove", "putmac.check", "putmac.write", "rmdevice", "stop.put"}
        /\ Return
  /\ UNCHANGED <<store, dhcp, process, api>>

RenewFails(id) ==
  /\ Fault
  /\ RenewPutFails(id)
  /\ UNCHANGED <<store, thread, process, api>>

-----------------------------------------------------------------------------
(* The clients' goroutines, and what other processes do to the store.        *)

\* While BindAllocationToInterface waits, OnBound can only be the first lease: no
\* lease is renewed within client-timeout.
Renew(id, ip) ==
  /\ IF Binding(id) THEN LateLeases /\ client[id].ip = NoIP ELSE Renewals
  /\ OnRenew(id, ip)
  /\ UNCHANGED <<store, thread, process, faults, api>>

WriteRenewal(id) ==
  /\ RenewPut(id)
  /\ UNCHANGED <<pool, watching, thread, process, faults, api>>

\* Bounds the queue: the environment waits while it is long.
Room == Len(events) < MaxEvents

Requests == (EarlyRequests \/ watching) /\ Room

\* obtainIP and addAllocation put a new allocation.
ObtainIP(id) ==
  /\ Requests
  /\ id \notin issued
  /\ issued' = issued \cup {id}
  /\ PutAllocation(id, NewAllocation)
  /\ UNCHANGED <<dhcp, thread, process, faults, adminMac>>

\* returnIP removes an allocation, and so does obtainIP when it times out.
ReturnIP(id) ==
  /\ Requests
  /\ alloc[id] # Absent
  /\ RemoveAllocation(id)
  /\ UNCHANGED <<dhcp, thread, process, faults, api>>

\* etcd deletes a record whose lease has run out.
Expire(id) ==
  /\ Room
  /\ alloc[id] # Absent /\ alloc[id].ip # NoIP
  /\ RemoveAllocation(id)
  /\ UNCHANGED <<dhcp, thread, process, faults, api>>

\* registerMACs and addMAC call PutMAC, in another process.
AdminCheck(m) ==
  /\ m \in AdminMAC
  /\ adminMac = NoMAC
  /\ ~MACInUse(m)
  /\ adminMac' = m
  /\ UNCHANGED <<store, dhcp, thread, process, faults, issued>>

AdminWrite ==
  /\ adminMac # NoMAC
  /\ SetPool(pool \cup {adminMac})
  /\ adminMac' = NoMAC
  /\ UNCHANGED <<dhcp, thread, process, faults, issued>>

\* removeMACs.
AdminRemove(m) ==
  /\ m \in AdminMAC \cap pool
  /\ SetPool(pool \ {m})
  /\ UNCHANGED <<dhcp, thread, process, faults, api>>

-----------------------------------------------------------------------------

Startup ==
  \/ Boot \/ Converge \/ StartWatch
  \/ \E m \in MAC : RegisterMAC(m)
  \/ \E id \in Id : \/ ConvergeUnbound(id) \/ ConvergeStopped(id)
                    \/ ConvergeDelete(id) \/ ConvergeBound(id)

Handler ==
  \/ OnCreate \/ OnDelete
  \/ PopMACGet \/ PopMACDelete \/ PopMACEmpty
  \/ \E m \in MAC \cup {HostMAC} : DeviceReady(m)
  \/ \E ip \in IP : Bound(ip)
  \/ BindTimeout \/ BindStop
  \/ RemoveMAC \/ PutBound \/ RemoveUnbound
  \/ PutMACCheck \/ PutMACWrite \/ RemoveDevice

Shutdown ==
  \/ BeginStop \/ PutStopped \/ Exit
  \/ \E id \in Id : StopAllocation(id)

Clients == \E id \in Id : WriteRenewal(id) \/ \E ip \in IP : Renew(id, ip)

Failures ==
  \/ Crash \/ PopMACFails \/ DeviceFails \/ RequestFails
  \/ \E id \in Id : RenewFails(id)

Environment ==
  \/ \E id \in Id : ObtainIP(id) \/ ReturnIP(id) \/ Expire(id)
  \/ \E m \in MAC : AdminCheck(m) \/ AdminRemove(m)
  \/ AdminWrite

Next == Startup \/ Handler \/ Shutdown \/ Clients \/ Failures \/ Environment

Spec == Init /\ [][Next]_vars

\* The process and etcd keep going: no step of the allocation thread waits for ever
\* and an etcd request is answered.  The fairness of Handler is strong because the
\* stop of a client that keeps renewing is enabled again and again only between two
\* callbacks, while client.Stop lets no new one begin.  Nothing is assumed of the
\* environment: requests, leases, signals and failures may come or not.
Fairness ==
  /\ WF_vars(Startup) /\ SF_vars(Handler)
  /\ \A id \in Id : WF_vars(WriteRenewal(id))

FairSpec == Spec /\ Fairness

-----------------------------------------------------------------------------
(* Properties that hold whatever the environment does.                       *)

\* No DHCP client is lost: every running client can be found in the map, or is
\* the one BindAllocationToInterface is waiting for (dhcp.go:53-71).
NoLostClient == \A id \in Id : Running(id) => Registered(id) \/ Binding(id)

\* The map holds running clients only, each under one address (dhcp.go:64, 83).
MapIsExact ==
  \A ip \in IP : clients[ip] # Absent =>
    /\ Running(clients[ip])
    /\ ~Binding(clients[ip])
    /\ \A other \in IP : clients[other] = clients[ip] => other = ip

\* A client is never started for an allocation that has one (controller.go:141,
\* 204): otherwise the renew callbacks of two clients share one struct.
NoSecondClient == pc = "device" => ~Running(cur)

\* What other processes read is complete: a bound or stopped allocation has a
\* lease and an interface, an unbound one has no interface, none is stale.
StoredIsComplete ==
  \A id \in Id : alloc[id] # Absent =>
    /\ alloc[id].state \in {"Unbound", "Bound", "Stopped"}
    /\ alloc[id].state = "Unbound" <=> alloc[id].mac = NoMAC
    /\ alloc[id].state # "Unbound" => alloc[id].ip # NoIP

\* A late callback never overwrites the record of a bound allocation by the
\* unbound one it started with (dhcp.go:42-51, controller.go:93-98, 149).
NeverUnbinds ==
  [][\A id \in Id :
       alloc[id] # Absent /\ alloc[id].state # "Unbound" /\ alloc'[id] # Absent
         => alloc'[id].state # "Unbound"]_vars

\* What the store says of each allocation follows the abstract life of one: bound or
\* stopped with lease and interface, on one interface for as long as it is stored,
\* never unbound again, across stops, crashes, late leases and callbacks (model.go:22-34).
Store == INSTANCE Allocations
           WITH record <- alloc, asked <- issued, HardwareAddr <- MAC \cup {HostMAC}

ImplementsAllocations == Store!Spec

-----------------------------------------------------------------------------
(* Properties of a controller that keeps running, in the environments that   *)
(* the runs name.                                                            *)

Steady == phase = "watch" /\ Idle

PendingDelete(id) ==
  \E i \in DOMAIN events : events[i].kind = "delete" /\ events[i].id = id

HoldsMAC(id, m) == alloc[id] # Absent /\ alloc[id].mac = m

Stored(id, state) == alloc[id] # Absent /\ alloc[id].state = state

\* The hardware address of a stored allocation is not in the pool and is given to
\* no second allocation (PutMAC, PopMAC: model.go:535-554, 574-588).
MACIsExclusive ==
  \A m \in MAC, id \in Id : HoldsMAC(id, m) =>
    /\ m \notin pool
    /\ \A other \in Id \ {id} : ~HoldsMAC(other, m)

\* Two stored allocations never have the same address (dhcp.go:57-60).
IPIsExclusive ==
  \A id, other \in Id :
    /\ alloc[id] # Absent /\ alloc[other] # Absent
    /\ alloc[id].ip = alloc[other].ip /\ alloc[id].ip # NoIP
    => id = other

\* A bound allocation has a client that renews its lease (Readme.md:6).
BoundIsServed ==
  Steady => \A id \in Id :
    Stored(id, "Bound") => Registered(id) \/ PendingDelete(id)

\* Once its delete event is handled, a removed allocation has no client, unless a
\* renewal is about to store it again (controller.go:245-247).
RemovedIsStopped ==
  Steady => \A id \in Id :
    alloc[id] = Absent /\ Running(id) => PendingDelete(id) \/ client[id].cb # Absent

\* Handling an event stops no client but that of the event's own allocation,
\* although deleteAllocation looks it up by address (controller.go:229).
StopsOwnClient ==
  [][phase = "watch" /\ phase' = "watch" =>
       \A id \in Id : Running(id) /\ ~Running(id)' =>
         \/ id = cur
         \/ events # << >> /\ Head(events).id = id]_vars

\* A configured address is in the pool, in hand, with an allocation, or named by a delete
\* event from which it will be recovered.  Once PutMAC has returned, the hand does not
\* count: only the device is still to be removed (controller.go:120-125, 232-236).
Recoverable(m) ==
  \/ m \in pool
  \/ m = hand /\ pc # "rmdevice"
  \/ \E id \in Id : HoldsMAC(id, m)
  \/ \E i \in DOMAIN events : events[i].kind = "delete" /\ events[i].val.mac = m

\* While the watch is on, a configured address that nobody removes by hand is lost in two
\* ways only, both from the controller's hand: the bind on its interface failed and the
\* allocation is removed, or the request that should move the address on fails
\* (controller.go:102-106, 141-149, 232-236).
MACIsLostOnlyInHand ==
  [][\A m \in ConfigMAC \ AdminMAC :
       phase' = "watch" /\ Recoverable(m) /\ ~Recoverable(m)' =>
         hand = m /\ (pc = "remove" \/ faults' # faults)]_vars

-----------------------------------------------------------------------------
(* What the controller, under FairSpec, eventually does.                     *)

Requested(id) ==
  \E i \in DOMAIN events : events[i].kind = "create" /\ events[i].id = id
                             /\ events[i].val.state = "Unbound"

\* The controller finds no hardware address for id, or its kernel has an interface with
\* that address: it leaves the request to its creator (controller.go:105-108, 113-126).
LeftToCreator(id) ==
  cur = id /\ \/ pc = "popmac.get" /\ pool = {} /\ ~DynamicInterfaces
              \/ pc = "device" /\ \E other \in Id : <<other, hand>> \in devices

\* A request that the watch reports is bound or removed, unless it is left to its creator,
\* some request has failed or the controller ends (controller.go:250-258).
RequestIsDecided ==
  \A id \in Id :
    phase = "watch" /\ Requested(id)
      ~> \/ ~Stored(id, "Unbound") \/ LeftToCreator(id)
         \/ faults > 0 \/ phase # "watch"

\* The client of a removed allocation is stopped, unless a renewal that was under
\* way stores the allocation again (controller.go:245-247).
RemovedIsReleased ==
  \A id \in Id :
    phase = "watch" /\ alloc[id] = Absent /\ Registered(id)
      ~> phase # "watch" \/ ~Running(id) \/ alloc[id] # Absent

\* The hardware address of a removed allocation comes back to the pool, or is in
\* use by another one (controller.go:232-236, model.go:524-555).
MACComesBack ==
  \A m \in ConfigMAC :
    (\E i \in DOMAIN events : events[i].kind = "delete" /\ events[i].val.mac = m)
      ~> phase # "watch" \/ m \in pool \/ MACInUse(m)
=============================================================================
