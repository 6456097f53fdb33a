------------------------------ MODULE MACTable ------------------------------
(***************************************************************************)
(* The MAC table with all the processes that use it at the same time: the  *)
(* controllers (two of them during a rolling update, each of which handles *)
(* every event), and the requests to the API server and the UI that        *)
(* register and remove addresses.  The table is the pool together with the *)
(* addresses in the stored records; PutMAC and PopMAC are two requests to  *)
(* etcd each, and any process may act in between.                          *)
(*                                                                         *)
(* What a controller does besides is reduced: the DHCP server leases one   *)
(* IP address to each hardware address, so that a lease is named by it,    *)
(* and converge and the graceful stop are left to module Controller.       *)
(***************************************************************************)
EXTENDS Codec, Sequences, Naturals

CONSTANTS
  Controller,   \* controller processes
  Request,      \* requests to /v1/mac and to the UI's /api/macs
  Id,           \* allocations
  MAC,          \* hardware addresses
  ConfigMAC,    \* Configuration.Macs, a list of entries
  Body,         \* the lists that requests carry
  Absent,
  MaxEvents     \* the environment adds no event to a longer queue

ASSUME TableAssumption ==
  /\ MAC \subseteq Parsable
  /\ ConfigMAC \in Seq(MAC \cup {Malformed})
  /\ Body \subseteq Seq(MAC \cup {Malformed})
  /\ Controller \cap Request = {}
  /\ MaxEvents \in Nat

Process == Controller \cup Request

Entry == MAC \cup {Malformed}

Allocation == [State: {"Unbound", "Bound"}, Interface: MAC \cup {NoMAC}]

\* What the keys under "allocations" may hold.
Object == {Encode(a) : a \in Allocation}

ASSUME AbsentIsNotStored == Absent \notin Object \cup Id

\* The watch of a controller.  Creations of bound allocations and modifications are left
\* out: OnCreate ignores the former, and OnModify is nil.
Event == [kind: {"create", "delete"}, id: Id, mac: MAC \cup {NoMAC}]

VARIABLES
  pool,      \* the keys under "macs"
  record,    \* the keys under "allocations": Id -> object or Absent
  events,    \* of each controller: the events not yet handled, oldest first
  watching,  \* the controllers whose watch is registered
  pc,        \* where each process is; "down", "ready", "done": between calls
  hand,      \* the hardware address in hand, or NoMAC
  cur,       \* the allocation in hand, or Absent
  todo,      \* rest of the list that the process registers or removes
  call,      \* what a request asks for
  omitted,   \* Rejected or Unprocessed, as answered
  client,    \* the DHCP clients: Controller -> Id -> hardware address or NoMAC
  issued,    \* IDs that have been requested
  contended  \* history: addresses that two actors have handled at the same time

table == <<pool, record, events>>
thread == <<pc, hand, cur>>
request == <<todo, call, omitted>>
vars == <<table, watching, thread, request, client, issued, contended>>

PC == {"down", "ready", "done", "popmac.delete", "device", "bind", "remove",
       "putmac.check", "putmac.write"}

TypeOK ==
  /\ pool \in SUBSET MAC
  /\ record \in [Id -> Object \cup {Absent}]
  /\ events \in [Controller -> Seq(Event)]
  /\ watching \in SUBSET Controller
  /\ pc \in [Process -> PC]
  /\ hand \in [Process -> MAC \cup {NoMAC}]
  /\ cur \in [Controller -> Id \cup {Absent}]
  /\ todo \in [Process -> Seq(Entry)]
  /\ call \in [Request -> {"none", "register", "add", "remove"}]
  /\ omitted \in [Request -> SUBSET Entry]
  /\ client \in [Controller -> [Id -> MAC \cup {NoMAC}]]
  /\ issued \in SUBSET Id
  /\ contended \in SUBSET MAC

NoClients == [id \in Id |-> NoMAC]

Init ==
  /\ pool = {} /\ record = [id \in Id |-> Absent]
  /\ events = [c \in Controller |-> << >>]
  /\ watching = {}
  /\ pc = [p \in Process |-> "down"]
  /\ hand = [p \in Process |-> NoMAC]
  /\ cur = [c \in Controller |-> Absent]
  /\ todo = [p \in Process |-> << >>]
  /\ call = [r \in Request |-> "none"] /\ omitted = [r \in Request |-> {}]
  /\ client = [c \in Controller |-> NoClients]
  /\ issued = {} /\ contended = {}

-----------------------------------------------------------------------------
(* The records, as every process reads them.                                *)

Stored(id) == record[id] # Absent

MACOf(id) == Decode(record[id]).Interface

HoldsMAC(id, m) == Stored(id) /\ MACOf(id) = m

MACInUse(m) == \E id \in Id : HoldsMAC(id, m)

\* Allocations gives up at the first record that it cannot decode.
AllocationsFails == \E id \in Id : Stored(id) /\ Undecodable(record[id])

Notify(kind, id, mac) ==
  events' = [c \in Controller |->
               IF c \in watching
               THEN Append(events[c], [kind |-> kind, id |-> id, mac |-> mac])
               ELSE events[c]]

PutAllocation(id, state, mac) ==
  /\ record' = [record EXCEPT ![id] = Encode([State |-> state, Interface |-> mac])]
  /\ IF state = "Unbound" /\ ~Stored(id) THEN Notify("create", id, mac)
                                         ELSE UNCHANGED events
  /\ UNCHANGED pool

RemoveAllocation(id) ==
  /\ record' = [record EXCEPT ![id] = Absent]
  /\ IF Stored(id) THEN Notify("delete", id, MACOf(id)) ELSE UNCHANGED events
  /\ UNCHANGED pool

SetPool(macs) == pool' = macs /\ UNCHANGED <<record, events>>

-----------------------------------------------------------------------------
(* Who is handling an address.                                              *)

\* The thread of p has an address that no record protects.
InHand(p, m) == hand[p] = m /\ pc[p] \in {"popmac.delete", "device", "putmac.write"}

IsClient(c, id, m) == client[c][id] = m

Overlap(m) ==
  \/ \E p \in Process :
       /\ InHand(p, m)
       /\ \/ \E q \in Process \ {p} : InHand(q, m)
          \/ \E c \in Controller, id \in Id : IsClient(c, id, m)
  \/ \E c \in Controller, id \in Id :
       /\ IsClient(c, id, m)
       /\ \E d \in Controller, other \in Id :
            <<d, other>> # <<c, id>> /\ IsClient(d, other, m)

-----------------------------------------------------------------------------
(* Moving a process.                                                         *)

GoTo(p, next) == pc' = [pc EXCEPT ![p] = next] /\ UNCHANGED <<hand, cur>>

With(p, next, m) ==
  pc' = [pc EXCEPT ![p] = next] /\ hand' = [hand EXCEPT ![p] = m] /\ UNCHANGED cur

Return(p) ==
  /\ pc' = [pc EXCEPT ![p] = "ready"]
  /\ hand' = [hand EXCEPT ![p] = NoMAC]
  /\ cur' = [c \in Controller |-> IF c = p THEN Absent ELSE cur[c]]

Idle(p) == pc[p] = "ready"

-----------------------------------------------------------------------------
(* A controller: main registers the configured addresses and starts the watch. *)

Start(c) ==
  /\ pc[c] = "down"
  /\ pc' = [pc EXCEPT ![c] = "ready"]
  /\ todo' = [todo EXCEPT ![c] = ConfigMAC]
  /\ UNCHANGED <<table, watching, hand, cur, call, omitted, client, issued>>

StartWatch(c) ==
  /\ Idle(c) /\ todo[c] = << >>
  /\ c \notin watching
  /\ watching' = watching \cup {c}
  /\ UNCHANGED <<table, thread, request, client, issued>>

\* What it knew is gone, and so are its clients.
Crash(c) ==
  /\ pc[c] # "down"
  /\ pc' = [pc EXCEPT ![c] = "done"]
  /\ hand' = [hand EXCEPT ![c] = NoMAC]
  /\ cur' = [cur EXCEPT ![c] = Absent]
  /\ todo' = [todo EXCEPT ![c] = << >>]
  /\ events' = [events EXCEPT ![c] = << >>]
  /\ watching' = watching \ {c}
  /\ client' = [client EXCEPT ![c] = NoClients]
  /\ UNCHANGED <<pool, record, call, omitted, issued>>

NextEvent(c, kind) ==
  /\ Idle(c)
  /\ events[c] # << >>
  /\ Head(events[c]).kind = kind
  /\ events' = [events EXCEPT ![c] = Tail(events[c])]
  /\ UNCHANGED <<pool, record, watching, request, issued>>

\* PopMAC reads a key of the pool; without one the request stays unbound.
OnCreate(c) ==
  /\ NextEvent(c, "create")
  /\ \/ pool = {} /\ UNCHANGED thread
     \/ \E m \in pool :
          /\ pc' = [pc EXCEPT ![c] = "popmac.delete"]
          /\ hand' = [hand EXCEPT ![c] = m]
          /\ cur' = [cur EXCEPT ![c] = Head(events[c]).id]
  /\ UNCHANGED client

\* Mutant: the key stays.
PopMACKeepsKey(c) ==
  /\ pc[c] = "popmac.delete"
  /\ GoTo(c, "device")
  /\ UNCHANGED <<table, watching, request, client, issued>>

\* PopMAC deletes the key, whether or not it is still there.
PopMACDelete(c) ==
  /\ pc[c] = "popmac.delete"
  /\ SetPool(pool \ {hand[c]})
  /\ GoTo(c, "device")
  /\ UNCHANGED <<watching, request, client, issued>>

\* The answer to the delete is lost.
PopMACFails(c) ==
  /\ pc[c] = "popmac.delete"
  /\ SetPool(pool \ {hand[c]})
  /\ Return(c)
  /\ UNCHANGED <<watching, request, client, issued>>

DeviceReady(c) ==
  /\ pc[c] = "device"
  /\ client' = [client EXCEPT ![c][cur[c]] = hand[c]]
  /\ GoTo(c, "bind")
  /\ UNCHANGED <<table, watching, request, issued>>

\* The address goes back.
DeviceFails(c) ==
  /\ pc[c] = "device"
  /\ GoTo(c, "putmac.check")
  /\ UNCHANGED <<table, watching, request, client, issued>>

BindFails(c) ==
  /\ pc[c] = "bind"
  /\ client' = [client EXCEPT ![c][cur[c]] = NoMAC]
  /\ GoTo(c, "remove")
  /\ UNCHANGED <<table, watching, request, issued>>

\* A lease arrived.
PutBound(c) ==
  /\ pc[c] = "bind"
  /\ PutAllocation(cur[c], "Bound", hand[c])
  /\ Return(c)
  /\ UNCHANGED <<watching, request, client, issued>>

RemoveUnbound(c) ==
  /\ pc[c] = "remove"
  /\ RemoveAllocation(cur[c])
  /\ Return(c)
  /\ UNCHANGED <<watching, request, client, issued>>

\* deleteAllocation stops the client of the record's lease, if it is this controller's,
\* and puts the address back.
OnDelete(c) ==
  /\ NextEvent(c, "delete")
  /\ LET m == Head(events[c]).mac
     IN IF m = NoMAC
        THEN UNCHANGED <<thread, client>>
        ELSE /\ client' = [client EXCEPT ![c] =
                             [id \in Id |-> IF IsClient(c, id, m) THEN NoMAC ELSE @[id]]]
             /\ With(c, "putmac.check", m)

\* The renew callback of a client writes the record of its allocation, which may be gone.
Renew(c, id) ==
  /\ client[c][id] # NoMAC
  /\ ~(cur[c] = id /\ pc[c] = "bind")
  /\ PutAllocation(id, "Bound", client[c][id])
  /\ UNCHANGED <<watching, thread, request, client, issued>>

-----------------------------------------------------------------------------
(* PutMAC, of a controller or a request.                                     *)

\* addMAC ends at the first error; registerMACs and main ignore it.
AfterError(p) ==
  todo' = IF p \in Request /\ call[p] = "add" THEN [todo EXCEPT ![p] = << >>] ELSE todo

\* Mutant: only the pool is looked at.
PutMACChecksPool(p) ==
  /\ pc[p] = "putmac.check"
  /\ GoTo(p, "putmac.write")
  /\ UNCHANGED <<table, watching, request, client, issued>>

PutMACCheck(p) ==
  /\ pc[p] = "putmac.check"
  /\ IF AllocationsFails \/ MACInUse(hand[p])
     THEN Return(p) /\ AfterError(p)
     ELSE GoTo(p, "putmac.write") /\ UNCHANGED todo
  /\ UNCHANGED <<table, watching, call, omitted, client, issued>>

PutMACWrite(p) ==
  /\ pc[p] = "putmac.write"
  /\ SetPool(pool \cup {hand[p]})
  /\ Return(p)
  /\ UNCHANGED <<watching, request, client, issued>>

\* The next entry of the list is e.
NextEntry(p, e) == Idle(p) /\ todo[p] # << >> /\ Head(todo[p]) = e

\* A controller or a request registers an address.
Register(p, m) ==
  /\ NextEntry(p, m)
  /\ p \in Request => call[p] \in {"register", "add"}
  /\ todo' = [todo EXCEPT ![p] = Tail(@)]
  /\ With(p, "putmac.check", m)
  /\ UNCHANGED <<table, watching, call, omitted, client, issued>>

-----------------------------------------------------------------------------
(* Requests of API and UI clients.                                           *)

Receive(r, kind, list) ==
  /\ pc[r] = "down"
  /\ pc' = [pc EXCEPT ![r] = "ready"]
  /\ call' = [call EXCEPT ![r] = kind]
  /\ todo' = [todo EXCEPT ![r] = list]
  /\ UNCHANGED <<table, watching, hand, cur, omitted, client, issued>>

\* An entry that is no address: main skips it, registerMACs and removeMACs list it in
\* their answer, and addMAC ends.
Reject(p) ==
  /\ NextEntry(p, Malformed)
  /\ todo' = [todo EXCEPT ![p] =
                IF p \in Request /\ call[p] = "add" THEN << >> ELSE Tail(@)]
  /\ omitted' = [r \in Request |-> IF r = p THEN omitted[r] \cup {Malformed} ELSE omitted[r]]
  /\ UNCHANGED <<table, watching, thread, call, client, issued>>

RemoveMAC(r, m) ==
  /\ NextEntry(r, m)
  /\ call[r] = "remove"
  /\ todo' = [todo EXCEPT ![r] = Tail(@)]
  /\ SetPool(pool \ {m})
  /\ UNCHANGED <<watching, thread, call, omitted, client, issued>>

Answer(r) ==
  /\ Idle(r) /\ todo[r] = << >>
  /\ pc' = [pc EXCEPT ![r] = "done"]
  /\ UNCHANGED <<table, watching, hand, cur, request, client, issued>>

-----------------------------------------------------------------------------
(* Requests for allocations, their return and their expiry.                  *)

Room == \A c \in Controller : Len(events[c]) < MaxEvents

ObtainIP(id) ==
  /\ Room /\ watching # {}
  /\ id \notin issued
  /\ issued' = issued \cup {id}
  /\ PutAllocation(id, "Unbound", NoMAC)
  /\ UNCHANGED <<watching, thread, request, client>>

Release(id) ==
  /\ Room
  /\ Stored(id)
  /\ RemoveAllocation(id)
  /\ UNCHANGED <<watching, thread, request, client, issued>>

-----------------------------------------------------------------------------

ControllerStep(c) ==
  \/ Start(c) \/ StartWatch(c) \/ Crash(c)
  \/ OnCreate(c) \/ PopMACDelete(c) \/ PopMACFails(c)
  \/ DeviceReady(c) \/ DeviceFails(c)
  \/ BindFails(c) \/ PutBound(c) \/ RemoveUnbound(c)
  \/ OnDelete(c)
  \/ \E id \in Id : Renew(c, id)

RequestStep(r) ==
  \/ \E kind \in {"register", "add", "remove"}, list \in Body : Receive(r, kind, list)
  \/ Answer(r)
  \/ \E m \in MAC : RemoveMAC(r, m)

Step ==
  \/ \E c \in Controller : ControllerStep(c)
  \/ \E r \in Request : RequestStep(r)
  \/ \E p \in Process : \/ PutMACCheck(p) \/ PutMACWrite(p) \/ Reject(p)
                        \/ \E m \in MAC : Register(p, m)
  \/ \E id \in Id : ObtainIP(id) \/ Release(id)

Next == Step /\ contended' = contended \cup {m \in MAC \ contended : Overlap(m)'}

Spec == Init /\ [][Next]_vars

-----------------------------------------------------------------------------

\* PutMAC and PopMAC check and act in separate requests and lock nothing.  That is
\* enough as long as no two actors handle one address at the same time: then the address
\* of a record or a client is not in the pool, and belongs to one allocation
\* (model.go:535-554, 574-588).
UncontendedIsExclusive ==
  \A m \in MAC \ contended, id \in Id :
    /\ HoldsMAC(id, m) => /\ m \notin pool
                          /\ \A other \in Id : HoldsMAC(other, m) => other = id
    /\ \A c \in Controller : IsClient(c, id, m) => m \notin pool

\* An address that PopMAC has read counts as free until PopMAC has deleted it.
Popping == {m \in MAC : \E c \in Controller : pc[c] = "popmac.delete" /\ hand[c] = m}

\* It is for id that the thread of c makes a device with m.
Equips(c, id, m) == pc[c] = "device" /\ hand[c] = m /\ cur[c] = id

\* The allocations that have m, or may store it: those of its clients, too, which renew
\* a record that is gone.
Owner(m) ==
  {id \in Id : HoldsMAC(id, m) \/ \E c \in Controller : IsClient(c, id, m) \/ Equips(c, id, m)}

\* Whatever controllers and requests do at the same time, PutMAC and PopMAC act as if
\* they were one request: an uncontended address gets from one allocation to another
\* through the pool only, and to none that has not popped it (model.go:524-588).
Table == INSTANCE Addresses
           WITH free <- pool \cup Popping, owner <- [m \in MAC |-> Owner(m)],
                shared <- contended

ImplementsAddresses == Table!Spec

\* What the Readme says of removeMACs: an address in use is not removed, and the answer
\* lists it (Readme.md:71-72).
OmittedAreReported ==
  [][\A r \in Request, m \in MAC :
       call[r] = "remove" /\ NextEntry(r, m) /\ todo'[r] # todo[r] /\ MACInUse(m)
         => m \in omitted'[r]]_vars
=============================================================================
